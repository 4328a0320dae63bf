----------------------------- MODULE UsersProofs -----------------------------
(* The users, for any number of people, names, urls and days.              *)
EXTENDS Users, ColdTokenProofs

-----------------------------------------------------------------------------
(* What signup and init do to the rows of the users table. *)
LEMMA RowsEffect ==
  ASSUME UsersTypeOK, NEW names \in SUBSET VAccounts, NEW sum \in Emails \cup {None},
         newRows(names, sum)
  PROVE  /\ users' = users \cup names /\ names \cap users = {}
         /\ checksum' \in [users' -> Emails \cup {None}]
         /\ created_account' \in [users' -> FreeNames \cup {None}]
         /\ \A v \in users : checksum'[v] = checksum[v]
                             /\ created_account'[v] = created_account[v]
         /\ \A v \in names : checksum'[v] = sum /\ created_account'[v] = None
BY DEF newRows, newUsers, UsersTypeOK

(* Every step of the users is a step of the token contract, or none of its *)
(* business.                                                               *)
LEMMA TokenStep == [UsersNext]_vars => [TokenNext]_tokenVars
<1>. SUFFICES ASSUME [UsersNext]_vars PROVE [TokenNext]_tokenVars
  OBVIOUS
<1>1. ASSUME NEW e \in Emails, NEW key \in KeysOf[e], signup(e, key) PROVE TokenNext
  <2>1. NameOf[e] \in VAccounts \ {Phoenix, Fees}
    BY UsersAssumption, TokenAssumption
  <2>2. newUsers({NameOf[e]})
    BY <1>1 DEF signup, newRows
  <2>. QED  BY <2>1, <2>2 DEF TokenNext
<1>2. ASSUME NEW e \in Emails, NEW key \in KeysOf[e], login(e, key) PROVE UNCHANGED tokenVars
  BY <1>2 DEF login
<1>3. CASE init
  BY <1>3 DEF init, newRows, TokenNext
<1>4. ASSUME NEW b \in BOOLEAN, pause(b) PROVE UNCHANGED tokenVars
  BY <1>4 DEF pause
<1>5. ASSUME NEW v \in VAccounts, NEW url \in Urls, updateuser(v, url) PROVE UNCHANGED tokenVars
  BY <1>5 DEF updateuser
<1>6. ASSUME NEW v \in VAccounts, NEW name \in FreeNames, createacc(v, name)
      PROVE  UNCHANGED tokenVars
  BY <1>6 DEF createacc
<1>7. ASSUME NEW name \in FreeNames, newaccount(name) PROVE UNCHANGED tokenVars
  BY <1>7 DEF newaccount
<1>8. CASE NextDay
  BY <1>8 DEF NextDay
<1>9. CASE UNCHANGED vars
  BY <1>9 DEF vars
<1>10. CASE token
  BY <1>10 DEF token
<1>. QED
  BY <1>1, <1>2, <1>3, <1>4, <1>5, <1>6, <1>7, <1>8, <1>9, <1>10 DEF UsersNext

-----------------------------------------------------------------------------
(* Types. *)

AllKeys == {NoKey} \cup UNION {KeysOf[e] : e \in Emails}

LEMMA UsersTypeInit == UsersInit => UsersTypeOK
<1>. SUFFICES ASSUME UsersInit PROVE UsersTypeOK
  OBVIOUS
<1>1. TokenTypeOK /\ users = {}
  BY TypeInit DEF UsersInit, TokenInit
<1>2. limits \in [day : 0..today, created : 0..MaxPerDay] /\ today \in Nat /\ signups \in Nat
  BY UsersAssumption DEF UsersInit
<1>. QED  BY <1>1, <1>2 DEF UsersInit, UsersTypeOK

LEMMA CreatedToday ==
  ASSUME UsersTypeOK
  PROVE  /\ created_today \in Nat
         /\ withinLimit => created_today \in 0..MaxPerDay
BY UsersAssumption DEF created_today, withinLimit, UsersTypeOK

(* A key that somebody registers is written next to the others. *)
LEMMA KeyWritten ==
  ASSUME UsersTypeOK, NEW v, NEW key \in AllKeys, NEW k, k = With(vkeys, v, key)
  PROVE  DOMAIN k = users \cup {v} /\ \A w \in DOMAIN k : k[w] \in AllKeys
<1>1. /\ DOMAIN k = DOMAIN vkeys \cup {v} /\ k[v] = key
      /\ \A w \in DOMAIN vkeys : w # v => k[w] = vkeys[w]
  BY DEF With
<1>. QED  BY <1>1 DEF UsersTypeOK, AllKeys

LEMMA UsersTypeStep == UsersTypeOK /\ [UsersNext]_vars => UsersTypeOK'
<1>. SUFFICES ASSUME UsersTypeOK, [UsersNext]_vars PROVE UsersTypeOK'
  OBVIOUS
<1>t. TokenTypeOK'
  BY TokenStep, TypeStep DEF UsersTypeOK
<1>1. ASSUME NEW e \in Emails, NEW key \in KeysOf[e], signup(e, key) PROVE UsersTypeOK'
  <2>. DEFINE v == NameOf[e]
  <2>1. /\ v \in VAccounts /\ withinLimit
        /\ newRows({v}, e) /\ vkeys' = With(vkeys, v, key)
        /\ limits' = [day |-> today, created |-> created_today]
        /\ UNCHANGED <<customurl, reverse, paused, today, taken, funded>>
        /\ signups' = signups + 1
    BY <1>1, UsersAssumption, TokenAssumption DEF signup, urlVars, freeVars
  <2>. HIDE DEF v
  <2>2. key \in AllKeys
    BY DEF AllKeys
  <2>3. DOMAIN vkeys' = users \cup {v} /\ \A w \in DOMAIN vkeys' : vkeys'[w] \in AllKeys
    BY <2>1, <2>2, KeyWritten
  <2>4. /\ users' = users \cup {v}
        /\ checksum' \in [users' -> Emails \cup {None}]
        /\ created_account' \in [users' -> FreeNames \cup {None}]
    BY <2>1, RowsEffect
  <2>5. limits' \in [day : 0..today', created : 0..MaxPerDay] /\ signups' \in Nat
    BY <2>1, CreatedToday DEF UsersTypeOK
  <2>. QED  BY <1>t, <2>1, <2>3, <2>4, <2>5 DEF UsersTypeOK, AllKeys
<1>2. ASSUME NEW e \in Emails, NEW key \in KeysOf[e], login(e, key) PROVE UsersTypeOK'
  BY <1>t, <1>2 DEF login, UsersTypeOK, tokenVars, userRows, urlVars, freeVars
<1>3. CASE init
  <2>1. /\ newRows({Phoenix, Fees}, None) /\ {Phoenix, Fees} \subseteq VAccounts
        /\ vkeys' = With(With(vkeys, Phoenix, NoKey), Fees, NoKey)
        /\ UNCHANGED <<customurl, reverse, limits, paused, today, taken, funded, signups>>
    BY <1>3, TokenAssumption DEF init, urlVars, freeVars
  <2>2. DOMAIN vkeys' = users \cup {Phoenix, Fees}
        /\ \A w \in DOMAIN vkeys' : vkeys'[w] \in AllKeys
    BY <2>1 DEF With, UsersTypeOK, AllKeys
  <2>3. /\ users' = users \cup {Phoenix, Fees}
        /\ checksum' \in [users' -> Emails \cup {None}]
        /\ created_account' \in [users' -> FreeNames \cup {None}]
    BY <2>1, RowsEffect
  <2>. QED  BY <1>t, <2>1, <2>2, <2>3 DEF UsersTypeOK, AllKeys
<1>4. ASSUME NEW b \in BOOLEAN, pause(b) PROVE UsersTypeOK'
  BY <1>t, <1>4 DEF pause, UsersTypeOK, tokenVars, userRows, urlVars, freeVars
<1>5. ASSUME NEW v \in VAccounts, NEW url \in Urls, updateuser(v, url) PROVE UsersTypeOK'
  <2>1. /\ v \in users /\ customurl' = With(customurl, v, url) /\ reverse' = With(reverse, url, v)
        /\ UNCHANGED <<users, vkeys, checksum, created_account, limits, paused, today,
                       taken, funded, signups>>
    BY <1>5 DEF updateuser, tokenVars, userRows, freeVars
  <2>2. /\ DOMAIN customurl' \subseteq users
        /\ \A w \in DOMAIN customurl' : customurl'[w] \in Urls
    BY <2>1 DEF With, UsersTypeOK
  <2>3. /\ DOMAIN reverse' \subseteq Urls
        /\ \A u \in DOMAIN reverse' : reverse'[u] \in users
    BY <2>1 DEF With, UsersTypeOK
  <2>. QED  BY <1>t, <2>1, <2>2, <2>3 DEF UsersTypeOK
<1>6. ASSUME NEW v \in VAccounts, NEW name \in FreeNames, createacc(v, name)
      PROVE  UsersTypeOK'
  BY <1>t, <1>6 DEF createacc, UsersTypeOK, tokenVars, userRows, urlVars, freeVars
<1>7. ASSUME NEW name \in FreeNames, newaccount(name) PROVE UsersTypeOK'
  BY <1>t, <1>7 DEF newaccount, UsersTypeOK, tokenVars, userRows, urlVars, freeVars
<1>8. CASE NextDay
  BY <1>t, <1>8, UsersAssumption DEF NextDay, UsersTypeOK, tokenVars, userRows, urlVars, freeVars
<1>9. CASE UNCHANGED vars
  BY <1>t, <1>9 DEF vars, UsersTypeOK, tokenVars, userRows, urlVars, freeVars
<1>10. CASE token
  BY <1>t, <1>10 DEF token, UsersTypeOK, userRows, urlVars, freeVars
<1>. QED
  BY <1>1, <1>2, <1>3, <1>4, <1>5, <1>6, <1>7, <1>8, <1>9, <1>10 DEF UsersNext

(***************************************************************************)
(* The keys, the rows and the balances of the users stay together, and the *)
(* counter of the day within its limit, whatever is sent.                  *)
(***************************************************************************)
THEOREM UsersTypeCorrect == UsersSpec => []UsersTypeOK
BY UsersTypeInit, UsersTypeStep, PTL DEF UsersSpec

-----------------------------------------------------------------------------
(* Keys. *)

(* One user's key is right. *)
KeyRight(k, sum, v) ==
  \/ v \in {Phoenix, Fees} /\ k[v] = NoKey
  \/ \E e \in Emails : NameOf[e] = v /\ sum[v] = e /\ k[v] \in KeysOf[e]

LEMMA KeyStep ==
  UsersTypeOK /\ KeyOfItsUser /\ [UsersNext]_vars => KeyOfItsUser'
<1>. SUFFICES ASSUME UsersTypeOK, KeyOfItsUser, [UsersNext]_vars,
                     NEW w \in users'
              PROVE  KeyRight(vkeys', checksum', w)
  BY DEF KeyOfItsUser, KeyRight
<1>0. \A v \in users : KeyRight(vkeys, checksum, v)
  BY DEF KeyOfItsUser, KeyRight
<1>s. ASSUME UNCHANGED <<users, vkeys, checksum>> PROVE KeyRight(vkeys', checksum', w)
  BY <1>0, <1>s
<1>1. ASSUME NEW e \in Emails, NEW key \in KeysOf[e], signup(e, key)
      PROVE  KeyRight(vkeys', checksum', w)
  <2>. DEFINE v == NameOf[e]
  <2>1. v \in VAccounts /\ newRows({v}, e) /\ vkeys' = With(vkeys, v, key)
    BY <1>1, UsersAssumption, TokenAssumption DEF signup
  <2>2. /\ users' = users \cup {v} /\ v \notin users
        /\ \A u \in users : checksum'[u] = checksum[u]
        /\ checksum'[v] = e
    <3>. DEFINE one == {v}
    <3>. HIDE DEF v
    <3>1. one \in SUBSET VAccounts /\ newRows(one, e) /\ v \in one
      BY <2>1
    <3>. HIDE DEF one
    <3>2. /\ users' = users \cup one /\ one \cap users = {}
          /\ \A u \in users : checksum'[u] = checksum[u]
          /\ \A u \in one : checksum'[u] = e
      BY <3>1, RowsEffect
    <3>. QED  BY <3>1, <3>2 DEF one
  <2>3. /\ vkeys'[v] = key
        /\ \A u \in users : u # v => vkeys'[u] = vkeys[u]
    BY <2>1 DEF With, UsersTypeOK
  <2>4. CASE w = v
    BY <2>2, <2>3, <2>4 DEF KeyRight
  <2>5. CASE w \in users
    BY <1>0, <2>2, <2>3, <2>5 DEF KeyRight
  <2>. QED  BY <2>2, <2>4, <2>5
<1>2. ASSUME NEW e \in Emails, NEW key \in KeysOf[e], login(e, key)
      PROVE  KeyRight(vkeys', checksum', w)
  <2>1. /\ NameOf[e] \in DOMAIN vkeys /\ checksum[NameOf[e]] = e
        /\ vkeys' = [vkeys EXCEPT ![NameOf[e]] = key]
        /\ UNCHANGED <<users, checksum>>
    BY <1>2 DEF login, loginChecks, tokenVars, userRows
  <2>2. CASE w = NameOf[e]
    BY <2>1, <2>2 DEF KeyRight
  <2>3. CASE w # NameOf[e]
    <3>1. vkeys'[w] = vkeys[w] /\ checksum'[w] = checksum[w] /\ w \in users
      BY <2>1, <2>3 DEF UsersTypeOK
    <3>. QED  BY <1>0, <3>1 DEF KeyRight
  <2>. QED  BY <2>2, <2>3
<1>3. CASE init
  <2>1. /\ newRows({Phoenix, Fees}, None) /\ {Phoenix, Fees} \subseteq VAccounts
        /\ vkeys' = With(With(vkeys, Phoenix, NoKey), Fees, NoKey)
    BY <1>3, TokenAssumption DEF init
  <2>2. /\ users' = users \cup {Phoenix, Fees} /\ {Phoenix, Fees} \cap users = {}
        /\ \A u \in users : checksum'[u] = checksum[u]
    <3>. DEFINE two == {Phoenix, Fees}
    <3>1. two \in SUBSET VAccounts /\ newRows(two, None)
      BY <2>1
    <3>. HIDE DEF two
    <3>2. /\ users' = users \cup two /\ two \cap users = {}
          /\ \A u \in users : checksum'[u] = checksum[u]
      BY <3>1, RowsEffect
    <3>. QED  BY <3>2 DEF two
  <2>3. /\ vkeys'[Phoenix] = NoKey /\ vkeys'[Fees] = NoKey
        /\ \A u \in users : u \notin {Phoenix, Fees} => vkeys'[u] = vkeys[u]
    BY <2>1 DEF With, UsersTypeOK
  <2>4. CASE w \in {Phoenix, Fees}
    BY <2>3, <2>4 DEF KeyRight
  <2>5. CASE w \in users
    BY <1>0, <2>2, <2>3, <2>5 DEF KeyRight
  <2>. QED  BY <2>2, <2>4, <2>5
<1>4. ASSUME NEW b \in BOOLEAN, pause(b) PROVE KeyRight(vkeys', checksum', w)
  BY <1>s, <1>4 DEF pause, tokenVars, userRows
<1>5. ASSUME NEW v \in VAccounts, NEW url \in Urls, updateuser(v, url)
      PROVE  KeyRight(vkeys', checksum', w)
  BY <1>s, <1>5 DEF updateuser, tokenVars, userRows
<1>6. ASSUME NEW v \in VAccounts, NEW name \in FreeNames, createacc(v, name)
      PROVE  KeyRight(vkeys', checksum', w)
  BY <1>s, <1>6 DEF createacc, tokenVars
<1>7. ASSUME NEW name \in FreeNames, newaccount(name) PROVE KeyRight(vkeys', checksum', w)
  BY <1>s, <1>7 DEF newaccount, tokenVars, userRows
<1>8. CASE NextDay
  BY <1>s, <1>8 DEF NextDay, tokenVars, userRows
<1>9. CASE UNCHANGED vars
  BY <1>s, <1>9 DEF vars, tokenVars, userRows
<1>10. CASE token
  BY <1>s, <1>10 DEF token, userRows
<1>. QED
  BY <1>1, <1>2, <1>3, <1>4, <1>5, <1>6, <1>7, <1>8, <1>9, <1>10 DEF UsersNext

(***************************************************************************)
(* Only keys of the person who signed up ever sign for a user, even when   *)
(* other emails derive the same name.                                      *)
(***************************************************************************)
THEOREM KeyOfItsOwner == UsersSpec => []KeyOfItsUser
<1>1. UsersInit => KeyOfItsUser
  BY DEF UsersInit, TokenInit, KeyOfItsUser
<1>. QED  BY <1>1, UsersTypeInit, UsersTypeStep, KeyStep, PTL DEF UsersSpec

-----------------------------------------------------------------------------
(* The limit on signups. *)

(* The counter knows the signups of today, also before the first of them. *)
CountOfToday == signups = IF limits.day = today THEN limits.created ELSE 0

LEMMA CountStep ==
  UsersTypeOK /\ CountOfToday /\ [UsersNext]_vars => CountOfToday'
<1>. SUFFICES ASSUME UsersTypeOK, CountOfToday, [UsersNext]_vars PROVE CountOfToday'
  OBVIOUS
<1>0. limits.day \in Nat /\ limits.day <= today /\ today \in Nat /\ limits.created \in Nat
  BY UsersAssumption DEF UsersTypeOK
<1>s. ASSUME UNCHANGED <<signups, limits, today>> PROVE CountOfToday'
  BY <1>s DEF CountOfToday
<1>1. ASSUME NEW e \in Emails, NEW key \in KeysOf[e], signup(e, key) PROVE CountOfToday'
  BY <1>0, <1>1 DEF signup, created_today, CountOfToday
<1>2. ASSUME NEW e \in Emails, NEW key \in KeysOf[e], login(e, key) PROVE CountOfToday'
  BY <1>s, <1>2 DEF login
<1>3. CASE init
  BY <1>s, <1>3 DEF init
<1>4. ASSUME NEW b \in BOOLEAN, pause(b) PROVE CountOfToday'
  BY <1>s, <1>4 DEF pause
<1>5. ASSUME NEW v \in VAccounts, NEW url \in Urls, updateuser(v, url) PROVE CountOfToday'
  BY <1>s, <1>5 DEF updateuser
<1>6. ASSUME NEW v \in VAccounts, NEW name \in FreeNames, createacc(v, name)
      PROVE  CountOfToday'
  BY <1>s, <1>6 DEF createacc
<1>7. ASSUME NEW name \in FreeNames, newaccount(name) PROVE CountOfToday'
  BY <1>s, <1>7 DEF newaccount
<1>8. CASE NextDay
  BY <1>0, <1>8 DEF NextDay, CountOfToday
<1>9. CASE UNCHANGED vars
  BY <1>s, <1>9 DEF vars
<1>10. CASE token
  BY <1>s, <1>10 DEF token
<1>. QED
  BY <1>1, <1>2, <1>3, <1>4, <1>5, <1>6, <1>7, <1>8, <1>9, <1>10 DEF UsersNext

(***************************************************************************)
(* On no day do more users sign up than the limit, for any limit and any   *)
(* number of days.                                                         *)
(***************************************************************************)
THEOREM SignupsLimited == UsersSpec => []SignupLimit
<1>1. UsersInit => CountOfToday
  BY DEF UsersInit, CountOfToday
<1>2. UsersTypeOK /\ CountOfToday => SignupLimit
  BY UsersAssumption DEF UsersTypeOK, CountOfToday, SignupLimit
<1>. QED  BY <1>1, <1>2, UsersTypeInit, UsersTypeStep, CountStep, PTL DEF UsersSpec

-----------------------------------------------------------------------------
(* Custom urls. *)

LEMMA UrlStep ==
  UsersTypeOK /\ UrlLeadsBack /\ [UsersNext]_vars => UrlLeadsBack'
<1>. SUFFICES ASSUME UsersTypeOK, UrlLeadsBack, [UsersNext]_vars PROVE UrlLeadsBack'
  OBVIOUS
<1>s. ASSUME UNCHANGED urlVars PROVE UrlLeadsBack'
  BY <1>s DEF urlVars, UrlLeadsBack
<1>1. ASSUME NEW v \in VAccounts, NEW url \in Urls, updateuser(v, url) PROVE UrlLeadsBack'
  <2>1. /\ linkFree(v, url)
        /\ customurl' = With(customurl, v, url) /\ reverse' = With(reverse, url, v)
    BY <1>1 DEF updateuser
  <2>2. SUFFICES ASSUME NEW w \in DOMAIN customurl'
                 PROVE  customurl'[w] \in DOMAIN reverse' /\ reverse'[customurl'[w]] = w
    BY DEF UrlLeadsBack
  <2>3. /\ DOMAIN reverse' = DOMAIN reverse \cup {url} /\ reverse'[url] = v
        /\ \A u \in DOMAIN reverse : u # url => reverse'[u] = reverse[u]
    BY <2>1 DEF With
  <2>4. CASE w = v
    BY <2>1, <2>3, <2>4 DEF With
  <2>5. CASE w # v
    <3>1. w \in DOMAIN customurl /\ customurl'[w] = customurl[w]
      BY <2>1, <2>2, <2>5 DEF With
    <3>2. customurl[w] \in DOMAIN reverse /\ reverse[customurl[w]] = w
      BY <3>1 DEF UrlLeadsBack
    <3>3. customurl[w] # url
      BY <2>1, <2>5, <3>2 DEF linkFree
    <3>. QED  BY <2>3, <3>1, <3>2, <3>3
  <2>. QED  BY <2>4, <2>5
<1>2. ASSUME NEW e \in Emails, NEW key \in KeysOf[e], signup(e, key) \/ login(e, key)
      PROVE  UNCHANGED urlVars
  BY <1>2 DEF signup, login
<1>3. CASE init
  BY <1>s, <1>3 DEF init
<1>4. ASSUME NEW b \in BOOLEAN, pause(b) PROVE UrlLeadsBack'
  BY <1>s, <1>4 DEF pause
<1>5. ASSUME NEW v \in VAccounts, NEW name \in FreeNames, createacc(v, name)
      PROVE  UrlLeadsBack'
  BY <1>s, <1>5 DEF createacc
<1>6. ASSUME NEW name \in FreeNames, newaccount(name) PROVE UrlLeadsBack'
  BY <1>s, <1>6 DEF newaccount
<1>7. CASE NextDay
  BY <1>s, <1>7 DEF NextDay
<1>8. CASE UNCHANGED vars
  BY <1>s, <1>8 DEF vars
<1>9. CASE token
  BY <1>s, <1>9 DEF token
<1>. QED
  BY <1>s, <1>1, <1>2, <1>3, <1>4, <1>5, <1>6, <1>7, <1>8, <1>9 DEF UsersNext

(***************************************************************************)
(* No two users ever have the same custom url: each leads to its user.     *)
(***************************************************************************)
THEOREM UrlsLeadBack == UsersSpec => []UrlLeadsBack
<1>1. UsersInit => UrlLeadsBack
  BY DEF UsersInit, UrlLeadsBack
<1>. QED  BY <1>1, UsersTypeInit, UsersTypeStep, UrlStep, PTL DEF UsersSpec

-----------------------------------------------------------------------------
(* Free chain accounts. *)

(* A name the contract paid for is taken, so it is not paid for again. *)
FreeInv == OneFreeAccount /\ funded \subseteq taken

LEMMA FreeStep ==
  UsersTypeOK /\ FreeInv /\ [UsersNext]_vars => FreeInv'
<1>. SUFFICES ASSUME UsersTypeOK, FreeInv, [UsersNext]_vars PROVE FreeInv'
  OBVIOUS
<1>0. created_account \in [users -> FreeNames \cup {None}] /\ None \notin FreeNames
  BY UsersAssumption DEF UsersTypeOK
<1>s. ASSUME UNCHANGED <<users, created_account, taken, funded>> PROVE FreeInv'
  BY <1>s DEF FreeInv, OneFreeAccount
<1>n. ASSUME NEW names, users' = users \cup names, UNCHANGED <<taken, funded>>,
             \A v \in users : created_account'[v] = created_account[v],
             \A v \in names : created_account'[v] = None
      PROVE  FreeInv'
  BY <1>0, <1>n DEF FreeInv, OneFreeAccount
<1>1. ASSUME NEW v \in VAccounts, NEW name \in FreeNames, createacc(v, name)
      PROVE  FreeInv'
  <2>1. /\ v \in users /\ created_account[v] = None /\ name \notin taken
        /\ created_account' = [created_account EXCEPT ![v] = name]
        /\ users' = users /\ taken' = taken \cup {name} /\ funded' = funded \cup {name}
    BY <1>1 DEF createacc, logcreateaccChecks, tokenVars
  <2>2. /\ created_account'[v] = name
        /\ \A w \in users : w # v => created_account'[w] = created_account[w]
    BY <1>0, <2>1
  <2>3. name \notin funded /\ \A w \in users : created_account[w] # name
    BY <2>1 DEF FreeInv, OneFreeAccount
  <2>4. funded' \subseteq taken'
    BY <2>1 DEF FreeInv
  <2>5. ASSUME NEW n \in FreeNames
        PROVE  n \in funded' <=> \E w \in users' : created_account'[w] = n
    <3>1. n \in funded <=> \E w \in users : created_account[w] = n
      BY DEF FreeInv, OneFreeAccount
    <3>2. CASE n = name
      BY <2>1, <2>2, <3>2
    <3>3. CASE n # name
      BY <1>0, <2>1, <2>2, <3>1, <3>3
    <3>. QED  BY <3>2, <3>3
  <2>6. ASSUME NEW u \in users', NEW w \in users',
               created_account'[u] = created_account'[w], created_account'[u] # None
        PROVE  u = w
    <3>1. u # v /\ w # v => u = w
      BY <2>1, <2>2, <2>6 DEF FreeInv, OneFreeAccount
    <3>. QED  BY <2>1, <2>2, <2>3, <2>6, <3>1
  <2>. QED  BY <2>4, <2>5, <2>6 DEF FreeInv, OneFreeAccount
<1>2. ASSUME NEW e \in Emails, NEW key \in KeysOf[e], signup(e, key) PROVE FreeInv'
  <2>. DEFINE names == {NameOf[e]}
  <2>1. /\ names \in SUBSET VAccounts /\ newRows(names, e) /\ e \in Emails \cup {None}
        /\ UNCHANGED <<taken, funded>>
    BY <1>2, UsersAssumption, TokenAssumption DEF signup, freeVars
  <2>. HIDE DEF names
  <2>2. /\ users' = users \cup names
        /\ \A v \in users : created_account'[v] = created_account[v]
        /\ \A v \in names : created_account'[v] = None
    BY <2>1, RowsEffect
  <2>. QED  BY <1>n, <2>1, <2>2
<1>3. CASE init
  <2>. DEFINE names == {Phoenix, Fees}
  <2>1. /\ names \in SUBSET VAccounts /\ newRows(names, None)
        /\ UNCHANGED <<taken, funded>>
    BY <1>3, TokenAssumption DEF init, freeVars
  <2>. HIDE DEF names
  <2>2. /\ users' = users \cup names
        /\ \A v \in users : created_account'[v] = created_account[v]
        /\ \A v \in names : created_account'[v] = None
    BY <2>1, RowsEffect
  <2>. QED  BY <1>n, <2>1, <2>2
<1>4. ASSUME NEW e \in Emails, NEW key \in KeysOf[e], login(e, key) PROVE FreeInv'
  BY <1>s, <1>4 DEF login, tokenVars, userRows, freeVars
<1>5. ASSUME NEW b \in BOOLEAN, pause(b) PROVE FreeInv'
  BY <1>s, <1>5 DEF pause, tokenVars, userRows, freeVars
<1>6. ASSUME NEW v \in VAccounts, NEW url \in Urls, updateuser(v, url) PROVE FreeInv'
  BY <1>s, <1>6 DEF updateuser, tokenVars, userRows, freeVars
<1>7. ASSUME NEW name \in FreeNames, newaccount(name) PROVE FreeInv'
  <2>1. UNCHANGED <<users, created_account, funded>> /\ taken' = taken \cup {name}
    BY <1>7 DEF newaccount, tokenVars, userRows
  <2>. QED  BY <2>1 DEF FreeInv, OneFreeAccount
<1>8. CASE NextDay
  BY <1>s, <1>8 DEF NextDay, tokenVars, userRows, freeVars
<1>9. CASE UNCHANGED vars
  BY <1>s, <1>9 DEF vars, tokenVars, userRows, freeVars
<1>10. CASE token
  BY <1>s, <1>10 DEF token, userRows, freeVars
<1>. QED
  BY <1>1, <1>2, <1>3, <1>4, <1>5, <1>6, <1>7, <1>8, <1>9, <1>10 DEF UsersNext

(***************************************************************************)
(* No user ever gets two chain accounts at the contract's cost.            *)
(***************************************************************************)
THEOREM FreeAccountOnce == UsersSpec => []OneFreeAccount
<1>1. UsersInit => FreeInv
  BY UsersAssumption DEF UsersInit, TokenInit, FreeInv, OneFreeAccount
<1>2. FreeInv => OneFreeAccount
  BY DEF FreeInv
<1>. QED  BY <1>1, <1>2, UsersTypeInit, UsersTypeStep, FreeStep, PTL DEF UsersSpec

-----------------------------------------------------------------------------
(* Money. *)

(***************************************************************************)
(* Whoever signs up, logs in or changes what, the token contract still     *)
(* behaves as its own specification says.                                  *)
(***************************************************************************)
THEOREM UsersAreTokenSteps == UsersSpec => TokenSpec
<1>1. UsersInit => TokenInit
  BY DEF UsersInit
<1>. QED  BY <1>1, TokenStep, PTL DEF UsersSpec, TokenSpec

(***************************************************************************)
(* So the real coins held still back what the customers hold, but for what *)
(* the operators moved out of the pool without a deposit.                  *)
(***************************************************************************)
THEOREM UsersSolventButForGrants == UsersSpec => []Solvent
BY UsersAreTokenSteps, SolventButForGrants, PTL

(***************************************************************************)
(* Nor do the sign-ups, which open the balances, make or destroy a coin;   *)
(* and they leave every user with a balance and nobody else.               *)
(***************************************************************************)
THEOREM UsersKeepTheCoins == UsersSpec => [](Conservation /\ BalanceRowPerUser)
BY UsersAreTokenSteps, CoinsConserved, RowPerUser, PTL
=============================================================================

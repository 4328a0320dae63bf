------------------------------- MODULE Users -------------------------------
(***************************************************************************)
(* The users of the phoenix contract (main.cpp) and the free chain account *)
(* each may have (createaccount.cpp).  The operators sign a user up and    *)
(* log him in, after he proved to hold an email address; everything else   *)
(* he signs with the key registered for him.                               *)
(*                                                                         *)
(* The name of a user is derived from his email, and two emails may derive *)
(* the same name.  A second derivation, the checksum, tells them apart: it *)
(* is modelled as the email itself.                                        *)
(***************************************************************************)
EXTENDS ColdToken

CONSTANTS
  Emails, NameOf,  \* people, and the virtual account derived for each
  KeysOf,          \* the public keys of each of them
  NoKey,           \* the key of Phoenix and Fees, which nobody holds
  Urls,            \* names that may be claimed as a custom url
  FreeNames,       \* names createacc may pick for a free chain account
  None,            \* no name, no checksum
  MaxPerDay,       \* max_vaccount_creations_per_day
  MaxDay           \* BOUND: the last day

ASSUME UsersAssumption ==
  /\ NameOf \in [Emails -> KeyHolders]
  /\ NoKey \notin UNION {KeysOf[e] : e \in Emails}
  /\ None \notin Emails \cup FreeNames
  /\ MaxPerDay \in Nat /\ MaxDay \in Nat

VARIABLES
  vkeys,            \* the key of every virtual account that has one
  checksum,         \* of every user
  created_account,  \* of every user, None until he has one
  customurl,        \* scope phoenix: the url of every user who has one
  reverse,          \* the scopes of the urls: whom a url leads to
  limits,           \* the row of the limits table
  paused,           \* globals.paused
  today,            \* get_day_identifier()
  taken,            \* names of FreeNames that exist on the chain
  (* What happened, for the properties only: no action reads it. *)
  signups,          \* how many users signed up today
  funded            \* the chain accounts created at the contract's cost

userRows == <<checksum, created_account>>
urlVars == <<customurl, reverse>>
freeVars == <<taken, funded>>
vars == <<tokenVars, vkeys, userRows, urlVars, limits, paused, today, freeVars, signups>>

UsersInit ==
  /\ TokenInit
  /\ vkeys = [v \in {} |-> NoKey]
  /\ checksum = [v \in {} |-> None]
  /\ created_account = [v \in {} |-> None]
  /\ customurl = [v \in {} |-> None]
  /\ reverse = [url \in {} |-> None]
  /\ limits = [day |-> 0, created |-> 0]
  /\ paused = FALSE
  /\ today = 1
  /\ taken = {}
  /\ signups = 0
  /\ funded = {}

With(f, x, y) == [z \in DOMAIN f \cup {x} |-> IF z = x THEN y ELSE f[z]]

-----------------------------------------------------------------------------
(* Signing up and logging in: actions of the operators. *)

(* The first signup of another day starts the count again. *)
created_today == IF limits.day = today THEN limits.created + 1 ELSE 1

(* Wrong: the count is compared before it is raised. *)
withinLimit_Before == limits.day = today => limits.created <= MaxPerDay

withinLimit == created_today <= MaxPerDay

(* emplace of the users table: an absent checksum is zero. *)
newRows(names, sum) ==
  /\ newUsers(names)
  /\ checksum' = [v \in users \cup names |-> IF v \in users THEN checksum[v] ELSE sum]
  /\ created_account' =
       [v \in users \cup names |-> IF v \in users THEN created_account[v] ELSE None]

signup(e, key) ==
  LET v == NameOf[e]
  IN  /\ ~ paused
      /\ v \notin DOMAIN vkeys
      /\ withinLimit
      /\ vkeys' = With(vkeys, v, key)
      /\ limits' = [day |-> today, created |-> created_today]
      /\ newRows({v}, e)
      /\ signups' = signups + 1
      /\ UNCHANGED <<urlVars, paused, today, freeVars>>

(* Wrong: whoever derives the name is taken for its user. *)
loginChecks_ByName(e) ==
  /\ NameOf[e] \in DOMAIN vkeys
  /\ NameOf[e] \in users

loginChecks(e) ==
  /\ NameOf[e] \in DOMAIN vkeys
  /\ NameOf[e] \in users
  /\ checksum[NameOf[e]] = e

login(e, key) ==
  /\ ~ paused
  /\ loginChecks(e)
  /\ vkeys' = [vkeys EXCEPT ![NameOf[e]] = key]
  /\ UNCHANGED <<tokenVars, userRows, urlVars, limits, paused, today, freeVars, signups>>

(* The two accounts of the platform, at most once. *)
init ==
  /\ vkeys' = With(With(vkeys, Phoenix, NoKey), Fees, NoKey)
  /\ newRows({Phoenix, Fees}, None)
  /\ UNCHANGED <<urlVars, limits, paused, today, freeVars, signups>>

pause(b) ==
  /\ paused # b
  /\ paused' = b
  /\ UNCHANGED <<tokenVars, vkeys, userRows, urlVars, limits, today, freeVars, signups>>

-----------------------------------------------------------------------------
(* What users sign. *)

(* Wrong: who had a url before is not asked about the new one. *)
linkFree_FirstOnly(v, url) ==
  v \notin DOMAIN customurl /\ url \in DOMAIN reverse => reverse[url] = v

linkFree(v, url) == url \in DOMAIN reverse => reverse[url] = v

(* The profile is not modelled; the part after the early return is the url. *)
updateuser(v, url) ==
  /\ ~ paused
  /\ v \in KeyHolders \cap users
  /\ linkFree(v, url)
  /\ customurl' = With(customurl, v, url)
  /\ reverse' = With(reverse, url, v)
  /\ UNCHANGED <<tokenVars, vkeys, userRows, limits, paused, today, freeVars, signups>>

(* Wrong: asks for a user but not whether he has an account. *)
logcreateaccChecks_AnyUser(v) == ~ paused /\ v \in users

logcreateaccChecks(v) ==
  /\ ~ paused
  /\ v \in users
  /\ created_account[v] = None

(* createacc of the token contract: the system contract creates the        *)
(* account, and the phoenix contract, told last, may still refuse it all.  *)
createacc(v, name) ==
  /\ v \in KeyHolders
  /\ name \notin taken
  /\ taken' = taken \cup {name}
  /\ logcreateaccChecks(v)
  /\ created_account' = [created_account EXCEPT ![v] = name]
  /\ funded' = funded \cup {name}
  /\ UNCHANGED <<tokenVars, vkeys, checksum, urlVars, limits, paused, today, signups>>

-----------------------------------------------------------------------------
(* The rest of the world. *)

(* Somebody else creates an account of that name. *)
newaccount(name) ==
  /\ name \notin taken
  /\ taken' = taken \cup {name}
  /\ UNCHANGED <<tokenVars, vkeys, userRows, urlVars, limits, paused, today, funded, signups>>

NextDay ==
  /\ today < MaxDay
  /\ today' = today + 1
  /\ signups' = 0
  /\ UNCHANGED <<tokenVars, vkeys, userRows, urlVars, limits, paused, freeVars>>

(* The actions of the token contract, sent by anybody. *)
token ==
  /\ TokenNext
  /\ users' = users
  /\ UNCHANGED <<vkeys, userRows, urlVars, limits, paused, today, freeVars, signups>>

UsersNext ==
  \/ token
  \/ \E e \in Emails : \E key \in KeysOf[e] : signup(e, key) \/ login(e, key)
  \/ init
  \/ \E b \in BOOLEAN : pause(b)
  \/ \E v \in VAccounts, url \in Urls : updateuser(v, url)
  \/ \E v \in VAccounts, name \in FreeNames : createacc(v, name)
  \/ \E name \in FreeNames : newaccount(name)
  \/ NextDay

UsersSpec == UsersInit /\ [][UsersNext]_vars

-----------------------------------------------------------------------------

(* Every table has its shape; the count of the day is within the limit. *)
UsersTypeOK ==
  /\ TokenTypeOK
  /\ DOMAIN vkeys = users
  /\ \A v \in users : vkeys[v] \in {NoKey} \cup UNION {KeysOf[e] : e \in Emails}
  /\ checksum \in [users -> Emails \cup {None}]
  /\ created_account \in [users -> FreeNames \cup {None}]
  /\ DOMAIN customurl \subseteq users /\ \A v \in DOMAIN customurl : customurl[v] \in Urls
  /\ DOMAIN reverse \subseteq Urls /\ \A url \in DOMAIN reverse : reverse[url] \in users
  /\ limits \in [day : 0..today, created : 0..MaxPerDay]
  /\ paused \in BOOLEAN
  /\ today \in Nat
  /\ taken \subseteq FreeNames /\ funded \subseteq FreeNames
  /\ signups \in Nat

(* Whoever shares the derived name of a user, the key that signs for the   *)
(* user is a key of the person who signed up; nobody signs for the two     *)
(* accounts of the platform.                                               *)
KeyOfItsUser ==
  \A v \in users :
    \/ v \in {Phoenix, Fees} /\ vkeys[v] = NoKey
    \/ \E e \in Emails : NameOf[e] = v /\ checksum[v] = e /\ vkeys[v] \in KeysOf[e]

(* However signups, days and pauses follow each other, no more users than  *)
(* the limit sign up within a day.                                         *)
SignupLimit == signups <= MaxPerDay

(* Each account created at the contract's cost is recorded with exactly    *)
(* one user, so nobody gets two and none is lost.                          *)
OneFreeAccount ==
  /\ \A name \in FreeNames :
       name \in funded <=> \E v \in users : created_account[v] = name
  /\ \A v, w \in users :
       created_account[v] = created_account[w] /\ created_account[v] # None => v = w

(* A user's url leads to him, so no two users have the same. *)
UrlLeadsBack ==
  \A v \in DOMAIN customurl :
    customurl[v] \in DOMAIN reverse /\ reverse[customurl[v]] = v

(* phoenix.hpp: the binding of users and urls goes both ways. *)
TwoWayBinding ==
  \A url \in DOMAIN reverse :
    reverse[url] \in DOMAIN customurl /\ customurl[reverse[url]] = url
=============================================================================

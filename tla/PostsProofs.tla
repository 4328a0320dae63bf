----------------------------- MODULE PostsProofs -----------------------------
(* The posts, for any authors and keys and any length of the lists.         *)
EXTENDS Posts, TLAPS

-----------------------------------------------------------------------------
(* The lists: what each operator on them does to their entries. *)

Distinct(s) == \A i, j \in DOMAIN s : s[i] = s[j] => i = j

(* Two entries of a part are entries of the whole, in the same order. *)
PartOf(part, s) ==
  \A i, j \in DOMAIN part :
    i < j => \E k, l \in DOMAIN s : k < l /\ part[i] = s[k] /\ part[j] = s[l]

LEMMA ListEntries ==
  ASSUME NEW S, NEW s \in Seq(S)
  PROVE  DOMAIN s = 1..Len(s) /\ Len(s) \in Nat /\ Members(s) \subseteq S
BY DEF Members

LEMMA AppendedList ==
  ASSUME NEW S, NEW s \in Seq(S), NEW x \in S
  PROVE  /\ listed(s, x) \in Seq(S)
         /\ Members(listed(s, x)) = Members(s) \cup {x}
         /\ DOMAIN listed(s, x) = 1..(Len(s) + 1)
         /\ listed(s, x)[Len(s) + 1] = x
         /\ \A i \in 1..Len(s) : listed(s, x)[i] = s[i]
<1>1. /\ listed(s, x) \in Seq(S) /\ Len(listed(s, x)) = Len(s) + 1
      /\ listed(s, x)[Len(s) + 1] = x
      /\ \A i \in 1..Len(s) : listed(s, x)[i] = s[i]
  BY DEF listed
<1>2. DOMAIN listed(s, x) = 1..(Len(s) + 1) /\ DOMAIN s = 1..Len(s) /\ Len(s) \in Nat
  BY <1>1
<1>3. Members(listed(s, x)) = Members(s) \cup {x}
  BY <1>1, <1>2 DEF Members
<1>. QED  BY <1>1, <1>2, <1>3

LEMMA AppendedMembers ==
  ASSUME NEW S, NEW s \in Seq(S), NEW x \in S
  PROVE  listed(s, x) \in Seq(S) /\ Members(listed(s, x)) = Members(s) \cup {x}
BY AppendedList

LEMMA AppendedEntries ==
  ASSUME NEW S, NEW s \in Seq(S), NEW x \in S
  PROVE  /\ DOMAIN listed(s, x) = 1..(Len(s) + 1)
         /\ listed(s, x)[Len(s) + 1] = x
         /\ \A i \in 1..Len(s) : listed(s, x)[i] = s[i]
BY AppendedList

(* Erasing the only occurrence of an entry, or nothing. *)
LEMMA ErasedList ==
  ASSUME NEW S, NEW s \in Seq(S), Distinct(s), NEW x
  PROVE  /\ Erased(s, x) \in Seq(S) /\ Len(Erased(s, x)) <= Len(s)
         /\ Members(Erased(s, x)) = Members(s) \ {x}
         /\ PartOf(Erased(s, x), s)
<1>0. DOMAIN s = 1..Len(s) /\ Len(s) \in Nat
  BY ListEntries
<1>1. CASE x \notin Members(s)
  BY <1>0, <1>1 DEF Erased, PartOf
<1>2. CASE x \in Members(s)
  <2>1. PICK i \in DOMAIN s : s[i] = x
    BY <1>2 DEF Members
  <2>2. \A j \in 1..(i - 1) : s[j] # x
    BY <1>0, <2>1 DEF Distinct
  <2>3. First(s, x) \in DOMAIN s /\ s[First(s, x)] = x
    BY <2>1, <2>2 DEF First
  <2>. DEFINE n == First(s, x)
              t == Dropped(s, n)
  <2>. HIDE DEF n
  <2>4. n \in 1..Len(s) /\ s[n] = x
    BY <1>0, <2>3 DEF n
  <2>5. Erased(s, x) = t
    BY <1>2 DEF Erased, n
  <2>6. DOMAIN t = 1..(Len(s) - 1) /\ Len(s) - 1 \in Nat
    BY <1>0, <2>4 DEF Dropped
  <2>7. \A j \in 1..(Len(s) - 1) : t[j] = (IF j < n THEN s[j] ELSE s[j + 1])
    BY DEF Dropped
  <2>. HIDE DEF t
  <2>8. \A j \in 1..(Len(s) - 1) : t[j] \in S
    BY <1>0, <2>4, <2>7
  <2>9. t \in Seq(S) /\ Len(t) = Len(s) - 1
    <3>1. t = [j \in 1..(Len(s) - 1) |-> t[j]]
      BY <2>6 DEF t, Dropped
    <3>. QED  BY <3>1, <2>6, <2>8
  <2>10. Members(t) = Members(s) \ {x}
    <3>1. ASSUME NEW j \in DOMAIN t PROVE t[j] \in Members(s) \ {x}
      <4>1. CASE j < n
        BY <1>0, <2>4, <2>6, <2>7, <4>1 DEF Members, Distinct
      <4>2. CASE ~ (j < n)
        BY <1>0, <2>4, <2>6, <2>7, <4>2 DEF Members, Distinct
      <4>. QED  BY <4>1, <4>2
    <3>2. ASSUME NEW k \in DOMAIN s, s[k] # x PROVE s[k] \in Members(t)
      <4>1. CASE k < n
        <5>1. k \in DOMAIN t /\ t[k] = s[k]
          BY <1>0, <2>4, <2>6, <2>7, <4>1
        <5>. QED  BY <5>1 DEF Members
      <4>2. CASE k > n
        <5>1. k - 1 \in DOMAIN t /\ t[k - 1] = s[k]
          BY <1>0, <2>4, <2>6, <2>7, <4>2
        <5>. QED  BY <5>1 DEF Members
      <4>. QED  BY <1>0, <2>4, <3>2, <4>1, <4>2
    <3>. QED  BY <3>1, <3>2 DEF Members
  <2>11. PartOf(t, s)
    <3>. SUFFICES ASSUME NEW i1 \in DOMAIN t, NEW j1 \in DOMAIN t, i1 < j1
                  PROVE  \E k, l \in DOMAIN s : k < l /\ t[i1] = s[k] /\ t[j1] = s[l]
      BY DEF PartOf
    <3>. DEFINE k1 == IF i1 < n THEN i1 ELSE i1 + 1
                l1 == IF j1 < n THEN j1 ELSE j1 + 1
    <3>1. k1 \in DOMAIN s /\ l1 \in DOMAIN s /\ k1 < l1
      BY <1>0, <2>4, <2>6
    <3>2. t[i1] = s[k1] /\ t[j1] = s[l1]
      BY <2>6, <2>7
    <3>. QED  BY <3>1, <3>2
  <2>. QED  BY <1>0, <2>5, <2>9, <2>10, <2>11
<1>. QED  BY <1>1, <1>2

(* The new entry in front, then as many of the others as there is room for. *)
LEMMA PushedList ==
  ASSUME NEW S, NEW s \in Seq(S), NEW x \in S, Len(s) <= MaxLatest
  PROVE  LET t == update_latest_posts(s, x)
         IN  /\ t \in Seq(S) /\ Len(t) <= MaxLatest
             /\ 1 \in DOMAIN t /\ t[1] = x
             /\ \A i \in DOMAIN t : i # 1 => i - 1 \in DOMAIN s /\ t[i] = s[i - 1]
             /\ \A i \in DOMAIN t, j \in DOMAIN s : j < i => t[j + 1] = s[j] /\ j + 1 \in DOMAIN t
<1>. DEFINE k == IF Len(s) >= MaxLatest THEN MaxLatest - 1 ELSE Len(s)
            u == SubSeq(s, 1, k)
            t == update_latest_posts(s, x)
<1>0. DOMAIN s = 1..Len(s) /\ Len(s) \in Nat
  BY ListEntries
<1>1. k \in 0..Len(s) /\ k + 1 <= MaxLatest
  BY <1>0, PostsAssumption
<1>. HIDE DEF k
<1>2. u \in Seq(S) /\ Len(u) = k /\ \A i \in 1..k : u[i] = s[i]
  BY <1>0, <1>1
<1>3. t = <<x>> \o u
  BY DEF update_latest_posts, k
<1>. HIDE DEF u, t
<1>4. t \in Seq(S) /\ Len(t) = k + 1 /\ t[1] = x /\ \A i \in 1..k : t[i + 1] = u[i]
  BY <1>2, <1>3, <1>1
<1>5. DOMAIN t = 1..(k + 1)
  BY <1>4, <1>1
<1>6. \A i \in DOMAIN t : i # 1 => i - 1 \in 1..k /\ t[i] = u[i - 1]
  <2>. SUFFICES ASSUME NEW i \in DOMAIN t, i # 1 PROVE i - 1 \in 1..k /\ t[i] = u[i - 1]
    OBVIOUS
  <2>1. i - 1 \in 1..k /\ i = (i - 1) + 1
    BY <1>1, <1>5
  <2>. QED  BY <1>4, <2>1
<1>7. \A i \in DOMAIN t, j \in DOMAIN s : j < i => t[j + 1] = s[j] /\ j + 1 \in DOMAIN t
  <2>. SUFFICES ASSUME NEW i \in DOMAIN t, NEW j \in DOMAIN s, j < i
                PROVE  t[j + 1] = s[j] /\ j + 1 \in DOMAIN t
    OBVIOUS
  <2>1. j \in 1..k
    BY <1>0, <1>1, <1>5
  <2>. QED  BY <1>1, <1>2, <1>4, <1>5, <2>1
<1>. QED  BY <1>0, <1>1, <1>2, <1>4, <1>5, <1>6, <1>7 DEF t
-----------------------------------------------------------------------------
(* What the actions do. *)

(* No entry twice, in either list. *)
LEMMA NoneTwice ==
  /\ PostsTypeOK /\ IndexesOfAuthors => \A v \in Authors : Distinct(post_indexes[v])
  /\ PostsTypeOK /\ LatestPosts => Distinct(latest_post_indexes)
<1>1. ASSUME NEW s \in Seq(Ids), next_post_id \in Nat,
             \/ \A i, j \in DOMAIN s : i < j => s[i] < s[j]
             \/ \A i, j \in DOMAIN s : i < j => s[i] > s[j]
      PROVE  Distinct(s)
  <2>1. DOMAIN s = 1..Len(s) /\ Len(s) \in Nat /\ \A i \in DOMAIN s : s[i] \in Nat
    BY <1>1 DEF Ids
  <2>2. SUFFICES ASSUME NEW i \in DOMAIN s, NEW j \in DOMAIN s, s[i] = s[j] PROVE i = j
    BY DEF Distinct
  <2>3. ~ (i < j) /\ ~ (j < i)
    BY <1>1, <2>1, <2>2
  <2>. QED  BY <2>1, <2>3
<1>2. ASSUME PostsTypeOK, IndexesOfAuthors, NEW v \in Authors PROVE Distinct(post_indexes[v])
  BY <1>1, <1>2 DEF PostsTypeOK, IndexesOfAuthors
<1>3. ASSUME PostsTypeOK, LatestPosts PROVE Distinct(latest_post_indexes)
  BY <1>1, <1>3 DEF PostsTypeOK, LatestPosts
<1>. QED  BY <1>2, <1>3

Listed == PostsTypeOK /\ IndexesOfAuthors /\ LatestPosts

(* The properties of the lists, for tables given. *)
Live(table, lists, id) == id \in Members(lists[table[id].author])

IndexesIn(table, lists) ==
  \A v \in Authors :
    /\ \A i \in DOMAIN lists[v] : table[lists[v][i]].author = v
    /\ \A i, j \in DOMAIN lists[v] : i < j => lists[v][i] < lists[v][j]

LatestIn(latest, table, lists) ==
  /\ Len(latest) <= MaxLatest
  /\ \A i, j \in DOMAIN latest : i < j => latest[i] > latest[j]
  /\ \A i \in DOMAIN latest : Live(table, lists, latest[i])
  /\ \A id \in DOMAIN table, i \in DOMAIN latest :
        Live(table, lists, id) /\ id > latest[i] => id \in Members(latest)

LEMMA ListsInTables ==
  /\ IndexesOfAuthors <=> IndexesIn(posts, post_indexes)
  /\ IndexesOfAuthors' <=> IndexesIn(posts', post_indexes')
  /\ LatestPosts <=> LatestIn(latest_post_indexes, posts, post_indexes)
  /\ LatestPosts' <=> LatestIn(latest_post_indexes', posts', post_indexes')
<1>1. /\ IndexesOfAuthors <=> IndexesIn(posts, post_indexes)
      /\ IndexesOfAuthors' <=> IndexesIn(posts', post_indexes')
  BY DEF IndexesOfAuthors, IndexesIn
<1>2. LatestPosts <=> LatestIn(latest_post_indexes, posts, post_indexes)
  BY DEF LatestPosts, LatestIn, live, Live
<1>3. LatestPosts' <=> LatestIn(latest_post_indexes', posts', post_indexes')
  BY DEF LatestPosts, LatestIn, live, Live, Members
<1>. QED  BY <1>1, <1>2, <1>3

LEMMA CreateEffect ==
  ASSUME Listed, NEW v \in Authors, NEW id \in 0..MaxPosts, NEW key \in Keys \cup {NoKey},
         createpost(v, id, key)
  PROVE  /\ id = next_post_id /\ next_post_id' = id + 1 /\ Ids' = Ids \cup {id} /\ id \notin Ids
         /\ posts' \in [Ids' -> [author : Authors, key : Keys \cup {NoKey}]]
         /\ posts'[id].author = v /\ posts'[id].key = key
         /\ \A i \in Ids : posts'[i] = posts[i]
         /\ post_indexes' \in [Authors -> Seq(Ids')]
         /\ post_indexes'[v] = listed(post_indexes[v], id)
         /\ Members(post_indexes'[v]) = Members(post_indexes[v]) \cup {id}
         /\ \A w \in Authors : w # v => post_indexes'[w] = post_indexes[w]
         /\ \A i \in Ids : Live(posts', post_indexes', i) <=> Live(posts, post_indexes, i)
         /\ Live(posts', post_indexes', id)
<1>. DEFINE Types == [author : Authors, key : Keys \cup {NoKey}]
<1>1. id = next_post_id /\ next_post_id' = id + 1 /\ id \in Nat
  BY DEF Listed, PostsTypeOK, createpost, takenId
<1>2. Ids = 0..(id - 1) /\ Ids' = 0..id
  BY <1>1 DEF Ids
<1>3. Ids' = Ids \cup {id} /\ id \notin Ids
  BY <1>1, <1>2
<1>. HIDE DEF Ids
<1>4. posts \in [Ids -> Types] /\ posts' = With(posts, id, [author |-> v, key |-> key])
  BY DEF Listed, PostsTypeOK, createpost
<1>5. /\ DOMAIN posts' = Ids' /\ posts'[id] = [author |-> v, key |-> key]
      /\ \A i \in Ids : posts'[i] = posts[i]
  BY <1>3, <1>4 DEF With
<1>6. posts' \in [Ids' -> Types]
  BY <1>3, <1>4, <1>5 DEF With
<1>7. /\ post_indexes \in [Authors -> Seq(Ids)]
      /\ post_indexes' = [post_indexes EXCEPT ![v] = listed(@, id)]
  BY DEF Listed, PostsTypeOK, createpost
<1>8. \A w \in Authors : post_indexes[w] \in Seq(Ids')
  BY <1>3, <1>7
<1>9. /\ listed(post_indexes[v], id) \in Seq(Ids')
      /\ Members(listed(post_indexes[v], id)) = Members(post_indexes[v]) \cup {id}
  <2>0. PICK N : N = Ids'
    OBVIOUS
  <2>1. post_indexes[v] \in Seq(N) /\ id \in N
    BY <1>3, <1>8, <2>0
  <2>2. /\ listed(post_indexes[v], id) \in Seq(N)
        /\ Members(listed(post_indexes[v], id)) = Members(post_indexes[v]) \cup {id}
    BY <2>1, AppendedMembers
  <2>. QED  BY <2>0, <2>2
<1>10. /\ post_indexes'[v] = listed(post_indexes[v], id)
       /\ \A w \in Authors : w # v => post_indexes'[w] = post_indexes[w]
  BY <1>7
<1>11. post_indexes' \in [Authors -> Seq(Ids')]
  BY <1>7, <1>8, <1>9
<1>12. ASSUME NEW i \in Ids PROVE Live(posts', post_indexes', i) <=> Live(posts, post_indexes, i)
  <2>1. posts'[i].author = posts[i].author /\ posts[i].author \in Authors /\ i # id
    BY <1>3, <1>4, <1>5
  <2>2. CASE posts[i].author = v
    <3>1. Live(posts', post_indexes', i) <=> i \in Members(post_indexes'[v])
      BY <2>1, <2>2 DEF Live
    <3>2. Live(posts, post_indexes, i) <=> i \in Members(post_indexes[v])
      BY <2>2 DEF Live
    <3>. QED  BY <1>9, <1>10, <2>1, <3>1, <3>2
  <2>3. CASE posts[i].author # v
    BY <1>10, <2>1, <2>3 DEF Live
  <2>. QED  BY <2>2, <2>3
<1>13. Live(posts', post_indexes', id)
  BY <1>5, <1>9, <1>10 DEF Live
<1>. QED  BY <1>1, <1>3, <1>5, <1>6, <1>9, <1>10, <1>11, <1>12, <1>13

LEMMA EditEffect ==
  ASSUME Listed, NEW v \in Authors, NEW id, NEW key \in Keys \cup {NoKey}, edit(v, id, key)
  PROVE  /\ id \in Ids /\ next_post_id' = next_post_id /\ Ids' = Ids
         /\ posts' \in [Ids -> [author : Authors, key : Keys \cup {NoKey}]]
         /\ posts'[id].key = key
         /\ \A i \in Ids : posts'[i].author = posts[i].author /\ (i # id => posts'[i] = posts[i])
         /\ \A i \in Ids : Live(posts', post_indexes', i) <=> Live(posts, post_indexes, i)
<1>1. /\ next_post_id' = next_post_id /\ post_indexes' = post_indexes /\ id \in DOMAIN posts
      /\ posts' = [posts EXCEPT ![id].key = key]
  BY DEF edit, authored
<1>2. posts \in [Ids -> [author : Authors, key : Keys \cup {NoKey}]] /\ Ids' = Ids
  BY <1>1 DEF Listed, PostsTypeOK, Ids
<1>3. /\ posts' \in [Ids -> [author : Authors, key : Keys \cup {NoKey}]]
      /\ posts'[id].key = key
      /\ \A i \in Ids : posts'[i].author = posts[i].author /\ (i # id => posts'[i] = posts[i])
  BY <1>1, <1>2
<1>4. \A i \in Ids : Live(posts', post_indexes', i) <=> Live(posts, post_indexes, i)
  BY <1>1, <1>3 DEF Live
<1>. QED  BY <1>1, <1>2, <1>3, <1>4

LEMMA DeleteEffect ==
  ASSUME Listed, NEW v \in Authors, NEW id, delete(v, id)
  PROVE  /\ id \in Ids /\ posts[id].author = v
         /\ post_indexes' \in [Authors -> Seq(Ids)]
         /\ PartOf(post_indexes'[v], post_indexes[v])
         /\ Members(post_indexes'[v]) = Members(post_indexes[v]) \ {id}
         /\ \A w \in Authors : w # v => post_indexes'[w] = post_indexes[w]
         /\ \A i \in Ids : Live(posts', post_indexes', i) <=> Live(posts, post_indexes, i) /\ i # id
<1>1. /\ id \in Ids /\ posts[id].author = v /\ posts' = posts
      /\ post_indexes' = [post_indexes EXCEPT ![v] = Erased(@, id)]
      /\ post_indexes \in [Authors -> Seq(Ids)]
      /\ posts \in [Ids -> [author : Authors, key : Keys \cup {NoKey}]]
  BY DEF delete, authored, Listed, PostsTypeOK
<1>2. Distinct(post_indexes[v])
  BY NoneTwice DEF Listed
<1>3. /\ Erased(post_indexes[v], id) \in Seq(Ids)
      /\ Members(Erased(post_indexes[v], id)) = Members(post_indexes[v]) \ {id}
      /\ PartOf(Erased(post_indexes[v], id), post_indexes[v])
  BY <1>1, <1>2, ErasedList
<1>4. /\ post_indexes'[v] = Erased(post_indexes[v], id)
      /\ \A w \in Authors : w # v => post_indexes'[w] = post_indexes[w]
  BY <1>1
<1>5. post_indexes' \in [Authors -> Seq(Ids)]
  BY <1>1, <1>3
<1>6. ASSUME NEW i \in Ids PROVE Live(posts', post_indexes', i) <=> Live(posts, post_indexes, i) /\ i # id
  <2>1. posts[i].author \in Authors
    BY <1>1
  <2>2. CASE posts[i].author = v
    <3>1. Live(posts', post_indexes', i) <=> i \in Members(post_indexes'[v])
      BY <1>1, <2>2 DEF Live
    <3>2. Live(posts, post_indexes, i) <=> i \in Members(post_indexes[v])
      BY <2>2 DEF Live
    <3>. QED  BY <1>3, <1>4, <3>1, <3>2
  <2>3. CASE posts[i].author # v
    BY <1>1, <1>4, <2>1, <2>3 DEF Live
  <2>. QED  BY <2>2, <2>3
<1>. QED  BY <1>1, <1>3, <1>4, <1>5, <1>6
-----------------------------------------------------------------------------
(* The lists.  They are correct together only: that an entry can be erased  *)
(* by its first occurrence needs the order, and that a deleted post is in   *)
(* no list needs both lists.                                                *)

LEMMA ListedInit == PostsInit => Listed
<1>. SUFFICES ASSUME PostsInit PROVE Listed
  OBVIOUS
<1>1. Ids = {}
  BY DEF PostsInit, Ids
<1>2. PostsTypeOK
  <2>1. posts \in [Ids -> [author : Authors, key : Keys \cup {NoKey}]]
    BY <1>1 DEF PostsInit
  <2>2. post_indexes \in [Authors -> Seq(Ids)] /\ latest_post_indexes \in Seq(Ids)
    BY DEF PostsInit
  <2>. QED  BY <2>1, <2>2 DEF PostsInit, PostsTypeOK
<1>3. IndexesOfAuthors /\ LatestPosts
  BY PostsAssumption DEF PostsInit, IndexesOfAuthors, LatestPosts
<1>. QED  BY <1>2, <1>3 DEF Listed

LEMMA CreateListed ==
  ASSUME Listed, NEW v \in Authors, NEW id \in 0..MaxPosts, NEW key \in Keys \cup {NoKey},
         createpost(v, id, key)
  PROVE  Listed'
<1>. DEFINE old == latest_post_indexes
            new == update_latest_posts(old, id)
<1>0. /\ id = next_post_id /\ id \in Nat /\ Ids = 0..(id - 1)
      /\ Ids' = Ids \cup {id} /\ id \notin Ids
  BY CreateEffect DEF Listed, PostsTypeOK, Ids
<1>1. old \in Seq(Ids) /\ Len(old) <= MaxLatest /\ latest_post_indexes' = new
  BY DEF Listed, PostsTypeOK, LatestPosts, createpost
<1>2. PICK N : N = Ids \cup {id}
  OBVIOUS
<1>3. old \in Seq(N) /\ id \in N
  BY <1>1, <1>2
<1>4. /\ new \in Seq(N) /\ Len(new) <= MaxLatest
      /\ 1 \in DOMAIN new /\ new[1] = id
      /\ \A i \in DOMAIN new : i # 1 => i - 1 \in DOMAIN old /\ new[i] = old[i - 1]
      /\ \A i \in DOMAIN new, j \in DOMAIN old : j < i => new[j + 1] = old[j] /\ j + 1 \in DOMAIN new
  BY <1>1, <1>3, PushedList
<1>. HIDE DEF old, new
<1>5. PostsTypeOK'
  <2>1. next_post_id' \in Nat /\ paused' \in BOOLEAN
    <3>1. next_post_id' = id + 1 /\ paused' = paused
      BY CreateEffect DEF createpost
    <3>. QED  BY <1>0, <3>1 DEF Listed, PostsTypeOK
  <2>2. (DOMAIN postkeyenc \subseteq Ids /\ \A i \in DOMAIN postkeyenc : postkeyenc[i] \in Keys)'
    <3>1. DOMAIN postkeyenc \subseteq Ids /\ \A i \in DOMAIN postkeyenc : postkeyenc[i] \in Keys
      BY DEF Listed, PostsTypeOK
    <3>2. postkeyenc' = IF key = NoKey THEN postkeyenc ELSE With(postkeyenc, id, key)
      BY DEF createpost
    <3>. QED  BY <1>0, <3>1, <3>2 DEF With
  <2>3. latest_post_indexes' \in Seq(Ids')
    BY <1>0, <1>1, <1>2, <1>4
  <2>. QED  BY <2>1, <2>2, <2>3, CreateEffect DEF PostsTypeOK
<1>6. IndexesOfAuthors'
  <2>1. SUFFICES ASSUME NEW w \in Authors
                 PROVE  /\ \A i \in DOMAIN post_indexes'[w] : posts'[post_indexes'[w][i]].author = w
                        /\ \A i, j \in DOMAIN post_indexes'[w] :
                              i < j => post_indexes'[w][i] < post_indexes'[w][j]
    BY ListsInTables DEF IndexesIn
  <2>. DEFINE mine == post_indexes[w]
  <2>2. /\ mine \in Seq(Ids) /\ \A i \in DOMAIN mine : posts[mine[i]].author = w
        /\ \A i, j \in DOMAIN mine : i < j => mine[i] < mine[j]
    BY DEF Listed, PostsTypeOK, IndexesOfAuthors
  <2>3. \A i \in DOMAIN mine : mine[i] \in Ids /\ posts'[mine[i]].author = w
    <3>1. \A i \in Ids : posts'[i] = posts[i]
      BY CreateEffect
    <3>. QED  BY <2>2, <3>1
  <2>4. CASE w # v
    <3>1. post_indexes'[w] = mine
      BY <2>4, CreateEffect
    <3>. QED  BY <2>2, <2>3, <3>1
  <2>5. CASE w = v
    <3>1. post_indexes'[w] = listed(mine, id)
      BY <2>5, CreateEffect
    <3>2. mine \in Seq(N) /\ DOMAIN mine = 1..Len(mine) /\ Len(mine) \in Nat
      BY <1>2, <2>2
    <3>3. /\ DOMAIN listed(mine, id) = 1..(Len(mine) + 1)
          /\ listed(mine, id)[Len(mine) + 1] = id
          /\ \A i \in 1..Len(mine) : listed(mine, id)[i] = mine[i]
      BY <1>3, <3>2, AppendedEntries
    <3>4. posts'[id].author = w
      BY <2>5, CreateEffect
    <3>5. \A i \in DOMAIN mine : mine[i] < id
      BY <1>0, <2>3
    <3>. HIDE DEF mine
    <3>6. ASSUME NEW i \in 1..(Len(mine) + 1) PROVE posts'[listed(mine, id)[i]].author = w
      BY <2>3, <3>2, <3>3, <3>4
    <3>7. ASSUME NEW i \in 1..(Len(mine) + 1), NEW j \in 1..(Len(mine) + 1), i < j
          PROVE  listed(mine, id)[i] < listed(mine, id)[j]
      <4>1. i \in 1..Len(mine)
        BY <3>2, <3>7
      <4>2. CASE j = Len(mine) + 1
        BY <3>2, <3>3, <3>5, <4>1, <4>2
      <4>3. CASE j # Len(mine) + 1
        <5>1. j \in 1..Len(mine)
          BY <3>2, <4>3
        <5>. QED  BY <2>2, <3>2, <3>3, <3>7, <4>1, <5>1
      <4>. QED  BY <4>2, <4>3
    <3>. QED  BY <3>1, <3>3, <3>6, <3>7
  <2>. QED  BY <2>4, <2>5
<1>7. LatestPosts'
  <2>1. /\ \A i, j \in DOMAIN old : i < j => old[i] > old[j]
        /\ \A i \in DOMAIN old : Live(posts, post_indexes, old[i])
        /\ \A i \in Ids, j \in DOMAIN old : Live(posts, post_indexes, i) /\ i > old[j] => i \in Members(old)
    BY ListsInTables DEF Listed, LatestIn, PostsTypeOK, old
  <2>2. DOMAIN old = 1..Len(old) /\ Len(old) \in Nat /\ \A i \in DOMAIN old : old[i] \in Ids
    BY <1>1
  <2>3. DOMAIN new = 1..Len(new) /\ Len(new) \in Nat
    BY <1>4
  <2>4. \A i \in Ids : Live(posts', post_indexes', i) <=> Live(posts, post_indexes, i)
    BY CreateEffect
  <2>5. ASSUME NEW i \in DOMAIN new, NEW j \in DOMAIN new, i < j PROVE new[i] > new[j]
    <3>1. j - 1 \in DOMAIN old /\ new[j] = old[j - 1] /\ old[j - 1] < id
      BY <1>0, <1>4, <2>2, <2>3, <2>5
    <3>2. CASE i = 1
      BY <1>0, <1>4, <2>2, <3>1, <3>2
    <3>3. CASE i # 1
      <4>1. i - 1 \in DOMAIN old /\ new[i] = old[i - 1] /\ i - 1 < j - 1
        BY <1>4, <2>3, <2>5, <3>3
      <4>. QED  BY <2>1, <3>1, <4>1
    <3>. QED  BY <3>2, <3>3
  <2>6. ASSUME NEW i \in DOMAIN new PROVE Live(posts', post_indexes', new[i])
    <3>1. CASE i = 1
      <4>1. Live(posts', post_indexes', id)
        BY CreateEffect
      <4>. QED  BY <1>4, <3>1, <4>1
    <3>2. CASE i # 1
      <4>1. i - 1 \in DOMAIN old /\ new[i] = old[i - 1]
        BY <1>4, <3>2
      <4>2. Live(posts', post_indexes', old[i - 1]) /\ old[i - 1] \in Ids
        BY <2>1, <2>2, <2>4, <4>1
      <4>. QED  BY <4>1, <4>2
    <3>. QED  BY <3>1, <3>2
  <2>7. ASSUME NEW n \in Ids', NEW i \in DOMAIN new, Live(posts', post_indexes', n), n > new[i] PROVE n \in Members(new)
    <3>1. CASE n = id
      BY <1>4, <3>1 DEF Members
    <3>2. CASE n # id
      <4>1. n \in Ids /\ Live(posts, post_indexes, n) /\ n < id
        BY <1>0, <2>4, <2>7, <3>2
      <4>2. i # 1
        BY <1>0, <1>4, <2>7, <4>1
      <4>3. i - 1 \in DOMAIN old /\ new[i] = old[i - 1]
        BY <1>4, <4>2
      <4>4. PICK k \in DOMAIN old : old[k] = n
        BY <2>1, <2>7, <4>1, <4>3 DEF Members
      <4>5. k < i
        <5>1. ~ (i - 1 < k)
          BY <1>0, <2>1, <2>2, <2>7, <4>3, <4>4
        <5>. QED  BY <2>2, <2>3, <5>1
      <4>6. new[k + 1] = n /\ k + 1 \in DOMAIN new
        BY <1>4, <4>4, <4>5
      <4>. QED  BY <4>6 DEF Members
    <3>. QED  BY <3>1, <3>2
  <2>8. DOMAIN posts' = Ids'
    BY CreateEffect
  <2>. QED  BY <1>1, <1>4, <2>5, <2>6, <2>7, <2>8, ListsInTables DEF LatestIn
<1>. QED  BY <1>5, <1>6, <1>7 DEF Listed
LEMMA EditListed ==
  ASSUME Listed, NEW v \in Authors, NEW id, NEW key \in Keys \cup {NoKey}, edit(v, id, key)
  PROVE  Listed'
<1>1. /\ post_indexes' = post_indexes /\ latest_post_indexes' = latest_post_indexes
      /\ paused' = paused /\ postkeyenc' = keyed(id, key)
  BY DEF edit
<1>2. /\ id \in Ids /\ next_post_id' = next_post_id /\ Ids' = Ids
      /\ posts' \in [Ids -> [author : Authors, key : Keys \cup {NoKey}]]
      /\ \A i \in Ids : posts'[i].author = posts[i].author
      /\ \A i \in Ids : Live(posts', post_indexes', i) <=> Live(posts, post_indexes, i)
  BY EditEffect
<1>3. PostsTypeOK'
  <2>1. (DOMAIN postkeyenc \subseteq Ids /\ \A i \in DOMAIN postkeyenc : postkeyenc[i] \in Keys)'
    BY <1>1, <1>2 DEF keyed, With, Listed, PostsTypeOK
  <2>. QED  BY <1>1, <1>2, <2>1 DEF Listed, PostsTypeOK
<1>4. /\ post_indexes \in [Authors -> Seq(Ids)] /\ latest_post_indexes \in Seq(Ids)
      /\ DOMAIN posts = Ids
      /\ IndexesIn(posts, post_indexes) /\ LatestIn(latest_post_indexes, posts, post_indexes)
  BY ListsInTables DEF Listed, PostsTypeOK
<1>5. IndexesIn(posts', post_indexes)
  <2>1. \A w \in Authors : \A i \in DOMAIN post_indexes[w] : post_indexes[w][i] \in Ids
    BY <1>4
  <2>. QED  BY <1>2, <1>4, <2>1 DEF IndexesIn
<1>6. LatestIn(latest_post_indexes, posts', post_indexes')
  <2>1. \A i \in DOMAIN latest_post_indexes : latest_post_indexes[i] \in Ids
    BY <1>4
  <2>. QED  BY <1>2, <1>4, <2>1 DEF LatestIn
<1>. QED  BY <1>1, <1>3, <1>5, <1>6, ListsInTables DEF Listed

LEMMA DeleteListed ==
  ASSUME Listed, NEW v \in Authors, NEW id, delete(v, id)
  PROVE  Listed'
<1>. DEFINE old == latest_post_indexes
            new == Erased(old, id)
<1>1. /\ posts' = posts /\ next_post_id' = next_post_id /\ paused' = paused /\ Ids' = Ids
      /\ postkeyenc' = Without(postkeyenc, id) /\ latest_post_indexes' = new
  BY DEF delete, remove_from_latest_post, Ids
<1>2. /\ id \in Ids /\ posts[id].author = v
      /\ post_indexes' \in [Authors -> Seq(Ids)]
      /\ PartOf(post_indexes'[v], post_indexes[v])
      /\ Members(post_indexes'[v]) = Members(post_indexes[v]) \ {id}
      /\ \A w \in Authors : w # v => post_indexes'[w] = post_indexes[w]
      /\ \A i \in Ids : Live(posts', post_indexes', i) <=> Live(posts, post_indexes, i) /\ i # id
  BY DeleteEffect
<1>3. /\ old \in Seq(Ids) /\ DOMAIN posts = Ids /\ post_indexes \in [Authors -> Seq(Ids)]
      /\ IndexesIn(posts, post_indexes) /\ LatestIn(old, posts, post_indexes)
  BY ListsInTables DEF Listed, PostsTypeOK
<1>4. /\ new \in Seq(Ids) /\ Len(new) <= Len(old)
      /\ Members(new) = Members(old) \ {id} /\ PartOf(new, old)
  BY <1>3, NoneTwice, ErasedList DEF Listed
<1>. HIDE DEF old, new
<1>5. PostsTypeOK'
  <2>1. (DOMAIN postkeyenc \subseteq Ids /\ \A i \in DOMAIN postkeyenc : postkeyenc[i] \in Keys)'
    BY <1>1 DEF Without, Listed, PostsTypeOK
  <2>. QED  BY <1>1, <1>2, <1>4, <2>1 DEF Listed, PostsTypeOK
<1>6. IndexesIn(posts', post_indexes')
  <2>1. SUFFICES ASSUME NEW w \in Authors
                 PROVE  /\ \A i \in DOMAIN post_indexes'[w] : posts[post_indexes'[w][i]].author = w
                        /\ \A i, j \in DOMAIN post_indexes'[w] :
                              i < j => post_indexes'[w][i] < post_indexes'[w][j]
    BY <1>1 DEF IndexesIn
  <2>2. /\ \A i \in DOMAIN post_indexes[w] : posts[post_indexes[w][i]].author = w
        /\ \A i, j \in DOMAIN post_indexes[w] : i < j => post_indexes[w][i] < post_indexes[w][j]
    BY <1>3 DEF IndexesIn
  <2>3. CASE w # v
    BY <1>2, <2>2, <2>3
  <2>4. CASE w = v
    <3>1. ASSUME NEW i \in DOMAIN post_indexes'[v] PROVE posts[post_indexes'[v][i]].author = v
      <4>1. post_indexes'[v][i] \in Members(post_indexes[v])
        BY <1>2 DEF Members
      <4>. QED  BY <2>2, <2>4, <4>1 DEF Members
    <3>2. ASSUME NEW i \in DOMAIN post_indexes'[v], NEW j \in DOMAIN post_indexes'[v], i < j
          PROVE  post_indexes'[v][i] < post_indexes'[v][j]
      BY <1>2, <2>2, <2>4, <3>2 DEF PartOf
    <3>. QED  BY <2>4, <3>1, <3>2
  <2>. QED  BY <2>3, <2>4
<1>7. LatestIn(new, posts', post_indexes')
  <2>1. Len(new) <= MaxLatest
    <3>1. Len(old) <= MaxLatest /\ Len(old) \in Nat /\ Len(new) \in Nat /\ MaxLatest \in Nat
      BY <1>3, <1>4, PostsAssumption DEF LatestIn
    <3>. QED  BY <1>4, <3>1
  <2>2. ASSUME NEW i \in DOMAIN new, NEW j \in DOMAIN new, i < j PROVE new[i] > new[j]
    BY <1>3, <1>4, <2>2 DEF PartOf, LatestIn
  <2>3. ASSUME NEW i \in DOMAIN new
        PROVE  /\ new[i] \in Members(old) /\ new[i] # id
               /\ Live(posts', post_indexes', new[i])
    <3>1. new[i] \in Members(old) /\ new[i] # id /\ new[i] \in Ids
      BY <1>4 DEF Members
    <3>2. Live(posts, post_indexes, new[i])
      BY <1>3, <3>1 DEF LatestIn, Members
    <3>. QED  BY <1>2, <3>1, <3>2
  <2>4. ASSUME NEW n \in Ids, NEW i \in DOMAIN new, Live(posts', post_indexes', n), n > new[i]
        PROVE  n \in Members(new)
    <3>1. Live(posts, post_indexes, n) /\ n # id
      BY <1>2, <2>4
    <3>2. PICK k \in DOMAIN old : old[k] = new[i]
      BY <2>3 DEF Members
    <3>3. n \in Members(old)
      BY <1>3, <2>4, <3>1, <3>2 DEF LatestIn
    <3>. QED  BY <1>4, <3>1, <3>3
  <2>. QED  BY <1>1, <1>3, <2>1, <2>2, <2>3, <2>4 DEF LatestIn
<1>. QED  BY <1>1, <1>5, <1>6, <1>7, ListsInTables DEF Listed

LEMMA ListedStep == Listed /\ [PostsNext]_vars => Listed'
<1>. SUFFICES ASSUME Listed, [PostsNext]_vars PROVE Listed'
  OBVIOUS
<1>1. ASSUME NEW v \in Authors, NEW id \in 0..MaxPosts, NEW key \in Keys \cup {NoKey},
             createpost(v, id, key)
      PROVE  Listed'
  BY <1>1, CreateListed
<1>2. ASSUME NEW v \in Authors, NEW id \in 0..MaxPosts, NEW key \in Keys \cup {NoKey},
             edit(v, id, key)
      PROVE  Listed'
  BY <1>2, EditListed
<1>3. ASSUME NEW v \in Authors, NEW id \in 0..MaxPosts, delete(v, id) PROVE Listed'
  BY <1>3, DeleteListed
<1>4. ASSUME /\ UNCHANGED <<posts, post_indexes, latest_post_indexes, next_post_id, postkeyenc>>
             /\ paused' \in BOOLEAN
      PROVE  Listed'
  <2>1. PostsTypeOK'
    BY <1>4 DEF Listed, PostsTypeOK, Ids
  <2>2. IndexesOfAuthors' /\ LatestPosts'
    BY <1>4, ListsInTables DEF Listed
  <2>. QED  BY <2>1, <2>2 DEF Listed
<1>5. ASSUME NEW b \in BOOLEAN, pause(b) PROVE Listed'
  BY <1>4, <1>5 DEF pause
<1>6. CASE UNCHANGED vars
  BY <1>4, <1>6 DEF vars, Listed, PostsTypeOK
<1>. QED  BY <1>1, <1>2, <1>3, <1>5, <1>6 DEF PostsNext

(* Ids are given out without gaps, and the tables speak of posts there are. *)
THEOREM PostsTypeCorrect == PostsSpec => []PostsTypeOK
<1>1. Listed => PostsTypeOK
  BY DEF Listed
<1>. QED  BY <1>1, ListedInit, ListedStep, PTL DEF PostsSpec

(* Every author's list names his posts, each once, in their order. *)
THEOREM ListsOfAuthors == PostsSpec => []IndexesOfAuthors
<1>1. Listed => IndexesOfAuthors
  BY DEF Listed
<1>. QED  BY <1>1, ListedInit, ListedStep, PTL DEF PostsSpec

(* The list of the latest posts has the newest that are not deleted. *)
THEOREM LatestAreNewest == PostsSpec => []LatestPosts
<1>1. Listed => LatestPosts
  BY DEF Listed
<1>. QED  BY <1>1, ListedInit, ListedStep, PTL DEF PostsSpec

-----------------------------------------------------------------------------
(* Deleted posts. *)

(* No sequence of edits brings a deleted post back. *)
THEOREM DeletedStaysDeleted == PostsSpec => DeletedForGood
<1>. DEFINE Step == \A id \in DOMAIN posts : live(id)' => live(id)
<1>1. ASSUME Listed, [PostsNext]_vars PROVE [Step]_vars
  <2>0. SUFFICES ASSUME ~ UNCHANGED vars, NEW n \in DOMAIN posts,
                        Live(posts', post_indexes', n)
                 PROVE  Live(posts, post_indexes, n)
    BY DEF live, Live, Members
  <2>1. n \in Ids
    BY <1>1 DEF Listed, PostsTypeOK
  <2>2. ASSUME NEW v \in Authors, NEW id \in 0..MaxPosts, NEW key \in Keys \cup {NoKey},
               createpost(v, id, key)
        PROVE  Live(posts, post_indexes, n)
    BY <1>1, <2>0, <2>1, <2>2, CreateEffect
  <2>3. ASSUME NEW v \in Authors, NEW id \in 0..MaxPosts, NEW key \in Keys \cup {NoKey},
               edit(v, id, key)
        PROVE  Live(posts, post_indexes, n)
    BY <1>1, <2>0, <2>1, <2>3, EditEffect
  <2>4. ASSUME NEW v \in Authors, NEW id \in 0..MaxPosts, delete(v, id)
        PROVE  Live(posts, post_indexes, n)
    BY <1>1, <2>0, <2>1, <2>4, DeleteEffect
  <2>5. ASSUME NEW b \in BOOLEAN, pause(b) PROVE Live(posts, post_indexes, n)
    BY <2>0, <2>5 DEF pause
  <2>. QED  BY <1>1, <2>0, <2>2, <2>3, <2>4, <2>5 DEF PostsNext
<1>. QED  BY <1>1, ListedInit, ListedStep, PTL DEF PostsSpec, DeletedForGood

-----------------------------------------------------------------------------
(* Keys. *)

LEMMA KeyStep == Listed /\ KeyOpensPost /\ [PostsNext]_vars => KeyOpensPost'
<1>. DEFINE Opens(table, lists, keys) ==
       \A id \in DOMAIN table :
         Live(table, lists, id) /\ table[id].key # NoKey =>
           id \in DOMAIN keys /\ keys[id] = table[id].key
<1>. SUFFICES ASSUME Listed, KeyOpensPost, [PostsNext]_vars
              PROVE  Opens(posts', post_indexes', postkeyenc')
  BY DEF KeyOpensPost, live, Live, Members
<1>0. Opens(posts, post_indexes, postkeyenc) /\ DOMAIN posts = Ids
  BY DEF KeyOpensPost, live, Live, Listed, PostsTypeOK
<1>1. ASSUME NEW v \in Authors, NEW id \in 0..MaxPosts, NEW key \in Keys \cup {NoKey},
             createpost(v, id, key)
      PROVE  Opens(posts', post_indexes', postkeyenc')
  <2>1. /\ DOMAIN posts' = Ids \cup {id} /\ id \notin Ids /\ posts'[id].key = key
        /\ \A i \in Ids : posts'[i] = posts[i]
        /\ \A i \in Ids : Live(posts', post_indexes', i) <=> Live(posts, post_indexes, i)
    BY <1>1, CreateEffect
  <2>2. postkeyenc' = IF key = NoKey THEN postkeyenc ELSE With(postkeyenc, id, key)
    BY <1>1 DEF createpost
  <2>. QED  BY <1>0, <2>1, <2>2 DEF With
<1>2. ASSUME NEW v \in Authors, NEW id \in 0..MaxPosts, NEW key \in Keys \cup {NoKey},
             edit(v, id, key)
      PROVE  Opens(posts', post_indexes', postkeyenc')
  <2>1. /\ DOMAIN posts' = Ids /\ posts'[id].key = key
        /\ \A i \in Ids : i # id => posts'[i] = posts[i]
        /\ \A i \in Ids : Live(posts', post_indexes', i) <=> Live(posts, post_indexes, i)
    BY <1>2, EditEffect
  <2>2. postkeyenc' = IF key = NoKey THEN postkeyenc ELSE With(postkeyenc, id, key)
    BY <1>2 DEF edit, keyed
  <2>. QED  BY <1>0, <2>1, <2>2 DEF With
<1>3. ASSUME NEW v \in Authors, NEW id \in 0..MaxPosts, delete(v, id)
      PROVE  Opens(posts', post_indexes', postkeyenc')
  <2>1. \A i \in Ids : Live(posts', post_indexes', i) <=> Live(posts, post_indexes, i) /\ i # id
    BY <1>3, DeleteEffect
  <2>2. posts' = posts /\ postkeyenc' = Without(postkeyenc, id)
    BY <1>3 DEF delete
  <2>. QED  BY <1>0, <2>1, <2>2 DEF Without
<1>4. ASSUME NEW b \in BOOLEAN, pause(b) PROVE Opens(posts', post_indexes', postkeyenc')
  BY <1>0, <1>4 DEF pause
<1>5. CASE UNCHANGED vars
  BY <1>0, <1>5 DEF vars
<1>. QED  BY <1>1, <1>2, <1>3, <1>4, <1>5 DEF PostsNext

(* The DSP always has the key of every encrypted post that is not deleted. *)
THEOREM KeysOpenPosts == PostsSpec => []KeyOpensPost
<1>1. PostsInit => KeyOpensPost
  BY DEF PostsInit, KeyOpensPost
<1>. QED  BY <1>1, ListedInit, ListedStep, KeyStep, PTL DEF PostsSpec
=============================================================================

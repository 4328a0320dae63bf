---------------------------- MODULE ReplayProofs ----------------------------
(* The replay tool, for any history, blank commits, page and chunk. *)
EXTENDS Replay, TLAPS, FiniteSetTheorems

-----------------------------------------------------------------------------
(* Pages and slices. *)

Descending(s) == \A i, j \in DOMAIN s : i < j => s[i] > s[j]

(* A page holds the commits next to those read, without a gap. *)
LEMMA Page ==
  ASSUME history \in 0..MaxHistory, skip \in 0..history
  PROVE  /\ deltas \in Seq(Commits) /\ Len(deltas) \in 0..(history - skip)
         /\ Descending(deltas)
         /\ Members(deltas) = (history - skip - Len(deltas) + 1)..(history - skip)
         /\ deltas = <<>> => skip = history
<1>. DEFINE n == Smaller(LIMIT, history - skip)
            top == history + 1 - skip
<1>1. /\ history \in Nat /\ skip \in Nat /\ MaxHistory \in Nat /\ LIMIT \in Nat /\ LIMIT # 0
      /\ history <= MaxHistory /\ skip <= history
  BY ReplayAssumption
<1>2. n \in 0..(history - skip) /\ (n = 0 => skip = history) /\ top \in Nat /\ n < top
  BY <1>1 DEF Smaller
<1>3. deltas = [i \in 1..n |-> top - i]
  BY DEF deltas
<1>. HIDE DEF n
<1>4. \A i \in 1..n : top - i \in Commits
  BY <1>1, <1>2 DEF Commits
<1>. HIDE DEF top
<1>5. deltas \in Seq(Commits) /\ Len(deltas) = n /\ DOMAIN deltas = 1..n
  BY <1>2, <1>3, <1>4
<1>6. Descending(deltas)
  BY <1>2, <1>3, <1>5 DEF Descending
<1>7. Members(deltas) = (top - n)..(top - 1)
  <2>1. ASSUME NEW c \in Members(deltas) PROVE c \in (top - n)..(top - 1)
    BY <1>2, <1>3, <1>5 DEF Members
  <2>2. ASSUME NEW c \in (top - n)..(top - 1) PROVE c \in Members(deltas)
    <3>1. top - c \in 1..n /\ top - (top - c) = c
      BY <1>2
    <3>. QED  BY <1>3, <1>5, <3>1 DEF Members
  <2>. QED  BY <2>1, <2>2
<1>8. top - n = history - skip - n + 1 /\ top - 1 = history - skip
  BY <1>1, <1>2 DEF top
<1>9. deltas = <<>> => n = 0
  BY <1>5
<1>. QED  BY <1>2, <1>5, <1>6, <1>7, <1>8, <1>9

LEMMA Cut ==
  ASSUME NEW S, NEW s \in Seq(S), NEW m \in 1..(Len(s) + 1), NEW n \in (m - 1)..Len(s)
  PROVE  /\ SubSeq(s, m, n) \in Seq(S) /\ Len(SubSeq(s, m, n)) = n - m + 1
         /\ \A k \in 1..(n - m + 1) : SubSeq(s, m, n)[k] = s[k + m - 1]
<1>1. SubSeq(s, m, n) \in Seq(S) /\ Len(SubSeq(s, m, n)) = n - m + 1
  OBVIOUS
<1>2. \A k \in 1..(n - m + 1) : SubSeq(s, m, n)[k] = s[k + m - 1]
  OBVIOUS
<1>. QED  BY <1>1, <1>2

(* The first slice and the rest are all of the page, and have no commit in *)
(* common.                                                                 *)
LEMMA Sliced ==
  ASSUME NEW s \in Seq(Commits), Descending(s)
  PROVE  /\ slices(s).first \in Seq(Commits) /\ Len(slices(s).first) <= CHUNK
         /\ slices(s).rest \in Seq(Commits) /\ Descending(slices(s).rest)
         /\ Members(s) = Members(slices(s).first) \cup Members(slices(s).rest)
         /\ Members(slices(s).first) \cap Members(slices(s).rest) = {}
<1>. DEFINE n == Smaller(CHUNK, Len(s))
            first == slices(s).first
            rest == slices(s).rest
<1>1. CHUNK \in Nat /\ Len(s) \in Nat /\ DOMAIN s = 1..Len(s)
  BY ReplayAssumption
<1>2. n \in 0..Len(s) /\ n <= CHUNK /\ (n = Len(s) \/ n = CHUNK)
  BY <1>1 DEF Smaller
<1>3. first = SubSeq(s, 1, n) /\ rest = SubSeq(s, CHUNK + 1, Len(s))
  BY DEF slices
<1>4. rest = SubSeq(s, n + 1, Len(s))
  <2>1. CASE n = CHUNK
    BY <1>3, <2>1
  <2>2. CASE n # CHUNK
    <3>1. n = Len(s) /\ CHUNK + 1 > Len(s)
      BY <1>1, <1>2, <2>2
    <3>2. SubSeq(s, CHUNK + 1, Len(s)) = <<>> /\ SubSeq(s, n + 1, Len(s)) = <<>>
      BY <1>1, <3>1
    <3>. QED  BY <1>3, <3>2
  <2>. QED  BY <2>1, <2>2
<1>. HIDE DEF n, first, rest
<1>n. n \in Nat /\ Len(s) \in Nat /\ 0 <= n /\ n <= Len(s)
  <2>1. Len(s) \in Nat /\ n \in 0..Len(s)
    BY <1>1, <1>2, Zenon
  <2>. QED  BY <2>1
<1>5. /\ first \in Seq(Commits) /\ Len(first) = n /\ DOMAIN first = 1..n
      /\ \A k \in 1..n : first[k] = s[k]
  <2>1. 1 \in 1..(Len(s) + 1) /\ n \in (1 - 1)..Len(s)
    BY <1>1, <1>n
  <2>2. /\ SubSeq(s, 1, n) \in Seq(Commits) /\ Len(SubSeq(s, 1, n)) = n - 1 + 1
        /\ \A k \in 1..(n - 1 + 1) : SubSeq(s, 1, n)[k] = s[k + 1 - 1]
    BY <2>1, Cut
  <2>. QED  BY <1>1, <1>n, <1>3, <2>2
<1>6. /\ rest \in Seq(Commits) /\ DOMAIN rest = 1..(Len(s) - n)
      /\ \A k \in 1..(Len(s) - n) : rest[k] = s[k + n]
  <2>1. n + 1 \in 1..(Len(s) + 1) /\ Len(s) \in ((n + 1) - 1)..Len(s)
    BY <1>1, <1>n
  <2>2. /\ SubSeq(s, n + 1, Len(s)) \in Seq(Commits)
        /\ Len(SubSeq(s, n + 1, Len(s))) = Len(s) - (n + 1) + 1
        /\ \A k \in 1..(Len(s) - (n + 1) + 1) : SubSeq(s, n + 1, Len(s))[k] = s[k + (n + 1) - 1]
    BY <2>1, Cut
  <2>3. /\ Len(s) - (n + 1) + 1 = Len(s) - n
        /\ \A k \in 1..(Len(s) - n) : k + (n + 1) - 1 = k + n
    BY <1>1, <1>n
  <2>. QED  BY <1>4, <2>2, <2>3
<1>7. Descending(rest)
  <2>1. \A k \in DOMAIN rest : k + n \in DOMAIN s /\ rest[k] = s[k + n]
    BY <1>1, <1>n, <1>6
  <2>2. \A i, j \in DOMAIN rest : i < j => i + n < j + n
    BY <1>n, <1>6
  <2>. QED  BY <2>1, <2>2 DEF Descending
<1>8. ASSUME NEW i \in DOMAIN first, NEW j \in DOMAIN rest PROVE first[i] # rest[j]
  <2>1. i \in DOMAIN s /\ j + n \in DOMAIN s /\ i < j + n
    BY <1>1, <1>n, <1>5, <1>6
  <2>2. s[i] > s[j + n]
    BY <2>1 DEF Descending
  <2>3. s[i] \in Nat /\ s[j + n] \in Nat
    <3>1. s[i] \in Commits /\ s[j + n] \in Commits
      BY <2>1
    <3>2. Commits \subseteq Nat
      BY DEF Commits
    <3>. QED  BY <3>1, <3>2
  <2>. QED  BY <1>5, <1>6, <2>2, <2>3
<1>9. Members(s) = Members(first) \cup Members(rest)
  <2>1. ASSUME NEW k \in DOMAIN s PROVE s[k] \in Members(first) \cup Members(rest)
    <3>1. CASE k <= n
      BY <1>1, <1>n, <1>5, <3>1 DEF Members
    <3>2. CASE k > n
      <4>1. k - n \in DOMAIN rest /\ (k - n) + n = k
        BY <1>1, <1>n, <1>6, <3>2
      <4>. QED  BY <1>6, <4>1 DEF Members
    <3>. QED  BY <1>1, <1>n, <3>1, <3>2
  <2>2. \A k \in DOMAIN first : k \in DOMAIN s /\ first[k] = s[k]
    BY <1>1, <1>n, <1>5
  <2>3. \A k \in DOMAIN rest : k + n \in DOMAIN s /\ rest[k] = s[k + n]
    BY <1>1, <1>n, <1>6
  <2>. QED  BY <2>1, <2>2, <2>3 DEF Members
<1>10. Members(first) \cap Members(rest) = {}
  BY <1>8 DEF Members
<1>. QED  BY <1>2, <1>5, <1>6, <1>7, <1>9, <1>10 DEF first, rest
-----------------------------------------------------------------------------

(* How often a commit was read: posted, or about to be. *)
reads(c) == posted[c] + (IF c \in Members(commits) THEN 1 ELSE 0)

(* A commit among those behind the first skip, where the next page starts, *)
(* was read again only for as many commits as pushed it there.             *)
ReadsBounded ==
  \A c \in Commits :
    reads(c) <= (history - started) + (IF c > history - skip THEN 1 ELSE 0)

ReplayInv ==
  /\ ReplayTypeOK
  /\ commits \in Seq(Commits)
  /\ status = "done" => commits = <<>>
  /\ NothingSkipped
  /\ ReadsBounded

LEMMA ReplayInitInv == ReplayInit => ReplayInv
<1>. SUFFICES ASSUME ReplayInit PROVE ReplayInv
  OBVIOUS
<1>1. /\ history \in 0..MaxHistory /\ skip = 0 /\ commits = <<>> /\ chunk = {} /\ out = {}
      /\ status = "running" /\ errors = 0 /\ posted = [c \in Commits |-> 0] /\ started = history
  BY DEF ReplayInit
<1>2. MaxHistory \in Nat /\ DOMAIN <<>> = {}
  BY ReplayAssumption
<1>3. Members(commits) = {} /\ commits \in Seq(Commits)
  BY <1>1, <1>2 DEF Members
<1>4. ReplayTypeOK
  BY <1>1, <1>2, <1>3 DEF ReplayTypeOK
<1>5. NothingSkipped
  BY <1>1, <1>2 DEF NothingSkipped
<1>6. ReadsBounded
  BY <1>1, <1>2, <1>3 DEF ReadsBounded, reads, Commits
<1>. QED  BY <1>1, <1>3, <1>4, <1>5, <1>6 DEF ReplayInv

LEMMA InvNumbers ==
  ASSUME ReplayInv
  PROVE  /\ history \in Nat /\ skip \in Nat /\ started \in Nat /\ MaxHistory \in Nat
         /\ started <= history /\ history <= MaxHistory /\ skip <= history
         /\ \A c \in Commits : c \in Nat /\ c > 0 /\ posted[c] \in Nat
         /\ DOMAIN posted = Commits /\ errors \in Nat
         /\ Members(commits) \subseteq Commits
BY ReplayAssumption DEF ReplayInv, ReplayTypeOK, Commits

LEMMA GrowStep == ReplayInv /\ grow => ReplayInv'
<1>. SUFFICES ASSUME ReplayInv, grow PROVE ReplayInv'
  OBVIOUS
<1>1. /\ history < MaxHistory /\ history' = history + 1
      /\ UNCHANGED <<skip, commits, chunk, out, status, errors, posted, started>>
  BY DEF grow
<1>2. ReplayTypeOK'
  BY <1>1, InvNumbers DEF ReplayInv, ReplayTypeOK
<1>3. NothingSkipped'
  <2>1. ASSUME NEW c \in 1..started, status = "done" \/ c > history' - skip
        PROVE  posted[c] > 0 \/ c \in Members(commits)
    <3>1. status = "done" \/ c > history - skip
      BY <1>1, <2>1, InvNumbers
    <3>. QED  BY <3>1 DEF ReplayInv, NothingSkipped
  <2>. QED  BY <1>1, <2>1 DEF NothingSkipped
<1>4. ReadsBounded'
  <2>1. ASSUME NEW c \in Commits
        PROVE  reads(c) <= (history' - started) + (IF c > history' - skip THEN 1 ELSE 0)
    <3>1. reads(c) <= (history - started) + (IF c > history - skip THEN 1 ELSE 0)
      BY DEF ReplayInv, ReadsBounded
    <3>2. reads(c) \in Nat
      BY InvNumbers DEF reads
    <3>. QED  BY <1>1, <3>1, <3>2, InvNumbers
  <2>. QED  BY <1>1, <2>1 DEF ReadsBounded, reads
<1>. QED  BY <1>1, <1>2, <1>3, <1>4 DEF ReplayInv

LEMMA FetchStep == ReplayInv /\ fetch => ReplayInv'
<1>. SUFFICES ASSUME ReplayInv, fetch PROVE ReplayInv'
  OBVIOUS
<1>. DEFINE n == Len(deltas)
<1>1. /\ commits = <<>> /\ chunk = {} /\ status = "running"
      /\ commits' = deltas /\ skip' = skip + n
      /\ status' = IF deltas = <<>> THEN "done" ELSE "running"
      /\ UNCHANGED <<history, chunk, out, errors, posted, started>>
  BY DEF fetch, idle, awaited, read, atEnd
<1>2. /\ deltas \in Seq(Commits) /\ n \in 0..(history - skip) /\ Descending(deltas)
      /\ Members(deltas) = (history - skip - n + 1)..(history - skip)
      /\ deltas = <<>> => skip = history
  <2>1. history \in 0..MaxHistory /\ skip \in 0..history
    BY InvNumbers
  <2>. QED  BY <2>1, Page
<1>3. DOMAIN <<>> = {}
  OBVIOUS
<1>4. Members(commits) = {}
  BY <1>1, <1>3 DEF Members
<1>5. Members(deltas) \subseteq Commits
  BY <1>2 DEF Members
<1>. HIDE DEF n
<1>6. ReplayTypeOK'
  <2>1. skip' \in 0..history' /\ Members(commits') \subseteq Commits
    BY <1>1, <1>2, <1>5, InvNumbers
  <2>2. \A i, j \in DOMAIN commits' : i < j => commits'[i] > commits'[j]
    BY <1>1, <1>2 DEF Descending
  <2>3. status' \in {"running", "done", "stopped"}
    BY <1>1
  <2>. QED  BY <1>1, <2>1, <2>2, <2>3 DEF ReplayInv, ReplayTypeOK
<1>7. NothingSkipped'
  <2>1. ASSUME NEW c \in 1..started, status' = "done" \/ c > history - skip'
        PROVE  posted[c] > 0 \/ c \in Members(deltas)
    <3>0. c \in Nat /\ c > 0
      OBVIOUS
    <3>1. CASE c > history - skip
      BY <1>4, <3>1 DEF ReplayInv, NothingSkipped
    <3>2. CASE ~ (c > history - skip)
      <4>1. deltas # <<>>
        BY <1>2, <3>0, <3>2, InvNumbers
      <4>2. c > history - skip'
        BY <1>1, <2>1, <4>1
      <4>3. c \in (history - skip - n + 1)..(history - skip)
        BY <1>1, <1>2, <3>0, <3>2, <4>2, InvNumbers
      <4>. QED  BY <1>2, <4>3
    <3>. QED  BY <3>1, <3>2
  <2>. QED  BY <1>1, <2>1 DEF NothingSkipped
<1>8. ReadsBounded'
  <2>1. ASSUME NEW c \in Commits
        PROVE  posted[c] + (IF c \in Members(deltas) THEN 1 ELSE 0)
                 <= (history - started) + (IF c > history - skip' THEN 1 ELSE 0)
    <3>1. posted[c] <= (history - started) + (IF c > history - skip THEN 1 ELSE 0)
      <4>1. reads(c) = posted[c]
        BY <1>4, InvNumbers DEF reads
      <4>. QED  BY <4>1 DEF ReplayInv, ReadsBounded
    <3>2. c \in Members(deltas) <=> c > history - skip' /\ ~ (c > history - skip)
      <4>1. c \in Members(deltas) <=> c \in (history - skip - n + 1)..(history - skip)
        BY <1>2, Zenon
      <4>2. /\ n \in 0..(history - skip) /\ skip' = skip + n
            /\ c \in Nat /\ history \in Nat /\ skip \in Nat /\ skip <= history
        BY <1>1, <1>2, InvNumbers
      <4>3. c \in (history - skip - n + 1)..(history - skip)
              <=> c > history - skip' /\ ~ (c > history - skip)
        BY <4>2
      <4>. QED  BY <4>1, <4>3
    <3>3. c > history - skip => c > history - skip'
      BY <1>1, <1>2, InvNumbers
    <3>. QED  BY <3>1, <3>2, <3>3, InvNumbers
  <2>. QED  BY <1>1, <2>1 DEF ReadsBounded, reads
<1>. QED  BY <1>1, <1>2, <1>6, <1>7, <1>8 DEF ReplayInv

LEMMA ReplayStep == ReplayInv /\ replay => ReplayInv'
<1>. SUFFICES ASSUME ReplayInv, replay PROVE ReplayInv'
  OBVIOUS
<1>. DEFINE these == Members(slices(commits).first)
            rest == slices(commits).rest
            posts == {<<c, posted[c] + 1>> : c \in these \ Blank}
<1>1. /\ commits # <<>> /\ chunk = {} /\ status = "running"
      /\ commits' = rest
      /\ posted' = [c \in Commits |-> IF c \in these THEN posted[c] + 1 ELSE posted[c]]
      /\ chunk' = posts /\ out' = out \cup posts
      /\ UNCHANGED <<history, skip, status, errors, started>>
  BY DEF replay, awaited
<1>2. /\ rest \in Seq(Commits) /\ Descending(rest)
      /\ Members(commits) = these \cup Members(rest) /\ these \cap Members(rest) = {}
  <2>1. commits \in Seq(Commits) /\ Descending(commits)
    BY DEF ReplayInv, ReplayTypeOK, Descending
  <2>. QED  BY <2>1, Sliced
<1>. HIDE DEF these, rest
<1>3. these \subseteq Commits /\ Members(rest) \subseteq Commits
  BY <1>2, InvNumbers
<1>4. ASSUME NEW c \in Commits
      PROVE  /\ posted[c] \in Nat /\ posted'[c] \in posted[c]..(posted[c] + 1)
             /\ c \in these => posted'[c] = posted[c] + 1
             /\ reads(c)' = reads(c) /\ reads(c) \in posted'[c]..(posted'[c] + 1)
  <2>1. posted[c] \in Nat /\ posted'[c] = IF c \in these THEN posted[c] + 1 ELSE posted[c]
    BY <1>1, InvNumbers
  <2>2. /\ reads(c) = posted[c] + (IF c \in these \/ c \in Members(rest) THEN 1 ELSE 0)
        /\ reads(c)' = posted'[c] + (IF c \in Members(rest) THEN 1 ELSE 0)
        /\ ~ (c \in these /\ c \in Members(rest))
    BY <1>1, <1>2 DEF reads
  <2>. QED  BY <2>1, <2>2
<1>5. ReadsBounded'
  <2>1. \A c \in Commits : reads(c)' = reads(c)
    BY <1>4
  <2>. QED  BY <1>1, <2>1 DEF ReplayInv, ReadsBounded
<1>6. NothingSkipped'
  <2>1. ASSUME NEW c \in 1..started, status = "done" \/ c > history - skip
        PROVE  posted'[c] > 0 \/ c \in Members(rest)
    <3>1. c \in Commits
      BY InvNumbers DEF Commits
    <3>2. posted[c] > 0 \/ c \in these \/ c \in Members(rest)
      BY <1>2, <2>1 DEF ReplayInv, NothingSkipped
    <3>3. posted[c] \in Nat /\ posted'[c] \in posted[c]..(posted[c] + 1) /\ (c \in these => posted'[c] = posted[c] + 1)
      BY <1>4, <3>1
    <3>. QED  BY <3>2, <3>3
  <2>. QED  BY <1>1, <2>1 DEF NothingSkipped
<1>7. ReplayTypeOK'
  <2>1. posted' \in [Commits -> 0..(MaxHistory + 1)]
    <3>1. ASSUME NEW c \in Commits
          PROVE  (IF c \in these THEN posted[c] + 1 ELSE posted[c]) \in 0..(MaxHistory + 1)
      <4>1. /\ posted[c] \in Nat /\ posted'[c] \in posted[c]..(posted[c] + 1)
            /\ reads(c) \in posted'[c]..(posted'[c] + 1)
        BY <1>4
      <4>2. reads(c) <= (history - started) + 1 /\ history - started <= MaxHistory
        <5>1. reads(c) <= (history - started) + (IF c > history - skip THEN 1 ELSE 0)
          BY DEF ReplayInv, ReadsBounded
        <5>2. reads(c) \in Nat
          BY InvNumbers DEF reads
        <5>. QED  BY <5>1, <5>2, InvNumbers
      <4>3. posted'[c] = IF c \in these THEN posted[c] + 1 ELSE posted[c]
        BY <1>1
      <4>4. posted'[c] \in 0..(MaxHistory + 1)
        BY <4>1, <4>2, InvNumbers
      <4>. QED  BY <4>3, <4>4
    <3>. QED  BY <1>1, <3>1
  <2>2. \A p \in out' : p[1] \in Commits \ Blank /\ p[2] \in 1..posted'[p[1]]
    <3>1. ASSUME NEW p \in out PROVE p[1] \in Commits \ Blank /\ p[2] \in 1..posted'[p[1]]
      <4>1. p[1] \in Commits \ Blank /\ p[2] \in 1..posted[p[1]]
        BY DEF ReplayInv, ReplayTypeOK
      <4>2. posted[p[1]] \in Nat /\ posted'[p[1]] \in posted[p[1]]..(posted[p[1]] + 1)
        BY <1>4, <4>1
      <4>. QED  BY <4>1, <4>2
    <3>2. ASSUME NEW c \in these \ Blank
          PROVE  c \in Commits \ Blank /\ posted[c] + 1 \in 1..posted'[c]
      <4>1. posted[c] \in Nat /\ posted'[c] = posted[c] + 1 /\ c \in Commits \ Blank
        BY <1>3, <1>4
      <4>. QED  BY <4>1
    <3>. QED  BY <1>1, <3>1, <3>2
  <2>3. chunk' \subseteq out' /\ Members(commits') \subseteq Commits
    BY <1>1, <1>3
  <2>4. \A i, j \in DOMAIN commits' : i < j => commits'[i] > commits'[j]
    BY <1>1, <1>2 DEF Descending
  <2>. QED  BY <1>1, <2>1, <2>2, <2>3, <2>4 DEF ReplayInv, ReplayTypeOK
<1>. QED  BY <1>1, <1>2, <1>5, <1>6, <1>7 DEF ReplayInv

(* The other steps only settle posts and end the run. *)
LEMMA SettledStep ==
  ASSUME ReplayInv, UNCHANGED <<history, skip, commits, posted, started>>,
         status' \in {status, "stopped"},
         out' \subseteq out, chunk' \subseteq out', errors' \in Nat
  PROVE  ReplayInv'
<1>1. ReplayTypeOK'
  BY DEF ReplayInv, ReplayTypeOK
<1>2. status' = "done" => status = "done"
  OBVIOUS
<1>3. NothingSkipped' /\ ReadsBounded'
  BY <1>2 DEF ReplayInv, NothingSkipped, ReadsBounded, reads
<1>. QED  BY <1>1, <1>2, <1>3 DEF ReplayInv

LEMMA ReplayInvStep == ReplayInv /\ [ReplayNext]_vars => ReplayInv'
<1>. SUFFICES ASSUME ReplayInv, [ReplayNext]_vars PROVE ReplayInv'
  OBVIOUS
<1>0. chunk \subseteq out /\ errors \in Nat
  BY DEF ReplayInv, ReplayTypeOK
<1>1. CASE grow
  BY <1>1, GrowStep
<1>2. CASE fetch
  BY <1>2, FetchStep
<1>3. CASE fetchFails
  BY <1>0, <1>3, SettledStep DEF fetchFails
<1>4. CASE replay
  BY <1>4, ReplayStep
<1>5. ASSUME NEW post \in out, answered(post) PROVE ReplayInv'
  BY <1>0, <1>5, SettledStep DEF answered
<1>6. ASSUME NEW post \in out, failed(post) PROVE ReplayInv'
  <2>1. /\ out' = out \ {post} /\ chunk' = IF post \in chunk THEN {} ELSE chunk
        /\ errors' \in Nat /\ UNCHANGED <<history, skip, commits, status, posted, started>>
    BY <1>0, <1>6 DEF failed
  <2>. QED  BY <1>0, <2>1, SettledStep
<1>7. CASE UNCHANGED vars
  BY <1>0, <1>7, SettledStep DEF vars
<1>. QED  BY <1>1, <1>2, <1>3, <1>4, <1>5, <1>6, <1>7 DEF ReplayNext

LEMMA ReplayInvariant == ReplaySpec => []ReplayInv
BY ReplayInitInv, ReplayInvStep, PTL DEF ReplaySpec

(* The tool waits only for posts that are out and reads in order, never    *)
(* past the end.                                                           *)
THEOREM ReplayTypeCorrect == ReplaySpec => []ReplayTypeOK
<1>1. ReplayInv => ReplayTypeOK
  BY DEF ReplayInv
<1>. QED  BY <1>1, ReplayInvariant, PTL

(* What the node knew when the run began is posted when it is done, even   *)
(* if the pages move and posts fail.                                       *)
THEOREM NothingIsSkipped == ReplaySpec => []NothingSkipped
<1>1. ReplayInv => NothingSkipped
  BY DEF ReplayInv
<1>. QED  BY <1>1, ReplayInvariant, PTL

(* No commit is posted more often than the history grew, and once more.    *)
THEOREM RepeatsAreGrowth == ReplaySpec => []RepeatedOnlyIfGrown
<1>1. ASSUME ReplayInv, NEW c \in Commits PROVE posted[c] <= 1 + (history - started)
  <2>1. reads(c) <= (history - started) + (IF c > history - skip THEN 1 ELSE 0)
    BY <1>1 DEF ReplayInv, ReadsBounded
  <2>2. posted[c] \in Nat /\ reads(c) \in posted[c]..(posted[c] + 1)
    BY <1>1, InvNumbers DEF reads
  <2>. QED  BY <1>1, <2>1, <2>2, InvNumbers
<1>2. ReplayInv => RepeatedOnlyIfGrown
  BY <1>1 DEF RepeatedOnlyIfGrown
<1>. QED  BY <1>2, ReplayInvariant, PTL
-----------------------------------------------------------------------------
(* How many posts are out. *)

(* No more posts in a chunk than there are places in it. *)
LEMMA ChunkSize ==
  ASSUME NEW first \in Seq(Commits), Len(first) <= CHUNK
  PROVE  LET posts == {<<c, posted[c] + 1>> : c \in Members(first) \ Blank}
         IN  IsFiniteSet(posts) /\ Cardinality(posts) <= CHUNK
<1>. DEFINE posts == {<<c, posted[c] + 1>> : c \in Members(first) \ Blank}
            places == {i \in 1..Len(first) : first[i] \notin Blank}
            f == [i \in places |-> <<first[i], posted[first[i]] + 1>>]
<1>0. Len(first) \in Nat /\ DOMAIN first = 1..Len(first) /\ CHUNK \in Nat
  BY ReplayAssumption
<1>1. IsFiniteSet(1..Len(first)) /\ Cardinality(1..Len(first)) = Len(first)
  <2>1. 1 \in Int /\ Len(first) \in Int /\ (1 > Len(first) => Len(first) = 0) /\ Len(first) - 1 + 1 = Len(first)
    BY <1>0
  <2>. QED  BY <2>1, FS_Interval
<1>2. places \in SUBSET (1..Len(first))
  OBVIOUS
<1>3. IsFiniteSet(places) /\ Cardinality(places) <= Len(first)
  BY <1>1, <1>2, FS_Subset
<1>4. f \in Surjection(places, posts)
  <2>1. \A i \in places : f[i] \in posts
    BY <1>0 DEF Members
  <2>2. \A p \in posts : \E i \in places : f[i] = p
    BY <1>0 DEF Members
  <2>. QED  BY <2>1, <2>2 DEF Surjection
<1>. HIDE DEF f, posts, places
<1>5. IsFiniteSet(posts) /\ Cardinality(posts) <= Cardinality(places)
  BY <1>3, <1>4, FS_Surjection
<1>6. Cardinality(posts) \in Nat /\ Cardinality(places) \in Nat
  BY <1>3, <1>5, FS_CardinalityType
<1>. QED  BY <1>0, <1>3, <1>5, <1>6 DEF posts

(* The chunk has its size, and a chunk that failed left all but one of its *)
(* posts behind.                                                           *)
Counted ==
  /\ IsFiniteSet(out)
  /\ Cardinality(chunk) <= CHUNK
  /\ Cardinality(out \ chunk) <= errors * (CHUNK - 1)

LEMMA SmallerSet ==
  ASSUME NEW S, IsFiniteSet(S), NEW T, T \subseteq S
  PROVE  /\ IsFiniteSet(T) /\ Cardinality(T) \in Nat /\ Cardinality(S) \in Nat
         /\ Cardinality(T) <= Cardinality(S)
BY FS_Subset, FS_CardinalityType

LEMMA CountedStep == ReplayInv /\ Counted /\ [ReplayNext]_vars => Counted'
<1>. SUFFICES ASSUME ReplayInv, Counted, [ReplayNext]_vars PROVE Counted'
  OBVIOUS
<1>0. /\ chunk \subseteq out /\ errors \in Nat /\ CHUNK \in Nat /\ CHUNK >= 1
      /\ IsFiniteSet(out) /\ IsFiniteSet(chunk) /\ IsFiniteSet(out \ chunk)
      /\ Cardinality(chunk) \in Nat /\ Cardinality(chunk) <= CHUNK
      /\ Cardinality(out \ chunk) \in Nat /\ Cardinality(out \ chunk) <= errors * (CHUNK - 1)
  <2>1. chunk \subseteq out /\ errors \in Nat /\ CHUNK \in Nat /\ CHUNK >= 1
    BY ReplayAssumption DEF ReplayInv, ReplayTypeOK
  <2>2. out \ chunk \subseteq out
    OBVIOUS
  <2>. QED  BY <2>1, <2>2, SmallerSet DEF Counted
<1>1. CASE replay
  <2>. DEFINE posts == {<<c, posted[c] + 1>> : c \in Members(slices(commits).first) \ Blank}
  <2>1. chunk = {} /\ chunk' = posts /\ out' = out \cup posts /\ errors' = errors
    BY <1>1 DEF replay, awaited
  <2>2. commits \in Seq(Commits) /\ Descending(commits)
    BY DEF ReplayInv, ReplayTypeOK, Descending
  <2>3. IsFiniteSet(posts) /\ Cardinality(posts) <= CHUNK
    BY <2>2, Sliced, ChunkSize
  <2>. HIDE DEF posts
  <2>4. IsFiniteSet(out') /\ out' \ chunk' \subseteq out \ chunk
    BY <1>0, <2>1, <2>3, FS_Union
  <2>5. /\ Cardinality(out' \ chunk') \in Nat
        /\ Cardinality(out' \ chunk') <= Cardinality(out \ chunk)
    BY <1>0, <2>4, SmallerSet
  <2>6. Cardinality(out' \ chunk') <= errors * (CHUNK - 1)
    BY <1>0, <2>5
  <2>. QED  BY <2>1, <2>3, <2>4, <2>6 DEF Counted
<1>2. ASSUME NEW post \in out, answered(post) PROVE Counted'
  <2>1. out' = out \ {post} /\ chunk' = chunk \ {post} /\ errors' = errors
    BY <1>2 DEF answered
  <2>2. out' \subseteq out /\ chunk' \subseteq chunk /\ out' \ chunk' \subseteq out \ chunk
    BY <2>1
  <2>3. /\ IsFiniteSet(out') /\ Cardinality(chunk') \in Nat /\ Cardinality(chunk') <= Cardinality(chunk)
        /\ Cardinality(out' \ chunk') \in Nat /\ Cardinality(out' \ chunk') <= Cardinality(out \ chunk)
    BY <1>0, <2>2, SmallerSet
  <2>4. Cardinality(chunk') <= CHUNK /\ Cardinality(out' \ chunk') <= errors * (CHUNK - 1)
    BY <1>0, <2>3
  <2>. QED  BY <2>1, <2>3, <2>4 DEF Counted
<1>3. ASSUME NEW post \in out, failed(post), post \in chunk PROVE Counted'
  <2>1. out' = out \ {post} /\ chunk' = {} /\ errors' = errors + 1
    BY <1>3 DEF failed
  <2>2. out' = (out \ chunk) \cup (chunk \ {post}) /\ (out \ chunk) \cap (chunk \ {post}) = {}
    BY <1>0, <1>3, <2>1
  <2>3. IsFiniteSet(chunk \ {post}) /\ Cardinality(chunk \ {post}) = Cardinality(chunk) - 1
    BY <1>0, <1>3, FS_RemoveElement
  <2>4. /\ IsFiniteSet(out')
        /\ Cardinality(out') = Cardinality(out \ chunk) + (Cardinality(chunk) - 1) - 0
    BY <1>0, <2>2, <2>3, FS_Union, FS_EmptySet
  <2>5. out' \ chunk' = out' /\ Cardinality(chunk') = 0
    BY <2>1, FS_EmptySet
  <2>6. (errors + 1) * (CHUNK - 1) = errors * (CHUNK - 1) + (CHUNK - 1)
    BY <1>0
  <2>7. Cardinality(out') <= (errors + 1) * (CHUNK - 1) /\ 0 <= CHUNK
    BY <1>0, <2>4, <2>6
  <2>. QED  BY <2>1, <2>4, <2>5, <2>7 DEF Counted
<1>4. ASSUME NEW post \in out, failed(post), post \notin chunk PROVE Counted'
  <2>1. out' = out \ {post} /\ chunk' = chunk /\ errors' = errors
    BY <1>4 DEF failed
  <2>2. out' \subseteq out /\ out' \ chunk' \subseteq out \ chunk
    BY <2>1
  <2>3. /\ IsFiniteSet(out')
        /\ Cardinality(out' \ chunk') \in Nat /\ Cardinality(out' \ chunk') <= Cardinality(out \ chunk)
    BY <1>0, <2>2, SmallerSet
  <2>4. Cardinality(out' \ chunk') <= errors * (CHUNK - 1)
    BY <1>0, <2>3
  <2>. QED  BY <1>0, <2>1, <2>3, <2>4 DEF Counted
<1>5. CASE UNCHANGED <<chunk, out, errors>>
  BY <1>5 DEF Counted
<1>. QED  BY <1>1, <1>2, <1>3, <1>4, <1>5 DEF ReplayNext, grow, fetch, fetchFails, vars

(* However posts fail or hang, no more are out than the chunks allow.      *)
THEOREM NotTooManyOut == ReplaySpec => []FewAtATime
<1>1. ReplayInit => Counted
  <2>1. ASSUME ReplayInit PROVE chunk = {} /\ out = {} /\ errors = 0
    BY <2>1 DEF ReplayInit
  <2>2. IsFiniteSet({}) /\ Cardinality({}) = 0 /\ 0 <= CHUNK /\ 0 <= 0 * (CHUNK - 1)
    BY FS_EmptySet, ReplayAssumption
  <2>3. {} \ {} = {}
    OBVIOUS
  <2>. QED  BY <2>1, <2>2, <2>3 DEF Counted
<1>2. ASSUME ReplayInv, Counted PROVE FewAtATime
  <2>1. chunk \subseteq out /\ errors \in Nat /\ CHUNK \in Nat /\ IsFiniteSet(out)
    BY <1>2, ReplayAssumption DEF ReplayInv, ReplayTypeOK, Counted
  <2>2. out = (out \ chunk) \cup chunk /\ (out \ chunk) \cap chunk = {} /\ out \ chunk \subseteq out
    BY <2>1
  <2>3. /\ IsFiniteSet(chunk) /\ IsFiniteSet(out \ chunk)
        /\ Cardinality(chunk) \in Nat /\ Cardinality(out \ chunk) \in Nat
    BY <2>1, <2>2, SmallerSet
  <2>4. Cardinality(out) = Cardinality(out \ chunk) + Cardinality(chunk) - 0
    BY <2>2, <2>3, FS_Union, FS_EmptySet
  <2>5. Cardinality(chunk) <= CHUNK /\ Cardinality(out \ chunk) <= errors * (CHUNK - 1)
    BY <1>2 DEF Counted
  <2>6. Cardinality(out) <= CHUNK + errors * (CHUNK - 1)
    BY <2>1, <2>3, <2>4, <2>5
  <2>. QED  BY <2>6 DEF FewAtATime
<1>. QED  BY <1>1, <1>2, ReplayInvariant, CountedStep, ReplayInitInv, ReplayInvStep, PTL DEF ReplaySpec
=============================================================================

--------------------------- MODULE FollowsProofs ---------------------------
(* Who follows whom, for any users, payloads and lengths.                  *)
EXTENDS Follows, TLAPS, WellFoundedInduction

-----------------------------------------------------------------------------
(* Loops over a vector. *)

(* A nonempty set of numbers has a smallest one. *)
LEMMA SmallestNumber ==
  ASSUME NEW T \in SUBSET Nat, T # {}
  PROVE  \E n \in T : \A m \in T : ~ (m < n)
<1>1. PICK n \in T : \A m \in T : ~ (<<m, n>> \in OpToRel(<, Nat))
  BY NatLessThanWellFounded, WFMin
<1>2. \A m \in T : m < n => <<m, n>> \in OpToRel(<, Nat)
  BY DEF OpToRel
<1>. QED  BY <1>1, <1>2

(* What holds before a loop and is kept by each of its rounds holds after  *)
(* every round.                                                            *)
LEMMA EveryRound ==
  ASSUME NEW N \in Nat, NEW Holds, 0 \in Holds,
         \A n \in 0..(N - 1) : n \in Holds => n + 1 \in Holds
  PROVE  \A n \in 0..N : n \in Holds
<1>. DEFINE Broken == {n \in 0..N : n \notin Holds}
<1>1. SUFFICES ASSUME Broken # {} PROVE FALSE
  OBVIOUS
<1>2. PICK n \in Broken : \A m \in Broken : ~ (m < n)
  <2>1. Broken \in SUBSET Nat
    OBVIOUS
  <2>. HIDE DEF Broken
  <2>. QED  BY <1>1, <2>1, SmallestNumber
<1>3. n \in 1..N /\ n - 1 \in 0..(N - 1) /\ n - 1 < n /\ (n - 1) + 1 = n
  BY <1>2
<1>4. n - 1 \in Holds
  BY <1>2, <1>3
<1>. QED  BY <1>2, <1>3, <1>4

(* The fold over 1..(n + 1) takes n + 1 first and leaves 1..n. *)
LEMMA LargestOfPrefix ==
  ASSUME NEW n \in Nat, NEW T \in SUBSET (1..(n + 1)), n + 1 \in T
  PROVE  Max(T) = n + 1 /\ T \ {Max(T)} \in SUBSET (1..n)
<1>1. \A x \in T : (\A y \in T : x >= y) <=> x = n + 1
  OBVIOUS
<1>2. Max(T) = n + 1
  BY <1>1 DEF Max
<1>. QED  BY <1>2

LEMMA LargestIn ==
  ASSUME NEW N \in Nat, NEW T \in SUBSET (1..N), T # {}
  PROVE  Max(T) \in T
<1>. DEFINE Behind == {b \in 0..N : N - b \in T}
<1>1. PICK y \in T : TRUE
  OBVIOUS
<1>2. y \in 1..N /\ N - y \in 0..N /\ N - (N - y) = y
  OBVIOUS
<1>3. Behind \in SUBSET Nat /\ N - y \in Behind
  BY <1>1, <1>2
<1>4. PICK b \in Behind : \A c \in Behind : ~ (c < b)
  <2>. HIDE DEF Behind
  <2>. QED  BY <1>3, SmallestNumber
<1>5. N - b \in T
  BY <1>4
<1>6. ASSUME NEW z \in T PROVE N - b >= z
  <2>1. z \in 1..N /\ N - z \in 0..N /\ N - (N - z) = z
    OBVIOUS
  <2>2. N - z \in Behind /\ b \in 0..N
    BY <1>4, <2>1
  <2>3. ~ (N - z < b)
    BY <1>4, <2>2
  <2>. HIDE DEF Behind
  <2>. QED  BY <2>1, <2>2, <2>3
<1>. QED  BY <1>5, <1>6, Zenon DEF Max

(* The table a fold is defined by: for each set of positions what the fold *)
(* over it gives, where Round[<<so far, i>>] is what a round makes.        *)
IsFoldTable(t, S, base, Round, N) ==
  /\ t[{}] = base
  /\ \A P \in SUBSET (1..N) :
       P # {} /\ t[P \ {Max(P)}] \in S => t[P] = Round[<<t[P \ {Max(P)}], Max(P)>>]

(* The same read at 1..n for every n: what is there after each round. *)
HasRounds(t, S, base, Round, N) ==
  \E after \in [0..N -> S] :
    /\ after[0] = base
    /\ \A n \in 0..(N - 1) : after[n + 1] = Round[<<after[n], n + 1>>]
    /\ t[1..N] = after[N]

LEMMA FoldTable ==
  ASSUME NEW S, NEW base \in S, NEW N \in Nat, NEW Round \in [S \X (1..N) -> S]
  PROVE  \E t \in [SUBSET (1..N) -> S] : IsFoldTable(t, S, base, Round, N)
<1>. DEFINE Table(t, n) ==
              t = [T \in SUBSET (1..n) |->
                     IF T = {} THEN base ELSE Round[<<t[T \ {Max(T)}], Max(T)>>]]
            Holds == {n \in 0..N : \E t \in [SUBSET (1..n) -> S] : Table(t, n)}
<1>1. 0 \in Holds
  <2>. DEFINE t == [T \in SUBSET (1..0) |-> base]
  <2>1. \A T \in SUBSET (1..0) : T = {}
    OBVIOUS
  <2>2. t \in [SUBSET (1..0) -> S] /\ Table(t, 0)
    BY <2>1
  <2>. QED  BY <2>2
<1>2. ASSUME NEW n \in 0..(N - 1), n \in Holds PROVE n + 1 \in Holds
  <2>1. PICK t \in [SUBSET (1..n) -> S] : Table(t, n)
    BY <1>2
  <2>. DEFINE u == [T \in SUBSET (1..(n + 1)) |->
                      IF n + 1 \in T THEN Round[<<t[T \ {n + 1}], n + 1>>] ELSE t[T]]
  <2>2. n \in Nat /\ n + 1 \in 1..N /\ n + 1 \in 0..N /\ 1..n \subseteq 1..(n + 1) /\ n + 1 \notin 1..n
    OBVIOUS
  <2>3. \A T \in SUBSET (1..(n + 1)) : n + 1 \notin T => T \in SUBSET (1..n)
    BY <2>2
  <2>4. \A T \in SUBSET (1..(n + 1)) : T \ {n + 1} \in SUBSET (1..n)
    BY <2>2
  <2>5. u \in [SUBSET (1..(n + 1)) -> S]
    BY <2>1, <2>2, <2>3, <2>4
  <2>6. \A T \in SUBSET (1..n) : u[T] = t[T]
    BY <2>2
  <2>7. ASSUME NEW T \in SUBSET (1..(n + 1))
        PROVE  u[T] = IF T = {} THEN base ELSE Round[<<u[T \ {Max(T)}], Max(T)>>]
    <3>1. CASE n + 1 \in T
      <4>1. Max(T) = n + 1 /\ T \ {Max(T)} \in SUBSET (1..n)
        BY <2>2, <3>1, LargestOfPrefix
      <4>2. u[T] = Round[<<t[T \ {n + 1}], n + 1>>]
        BY <3>1
      <4>. QED  BY <2>6, <3>1, <4>1, <4>2
    <3>2. CASE n + 1 \notin T
      <4>1. T \in SUBSET (1..n) /\ T \ {Max(T)} \in SUBSET (1..n)
        BY <2>3, <3>2
      <4>2. t[T] = IF T = {} THEN base ELSE Round[<<t[T \ {Max(T)}], Max(T)>>]
        BY <2>1, <4>1
      <4>. QED  BY <2>6, <4>1, <4>2
    <3>. QED  BY <3>1, <3>2
  <2>8. Table(u, n + 1)
    BY <2>7
  <2>. QED  BY <2>2, <2>5, <2>8
<1>3. N \in 0..N
  OBVIOUS
<1>. HIDE DEF Holds
<1>4. N \in Holds
  BY <1>1, <1>2, <1>3, EveryRound
<1>5. PICK t \in [SUBSET (1..N) -> S] : Table(t, N)
  BY <1>4 DEF Holds
<1>6. \A P \in SUBSET (1..N) :
        t[P] = IF P = {} THEN base ELSE Round[<<t[P \ {Max(P)}], Max(P)>>]
  BY <1>5
<1>7. t[{}] = base
  BY <1>6
<1>. QED  BY <1>6, <1>7 DEF IsFoldTable

LEMMA TableRounds ==
  ASSUME NEW S, NEW base \in S, NEW N \in Nat, NEW Round \in [S \X (1..N) -> S],
         NEW t, IsFoldTable(t, S, base, Round, N)
  PROVE  HasRounds(t, S, base, Round, N)
<1>. DEFINE after == [n \in 0..N |-> t[1..n]]
            Holds == {n \in 0..N : after[n] \in S}
<1>1. after[0] = base
  <2>1. 1..0 = {} /\ 0 \in 0..N
    OBVIOUS
  <2>. QED  BY <2>1 DEF IsFoldTable
<1>2. ASSUME NEW n \in 0..(N - 1), after[n] \in S
      PROVE  after[n + 1] = Round[<<after[n], n + 1>>] /\ after[n + 1] \in S
  <2>1. n \in Nat /\ n \in 0..N /\ n + 1 \in 0..N /\ n + 1 \in 1..N
    OBVIOUS
  <2>2. n + 1 \in 1..(n + 1) /\ 1..(n + 1) \in SUBSET (1..N) /\ (1..(n + 1)) \ {n + 1} = 1..n
    BY <2>1
  <2>3. Max(1..(n + 1)) = n + 1
    BY <2>1, <2>2, LargestOfPrefix
  <2>4. after[n] = t[1..n] /\ after[n + 1] = t[1..(n + 1)]
    BY <2>1
  <2>. HIDE DEF after
  <2>5. after[n + 1] = Round[<<after[n], n + 1>>]
    BY <1>2, <2>1, <2>2, <2>3, <2>4, Zenon DEF IsFoldTable
  <2>6. <<after[n], n + 1>> \in S \X (1..N)
    BY <1>2, <2>1
  <2>. QED  BY <2>5, <2>6
<1>3. 0 \in Holds /\ \A n \in 0..(N - 1) : n \in Holds => n + 1 \in Holds
  <2>1. 0 \in 0..N /\ \A n \in 0..(N - 1) : n + 1 \in 0..N
    OBVIOUS
  <2>. HIDE DEF after
  <2>. QED  BY <1>1, <1>2, <2>1
<1>. HIDE DEF Holds
<1>4. \A n \in 0..N : n \in Holds
  BY <1>3, EveryRound
<1>5. after \in [0..N -> S] /\ t[1..N] = after[N]
  BY <1>4 DEF Holds
<1>6. \A n \in 0..(N - 1) : after[n] \in S
  BY <1>5
<1>. HIDE DEF after
<1>. QED  BY <1>1, <1>2, <1>5, <1>6 DEF HasRounds

-----------------------------------------------------------------------------
(* Who is in a list. *)

LEMMA Members ==
  ASSUME NEW T, NEW s \in Seq(T)
  PROVE  /\ ToSet(s) \subseteq T /\ ToSet(<<>>) = {}
         /\ \A x : Contains(s, x) <=> x \in ToSet(s)
<1>1. DOMAIN s = 1..Len(s) /\ \A i \in 1..Len(s) : s[i] \in T
  OBVIOUS
<1>2. DOMAIN <<>> = {}
  OBVIOUS
<1>. QED  BY <1>1, <1>2, Zenon DEF ToSet, Contains

LEMMA Appended ==
  ASSUME NEW T, NEW s \in Seq(T), NEW x \in T
  PROVE  /\ ToSet(Append(s, x)) = ToSet(s) \cup {x}
         /\ IsInjective(s) /\ x \notin ToSet(s) => IsInjective(Append(s, x))
<1>. DEFINE t == Append(s, x)
<1>1. /\ DOMAIN t = DOMAIN s \cup {Len(s) + 1}
      /\ t[Len(s) + 1] = x
      /\ \A i \in DOMAIN s : t[i] = s[i]
  OBVIOUS
<1>. HIDE DEF t
<1>2. ToSet(t) = ToSet(s) \cup {x}
  BY <1>1, Zenon DEF ToSet
<1>3. ASSUME IsInjective(s), x \notin ToSet(s),
             NEW a \in DOMAIN t, NEW b \in DOMAIN t, t[a] = t[b]
      PROVE  a = b
  BY <1>1, <1>3, Zenon DEF IsInjective, ToSet
<1>. QED  BY <1>2, <1>3 DEF IsInjective, t

LEMMA Concatenated ==
  ASSUME NEW T, NEW s \in Seq(T), NEW t \in Seq(T)
  PROVE  /\ s \o t \in Seq(T)
         /\ ToSet(s \o t) = ToSet(s) \cup ToSet(t)
         /\ IsInjective(s) /\ IsInjective(t) /\ ToSet(s) \cap ToSet(t) = {} => IsInjective(s \o t)
<1>. DEFINE u == s \o t
            Left == DOMAIN s
            Right == {i \in DOMAIN u : i > Len(s)}
<1>1. /\ Len(s) \in Nat /\ DOMAIN s = 1..Len(s)
      /\ Len(t) \in Nat /\ DOMAIN t = 1..Len(t)
      /\ Len(u) = Len(s) + Len(t) /\ DOMAIN u = 1..Len(u) /\ u \in Seq(T)
  OBVIOUS
<1>2. \A i \in DOMAIN s : i \in DOMAIN u /\ u[i] = s[i]
  OBVIOUS
<1>3. \A j \in DOMAIN t : Len(s) + j \in DOMAIN u /\ u[Len(s) + j] = t[j]
  OBVIOUS
<1>4. \A i \in DOMAIN u : i \in DOMAIN s \/ \E j \in DOMAIN t : i = Len(s) + j
  <2>1. ASSUME NEW i \in DOMAIN u, i \notin DOMAIN s
        PROVE  i - Len(s) \in DOMAIN t /\ i = Len(s) + (i - Len(s))
    <3>. HIDE DEF u
    <3>. QED  BY <1>1, <2>1
  <2>. QED  BY <2>1
<1>. HIDE DEF u
<1>5. ToSet(u) = ToSet(s) \cup ToSet(t)
  <2>1. ToSet(u) \subseteq ToSet(s) \cup ToSet(t)
    <3>1. ASSUME NEW i \in DOMAIN u PROVE u[i] \in ToSet(s) \cup ToSet(t)
      <4>1. CASE i \in DOMAIN s
        BY <1>2, <4>1, Zenon DEF ToSet
      <4>2. CASE i \notin DOMAIN s
        <5>1. PICK j \in DOMAIN t : i = Len(s) + j
          BY <1>4, <4>2
        <5>2. u[i] = t[j]
          BY <1>3, <5>1
        <5>. QED  BY <5>2, Zenon DEF ToSet
      <4>. QED  BY <4>1, <4>2
    <3>. QED  BY <3>1, Zenon DEF ToSet
  <2>2. ToSet(s) \subseteq ToSet(u) /\ ToSet(t) \subseteq ToSet(u)
    BY <1>2, <1>3, Zenon DEF ToSet
  <2>. QED  BY <2>1, <2>2
<1>6. ASSUME IsInjective(s), IsInjective(t), ToSet(s) \cap ToSet(t) = {},
             NEW a \in DOMAIN u, NEW b \in DOMAIN u, u[a] = u[b]
      PROVE  a = b
  <2>1. \A i \in DOMAIN s, j \in DOMAIN t : s[i] # t[j]
    BY <1>6, Zenon DEF ToSet
  <2>2. CASE a \in DOMAIN s /\ b \in DOMAIN s
    BY <1>2, <1>6, <2>2, Zenon DEF IsInjective
  <2>3. CASE a \notin DOMAIN s /\ b \notin DOMAIN s
    <3>1. PICK i \in DOMAIN t, j \in DOMAIN t : a = Len(s) + i /\ b = Len(s) + j
      BY <1>4, <2>3
    <3>2. t[i] = t[j]
      BY <1>3, <1>6, <3>1
    <3>3. i = j
      BY <1>6, <3>2, Zenon DEF IsInjective
    <3>. QED  BY <3>1, <3>3
  <2>4. CASE a \in DOMAIN s /\ b \notin DOMAIN s
    <3>1. PICK j \in DOMAIN t : b = Len(s) + j
      BY <1>4, <2>4
    <3>. QED  BY <1>2, <1>3, <1>6, <2>1, <2>4, <3>1
  <2>5. CASE a \notin DOMAIN s /\ b \in DOMAIN s
    <3>1. PICK j \in DOMAIN t : a = Len(s) + j
      BY <1>4, <2>5
    <3>. QED  BY <1>2, <1>3, <1>6, <2>1, <2>5, <3>1
  <2>. QED  BY <2>2, <2>3, <2>4, <2>5
<1>. QED  BY <1>1, <1>5, <1>6 DEF IsInjective, u

-----------------------------------------------------------------------------
(* std::unique on a vector that is not erased. *)

squeeze(kept, x) == IF kept # <<>> /\ Last(kept) = x THEN kept ELSE Append(kept, x)

LEMMA SqueezeType ==
  ASSUME NEW T, NEW kept \in Seq(T), NEW x \in T
  PROVE  squeeze(kept, x) \in Seq(T)
BY DEF squeeze

LEMMA SqueezedRounds ==
  ASSUME NEW T, NEW s \in Seq(T)
  PROVE  \E after \in [0..Len(s) -> Seq(T)] :
           /\ after[0] = <<>>
           /\ \A n \in 0..(Len(s) - 1) : after[n + 1] = squeeze(after[n], s[n + 1])
           /\ Squeezed(s) = after[Len(s)]
<1>. DEFINE N == Len(s)
            Fold(t) == t = [P \in SUBSET (1..N) |->
                              IF P = {} THEN <<>>
                              ELSE squeeze(t[P \ {Max(P)}], s[Max(P)])]
            iter == CHOOSE t : Fold(t)
            Round == [p \in Seq(T) \X (1..N) |-> squeeze(p[1], s[p[2]])]
<1>0. N \in Nat /\ DOMAIN s = 1..N /\ \A i \in 1..N : s[i] \in T
  OBVIOUS
<1>1. Squeezed(s) = iter[1..N]
  BY <1>0, Zenon DEF Squeezed, FoldLeft, MapThenFoldSet, squeeze
<1>2. Round \in [Seq(T) \X (1..N) -> Seq(T)] /\ <<>> \in Seq(T)
  BY <1>0, SqueezeType
<1>3. \A r \in Seq(T), i \in 1..N : Round[<<r, i>>] = squeeze(r, s[i])
  OBVIOUS
<1>. HIDE DEF N, Round
<1>4. \E t : Fold(t)
  <2>1. PICK t \in [SUBSET (1..N) -> Seq(T)] : IsFoldTable(t, Seq(T), <<>>, Round, N)
    BY <1>0, <1>2, FoldTable
  <2>2. ASSUME NEW P \in SUBSET (1..N), P # {}
        PROVE  t[P] = squeeze(t[P \ {Max(P)}], s[Max(P)])
    <3>1. Max(P) \in 1..N
      BY <1>0, <2>2, LargestIn
    <3>2. t[P \ {Max(P)}] \in Seq(T)
      BY <2>1
    <3>3. t[P] = Round[<<t[P \ {Max(P)}], Max(P)>>]
      BY <2>1, <2>2, <3>2 DEF IsFoldTable
    <3>. QED  BY <1>3, <3>1, <3>2, <3>3
  <2>3. t = [P \in SUBSET (1..N) |-> t[P]]
    BY <2>1
  <2>4. t[{}] = <<>>
    BY <2>1 DEF IsFoldTable
  <2>. QED  BY <2>2, <2>3, <2>4
<1>5. Fold(iter)
  BY <1>4
<1>. HIDE DEF iter
<1>6. IsFoldTable(iter, Seq(T), <<>>, Round, N)
  <2>1. iter[{}] = <<>>
    BY <1>5
  <2>2. ASSUME NEW P \in SUBSET (1..N), P # {}, iter[P \ {Max(P)}] \in Seq(T)
        PROVE  iter[P] = Round[<<iter[P \ {Max(P)}], Max(P)>>]
    <3>1. Max(P) \in 1..N
      BY <1>0, <2>2, LargestIn
    <3>2. iter[P] = squeeze(iter[P \ {Max(P)}], s[Max(P)])
      BY <1>5, <2>2
    <3>. QED  BY <1>3, <2>2, <3>1, <3>2
  <2>. QED  BY <2>1, <2>2 DEF IsFoldTable
<1>7. HasRounds(iter, Seq(T), <<>>, Round, N)
  BY <1>0, <1>2, <1>6, TableRounds
<1>8. PICK after \in [0..N -> Seq(T)] :
        /\ after[0] = <<>>
        /\ \A n \in 0..(N - 1) : after[n + 1] = Round[<<after[n], n + 1>>]
        /\ iter[1..N] = after[N]
  BY <1>7 DEF HasRounds
<1>9. ASSUME NEW n \in 0..(N - 1) PROVE after[n + 1] = squeeze(after[n], s[n + 1])
  <2>1. n \in 0..N /\ n + 1 \in 1..N
    BY <1>0
  <2>2. after[n] \in Seq(T)
    BY <1>8, <2>1
  <2>. QED  BY <1>3, <1>8, <2>1, <2>2
<1>. QED  BY <1>1, <1>8, <1>9 DEF N


LEMMA SqueezeKeeps ==
  ASSUME NEW T, NEW kept \in Seq(T), NEW x \in T
  PROVE  /\ Len(squeeze(kept, x)) <= Len(kept) + 1
         /\ ToSet(squeeze(kept, x)) = ToSet(kept) \cup {x}
<1>1. CASE kept # <<>> /\ Last(kept) = x
  <2>1. Len(kept) \in DOMAIN kept /\ Len(kept) \in Nat
    BY <1>1
  <2>2. x \in ToSet(kept)
    BY <1>1, <2>1, Zenon DEF ToSet, Last
  <2>3. squeeze(kept, x) = kept
    BY <1>1 DEF squeeze
  <2>. QED  BY <2>1, <2>2, <2>3
<1>2. CASE ~ (kept # <<>> /\ Last(kept) = x)
  <2>1. squeeze(kept, x) = Append(kept, x)
    BY <1>2, Zenon DEF squeeze
  <2>. QED  BY <2>1, Appended
<1>. QED  BY <1>1, <1>2

(* Nobody is lost; where no name comes twice nothing changes. *)
LEMMA SqueezedKeeps ==
  ASSUME NEW T, NEW s \in Seq(T)
  PROVE  /\ Squeezed(s) \in Seq(T) /\ Len(Squeezed(s)) <= Len(s)
         /\ ToSet(Squeezed(s)) = ToSet(s)
         /\ IsInjective(s) => Squeezed(s) = s
<1>. DEFINE N == Len(s)
<1>0. N \in Nat /\ DOMAIN s = 1..N /\ \A i \in 1..N : s[i] \in T
  OBVIOUS
<1>1. PICK after \in [0..N -> Seq(T)] :
        /\ after[0] = <<>>
        /\ \A n \in 0..(N - 1) : after[n + 1] = squeeze(after[n], s[n + 1])
        /\ Squeezed(s) = after[N]
  BY SqueezedRounds
<1>. DEFINE Holds == {n \in 0..N : /\ Len(after[n]) <= n
                                   /\ ToSet(after[n]) = {s[i] : i \in 1..n}
                                   /\ IsInjective(s) => after[n] = SubSeq(s, 1, n)}
<1>2. 0 \in Holds
  <2>1. ToSet(<<>>) = {} /\ 1..0 = {} /\ 0 \in 0..N /\ Len(<<>>) = 0 /\ SubSeq(s, 1, 0) = <<>>
    BY <1>0, Members
  <2>. QED  BY <1>1, <2>1
<1>3. ASSUME NEW n \in 0..(N - 1), n \in Holds PROVE n + 1 \in Holds
  <2>0. n \in Nat /\ n \in 0..N /\ n + 1 \in 0..N /\ n + 1 \in 1..N /\ s[n + 1] \in T
    BY <1>0
  <2>1. after[n] \in Seq(T) /\ after[n + 1] \in Seq(T) /\ after[n + 1] = squeeze(after[n], s[n + 1])
    BY <1>1, <2>0
  <2>2. Len(after[n + 1]) <= n + 1
    <3>1. Len(after[n + 1]) <= Len(after[n]) + 1
      BY <2>0, <2>1, SqueezeKeeps
    <3>. QED  BY <1>3, <2>0, <2>1, <3>1
  <2>3. ToSet(after[n + 1]) = {s[i] : i \in 1..(n + 1)}
    <3>1. ToSet(after[n + 1]) = ToSet(after[n]) \cup {s[n + 1]}
      BY <2>0, <2>1, SqueezeKeeps
    <3>2. 1..(n + 1) = 1..n \cup {n + 1}
      BY <2>0
    <3>. QED  BY <1>3, <3>1, <3>2
  <2>4. ASSUME IsInjective(s) PROVE after[n + 1] = SubSeq(s, 1, n + 1)
    <3>1. after[n] = SubSeq(s, 1, n)
      BY <1>3, <2>4
    <3>2. after[n] # <<>> => Last(after[n]) = s[n] /\ n \in DOMAIN s /\ n # n + 1
      BY <1>0, <2>0, <3>1 DEF Last
    <3>3. after[n] # <<>> => Last(after[n]) # s[n + 1]
      BY <1>0, <2>0, <2>4, <3>2, Zenon DEF IsInjective
    <3>4. after[n + 1] = Append(after[n], s[n + 1])
      BY <2>1, <3>3, Zenon DEF squeeze
    <3>. QED  BY <1>0, <2>0, <3>1, <3>4
  <2>. QED  BY <2>0, <2>2, <2>3, <2>4
<1>. HIDE DEF Holds
<1>4. \A n \in 0..N : n \in Holds
  BY <1>0, <1>2, <1>3, EveryRound
<1>5. N \in 0..N
  BY <1>0
<1>6. N \in Holds /\ after[N] \in Seq(T)
  BY <1>1, <1>4, <1>5
<1>7. {s[i] : i \in 1..N} = ToSet(s) /\ SubSeq(s, 1, N) = s
  BY <1>0 DEF ToSet
<1>8. /\ Len(after[N]) <= N
      /\ ToSet(after[N]) = {s[i] : i \in 1..N}
      /\ IsInjective(s) => after[N] = SubSeq(s, 1, N)
  BY <1>6 DEF Holds
<1>. QED  BY <1>1, <1>6, <1>7, <1>8, Zenon

(* What std::unique leaves behind are names that were there. *)
LEMMA UniqueKeeps ==
  ASSUME NEW T, NEW s \in Seq(T)
  PROVE  /\ unique(s) \in Seq(T)
         /\ ToSet(unique(s)) = ToSet(s)
         /\ IsInjective(s) => unique(s) = s
<1>. DEFINE front == Squeezed(s)
            back == SubSeq(s, Len(front) + 1, Len(s))
<1>1. /\ front \in Seq(T) /\ Len(front) <= Len(s)
      /\ ToSet(front) = ToSet(s)
      /\ IsInjective(s) => front = s
  BY SqueezedKeeps
<1>2. unique(s) = front \o back
  BY DEF unique
<1>. HIDE DEF front
<1>3. Len(front) \in Nat /\ Len(s) \in Nat /\ DOMAIN s = 1..Len(s)
  BY <1>1
<1>4. back \in Seq(T) /\ \A i \in DOMAIN back : i + Len(front) \in DOMAIN s /\ back[i] = s[i + Len(front)]
  BY <1>1, <1>3
<1>5. front = s => back = <<>>
  BY <1>3
<1>. HIDE DEF back
<1>6. ToSet(back) \subseteq ToSet(s)
  BY <1>4, Zenon DEF ToSet
<1>7. ToSet(front \o back) = ToSet(front) \cup ToSet(back) /\ front \o back \in Seq(T)
  BY <1>1, <1>4, Concatenated
<1>8. front = s => front \o back = s
  BY <1>5
<1>. QED  BY <1>1, <1>2, <1>6, <1>7, <1>8, Zenon
-----------------------------------------------------------------------------
(* diff_vectors *)

LEMMA RemovedAt ==
  ASSUME NEW T, NEW s \in Seq(T), NEW i \in DOMAIN s
  PROVE  /\ RemoveAt(s, i) \in Seq(T)
         /\ ToSet(RemoveAt(s, i)) = {s[j] : j \in DOMAIN s \ {i}}
         /\ IsInjective(s) => IsInjective(RemoveAt(s, i))
<1>. DEFINE front == SubSeq(s, 1, i - 1)
            back == SubSeq(s, i + 1, Len(s))
<1>1. Len(s) \in Nat /\ DOMAIN s = 1..Len(s) /\ i \in 1..Len(s)
  OBVIOUS
<1>2. front \in Seq(T) /\ DOMAIN front = 1..(i - 1) /\ \A j \in 1..(i - 1) : front[j] = s[j]
  BY <1>1
<1>3. back \in Seq(T) /\ DOMAIN back = 1..(Len(s) - i) /\ \A j \in 1..(Len(s) - i) : back[j] = s[i + j]
  BY <1>1
<1>4. RemoveAt(s, i) = front \o back
  BY DEF RemoveAt
<1>. HIDE DEF front, back
<1>5. /\ front \o back \in Seq(T)
      /\ ToSet(front \o back) = ToSet(front) \cup ToSet(back)
      /\ IsInjective(front) /\ IsInjective(back) /\ ToSet(front) \cap ToSet(back) = {}
           => IsInjective(front \o back)
  BY <1>2, <1>3, Concatenated
<1>6. ToSet(front) = {s[j] : j \in 1..(i - 1)}
  BY <1>2 DEF ToSet
<1>7. ToSet(back) = {s[j] : j \in (i + 1)..Len(s)}
  <2>1. \A j \in 1..(Len(s) - i) : i + j \in (i + 1)..Len(s)
    BY <1>1
  <2>2. \A j \in (i + 1)..Len(s) : j - i \in 1..(Len(s) - i) /\ i + (j - i) = j
    BY <1>1
  <2>3. ToSet(back) \subseteq {s[j] : j \in (i + 1)..Len(s)}
    BY <1>3, <2>1, Zenon DEF ToSet
  <2>4. ASSUME NEW j \in (i + 1)..Len(s) PROVE s[j] \in ToSet(back)
    <3>1. back[j - i] = s[j]
      BY <1>3, <2>2
    <3>. QED  BY <1>3, <2>2, <3>1, Zenon DEF ToSet
  <2>. QED  BY <2>3, <2>4
<1>8. DOMAIN s \ {i} = (1..(i - 1)) \cup ((i + 1)..Len(s))
  BY <1>1
<1>9. ToSet(front \o back) = {s[j] : j \in DOMAIN s \ {i}}
  BY <1>5, <1>6, <1>7, <1>8
<1>10. ASSUME IsInjective(s) PROVE IsInjective(front \o back)
  <2>1. IsInjective(front)
    BY <1>1, <1>2, <1>10 DEF IsInjective
  <2>2. IsInjective(back)
    <3>1. ASSUME NEW p \in DOMAIN back, NEW q \in DOMAIN back, back[p] = back[q] PROVE p = q
      <4>1. p \in 1..(Len(s) - i) /\ q \in 1..(Len(s) - i) /\ s[i + p] = s[i + q]
        BY <1>3, <3>1
      <4>2. i + p \in DOMAIN s /\ i + q \in DOMAIN s
        BY <1>1, <4>1
      <4>3. i + p = i + q
        BY <1>10, <4>1, <4>2, Zenon DEF IsInjective
      <4>. QED  BY <1>1, <4>1, <4>3
    <3>. QED  BY <3>1 DEF IsInjective
  <2>3. ToSet(front) \cap ToSet(back) = {}
    <3>1. ASSUME NEW p \in 1..(i - 1), NEW q \in (i + 1)..Len(s), s[p] = s[q] PROVE FALSE
      <4>1. p \in DOMAIN s /\ q \in DOMAIN s /\ p # q
        BY <1>1
      <4>. QED  BY <1>10, <3>1, <4>1, Zenon DEF IsInjective
    <3>. QED  BY <1>6, <1>7, <3>1
  <2>. QED  BY <1>5, <2>1, <2>2, <2>3
<1>. QED  BY <1>4, <1>5, <1>9, <1>10

(* Only the name goes, and only if it is there; all of it, if it was there *)
(* once.                                                                   *)
LEMMA ErasedKeeps ==
  ASSUME NEW T, NEW s \in Seq(T), NEW x
  PROVE  /\ erased(s, x) \in Seq(T)
         /\ ToSet(s) \ {x} \subseteq ToSet(erased(s, x))
         /\ ToSet(erased(s, x)) \subseteq ToSet(s)
         /\ IsInjective(s) => /\ IsInjective(erased(s, x))
                              /\ ToSet(erased(s, x)) = ToSet(s) \ {x}
<1>1. CASE ~ Contains(s, x)
  <2>1. erased(s, x) = s
    BY <1>1 DEF erased
  <2>2. x \notin ToSet(s)
    BY <1>1, Members
  <2>. QED  BY <2>1, <2>2
<1>2. CASE Contains(s, x)
  <2>. DEFINE I == {j \in 1..Len(s) : s[j] = x}
  <2>1. DOMAIN s = 1..Len(s) /\ I \in SUBSET Nat /\ I # {}
    BY <1>2 DEF Contains
  <2>2. RemoveFirst(s, x) = RemoveAt(s, Min(I))
    <3>1. SelectInSeq(s, LAMBDA v : v = x) = Min(I)
      BY <2>1 DEF SelectInSeq
    <3>. QED  BY <1>2, <3>1 DEF Contains, RemoveFirst
  <2>3. Min(I) \in I
    <3>. HIDE DEF I
    <3>1. PICK n \in I : \A m \in I : ~ (m < n)
      BY <2>1, SmallestNumber
    <3>2. \A m \in I : n <= m
      BY <2>1, <3>1
    <3>. QED  BY <3>2, Zenon DEF Min
  <2>. DEFINE i == Min(I)
  <2>. HIDE DEF i
  <2>4. i \in DOMAIN s /\ s[i] = x
    BY <2>1, <2>3 DEF i
  <2>5. erased(s, x) = RemoveAt(s, i)
    BY <1>2, <2>2 DEF erased, i
  <2>6. /\ RemoveAt(s, i) \in Seq(T)
        /\ ToSet(RemoveAt(s, i)) = {s[j] : j \in DOMAIN s \ {i}}
        /\ IsInjective(s) => IsInjective(RemoveAt(s, i))
    BY <2>4, RemovedAt
  <2>7. /\ ToSet(s) \ {x} \subseteq {s[j] : j \in DOMAIN s \ {i}}
        /\ {s[j] : j \in DOMAIN s \ {i}} \subseteq ToSet(s)
    BY <2>4 DEF ToSet
  <2>8. ASSUME IsInjective(s) PROVE x \notin {s[j] : j \in DOMAIN s \ {i}}
    BY <2>4, <2>8, Zenon DEF IsInjective
  <2>. QED  BY <2>5, <2>6, <2>7, <2>8
<1>. QED  BY <1>1, <1>2

erasedAll(s, xs) == FoldLeft(erased, s, xs)

LEMMA ErasedRounds ==
  ASSUME NEW T, NEW s \in Seq(T), NEW xs \in Seq(T)
  PROVE  \E after \in [0..Len(xs) -> Seq(T)] :
           /\ after[0] = s
           /\ \A n \in 0..(Len(xs) - 1) : after[n + 1] = erased(after[n], xs[n + 1])
           /\ erasedAll(s, xs) = after[Len(xs)]
<1>. DEFINE N == Len(xs)
            Fold(t) == t = [P \in SUBSET (1..N) |->
                              IF P = {} THEN s
                              ELSE erased(t[P \ {Max(P)}], xs[Max(P)])]
            iter == CHOOSE t : Fold(t)
            Round == [p \in Seq(T) \X (1..N) |-> erased(p[1], xs[p[2]])]
<1>0. N \in Nat /\ DOMAIN xs = 1..N /\ \A i \in 1..N : xs[i] \in T
  OBVIOUS
<1>1. erasedAll(s, xs) = iter[1..N]
  BY <1>0, Zenon DEF erasedAll, FoldLeft, MapThenFoldSet
<1>2. Round \in [Seq(T) \X (1..N) -> Seq(T)] /\ s \in Seq(T)
  BY <1>0, ErasedKeeps
<1>3. \A r \in Seq(T), i \in 1..N : Round[<<r, i>>] = erased(r, xs[i])
  OBVIOUS
<1>. HIDE DEF N, Round
<1>4. \E t : Fold(t)
  <2>1. PICK t \in [SUBSET (1..N) -> Seq(T)] : IsFoldTable(t, Seq(T), s, Round, N)
    BY <1>0, <1>2, FoldTable
  <2>2. ASSUME NEW P \in SUBSET (1..N), P # {}
        PROVE  t[P] = erased(t[P \ {Max(P)}], xs[Max(P)])
    <3>1. Max(P) \in 1..N
      BY <1>0, <2>2, LargestIn
    <3>2. t[P \ {Max(P)}] \in Seq(T)
      BY <2>1
    <3>3. t[P] = Round[<<t[P \ {Max(P)}], Max(P)>>]
      BY <2>1, <2>2, <3>2 DEF IsFoldTable
    <3>. QED  BY <1>3, <3>1, <3>2, <3>3
  <2>3. t = [P \in SUBSET (1..N) |-> t[P]]
    BY <2>1
  <2>4. t[{}] = s
    BY <2>1 DEF IsFoldTable
  <2>. QED  BY <2>2, <2>3, <2>4
<1>5. Fold(iter)
  BY <1>4
<1>. HIDE DEF iter
<1>6. IsFoldTable(iter, Seq(T), s, Round, N)
  <2>1. iter[{}] = s
    BY <1>5
  <2>2. ASSUME NEW P \in SUBSET (1..N), P # {}, iter[P \ {Max(P)}] \in Seq(T)
        PROVE  iter[P] = Round[<<iter[P \ {Max(P)}], Max(P)>>]
    <3>1. Max(P) \in 1..N
      BY <1>0, <2>2, LargestIn
    <3>2. iter[P] = erased(iter[P \ {Max(P)}], xs[Max(P)])
      BY <1>5, <2>2
    <3>. QED  BY <1>3, <2>2, <3>1, <3>2
  <2>. QED  BY <2>1, <2>2 DEF IsFoldTable
<1>7. HasRounds(iter, Seq(T), s, Round, N)
  BY <1>0, <1>2, <1>6, TableRounds
<1>8. PICK after \in [0..N -> Seq(T)] :
        /\ after[0] = s
        /\ \A n \in 0..(N - 1) : after[n + 1] = Round[<<after[n], n + 1>>]
        /\ iter[1..N] = after[N]
  BY <1>7 DEF HasRounds
<1>9. ASSUME NEW n \in 0..(N - 1) PROVE after[n + 1] = erased(after[n], xs[n + 1])
  <2>1. n \in 0..N /\ n + 1 \in 1..N
    BY <1>0
  <2>2. after[n] \in Seq(T)
    BY <1>8, <2>1
  <2>. QED  BY <1>3, <1>8, <2>1, <2>2
<1>. QED  BY <1>1, <1>8, <1>9 DEF N

LEMMA ErasedAllKeeps ==
  ASSUME NEW T, NEW s \in Seq(T), NEW xs \in Seq(T)
  PROVE  /\ erasedAll(s, xs) \in Seq(T)
         /\ ToSet(s) \ ToSet(xs) \subseteq ToSet(erasedAll(s, xs))
         /\ ToSet(erasedAll(s, xs)) \subseteq ToSet(s)
         /\ IsInjective(s) => /\ IsInjective(erasedAll(s, xs))
                              /\ ToSet(erasedAll(s, xs)) = ToSet(s) \ ToSet(xs)
<1>. DEFINE N == Len(xs)
            Named(n) == {xs[i] : i \in 1..n}
<1>0. N \in Nat /\ DOMAIN xs = 1..N /\ N \in 0..N
  OBVIOUS
<1>1. PICK after \in [0..N -> Seq(T)] :
        /\ after[0] = s
        /\ \A n \in 0..(N - 1) : after[n + 1] = erased(after[n], xs[n + 1])
        /\ erasedAll(s, xs) = after[N]
  BY ErasedRounds
<1>. DEFINE Holds == {n \in 0..N : /\ ToSet(s) \ Named(n) \subseteq ToSet(after[n])
                                   /\ ToSet(after[n]) \subseteq ToSet(s)
                                   /\ IsInjective(s) => /\ IsInjective(after[n])
                                                        /\ ToSet(after[n]) = ToSet(s) \ Named(n)}
<1>2. 0 \in Holds
  <2>1. Named(0) = {} /\ 0 \in 0..N
    BY <1>0
  <2>. HIDE DEF Named
  <2>. QED  BY <1>1, <2>1, Zenon
<1>3. ASSUME NEW n \in 0..(N - 1), n \in Holds PROVE n + 1 \in Holds
  <2>0. n \in 0..N /\ n + 1 \in 0..N
    BY <1>0
  <2>1. Named(n + 1) = Named(n) \cup {xs[n + 1]}
    <3>1. 1..(n + 1) = 1..n \cup {n + 1}
      BY <1>0
    <3>. QED  BY <3>1
  <2>2. after[n] \in Seq(T) /\ after[n + 1] = erased(after[n], xs[n + 1])
    BY <1>1, <2>0
  <2>3. /\ ToSet(after[n]) \ {xs[n + 1]} \subseteq ToSet(after[n + 1])
        /\ ToSet(after[n + 1]) \subseteq ToSet(after[n])
        /\ IsInjective(after[n]) => /\ IsInjective(after[n + 1])
                                    /\ ToSet(after[n + 1]) = ToSet(after[n]) \ {xs[n + 1]}
    BY <2>2, ErasedKeeps
  <2>4. /\ ToSet(s) \ Named(n) \subseteq ToSet(after[n])
        /\ ToSet(after[n]) \subseteq ToSet(s)
        /\ IsInjective(s) => /\ IsInjective(after[n])
                             /\ ToSet(after[n]) = ToSet(s) \ Named(n)
    BY <1>3
  <2>. HIDE DEF Named
  <2>. QED  BY <2>0, <2>1, <2>3, <2>4
<1>. HIDE DEF Holds
<1>4. N \in Holds
  BY <1>0, <1>2, <1>3, EveryRound
<1>5. Named(N) = ToSet(xs)
  BY <1>0 DEF ToSet
<1>6. after[N] \in Seq(T)
  BY <1>0, <1>1
<1>7. /\ ToSet(s) \ Named(N) \subseteq ToSet(after[N])
      /\ ToSet(after[N]) \subseteq ToSet(s)
      /\ IsInjective(s) => /\ IsInjective(after[N])
                           /\ ToSet(after[N]) = ToSet(s) \ Named(N)
  BY <1>4 DEF Holds
<1>. HIDE DEF Named
<1>. QED  BY <1>1, <1>5, <1>6, <1>7, Zenon

(* What diff_vectors does, to any lists; and to lists without a name twice. *)
LEMMA DiffKeeps ==
  ASSUME NEW T, NEW current \in Seq(T), NEW add \in Seq(T), NEW remove \in Seq(T)
  PROVE  LET all == ToSet(current) \cup ToSet(add)
             result == diff_vectors(current, add, remove)
         IN  /\ result \in Seq(T)
             /\ all \ ToSet(remove) \subseteq ToSet(result)
             /\ ToSet(result) \subseteq all
             /\ IsInjective(current) /\ IsInjective(add) /\ ToSet(current) \cap ToSet(add) = {} =>
                  /\ IsInjective(result)
                  /\ ToSet(result) = all \ ToSet(remove)
<1>. DEFINE joined == current \o add
            kept == unique(joined)
<1>1. /\ joined \in Seq(T)
      /\ ToSet(joined) = ToSet(current) \cup ToSet(add)
      /\ IsInjective(current) /\ IsInjective(add) /\ ToSet(current) \cap ToSet(add) = {} => IsInjective(joined)
  BY Concatenated
<1>. HIDE DEF joined
<1>2. kept \in Seq(T) /\ ToSet(kept) = ToSet(joined) /\ (IsInjective(joined) => kept = joined)
  BY <1>1, UniqueKeeps
<1>3. diff_vectors(current, add, remove) = erasedAll(kept, remove)
  BY Zenon DEF diff_vectors, erasedAll, joined
<1>. HIDE DEF kept
<1>4. /\ erasedAll(kept, remove) \in Seq(T)
      /\ ToSet(kept) \ ToSet(remove) \subseteq ToSet(erasedAll(kept, remove))
      /\ ToSet(erasedAll(kept, remove)) \subseteq ToSet(kept)
      /\ IsInjective(kept) => /\ IsInjective(erasedAll(kept, remove))
                              /\ ToSet(erasedAll(kept, remove)) = ToSet(kept) \ ToSet(remove)
  BY <1>2, ErasedAllKeeps
<1>. QED  BY <1>1, <1>2, <1>3, <1>4, Zenon

-----------------------------------------------------------------------------
(* The rows of scope "to". *)

Rows == [Users -> Seq(Users)]

change(rows, name, add, remove) == [rows EXCEPT ![name] = diff_vectors(@, add, remove)]

LEMMA ChangeType ==
  ASSUME NEW rows \in Rows, NEW name \in Users, NEW add \in Seq(Users), NEW remove \in Seq(Users)
  PROVE  change(rows, name, add, remove) \in Rows
BY DiffKeeps DEF change, Rows

EachRound(rows, names, add, remove, result) ==
  \E after \in [0..Len(names) -> Rows] :
    /\ after[0] = rows
    /\ \A n \in 0..(Len(names) - 1) : after[n + 1] = change(after[n], names[n + 1], add, remove)
    /\ result = after[Len(names)]

LEMMA ToEachRounds ==
  ASSUME NEW rows \in Rows, NEW names \in Seq(Users),
         NEW add \in Seq(Users), NEW remove \in Seq(Users)
  PROVE  EachRound(rows, names, add, remove, toEach(rows, names, add, remove))
<1>. DEFINE N == Len(names)
            Fold(t) == t = [P \in SUBSET (1..N) |->
                              IF P = {} THEN rows
                              ELSE change(t[P \ {Max(P)}], names[Max(P)], add, remove)]
            iter == CHOOSE t : Fold(t)
            Round == [p \in Rows \X (1..N) |-> change(p[1], names[p[2]], add, remove)]
<1>0. N \in Nat /\ DOMAIN names = 1..N /\ \A i \in 1..N : names[i] \in Users
  OBVIOUS
<1>1. toEach(rows, names, add, remove) = iter[1..N]
  BY <1>0, Zenon DEF toEach, FoldLeft, MapThenFoldSet, change
<1>2. Round \in [Rows \X (1..N) -> Rows] /\ rows \in Rows
  BY <1>0, ChangeType
<1>3. \A r \in Rows, i \in 1..N : Round[<<r, i>>] = change(r, names[i], add, remove)
  OBVIOUS
<1>. HIDE DEF N, Round
<1>4. \E t : Fold(t)
  <2>1. PICK t \in [SUBSET (1..N) -> Rows] : IsFoldTable(t, Rows, rows, Round, N)
    BY <1>0, <1>2, FoldTable
  <2>2. ASSUME NEW P \in SUBSET (1..N), P # {}
        PROVE  t[P] = change(t[P \ {Max(P)}], names[Max(P)], add, remove)
    <3>1. Max(P) \in 1..N
      BY <1>0, <2>2, LargestIn
    <3>2. t[P \ {Max(P)}] \in Rows
      BY <2>1
    <3>3. t[P] = Round[<<t[P \ {Max(P)}], Max(P)>>]
      BY <2>1, <2>2, <3>2 DEF IsFoldTable
    <3>. QED  BY <1>3, <3>1, <3>2, <3>3
  <2>3. t = [P \in SUBSET (1..N) |-> t[P]]
    BY <2>1
  <2>4. t[{}] = rows
    BY <2>1 DEF IsFoldTable
  <2>. QED  BY <2>2, <2>3, <2>4
<1>5. Fold(iter)
  BY <1>4
<1>. HIDE DEF iter
<1>6. IsFoldTable(iter, Rows, rows, Round, N)
  <2>1. iter[{}] = rows
    BY <1>5
  <2>2. ASSUME NEW P \in SUBSET (1..N), P # {}, iter[P \ {Max(P)}] \in Rows
        PROVE  iter[P] = Round[<<iter[P \ {Max(P)}], Max(P)>>]
    <3>1. Max(P) \in 1..N
      BY <1>0, <2>2, LargestIn
    <3>2. iter[P] = change(iter[P \ {Max(P)}], names[Max(P)], add, remove)
      BY <1>5, <2>2
    <3>. QED  BY <1>3, <2>2, <3>1, <3>2
  <2>. QED  BY <2>1, <2>2 DEF IsFoldTable
<1>7. HasRounds(iter, Rows, rows, Round, N)
  BY <1>0, <1>2, <1>6, TableRounds
<1>8. PICK after \in [0..N -> Rows] :
        /\ after[0] = rows
        /\ \A n \in 0..(N - 1) : after[n + 1] = Round[<<after[n], n + 1>>]
        /\ iter[1..N] = after[N]
  BY <1>7 DEF HasRounds
<1>9. ASSUME NEW n \in 0..(N - 1) PROVE after[n + 1] = change(after[n], names[n + 1], add, remove)
  <2>1. n \in 0..N /\ n + 1 \in 1..N
    BY <1>0
  <2>2. after[n] \in Rows
    BY <1>8, <2>1
  <2>. QED  BY <1>3, <1>8, <2>1, <2>2
<1>. QED  BY <1>1, <1>8, <1>9 DEF N, EachRound

(* Rows of others stay; the rows of those named change as by one           *)
(* diff_vectors, unless a name that comes twice is added twice.            *)
ChangesEach(rows, names, add, remove, result) ==
  \A w \in Users :
    LET all == ToSet(rows[w]) \cup ToSet(add)
    IN  /\ w \notin ToSet(names) => result[w] = rows[w]
        /\ w \in ToSet(names) =>
             /\ all \ ToSet(remove) \subseteq ToSet(result[w])
             /\ ToSet(result[w]) \subseteq all
             /\ /\ IsInjective(rows[w]) /\ IsInjective(add)
                /\ ToSet(rows[w]) \cap ToSet(add) = {}
                /\ IsInjective(names) \/ add = <<>>
                => /\ IsInjective(result[w])
                   /\ ToSet(result[w]) = all \ ToSet(remove)

LEMMA ToEachKeeps ==
  ASSUME NEW rows \in Rows, NEW names \in Seq(Users),
         NEW add \in Seq(Users), NEW remove \in Seq(Users)
  PROVE  /\ toEach(rows, names, add, remove) \in Rows
         /\ ChangesEach(rows, names, add, remove, toEach(rows, names, add, remove))
<1>. DEFINE N == Len(names)
            Named(n) == {names[i] : i \in 1..n}
            all(w) == ToSet(rows[w]) \cup ToSet(add)
            Roughly(w, list) == /\ all(w) \ ToSet(remove) \subseteq ToSet(list)
                                /\ ToSet(list) \subseteq all(w)
            Exactly(w, list) == /\ IsInjective(list)
                                /\ ToSet(list) = all(w) \ ToSet(remove)
            Once(w) == /\ IsInjective(rows[w]) /\ IsInjective(add)
                       /\ ToSet(rows[w]) \cap ToSet(add) = {}
                       /\ IsInjective(names) \/ add = <<>>
            Good(n, r) == \A w \in Users :
                            /\ w \notin Named(n) => r[w] = rows[w]
                            /\ w \in Named(n) => /\ Roughly(w, r[w])
                                                 /\ Once(w) => Exactly(w, r[w])
<1>0. N \in Nat /\ DOMAIN names = 1..N /\ N \in 0..N /\ \A i \in 1..N : names[i] \in Users
  OBVIOUS
<1>1. PICK after \in [0..N -> Rows] :
        /\ after[0] = rows
        /\ \A n \in 0..(N - 1) : after[n + 1] = change(after[n], names[n + 1], add, remove)
        /\ toEach(rows, names, add, remove) = after[N]
  <2>. DEFINE result == toEach(rows, names, add, remove)
  <2>1. EachRound(rows, names, add, remove, result)
    BY ToEachRounds
  <2>. HIDE DEF result
  <2>2. \E after \in [0..N -> Rows] :
          /\ after[0] = rows
          /\ \A n \in 0..(N - 1) : after[n + 1] = change(after[n], names[n + 1], add, remove)
          /\ result = after[N]
    BY <2>1, Zenon DEF EachRound
  <2>. QED  BY <2>2 DEF result
<1>. DEFINE Holds == {n \in 0..N : Good(n, after[n])}
<1>2. 0 \in Holds
  <2>1. Named(0) = {} /\ 0 \in 0..N
    BY <1>0
  <2>. HIDE DEF Named, Roughly, Exactly, Once
  <2>. QED  BY <1>1, <2>1
<1>3. ASSUME NEW n \in 0..(N - 1), Good(n, after[n]) PROVE Good(n + 1, after[n + 1])
  <2>0. n \in 0..N /\ n + 1 \in 1..N /\ n \in Nat
    BY <1>0
  <2>. DEFINE name == names[n + 1]
              r == after[n]
  <2>1. Named(n + 1) = Named(n) \cup {name}
    <3>1. 1..(n + 1) = 1..n \cup {n + 1}
      BY <1>0
    <3>. QED  BY <3>1
  <2>2. r \in Rows /\ name \in Users /\ after[n + 1] = change(r, name, add, remove)
    BY <1>0, <1>1, <2>0
  <2>3. ASSUME name \in Named(n) PROVE ~ IsInjective(names)
    <3>1. PICK i \in 1..n : name = names[i]
      BY <2>3
    <3>2. i \in DOMAIN names /\ n + 1 \in DOMAIN names /\ i # n + 1
      BY <1>0, <2>0
    <3>. QED  BY <3>1, <3>2, Zenon DEF IsInjective
  <2>. HIDE DEF name, r
  <2>4. \A w \in Users : after[n + 1][w] = IF w = name THEN diff_vectors(r[w], add, remove) ELSE r[w]
    BY <2>2 DEF change, Rows
  <2>5. \A w \in Users : r[w] \in Seq(Users)
    BY <2>2 DEF Rows
  <2>6. ASSUME NEW w \in Users
        PROVE  /\ w \notin Named(n + 1) => after[n + 1][w] = rows[w]
               /\ w \in Named(n + 1) => /\ Roughly(w, after[n + 1][w])
                                        /\ Once(w) => Exactly(w, after[n + 1][w])
    <3>0. /\ w \notin Named(n) => r[w] = rows[w]
          /\ w \in Named(n) => /\ Roughly(w, r[w])
                               /\ Once(w) => Exactly(w, r[w])
      BY <1>3 DEF r
    <3>1. CASE w # name
      <4>1. after[n + 1][w] = r[w] /\ (w \in Named(n + 1) <=> w \in Named(n))
        BY <2>1, <2>4, <3>1
      <4>. HIDE DEF Named, Roughly, Exactly, Once
      <4>. QED  BY <3>0, <4>1
    <3>2. CASE w = name
      <4>. DEFINE d == diff_vectors(r[w], add, remove)
                  was == ToSet(r[w]) \cup ToSet(add)
      <4>1. after[n + 1][w] = d /\ w \in Named(n + 1)
        BY <2>1, <2>4, <3>2
      <4>2. /\ was \ ToSet(remove) \subseteq ToSet(d)
            /\ ToSet(d) \subseteq was
            /\ IsInjective(r[w]) /\ IsInjective(add) /\ ToSet(r[w]) \cap ToSet(add) = {} =>
                 /\ IsInjective(d)
                 /\ ToSet(d) = was \ ToSet(remove)
        BY <2>5, DiffKeeps
      <4>. HIDE DEF Named, d
      <4>3. CASE w \notin Named(n)
        <5>1. r[w] = rows[w]
          BY <3>0, <4>3
        <5>. QED  BY <4>1, <4>2, <5>1
      <4>4. CASE w \in Named(n)
        <5>1. Roughly(w, r[w]) /\ (Once(w) => Exactly(w, r[w]))
          BY <3>0, <4>4
        <5>2. Roughly(w, d)
          BY <4>2, <5>1
        <5>3. ASSUME Once(w) PROVE Exactly(w, d)
          <6>1. add = <<>>
            BY <2>3, <3>2, <4>4, <5>3
          <6>2. ToSet(add) = {}
            BY <6>1, Members
          <6>3. Exactly(w, r[w])
            BY <5>1, <5>3
          <6>. QED  BY <4>2, <5>3, <6>2, <6>3
        <5>. HIDE DEF Roughly, Exactly, Once
        <5>. QED  BY <4>1, <5>2, <5>3
      <4>. QED  BY <4>3, <4>4
    <3>. QED  BY <3>1, <3>2
  <2>. QED  BY <2>6
<1>4. \A n \in 0..(N - 1) : n \in Holds => n + 1 \in Holds
  <2>1. \A n \in 0..(N - 1) : n + 1 \in 0..N
    BY <1>0
  <2>. HIDE DEF Good
  <2>. QED  BY <1>3, <2>1
<1>. HIDE DEF Holds
<1>5. N \in Holds
  BY <1>0, <1>2, <1>4, EveryRound
<1>6. Good(N, after[N])
  BY <1>5 DEF Holds
<1>7. Named(N) = ToSet(names)
  BY <1>0 DEF ToSet
<1>8. after[N] \in Rows
  BY <1>0, <1>1
<1>. HIDE DEF Named
<1>. QED  BY <1>1, <1>6, <1>7, <1>8, Zenon DEF ChangesEach

(* What follow does to the rows of scope "to". *)
ChangesAll(rows, v, follows, unfollows, result) ==
  \A w \in Users :
    LET added == IF w \in ToSet(follows) THEN {v} ELSE {}
        removed == IF w \in ToSet(unfollows) THEN {v} ELSE {}
        all == ToSet(rows[w]) \cup added
    IN  /\ all \ removed \subseteq ToSet(result[w])
        /\ ToSet(result[w]) \subseteq all
        /\ IsInjective(rows[w]) /\ IsInjective(follows) /\ ToSet(rows[w]) \cap added = {} =>
             /\ IsInjective(result[w])
             /\ ToSet(result[w]) = all \ removed

LEMMA ToAllKeeps ==
  ASSUME NEW rows \in Rows, NEW v \in Users, NEW follows \in Seq(Users), NEW unfollows \in Seq(Users)
  PROVE  /\ toAll(rows, v, follows, unfollows) \in Rows
         /\ ChangesAll(rows, v, follows, unfollows, toAll(rows, v, follows, unfollows))
<1>. DEFINE mid == toEach(rows, follows, <<v>>, <<>>)
            end == toEach(mid, unfollows, <<>>, <<v>>)
<1>1. /\ <<v>> \in Seq(Users) /\ <<>> \in Seq(Users)
      /\ ToSet(<<v>>) = {v} /\ ToSet(<<>>) = {}
      /\ IsInjective(<<v>>) /\ IsInjective(<<>>)
  <2>1. /\ <<v>> \in Seq(Users) /\ <<>> \in Seq(Users)
        /\ DOMAIN <<v>> = {1} /\ <<v>>[1] = v /\ DOMAIN <<>> = {}
    OBVIOUS
  <2>. QED  BY <2>1, Zenon DEF ToSet, IsInjective
<1>. DEFINE list == <<v>>
            none == <<>>
<1>. HIDE DEF list, none
<1>2. mid \in Rows /\ ChangesEach(rows, follows, list, none, mid)
  BY <1>1, ToEachKeeps DEF list, none
<1>. HIDE DEF mid
<1>3. end \in Rows /\ ChangesEach(mid, unfollows, none, list, end)
  BY <1>1, <1>2, ToEachKeeps DEF list, none
<1>4. toAll(rows, v, follows, unfollows) = end
  BY DEF toAll, mid
<1>. HIDE DEF end
<1>5. ToSet(list) = {v} /\ ToSet(none) = {} /\ IsInjective(list) /\ IsInjective(none) /\ none = <<>>
  BY <1>1 DEF list, none
<1>6. ASSUME NEW w \in Users
      PROVE  LET added == IF w \in ToSet(follows) THEN {v} ELSE {}
                 all == ToSet(rows[w]) \cup added
             IN  /\ all \subseteq ToSet(mid[w]) /\ ToSet(mid[w]) \subseteq all
                 /\ IsInjective(rows[w]) /\ IsInjective(follows) /\ ToSet(rows[w]) \cap added = {} =>
                      IsInjective(mid[w])
  BY <1>2, <1>5 DEF ChangesEach
<1>7. ASSUME NEW w \in Users
      PROVE  LET removed == IF w \in ToSet(unfollows) THEN {v} ELSE {}
             IN  /\ ToSet(mid[w]) \ removed \subseteq ToSet(end[w])
                 /\ ToSet(end[w]) \subseteq ToSet(mid[w])
                 /\ IsInjective(mid[w]) =>
                      /\ IsInjective(end[w])
                      /\ ToSet(end[w]) = ToSet(mid[w]) \ removed
  <2>1. CASE w \in ToSet(unfollows)
    <3>1. /\ (ToSet(mid[w]) \cup {}) \ {v} \subseteq ToSet(end[w])
          /\ ToSet(end[w]) \subseteq ToSet(mid[w]) \cup {}
          /\ IsInjective(mid[w]) /\ ToSet(mid[w]) \cap {} = {} =>
               /\ IsInjective(end[w])
               /\ ToSet(end[w]) = (ToSet(mid[w]) \cup {}) \ {v}
      BY <1>3, <1>5, <2>1, Zenon DEF ChangesEach
    <3>. QED  BY <2>1, <3>1
  <2>2. CASE w \notin ToSet(unfollows)
    BY <1>3, <2>2 DEF ChangesEach
  <2>. QED  BY <2>1, <2>2
<1>. QED  BY <1>3, <1>4, <1>6, <1>7 DEF ChangesAll

-----------------------------------------------------------------------------
(* The specification. *)

LEMMA OnlyUsers ==
  ASSUME NEW T, NEW s \in Seq(T), NEW U, ToSet(s) \subseteq U
  PROVE  s \in Seq(U)
<1>1. \A i \in 1..Len(s) : s[i] \in U
  <2>1. DOMAIN s = 1..Len(s)
    OBVIOUS
  <2>. QED  BY <2>1, Zenon DEF ToSet
<1>. QED  BY <1>1

(* What an accepted payload is. *)
LEMMA Accepted ==
  ASSUME NEW v \in Fans, NEW p \in Payloads, followChecks(p[1], p[2])
  PROVE  v \in Users /\ p[1] \in Seq(Users) /\ p[2] \in Seq(Users)
<1>1. v \in Users /\ p[1] \in Seq(Users \cup Strangers) /\ p[2] \in Seq(Users \cup Strangers)
  BY FollowsAssumption
<1>2. ToSet(p[1]) \subseteq Users /\ ToSet(p[2]) \subseteq Users
  BY DEF followChecks
<1>. QED  BY <1>1, <1>2, OnlyUsers

LEMMA InitType == FollowsInit => FollowsTypeOK
<1>1. ASSUME FollowsInit PROVE FollowsTypeOK
  <2>1. PICK u \in Users : u = CHOOSE v \in Users : TRUE
    BY FollowsAssumption
  <2>2. Nothing \in [by : Users, follows : SUBSET Users, unfollows : SUBSET Users]
    BY <2>1 DEF Nothing
  <2>3. [v \in Users |-> <<>>] \in [Users -> Seq(Users)]
    OBVIOUS
  <2>. QED  BY <1>1, <2>2, <2>3, Zenon DEF FollowsInit, FollowsTypeOK
<1>. QED  BY <1>1

LEMMA NextType == FollowsTypeOK /\ [FollowsNext]_vars => FollowsTypeOK'
<1>. SUFFICES ASSUME FollowsTypeOK, [FollowsNext]_vars PROVE FollowsTypeOK'
  OBVIOUS
<1>0. Nothing \in [by : Users, follows : SUBSET Users, unfollows : SUBSET Users]
  <2>1. PICK u \in Users : u = CHOOSE v \in Users : TRUE
    BY FollowsAssumption
  <2>. QED  BY <2>1 DEF Nothing
<1>1. ASSUME NEW v \in Fans, NEW p \in Payloads, follow(v, p[1], p[2]) PROVE FollowsTypeOK'
  <2>1. v \in Users /\ p[1] \in Seq(Users) /\ p[2] \in Seq(Users)
    BY <1>1, Accepted DEF follow
  <2>2. follows_from' \in [Users -> Seq(Users)]
    <3>1. diff_vectors(follows_from[v], p[1], p[2]) \in Seq(Users)
      BY <2>1, DiffKeeps DEF FollowsTypeOK
    <3>. QED  BY <1>1, <2>1, <3>1 DEF follow, FollowsTypeOK
  <2>3. follows_to' \in [Users -> Seq(Users)]
    <3>1. follows_to \in Rows
      BY DEF FollowsTypeOK, Rows
    <3>2. toAll(follows_to, v, p[1], p[2]) \in Rows
      BY <2>1, <3>1, ToAllKeeps
    <3>. QED  BY <1>1, <3>2 DEF follow, Rows
  <2>4. paused' \in BOOLEAN /\ again' \in BOOLEAN
    BY <1>1, Zenon DEF follow, FollowsTypeOK
  <2>5. sent' \in [by : Users, follows : SUBSET Users, unfollows : SUBSET Users]
    <3>1. ToSet(p[1]) \subseteq Users /\ ToSet(p[2]) \subseteq Users
      BY <1>1 DEF follow, followChecks
    <3>. QED  BY <1>1, <2>1, <3>1 DEF follow
  <2>. QED  BY <2>2, <2>3, <2>4, <2>5 DEF FollowsTypeOK
<1>2. ASSUME NEW b \in BOOLEAN, pause(b) PROVE FollowsTypeOK'
  BY <1>0, <1>2 DEF pause, FollowsTypeOK
<1>3. CASE UNCHANGED vars
  BY <1>3 DEF vars, FollowsTypeOK
<1>. QED  BY <1>1, <1>2, <1>3, Zenon DEF FollowsNext

(* Lists hold users, whatever is sent.                                     *)
THEOREM FollowsTypeCorrect == FollowsSpec => []FollowsTypeOK
<1>. QED  BY InitType, NextType, PTL DEF FollowsSpec

(* One accepted payload, seen from both tables. *)
LEMMA FollowStep ==
  ASSUME FollowsTypeOK, NEW v \in Fans, NEW p \in Payloads, follow(v, p[1], p[2]),
         NEW x \in Users, NEW w \in Users
  PROVE  LET named == x = v /\ w \in ToSet(p[1])
             unnamed == x = v /\ w \in ToSet(p[2])
             fresh == IsInjective(p[1]) /\ ToSet(p[1]) \cap ToSet(follows_from[v]) = {}
         IN  /\ w \in ToSet(follows_from[x]) /\ ~ unnamed => w \in ToSet(follows_from'[x])
             /\ w \in ToSet(follows_from'[x]) => named \/ w \in ToSet(follows_from[x])
             /\ named /\ ~ unnamed => w \in ToSet(follows_from'[x]) /\ x \in ToSet(follows_to'[w])
             /\ x \in ToSet(follows_to[w]) /\ ~ unnamed => x \in ToSet(follows_to'[w])
             /\ x \in ToSet(follows_to'[w]) => named \/ x \in ToSet(follows_to[w])
             /\ IsInjective(follows_from[x]) /\ fresh =>
                  /\ IsInjective(follows_from'[x])
                  /\ unnamed => w \notin ToSet(follows_from'[x])
             /\ IsInjective(follows_to[w]) /\ IsInjective(p[1])
                /\ (w \in ToSet(p[1]) => v \notin ToSet(follows_to[w])) =>
                  /\ IsInjective(follows_to'[w])
                  /\ unnamed => x \notin ToSet(follows_to'[w])
<1>1. v \in Users /\ p[1] \in Seq(Users) /\ p[2] \in Seq(Users)
  BY Accepted DEF follow
<1>. DEFINE F == ToSet(p[1])
            U == ToSet(p[2])
            added == IF w \in F THEN {v} ELSE {}
            removed == IF w \in U THEN {v} ELSE {}
            allFrom == ToSet(follows_from[v]) \cup F
            allTo == ToSet(follows_to[w]) \cup added
<1>2. /\ follows_from' = [follows_from EXCEPT ![v] = diff_vectors(follows_from[v], p[1], p[2])]
      /\ follows_to' = toAll(follows_to, v, p[1], p[2])
  BY DEF follow
<1>3. follows_from[v] \in Seq(Users) /\ follows_to \in Rows
  BY <1>1 DEF FollowsTypeOK, Rows
<1>4. follows_from'[v] = diff_vectors(follows_from[v], p[1], p[2])
      /\ \A y \in Users : y # v => follows_from'[y] = follows_from[y]
  BY <1>1, <1>2 DEF FollowsTypeOK
<1>5. /\ allFrom \ U \subseteq ToSet(follows_from'[v])
      /\ ToSet(follows_from'[v]) \subseteq allFrom
      /\ IsInjective(follows_from[v]) /\ IsInjective(p[1]) /\ ToSet(follows_from[v]) \cap F = {} =>
           /\ IsInjective(follows_from'[v])
           /\ ToSet(follows_from'[v]) = allFrom \ U
  BY <1>1, <1>3, <1>4, DiffKeeps
<1>6. /\ allTo \ removed \subseteq ToSet(follows_to'[w])
      /\ ToSet(follows_to'[w]) \subseteq allTo
      /\ IsInjective(follows_to[w]) /\ IsInjective(p[1]) /\ ToSet(follows_to[w]) \cap added = {} =>
           /\ IsInjective(follows_to'[w])
           /\ ToSet(follows_to'[w]) = allTo \ removed
  <2>1. ChangesAll(follows_to, v, p[1], p[2], toAll(follows_to, v, p[1], p[2]))
    BY <1>1, <1>3, ToAllKeeps
  <2>. QED  BY <1>2, <2>1, Zenon DEF ChangesAll
<1>. HIDE DEF F, U
<1>7. CASE x = v
  <2>1. added = IF w \in F THEN {x} ELSE {}
    BY <1>7
  <2>. QED  BY <1>5, <1>6, <1>7 DEF F, U
<1>8. CASE x # v
  BY <1>4, <1>6, <1>8 DEF F, U
<1>. QED  BY <1>7, <1>8

LEMMA InContains ==
  ASSUME FollowsTypeOK, NEW x \in Users, NEW w \in Users
  PROVE  /\ Contains(follows_from[x], w) <=> w \in ToSet(follows_from[x])
         /\ Contains(follows_to[w], x) <=> x \in ToSet(follows_to[w])
<1>1. follows_from[x] \in Seq(Users) /\ follows_to[w] \in Seq(Users)
  BY DEF FollowsTypeOK
<1>. QED  BY <1>1, Members

LEMMA AgreeInit == FollowsInit => AgreeUntilAgain
<1>. SUFFICES ASSUME FollowsInit PROVE AgreeUntilAgain
  OBVIOUS
<1>1. \A v \in Users : follows_from[v] = <<>> /\ follows_to[v] = <<>>
  BY DEF FollowsInit
<1>2. FollowsTypeOK
  BY InitType
<1>3. \A v, w \in Users : ~ Contains(follows_from[v], w) /\ ~ Contains(follows_to[w], v)
  BY <1>1, <1>2, InContains, Members DEF FollowsTypeOK
<1>4. IsInjective(<<>>)
  BY DEF IsInjective
<1>. QED  BY <1>1, <1>3, <1>4, Zenon DEF AgreeUntilAgain, Agree

LEMMA AgreeNext ==
  FollowsTypeOK /\ FollowsTypeOK' /\ AgreeUntilAgain /\ [FollowsNext]_vars => AgreeUntilAgain'
<1>. SUFFICES ASSUME FollowsTypeOK, FollowsTypeOK', AgreeUntilAgain, [FollowsNext]_vars
              PROVE  AgreeUntilAgain'
  OBVIOUS
<1>1. ASSUME NEW v \in Fans, NEW p \in Payloads, follow(v, p[1], p[2]), ~ again'
      PROVE  /\ Agree'
             /\ \A u \in Users : IsInjective(follows_from'[u]) /\ IsInjective(follows_to'[u])
  <2>1. ~ again /\ IsInjective(p[1]) /\ ToSet(p[1]) \cap ToSet(follows_from[v]) = {}
    BY <1>1, Zenon DEF follow
  <2>2. Agree /\ \A u \in Users : IsInjective(follows_from[u]) /\ IsInjective(follows_to[u])
    BY <2>1 DEF AgreeUntilAgain
  <2>3. v \in Users
    BY FollowsAssumption
  <2>4. \A x, w \in Users : w \in ToSet(follows_from[x]) <=> x \in ToSet(follows_to[w])
    BY <2>2, InContains DEF Agree
  <2>5. ASSUME NEW x \in Users, NEW w \in Users
        PROVE  /\ w \in ToSet(follows_from'[x]) <=> x \in ToSet(follows_to'[w])
               /\ IsInjective(follows_from'[x]) /\ IsInjective(follows_to'[w])
    <3>1. w \in ToSet(p[1]) => v \notin ToSet(follows_to[w])
      BY <2>1, <2>3, <2>4
    <3>2. LET named == x = v /\ w \in ToSet(p[1])
              unnamed == x = v /\ w \in ToSet(p[2])
          IN  /\ w \in ToSet(follows_from[x]) /\ ~ unnamed => w \in ToSet(follows_from'[x])
              /\ w \in ToSet(follows_from'[x]) => named \/ w \in ToSet(follows_from[x])
              /\ named /\ ~ unnamed => w \in ToSet(follows_from'[x]) /\ x \in ToSet(follows_to'[w])
              /\ x \in ToSet(follows_to[w]) /\ ~ unnamed => x \in ToSet(follows_to'[w])
              /\ x \in ToSet(follows_to'[w]) => named \/ x \in ToSet(follows_to[w])
              /\ IsInjective(follows_from'[x])
              /\ unnamed => w \notin ToSet(follows_from'[x])
              /\ IsInjective(follows_to'[w])
              /\ unnamed => x \notin ToSet(follows_to'[w])
      BY <1>1, <2>1, <2>2, <3>1, FollowStep
    <3>. QED  BY <2>4, <3>2
  <2>6. Agree'
    <3>1. \A x, w \in Users : /\ Contains(follows_from'[x], w) <=> w \in ToSet(follows_from'[x])
                              /\ Contains(follows_to'[w], x) <=> x \in ToSet(follows_to'[w])
      BY Members DEF FollowsTypeOK
    <3>. QED  BY <2>5, <3>1 DEF Agree
  <2>. QED  BY <2>5, <2>6
<1>2. ASSUME NEW b \in BOOLEAN, pause(b) PROVE AgreeUntilAgain'
  BY <1>2 DEF pause, AgreeUntilAgain, Agree
<1>3. CASE UNCHANGED vars
  BY <1>3 DEF vars, AgreeUntilAgain, Agree
<1>. QED  BY <1>1, <1>2, <1>3, Zenon DEF FollowsNext, AgreeUntilAgain

(* Whoever follows only whom he does not follow yet cannot make the two    *)
(* tables tell different things, nor get a name into a list twice.         *)
THEOREM AgreementUntilAgain == FollowsSpec => []AgreeUntilAgain
<1>1. FollowsTypeOK /\ AgreeUntilAgain /\ [FollowsNext]_vars => (FollowsTypeOK /\ AgreeUntilAgain)'
  BY NextType, AgreeNext
<1>. QED  BY <1>1, InitType, AgreeInit, PTL DEF FollowsSpec

OnlyAsSentStep ==
  \A v, w \in Users :
    LET added == sent'.by = v /\ w \in sent'.follows
        removed == sent'.by = v /\ w \in sent'.unfollows
        sentBefore(list, x) == Contains(list, x) /\ ~ removed
    IN  /\ sentBefore(follows_from[v], w) => Contains(follows_from'[v], w)
        /\ sentBefore(follows_to[w], v) => Contains(follows_to'[w], v)
        /\ Contains(follows_from'[v], w) => added \/ Contains(follows_from[v], w)
        /\ Contains(follows_to'[w], v) => added \/ Contains(follows_to[w], v)
        /\ added /\ ~ removed =>
             Contains(follows_from'[v], w) /\ Contains(follows_to'[w], v)

LEMMA SentStep == FollowsTypeOK /\ FollowsTypeOK' /\ [FollowsNext]_vars => [OnlyAsSentStep]_vars
<1>. SUFFICES ASSUME FollowsTypeOK, FollowsTypeOK', FollowsNext PROVE OnlyAsSentStep
  OBVIOUS
<1>1. ASSUME NEW u \in Fans, NEW p \in Payloads, follow(u, p[1], p[2]) PROVE OnlyAsSentStep
  <2>1. sent' = [by |-> u, follows |-> ToSet(p[1]), unfollows |-> ToSet(p[2])]
    BY <1>1 DEF follow
  <2>2. sent'.by = u /\ sent'.follows = ToSet(p[1]) /\ sent'.unfollows = ToSet(p[2])
    BY <2>1
  <2>3. ASSUME NEW x \in Users, NEW w \in Users
        PROVE  /\ Contains(follows_from[x], w) <=> w \in ToSet(follows_from[x])
               /\ Contains(follows_to[w], x) <=> x \in ToSet(follows_to[w])
               /\ Contains(follows_from'[x], w) <=> w \in ToSet(follows_from'[x])
               /\ Contains(follows_to'[w], x) <=> x \in ToSet(follows_to'[w])
    BY Members DEF FollowsTypeOK
  <2>4. ASSUME NEW x \in Users, NEW w \in Users
        PROVE  LET named == x = u /\ w \in ToSet(p[1])
                   unnamed == x = u /\ w \in ToSet(p[2])
               IN  /\ w \in ToSet(follows_from[x]) /\ ~ unnamed => w \in ToSet(follows_from'[x])
                   /\ w \in ToSet(follows_from'[x]) => named \/ w \in ToSet(follows_from[x])
                   /\ named /\ ~ unnamed => w \in ToSet(follows_from'[x]) /\ x \in ToSet(follows_to'[w])
                   /\ x \in ToSet(follows_to[w]) /\ ~ unnamed => x \in ToSet(follows_to'[w])
                   /\ x \in ToSet(follows_to'[w]) => named \/ x \in ToSet(follows_to[w])
    BY <1>1, FollowStep
  <2>. QED  BY <2>2, <2>3, <2>4 DEF OnlyAsSentStep
<1>2. ASSUME NEW b \in BOOLEAN, pause(b) PROVE OnlyAsSentStep
  <2>1. follows_from' = follows_from /\ follows_to' = follows_to /\ sent' = Nothing
    BY <1>2 DEF pause
  <2>2. sent'.follows = {} /\ sent'.unfollows = {}
    BY <2>1 DEF Nothing
  <2>. QED  BY <2>1, <2>2 DEF OnlyAsSentStep
<1>. QED  BY <1>1, <1>2, Zenon DEF FollowsNext

(* Nobody enters or leaves a list unless the sender of the payload named   *)
(* him, or her whose list it is; whom he names to follow is there.         *)
THEOREM OnlySentChanges == FollowsSpec => OnlyAsSent
<1>1. FollowsTypeOK /\ [FollowsNext]_vars => FollowsTypeOK'
  BY NextType
<1>2. FollowsTypeOK /\ FollowsTypeOK' /\ [FollowsNext]_vars => [OnlyAsSentStep]_vars
  BY SentStep
<1>. QED  BY <1>1, <1>2, InitType, PTL DEF FollowsSpec, OnlyAsSent, OnlyAsSentStep
=============================================================================

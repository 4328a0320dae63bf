----------------------------- MODULE VramProofs -----------------------------
(* The vRAM tables, for any shards, buckets, hash, scopes and keys.        *)
EXTENDS VramTable, TLAPS, WellFoundedInduction

-----------------------------------------------------------------------------
(* The search in a bucket. *)

(* A nonempty set of numbers has a smallest one. *)
LEMMA SmallestNumber ==
  ASSUME NEW T \in SUBSET Nat, T # {}
  PROVE  \E n \in T : \A m \in T : ~ (m < n)
<1>1. PICK n \in T : \A m \in T : ~ (<<m, n>> \in OpToRel(<, Nat))
  BY NatLessThanWellFounded, WFMin
<1>2. \A m \in T : m < n => <<m, n>> \in OpToRel(<, Nat)
  BY DEF OpToRel
<1>. QED  BY <1>1, <1>2

(* It ends at the first entry it does not go past, or behind the last. *)
LEMMA SearchEnds ==
  ASSUME NEW S, NEW bucket \in Seq(S), NEW id
  PROVE  /\ position(bucket, id) \in 1..(Len(bucket) + 1)
         /\ \A j \in 1..(position(bucket, id) - 1) : ~ stops(bucket[j], id)
         /\ position(bucket, id) \in DOMAIN bucket => stops(bucket[position(bucket, id)], id)
<1>. DEFINE Ends(i) == /\ \A j \in 1..(i - 1) : ~ stops(bucket[j], id)
                       /\ i \in DOMAIN bucket => stops(bucket[i], id)
            T == {i \in 1..(Len(bucket) + 1) : i \in DOMAIN bucket => stops(bucket[i], id)}
<1>0. DOMAIN bucket = 1..Len(bucket) /\ Len(bucket) \in Nat
  OBVIOUS
<1>1. T \in SUBSET Nat /\ Len(bucket) + 1 \in T
  BY <1>0
<1>. HIDE DEF T
<1>2. PICK n \in T : \A m \in T : ~ (m < n)
  BY <1>1, SmallestNumber
<1>3. n \in 1..(Len(bucket) + 1) /\ Ends(n)
  BY <1>0, <1>2 DEF T
<1>4. position(bucket, id) = CHOOSE i \in 1..(Len(bucket) + 1) : Ends(i)
  BY DEF position
<1>5. position(bucket, id) \in 1..(Len(bucket) + 1) /\ Ends(position(bucket, id))
  BY <1>3, <1>4
<1>. QED  BY <1>5

(* An entry blocks an id if the search for it stops there. *)
Blocks(i, j) == ~ (scope(j) < scope(i)) /\ ~ (key(i) < key(j))

LEMMA BlocksOrder ==
  /\ \A e \in Entries : e.id \in Ids
  /\ \A e, id : stops(e, id) <=> Blocks(e.id, id)
  /\ \A i \in Ids : Blocks(i, i)
  /\ \A i, j, k \in Ids : Blocks(i, j) /\ Blocks(j, k) => Blocks(i, k)
  /\ \A i, j \in Ids : Blocks(i, j) /\ Blocks(j, i) => i = j
<1>1. \A i \in Ids : scope(i) \in Nat /\ key(i) \in Nat /\ i = <<scope(i), key(i)>>
  BY VramAssumption DEF scope, key
<1>2. \A i, j \in Ids : scope(i) = scope(j) /\ key(i) = key(j) => i = j
  BY <1>1
<1>. QED  BY <1>1, <1>2 DEF Ids, stops, Blocks

(* What keeps the search exact: no entry of a bucket blocks a later one.   *)
Sorted(bucket) ==
  \A i, j \in DOMAIN bucket : i < j => ~ Blocks(bucket[i].id, bucket[j].id)

LEMMA EntryOnce ==
  ASSUME NEW bucket \in Seq(Entries), Sorted(bucket),
         NEW i \in DOMAIN bucket, NEW j \in DOMAIN bucket, bucket[i].id = bucket[j].id
  PROVE  i = j
<1>1. DOMAIN bucket = 1..Len(bucket) /\ Len(bucket) \in Nat /\ bucket[i] \in Entries
  OBVIOUS
<1>2. Blocks(bucket[i].id, bucket[i].id)
  BY <1>1, BlocksOrder
<1>. QED  BY <1>1, <1>2 DEF Sorted

(* The search finds the entry of an id if there is one. *)
LEMMA SearchFinds ==
  ASSUME NEW bucket \in Seq(Entries), Sorted(bucket), NEW id \in Ids
  PROVE  /\ position(bucket, id) \in 1..(Len(bucket) + 1)
         /\ \A k \in DOMAIN bucket : bucket[k].id = id => k = position(bucket, id)
<1>. DEFINE i == position(bucket, id)
<1>0. DOMAIN bucket = 1..Len(bucket) /\ Len(bucket) \in Nat /\ \A k \in DOMAIN bucket : bucket[k] \in Entries
  OBVIOUS
<1>1. /\ i \in 1..(Len(bucket) + 1)
      /\ \A j \in 1..(i - 1) : ~ stops(bucket[j], id)
      /\ i \in DOMAIN bucket => stops(bucket[i], id)
  BY SearchEnds
<1>. HIDE DEF i
<1>2. ASSUME NEW k \in DOMAIN bucket, bucket[k].id = id PROVE k = i
  <2>1. stops(bucket[k], id)
    BY <1>0, <1>2, BlocksOrder
  <2>2. ~ (k < i)
    BY <1>0, <1>1, <2>1
  <2>3. ASSUME i < k PROVE FALSE
    <3>1. i \in DOMAIN bucket
      BY <1>0, <1>1, <2>3
    <3>2. Blocks(bucket[i].id, bucket[k].id)
      BY <1>1, <1>2, <3>1, BlocksOrder
    <3>. QED  BY <2>3, <3>1, <3>2 DEF Sorted
  <2>. QED  BY <1>0, <1>1, <2>2, <2>3
<1>. QED  BY <1>1, <1>2 DEF i

LEMMA LookupInBucket ==
  ASSUME NEW bucket \in Seq(Entries), Sorted(bucket), NEW id \in Ids
  PROVE  LET found == _parseCacheBucket(bucket, id).found
         IN  /\ Range(found) = {e \in Range(bucket) : e.id = id}
             /\ found = <<>> <=> {e \in Range(bucket) : e.id = id} = {}
<1>. DEFINE i == position(bucket, id)
            found == _parseCacheBucket(bucket, id).found
<1>0. DOMAIN bucket = 1..Len(bucket) /\ Len(bucket) \in Nat
  OBVIOUS
<1>1. i \in 1..(Len(bucket) + 1) /\ \A k \in DOMAIN bucket : bucket[k].id = id => k = i
  BY SearchFinds
<1>. HIDE DEF i
<1>2. CASE matches(bucket, i, id)
  <2>1. i \in DOMAIN bucket /\ bucket[i].id = id
    BY <1>2 DEF matches
  <2>2. found = SubSeq(bucket, i, i)
    BY <1>2 DEF _parseCacheBucket, i
  <2>3. DOMAIN found = {1} /\ found[1] = bucket[i] /\ found # <<>>
    <3>0. i \in 1..Len(bucket)
      BY <1>0, <2>1
    <3>. HIDE DEF found
    <3>1. found \in Seq(Entries) /\ Len(found) = 1 /\ found[1] = bucket[i]
      BY <2>2, <3>0
    <3>2. DOMAIN found = 1..1
      BY <3>1
    <3>3. 1..1 = {1}
      OBVIOUS
    <3>4. Len(<<>>) # 1
      OBVIOUS
    <3>5. found # <<>>
      BY <3>1, <3>4, Zenon
    <3>. QED  BY <3>1, <3>2, <3>3, <3>5
  <2>4. Range(found) = {bucket[i]}
    BY <2>3 DEF Range
  <2>5. {e \in Range(bucket) : e.id = id} = {bucket[i]}
    BY <1>1, <2>1 DEF Range
  <2>. QED  BY <2>3, <2>4, <2>5
<1>3. CASE ~ matches(bucket, i, id)
  <2>1. \A k \in DOMAIN bucket : bucket[k].id # id
    BY <1>1, <1>3 DEF matches
  <2>2. found = SubSeq(bucket, i, i - 1)
    BY <1>3 DEF _parseCacheBucket, i
  <2>3. found = <<>> /\ DOMAIN found = {}
    BY <1>0, <1>1, <2>2
  <2>. QED  BY <2>1, <2>3 DEF Range
<1>. QED  BY <1>2, <1>3
-----------------------------------------------------------------------------
(* Writing into a bucket. *)

LEMMA Slice ==
  ASSUME NEW S, NEW s \in Seq(S), NEW m \in 1..(Len(s) + 1), NEW n \in (m - 1)..Len(s)
  PROVE  /\ SubSeq(s, m, n) \in Seq(S) /\ Len(SubSeq(s, m, n)) = n - m + 1
         /\ \A k \in 1..(n - m + 1) : SubSeq(s, m, n)[k] = s[k + m - 1]
<1>1. SubSeq(s, m, n) \in Seq(S) /\ Len(SubSeq(s, m, n)) = n - m + 1
  OBVIOUS
<1>2. \A k \in 1..(n - m + 1) : SubSeq(s, m, n)[k] = s[k + m - 1]
  OBVIOUS
<1>. QED  BY <1>1, <1>2

LEMMA Joined ==
  ASSUME NEW S, NEW s \in Seq(S), NEW t \in Seq(S)
  PROVE  /\ s \o t \in Seq(S) /\ Len(s \o t) = Len(s) + Len(t)
         /\ \A k \in 1..Len(s) : (s \o t)[k] = s[k]
         /\ \A k \in (Len(s) + 1)..(Len(s) + Len(t)) : (s \o t)[k] = t[k - Len(s)]
<1>1. s \o t \in Seq(S) /\ Len(s \o t) = Len(s) + Len(t)
  OBVIOUS
<1>2. \A k \in 1..Len(s) : (s \o t)[k] = s[k]
  OBVIOUS
<1>3. \A k \in (Len(s) + 1)..(Len(s) + Len(t)) : (s \o t)[k] = t[k - Len(s)]
  OBVIOUS
<1>. QED  BY <1>1, <1>2, <1>3

(* The parts on both sides of an entry, or of its place: all other entries,*)
(* none before blocks the id, the id blocks none behind.                   *)
LEMMA Parts ==
  ASSUME NEW bucket \in Seq(Entries), Sorted(bucket), NEW id \in Ids
  PROVE  LET parts == _parseCacheBucket(bucket, id)
         IN  \E m \in 1..(Len(bucket) + 1), n \in 0..Len(bucket) :
               /\ n = m \/ n = m - 1
               /\ n = m <=> \E k \in DOMAIN bucket : bucket[k].id = id
               /\ parts.before \in Seq(Entries) /\ Len(parts.before) = m - 1
               /\ \A k \in 1..(m - 1) : parts.before[k] = bucket[k]
               /\ parts.after \in Seq(Entries) /\ Len(parts.after) = Len(bucket) - n
               /\ \A k \in 1..(Len(bucket) - n) : parts.after[k] = bucket[k + n]
               /\ \A k \in DOMAIN bucket : bucket[k].id # id <=> k < m \/ n < k
               /\ \A k \in DOMAIN bucket : k < m => ~ Blocks(bucket[k].id, id)
               /\ \A k \in DOMAIN bucket : n < k => ~ Blocks(id, bucket[k].id)
<1>. DEFINE parts == _parseCacheBucket(bucket, id)
            m == position(bucket, id)
            n == IF matches(bucket, m, id) THEN m ELSE m - 1
<1>0. /\ DOMAIN bucket = 1..Len(bucket) /\ Len(bucket) \in Nat
      /\ \A k \in DOMAIN bucket : bucket[k] \in Entries /\ bucket[k].id \in Ids
  BY BlocksOrder
<1>1. /\ m \in 1..(Len(bucket) + 1)
      /\ \A k \in DOMAIN bucket : bucket[k].id = id => k = m
      /\ \A k \in 1..(m - 1) : ~ stops(bucket[k], id)
      /\ m \in DOMAIN bucket => stops(bucket[m], id)
  BY SearchEnds, SearchFinds
<1>2. /\ parts.before = SubSeq(bucket, 1, m - 1)
      /\ parts.after = SubSeq(bucket, n + 1, Len(bucket))
  BY DEF _parseCacheBucket
<1>. HIDE DEF parts, m
<1>3. /\ n = m \/ n = m - 1
      /\ n = m <=> m \in DOMAIN bucket /\ bucket[m].id = id
      /\ n \in 0..Len(bucket)
  BY <1>0, <1>1 DEF matches
<1>. HIDE DEF n
<1>4. /\ parts.before \in Seq(Entries) /\ Len(parts.before) = m - 1
      /\ \A k \in 1..(m - 1) : parts.before[k] = bucket[k]
  <2>1. 1 \in 1..(Len(bucket) + 1) /\ m - 1 \in (1 - 1)..Len(bucket)
    BY <1>0, <1>1
  <2>2. /\ SubSeq(bucket, 1, m - 1) \in Seq(Entries) /\ Len(SubSeq(bucket, 1, m - 1)) = (m - 1) - 1 + 1
        /\ \A k \in 1..((m - 1) - 1 + 1) : SubSeq(bucket, 1, m - 1)[k] = bucket[k + 1 - 1]
    BY <2>1, Slice
  <2>. QED  BY <1>1, <1>2, <2>2
<1>5. /\ parts.after \in Seq(Entries) /\ Len(parts.after) = Len(bucket) - n
      /\ \A k \in 1..(Len(bucket) - n) : parts.after[k] = bucket[k + n]
  <2>1. n + 1 \in 1..(Len(bucket) + 1) /\ Len(bucket) \in ((n + 1) - 1)..Len(bucket)
    BY <1>0, <1>3
  <2>2. /\ SubSeq(bucket, n + 1, Len(bucket)) \in Seq(Entries)
        /\ Len(SubSeq(bucket, n + 1, Len(bucket))) = Len(bucket) - (n + 1) + 1
        /\ \A k \in 1..(Len(bucket) - (n + 1) + 1) :
              SubSeq(bucket, n + 1, Len(bucket))[k] = bucket[k + (n + 1) - 1]
    BY <2>1, Slice
  <2>3. /\ Len(bucket) - (n + 1) + 1 = Len(bucket) - n
        /\ \A k \in 1..(Len(bucket) - n) : k + (n + 1) - 1 = k + n
    BY <1>0, <1>3
  <2>. QED  BY <1>2, <2>2, <2>3
<1>6. \A k \in DOMAIN bucket : bucket[k].id # id <=> k < m \/ n < k
  BY <1>0, <1>1, <1>3
<1>7. \A k \in DOMAIN bucket : k < m => ~ Blocks(bucket[k].id, id)
  BY <1>0, <1>1, BlocksOrder
<1>8. ASSUME NEW k \in DOMAIN bucket, n < k, Blocks(id, bucket[k].id) PROVE FALSE
  <2>1. m \in DOMAIN bucket /\ m <= k /\ (m = k => n # m)
    BY <1>0, <1>1, <1>3, <1>8
  <2>2. Blocks(bucket[m].id, id)
    BY <1>1, <2>1, BlocksOrder
  <2>3. Blocks(bucket[m].id, bucket[k].id)
    BY <1>0, <1>8, <2>1, <2>2, BlocksOrder
  <2>4. m = k
    BY <1>0, <1>1, <2>1, <2>3 DEF Sorted
  <2>5. bucket[m].id = id
    BY <1>0, <1>8, <2>1, <2>2, <2>4, BlocksOrder
  <2>. QED  BY <1>3, <2>1, <2>4, <2>5
<1>9. n = m <=> \E k \in DOMAIN bucket : bucket[k].id = id
  BY <1>1, <1>3
<1>. QED  BY <1>1, <1>3, <1>4, <1>5, <1>6, <1>7, <1>8, <1>9 DEF parts

(* An entry put in its place, or in the place of the one of its id. *)
LEMMA PutInBucket ==
  ASSUME NEW bucket \in Seq(Entries), Sorted(bucket), NEW e \in Entries
  PROVE  LET new == _combineParsedBucketParts(_parseCacheBucket(bucket, e.id), <<e>>)
         IN  /\ new \in Seq(Entries) /\ Sorted(new)
             /\ Range(new) = {x \in Range(bucket) : x.id # e.id} \cup {e}
<1>. DEFINE parts == _parseCacheBucket(bucket, e.id)
            new == _combineParsedBucketParts(parts, <<e>>)
            front == parts.before \o <<e>>
<1>0. /\ DOMAIN bucket = 1..Len(bucket) /\ Len(bucket) \in Nat /\ e.id \in Ids
      /\ \A k \in DOMAIN bucket : bucket[k] \in Entries
  BY BlocksOrder
<1>1. PICK m \in 1..(Len(bucket) + 1), n \in 0..Len(bucket) :
        /\ n = m \/ n = m - 1
        /\ parts.before \in Seq(Entries) /\ Len(parts.before) = m - 1
        /\ \A k \in 1..(m - 1) : parts.before[k] = bucket[k]
        /\ parts.after \in Seq(Entries) /\ Len(parts.after) = Len(bucket) - n
        /\ \A k \in 1..(Len(bucket) - n) : parts.after[k] = bucket[k + n]
        /\ \A k \in DOMAIN bucket : bucket[k].id # e.id <=> k < m \/ n < k
        /\ \A k \in DOMAIN bucket : k < m => ~ Blocks(bucket[k].id, e.id)
        /\ \A k \in DOMAIN bucket : n < k => ~ Blocks(e.id, bucket[k].id)
  BY <1>0, Parts
<1>2. new = front \o parts.after
  BY DEF _combineParsedBucketParts
<1>. HIDE DEF parts
<1>3. /\ front \in Seq(Entries) /\ Len(front) = m /\ front[m] = e
      /\ \A k \in 1..(m - 1) : front[k] = parts.before[k]
  BY <1>0, <1>1
<1>. HIDE DEF front, new
<1>k. m \in 1..(Len(bucket) + 1) /\ n \in 0..Len(bucket) /\ (n = m \/ n = m - 1)
  BY <1>1, Zenon
<1>n. /\ m \in Nat /\ n \in Nat /\ Len(bucket) \in Nat /\ 1 <= m /\ m <= n + 1 /\ n <= m
      /\ n <= Len(bucket) /\ m <= Len(bucket) + 1
  BY <1>0, <1>k
<1>4. /\ new \in Seq(Entries) /\ Len(new) = m + (Len(bucket) - n)
      /\ \A k \in 1..m : new[k] = front[k]
      /\ \A k \in (m + 1)..(m + (Len(bucket) - n)) : new[k] = parts.after[k - m]
  <2>. DEFINE t == parts.after
  <2>1. t \in Seq(Entries) /\ Len(t) = Len(bucket) - n /\ new = front \o t
    BY <1>1, <1>2
  <2>. HIDE DEF t
  <2>2. /\ new \in Seq(Entries) /\ Len(new) = Len(front) + Len(t)
        /\ \A k \in 1..Len(front) : new[k] = front[k]
        /\ \A k \in (Len(front) + 1)..(Len(front) + Len(t)) : new[k] = t[k - Len(front)]
    BY <1>3, <2>1, Joined
  <2>. QED  BY <1>3, <2>1, <2>2 DEF t
<1>5. DOMAIN new = 1..(m + (Len(bucket) - n))
  BY <1>4
<1>6. /\ m \in DOMAIN new /\ new[m] = e
      /\ \A k \in DOMAIN new : k < m => k \in DOMAIN bucket /\ new[k] = bucket[k]
      /\ \A k \in DOMAIN new : k > m => k - m + n \in DOMAIN bucket /\ new[k] = bucket[k - m + n]
                                      /\ k - m + n > n
  <2>1. m \in DOMAIN new /\ new[m] = e
    BY <1>n, <1>3, <1>4, <1>5
  <2>2. ASSUME NEW k \in DOMAIN new, k < m PROVE k \in DOMAIN bucket /\ new[k] = bucket[k]
    <3>1. k \in 1..(m - 1) /\ k \in 1..m /\ k \in DOMAIN bucket
      BY <1>0, <1>n, <1>5, <2>2
    <3>. QED  BY <1>1, <1>3, <1>4, <3>1
  <2>3. ASSUME NEW k \in DOMAIN new, k > m
        PROVE  k - m + n \in DOMAIN bucket /\ new[k] = bucket[k - m + n] /\ k - m + n > n
    <3>1. /\ k - m \in 1..(Len(bucket) - n) /\ k \in (m + 1)..(m + (Len(bucket) - n))
          /\ k - m + n \in DOMAIN bucket /\ k - m + n > n
      BY <1>0, <1>n, <1>5, <2>3
    <3>. QED  BY <1>1, <1>4, <3>1
  <2>. QED  BY <2>1, <2>2, <2>3
<1>7. Sorted(new)
  <2>. SUFFICES ASSUME NEW i \in DOMAIN new, NEW j \in DOMAIN new, i < j
                PROVE  ~ Blocks(new[i].id, new[j].id)
    BY DEF Sorted
  <2>0. i \in Nat /\ j \in Nat /\ m \in Nat /\ n \in Nat /\ m <= n + 1
    BY <1>n, <1>5
  <2>1. CASE i = m
    BY <1>1, <1>6, <2>0, <2>1
  <2>2. CASE j = m
    BY <1>1, <1>6, <2>0, <2>2
  <2>3. CASE j < m
    <3>1. i < m
      BY <2>0, <2>3
    <3>. QED  BY <1>6, <2>3, <3>1 DEF Sorted
  <2>4. CASE i < m /\ m < j
    <3>1. i < j - m + n
      BY <2>0, <2>4
    <3>. QED  BY <1>6, <2>4, <3>1 DEF Sorted
  <2>5. CASE m < i
    <3>1. m < j /\ i - m + n < j - m + n
      BY <2>0, <2>5
    <3>. QED  BY <1>6, <2>5, <3>1 DEF Sorted
  <2>. QED  BY <2>0, <2>1, <2>2, <2>3, <2>4, <2>5
<1>8. Range(new) = {x \in Range(bucket) : x.id # e.id} \cup {e}
  <2>1. ASSUME NEW k \in DOMAIN new
        PROVE  new[k] \in {x \in Range(bucket) : x.id # e.id} \cup {e}
    <3>1. CASE k = m
      BY <1>6, <3>1
    <3>2. CASE k < m
      BY <1>1, <1>6, <3>2 DEF Range
    <3>3. CASE k > m
      BY <1>1, <1>6, <3>3 DEF Range
    <3>. QED  BY <1>n, <1>5, <3>1, <3>2, <3>3
  <2>2. ASSUME NEW k \in DOMAIN bucket, bucket[k].id # e.id PROVE bucket[k] \in Range(new)
    <3>1. CASE k < m
      <4>1. k \in DOMAIN new
        BY <1>0, <1>n, <1>5, <3>1
      <4>. QED  BY <1>6, <3>1, <4>1 DEF Range
    <3>2. CASE n < k
      <4>1. k - n + m \in DOMAIN new /\ k - n + m > m /\ (k - n + m) - m + n = k
        BY <1>0, <1>n, <1>5, <3>2
      <4>2. new[k - n + m] = bucket[k]
        BY <1>6, <4>1
      <4>. QED  BY <4>1, <4>2 DEF Range
    <3>. QED  BY <1>1, <2>2, <3>1, <3>2
  <2>3. e \in Range(new)
    BY <1>6 DEF Range
  <2>. QED  BY <2>1, <2>2, <2>3 DEF Range
<1>. QED  BY <1>4, <1>7, <1>8 DEF new, parts

(* The entry of an id taken out. *)
LEMMA RemovedFromBucket ==
  ASSUME NEW bucket \in Seq(Entries), Sorted(bucket), NEW id \in Ids,
         \E k \in DOMAIN bucket : bucket[k].id = id
  PROVE  LET new == _combineParsedBucketParts(_parseCacheBucket(bucket, id), <<>>)
         IN  /\ new \in Seq(Entries) /\ Sorted(new)
             /\ Range(new) = {x \in Range(bucket) : x.id # id}
<1>. DEFINE parts == _parseCacheBucket(bucket, id)
            new == _combineParsedBucketParts(parts, <<>>)
<1>0. DOMAIN bucket = 1..Len(bucket) /\ Len(bucket) \in Nat
  OBVIOUS
<1>1. PICK m \in 1..(Len(bucket) + 1), n \in 0..Len(bucket) :
        /\ n = m
        /\ parts.before \in Seq(Entries) /\ Len(parts.before) = m - 1
        /\ \A k \in 1..(m - 1) : parts.before[k] = bucket[k]
        /\ parts.after \in Seq(Entries) /\ Len(parts.after) = Len(bucket) - n
        /\ \A k \in 1..(Len(bucket) - n) : parts.after[k] = bucket[k + n]
        /\ \A k \in DOMAIN bucket : bucket[k].id # id <=> k < m \/ n < k
  BY Parts
<1>2. new = parts.before \o parts.after
  <2>1. parts.before \o <<>> = parts.before
    BY <1>1
  <2>. QED  BY <2>1 DEF _combineParsedBucketParts
<1>. HIDE DEF parts, new
<1>k. m \in 1..(Len(bucket) + 1) /\ n \in 0..Len(bucket) /\ n = m
  BY <1>1, Zenon
<1>n. m \in Nat /\ n = m /\ Len(bucket) \in Nat /\ 1 <= m /\ m <= Len(bucket)
  BY <1>0, <1>k
<1>3. /\ new \in Seq(Entries) /\ Len(new) = Len(bucket) - 1
      /\ \A k \in 1..(m - 1) : new[k] = parts.before[k]
      /\ \A k \in m..(Len(bucket) - 1) : new[k] = parts.after[k - (m - 1)]
  <2>1. /\ parts.before \in Seq(Entries) /\ Len(parts.before) = m - 1
        /\ parts.after \in Seq(Entries) /\ Len(parts.after) = Len(bucket) - n
    BY <1>1
  <2>. DEFINE s == parts.before
              t == parts.after
  <2>. HIDE DEF s, t
  <2>2. s \in Seq(Entries) /\ t \in Seq(Entries) /\ new = s \o t
    BY <1>2, <2>1 DEF s, t
  <2>3. /\ new \in Seq(Entries) /\ Len(new) = Len(s) + Len(t)
        /\ \A k \in 1..Len(s) : new[k] = s[k]
        /\ \A k \in (Len(s) + 1)..(Len(s) + Len(t)) : new[k] = t[k - Len(s)]
    BY <2>2, Joined
  <2>4. Len(s) = m - 1 /\ Len(s) + 1 = m /\ Len(s) + Len(t) = Len(bucket) - 1
    BY <1>n, <2>1 DEF s, t
  <2>. QED  BY <2>3, <2>4 DEF s, t
<1>4. DOMAIN new = 1..(Len(bucket) - 1)
  BY <1>3
<1>5. /\ \A k \in DOMAIN new : k < m => k \in DOMAIN bucket /\ new[k] = bucket[k]
      /\ \A k \in DOMAIN new : k >= m => k + 1 \in DOMAIN bucket /\ new[k] = bucket[k + 1]
  <2>1. ASSUME NEW k \in DOMAIN new, k < m PROVE k \in DOMAIN bucket /\ new[k] = bucket[k]
    <3>1. k \in 1..(m - 1) /\ k \in DOMAIN bucket
      BY <1>0, <1>n, <1>4, <2>1
    <3>. QED  BY <1>1, <1>3, <3>1
  <2>2. ASSUME NEW k \in DOMAIN new, k >= m
        PROVE  k + 1 \in DOMAIN bucket /\ new[k] = bucket[k + 1]
    <3>1. k - (m - 1) \in 1..(Len(bucket) - n) /\ (k - (m - 1)) + n = k + 1
      BY <1>0, <1>n, <1>4, <2>2
    <3>2. k \in m..(Len(bucket) - 1) /\ k + 1 \in DOMAIN bucket
      BY <1>0, <1>n, <1>4, <2>2
    <3>. QED  BY <1>1, <1>3, <3>1, <3>2
  <2>. QED  BY <2>1, <2>2
<1>6. Sorted(new)
  <2>. SUFFICES ASSUME NEW i \in DOMAIN new, NEW j \in DOMAIN new, i < j
                PROVE  ~ Blocks(new[i].id, new[j].id)
    BY DEF Sorted
  <2>. DEFINE old(k) == IF k < m THEN k ELSE k + 1
  <2>1. old(i) \in DOMAIN bucket /\ old(j) \in DOMAIN bucket /\ old(i) < old(j)
    BY <1>0, <1>n, <1>4
  <2>2. new[i] = bucket[old(i)] /\ new[j] = bucket[old(j)]
    BY <1>1, <1>4, <1>5
  <2>. QED  BY <2>1, <2>2 DEF Sorted
<1>7. Range(new) = {x \in Range(bucket) : x.id # id}
  <2>1. ASSUME NEW k \in DOMAIN new PROVE new[k] \in {x \in Range(bucket) : x.id # id}
    <3>1. CASE k < m
      BY <1>1, <1>5, <3>1 DEF Range
    <3>2. CASE k >= m
      <4>1. n < k + 1
        BY <1>n, <1>4, <3>2
      <4>. QED  BY <1>1, <1>5, <3>2, <4>1 DEF Range
    <3>. QED  BY <1>n, <1>4, <3>1, <3>2
  <2>2. ASSUME NEW k \in DOMAIN bucket, bucket[k].id # id PROVE bucket[k] \in Range(new)
    <3>1. CASE k < m
      <4>1. k \in DOMAIN new
        BY <1>0, <1>n, <1>4, <3>1
      <4>. QED  BY <1>5, <3>1, <4>1 DEF Range
    <3>2. CASE n < k
      <4>1. k - 1 \in DOMAIN new /\ k - 1 >= m /\ (k - 1) + 1 = k
        BY <1>0, <1>n, <1>4, <3>2
      <4>2. new[k - 1] = bucket[k]
        BY <1>5, <4>1
      <4>. QED  BY <4>1, <4>2 DEF Range
    <3>. QED  BY <1>1, <2>2, <3>1, <3>2
  <2>. QED  BY <2>1, <2>2 DEF Range
<1>. QED  BY <1>3, <1>6, <1>7 DEF new, parts
-----------------------------------------------------------------------------
(* Shards and tables of shards. *)

(* Every bucket is sorted, and every entry is where the hash sends it. *)
Sound(s, uri) ==
  /\ IsShard(uri)
  /\ \A b \in Buckets :
       /\ Sorted(uri[b])
       /\ \A e \in Range(uri[b]) : Home[e.id] = [shard |-> s, bucket |-> b]

AllSound(uris) == DOMAIN uris \subseteq Shards /\ \A s \in DOMAIN uris : Sound(s, uris[s])

VramInv ==
  /\ VramTypeOK
  /\ \A s \in DOMAIN shardbuckets : Sound(s, shardbuckets[s].shard_uri)
  /\ AllSound(vmanifest)
  /\ \A m \in backups : AllSound(m.shardbuckets)

LEMMA HomeOfId ==
  ASSUME NEW id \in Ids
  PROVE  /\ Home[id].shard \in Shards /\ Home[id].bucket \in Buckets
         /\ Home[id] = [shard |-> Home[id].shard, bucket |-> Home[id].bucket]
BY VramAssumption

LEMMA EmptyShardIsSound ==
  /\ \A s : Sound(s, EmptyShard)
  /\ \A b \in Buckets : EmptyShard[b] = <<>>
  /\ Content(EmptyShard) = {}
<1>1. IsShard(EmptyShard) /\ \A b \in Buckets : EmptyShard[b] = <<>>
  BY DEF EmptyShard, IsShard
<1>2. DOMAIN <<>> = {}
  OBVIOUS
<1>3. Range(<<>>) = {}
  BY <1>2 DEF Range
<1>4. \A b \in Buckets : Sorted(EmptyShard[b]) /\ Range(EmptyShard[b]) = {}
  BY <1>1, <1>2, <1>3 DEF Sorted
<1>. QED  BY <1>1, <1>4 DEF Sound, Content

LEMMA InContents ==
  ASSUME NEW uris, NEW x
  PROVE  x \in Contents(uris) <=> \E s \in DOMAIN uris, b \in Buckets : x \in Range(uris[s][b])
BY DEF Contents, Content

(* A row is in one place only. *)
LEMMA ContentsAtHome ==
  ASSUME NEW uris, AllSound(uris), NEW x \in Contents(uris)
  PROVE  /\ x \in Entries /\ x.id \in Ids
         /\ Home[x.id].shard \in DOMAIN uris
         /\ x \in Range(uris[Home[x.id].shard][Home[x.id].bucket])
<1>1. PICK s \in DOMAIN uris, b \in Buckets : x \in Range(uris[s][b])
  BY InContents
<1>2. uris[s][b] \in Seq(Entries) /\ Home[x.id] = [shard |-> s, bucket |-> b]
  BY <1>1 DEF AllSound, Sound, IsShard
<1>3. x \in Entries
  BY <1>1, <1>2 DEF Range
<1>. QED  BY <1>1, <1>2, <1>3, BlocksOrder

LEMMA ShardsSound == VramInv => AllSound(Latest)
<1>. SUFFICES ASSUME VramInv, NEW s \in Shards PROVE Sound(s, getShard(s))
  BY DEF Latest, AllSound
<1>. QED  BY EmptyShardIsSound DEF VramInv, AllSound, getShard, current

(* Every lookup of the owner is exact. *)
LEMMA LookupStep == VramInv => LookupIsExact /\ \A id \in Ids :
                      get(id) = <<>> <=> {e \in Contents(Latest) : e.id = id} = {}
<1>. SUFFICES ASSUME VramInv, NEW id \in Ids
              PROVE  /\ Range(get(id)) = {e \in Contents(Latest) : e.id = id}
                     /\ get(id) = <<>> <=> {e \in Contents(Latest) : e.id = id} = {}
  BY DEF LookupIsExact
<1>. DEFINE at == Home[id]
            bucket == getShard(at.shard)[at.bucket]
<1>1. at.shard \in Shards /\ at.bucket \in Buckets
  BY HomeOfId
<1>2. Latest[at.shard] = getShard(at.shard) /\ AllSound(Latest) /\ DOMAIN Latest = Shards
  BY <1>1, ShardsSound DEF Latest
<1>3. Sound(at.shard, getShard(at.shard))
  BY <1>1, <1>2 DEF AllSound
<1>4. bucket \in Seq(Entries) /\ Sorted(bucket)
  BY <1>1, <1>3 DEF Sound, IsShard
<1>5. {e \in Contents(Latest) : e.id = id} = {e \in Range(bucket) : e.id = id}
  <2>1. ASSUME NEW e \in Contents(Latest), e.id = id PROVE e \in Range(bucket)
    BY <1>2, <2>1, ContentsAtHome
  <2>2. ASSUME NEW e \in Range(bucket) PROVE e \in Contents(Latest)
    BY <1>1, <1>2, InContents
  <2>. QED  BY <2>1, <2>2
<1>6. get(id) = _parseCacheBucket(bucket, id).found
  BY DEF get, lookup
<1>. HIDE DEF bucket
<1>. QED  BY <1>4, <1>5, <1>6, LookupInBucket

(* A bucket replaced by one that differs in the entries of one id. *)
LEMMA ReplacedInShard ==
  ASSUME NEW id \in Ids, NEW b, b = Home[id].bucket, NEW s, s = Home[id].shard,
         NEW uri, Sound(s, uri), NEW new, IsShard(new), Sorted(new[b]),
         \A c \in Buckets : c # b => new[c] = uri[c],
         NEW es, \A x \in es : x.id = id,
         Range(new[b]) = {x \in Range(uri[b]) : x.id # id} \cup es
  PROVE  Sound(s, new) /\ Content(new) = {x \in Content(uri) : x.id # id} \cup es
<1>1. b \in Buckets /\ Home[id] = [shard |-> s, bucket |-> b]
  BY HomeOfId
<1>2. \A c \in Buckets : /\ Sorted(uri[c])
                         /\ \A x \in Range(uri[c]) : Home[x.id] = [shard |-> s, bucket |-> c]
  BY DEF Sound
<1>3. ASSUME NEW c \in Buckets
      PROVE  /\ Sorted(new[c])
             /\ \A x \in Range(new[c]) : Home[x.id] = [shard |-> s, bucket |-> c]
  <2>1. CASE c # b
    BY <1>2, <2>1
  <2>2. CASE c = b
    <3>1. ASSUME NEW x \in Range(new[b]) PROVE Home[x.id] = [shard |-> s, bucket |-> b]
      <4>1. x \in Range(uri[b]) \/ x.id = id
        OBVIOUS
      <4>. QED  BY <1>1, <1>2, <4>1
    <3>. QED  BY <2>2, <3>1
  <2>. QED  BY <2>1, <2>2
<1>4. Sound(s, new)
  BY <1>3 DEF Sound
<1>5. ASSUME NEW x PROVE x \in Content(new) <=> x \in {y \in Content(uri) : y.id # id} \cup es
  <2>1. ASSUME NEW c \in Buckets, c # b, x \in Range(uri[c]) PROVE x.id # id
    <3>1. Home[x.id] = [shard |-> s, bucket |-> c]
      BY <1>2, <2>1
    <3>2. [shard |-> s, bucket |-> c].bucket = c /\ [shard |-> s, bucket |-> b].bucket = b
      OBVIOUS
    <3>. QED  BY <1>1, <2>1, <3>1, <3>2
  <2>2. x \in Content(new) <=> \/ x \in Range(new[b])
                              \/ \E c \in Buckets : c # b /\ x \in Range(uri[c])
    BY <1>1 DEF Content
  <2>3. x \in Content(uri) <=> \/ x \in Range(uri[b])
                              \/ \E c \in Buckets : c # b /\ x \in Range(uri[c])
    BY <1>1 DEF Content
  <2>4. x \in Range(new[b]) <=> (x \in Range(uri[b]) /\ x.id # id) \/ x \in es
    OBVIOUS
  <2>. QED  BY <2>1, <2>2, <2>3, <2>4
<1>6. Content(new) = {x \in Content(uri) : x.id # id} \cup es
  BY <1>5
<1>. QED  BY <1>4, <1>6

(* The contents of a table one shard of which differs in one id. *)
LEMMA ReplacedInTable ==
  ASSUME NEW uris, AllSound(uris), NEW news, DOMAIN news = DOMAIN uris,
         NEW id \in Ids, NEW es, Home[id].shard \in DOMAIN uris,
         \A s \in DOMAIN uris : s # Home[id].shard => news[s] = uris[s],
         Content(news[Home[id].shard]) = {x \in Content(uris[Home[id].shard]) : x.id # id} \cup es
  PROVE  Contents(news) = {x \in Contents(uris) : x.id # id} \cup es
<1>. DEFINE h == Home[id].shard
<1>1. ASSUME NEW s \in DOMAIN uris, s # h, NEW x \in Content(uris[s]) PROVE x.id # id
  <2>1. PICK b \in Buckets : x \in Range(uris[s][b])
    BY DEF Content
  <2>2. Home[x.id] = [shard |-> s, bucket |-> b]
    BY <2>1 DEF AllSound, Sound
  <2>3. [shard |-> s, bucket |-> b].shard = s
    OBVIOUS
  <2>. QED  BY <1>1, <2>2, <2>3
<1>2. ASSUME NEW x PROVE x \in Contents(news) <=> x \in {y \in Contents(uris) : y.id # id} \cup es
  <2>1. x \in Contents(news) <=> \/ x \in Content(news[h])
                                \/ \E s \in DOMAIN uris : s # h /\ x \in Content(uris[s])
    BY DEF Contents
  <2>2. x \in Contents(uris) <=> \/ x \in Content(uris[h])
                                \/ \E s \in DOMAIN uris : s # h /\ x \in Content(uris[s])
    BY DEF Contents
  <2>. QED  BY <1>1, <2>1, <2>2
<1>. QED  BY <1>2

-----------------------------------------------------------------------------
(* Operations. *)

(* What opening a shard leaves: the table is the same but for its shard,   *)
(* which is not to come back any more.                                     *)
LEMMA OpenedShard ==
  ASSUME VramInv, NEW s \in Shards, NEW uri, Sound(s, uri), opened(s, uri),
         vconfig' \in [next_available_key : Nat, revision : Nat],
         vconfig'.revision = vconfig.revision, UNCHANGED <<backups, mixed>>
  PROVE  /\ VramInv'
         /\ DOMAIN Latest' = DOMAIN Latest /\ DOMAIN Latest = Shards
         /\ Latest'[s] = uri
         /\ \A t \in Shards : t # s => Latest'[t] = Latest[t]
         /\ DOMAIN vmanifest' = DOMAIN vmanifest \ {s}
         /\ \A t \in DOMAIN vmanifest' : vmanifest'[t] = vmanifest[t]
<1>1. /\ DOMAIN shardbuckets' = DOMAIN shardbuckets \cup {s}
      /\ shardbuckets'[s] = [shard_uri |-> uri, revision |-> vconfig.revision]
      /\ \A t \in DOMAIN shardbuckets : t # s => shardbuckets'[t] = shardbuckets[t]
  BY DEF opened, With
<1>2. /\ DOMAIN vmanifest' = DOMAIN vmanifest \ {s}
      /\ \A t \in DOMAIN vmanifest' : vmanifest'[t] = vmanifest[t]
  BY DEF opened, Without, Restrict
<1>3. /\ shardbuckets'[s].shard_uri = uri /\ shardbuckets'[s].revision = vconfig.revision
  BY <1>1
<1>4. VramTypeOK
  BY DEF VramInv
<1>5. vconfig.revision \in Nat /\ vconfig.revision \in 0..vconfig'.revision
  BY <1>4 DEF VramTypeOK
<1>6. \A t \in Shards : t # s => (current(t)' <=> current(t))
  BY <1>1 DEF current
<1>7. current(s)'
  BY <1>1, <1>3 DEF current
<1>8. VramTypeOK'
  <2>1. ASSUME NEW t \in DOMAIN shardbuckets'
        PROVE  /\ IsShard(shardbuckets'[t].shard_uri)
               /\ shardbuckets'[t].revision \in 0..vconfig'.revision
    <3>1. CASE t = s
      BY <1>3, <1>5, <3>1 DEF Sound
    <3>2. CASE t # s
      BY <1>1, <1>4, <2>1, <3>2 DEF VramTypeOK
    <3>. QED  BY <3>1, <3>2
  <2>2. \A t \in DOMAIN vmanifest' : IsShard(vmanifest'[t]) /\ ~ current(t)'
    BY <1>2, <1>4, <1>6 DEF VramTypeOK
  <2>3. DOMAIN shardbuckets' \subseteq Shards /\ DOMAIN vmanifest' \subseteq Shards
    BY <1>1, <1>2, <1>4 DEF VramTypeOK
  <2>4. /\ mixed' \in BOOLEAN
        /\ \A m \in backups' :
             /\ m.next_available_key \in Nat
             /\ DOMAIN m.shardbuckets \subseteq Shards
             /\ \A t \in DOMAIN m.shardbuckets : IsShard(m.shardbuckets[t])
    BY <1>4 DEF VramTypeOK
  <2>. QED  BY <2>1, <2>2, <2>3, <2>4 DEF VramTypeOK
<1>9. VramInv'
  BY <1>1, <1>2, <1>3, <1>8 DEF VramInv, AllSound
<1>10. getShard(s)' = uri /\ \A t \in Shards : t # s => getShard(t)' = getShard(t)
  <2>1. s \notin DOMAIN vmanifest'
    BY <1>2
  <2>2. getShard(s)' = uri
    BY <1>3, <1>7, <2>1 DEF getShard
  <2>3. ASSUME NEW t \in Shards, t # s PROVE getShard(t)' = getShard(t)
    <3>1. t \in DOMAIN vmanifest' <=> t \in DOMAIN vmanifest
      BY <1>2, <2>3
    <3>2. CASE t \in DOMAIN vmanifest
      BY <1>2, <3>1, <3>2 DEF getShard
    <3>3. CASE t \notin DOMAIN vmanifest /\ current(t)
      <4>1. t \in DOMAIN shardbuckets /\ shardbuckets'[t] = shardbuckets[t]
        BY <1>1, <2>3, <3>3 DEF current
      <4>. QED  BY <1>6, <2>3, <3>1, <3>3, <4>1 DEF getShard
    <3>4. CASE t \notin DOMAIN vmanifest /\ ~ current(t)
      BY <1>6, <2>3, <3>1, <3>4 DEF getShard
    <3>. QED  BY <3>2, <3>3, <3>4
  <2>. QED  BY <2>2, <2>3
<1>. QED  BY <1>2, <1>9, <1>10 DEF Latest

(* An operation on a row: all other rows are as before, and nothing with   *)
(* its id is still to come back.                                           *)
LEMMA Operation ==
  ASSUME VramInv, NEW id \in Ids, NEW uri, NEW es,
         Sound(Home[id].shard, uri), opened(Home[id].shard, uri),
         Content(uri) = {x \in Content(getShard(Home[id].shard)) : x.id # id} \cup es,
         vconfig' \in [next_available_key : Nat, revision : Nat],
         vconfig'.revision = vconfig.revision, UNCHANGED <<backups, mixed>>
  PROVE  /\ VramInv'
         /\ Contents(Latest)' = {x \in Contents(Latest) : x.id # id} \cup es
         /\ Contents(vmanifest)' \subseteq {x \in Contents(vmanifest) : x.id # id}
<1>. DEFINE h == Home[id].shard
<1>1. h \in Shards
  BY HomeOfId
<1>2. /\ VramInv'
      /\ DOMAIN Latest' = DOMAIN Latest /\ DOMAIN Latest = Shards
      /\ Latest'[h] = uri
      /\ \A t \in Shards : t # h => Latest'[t] = Latest[t]
      /\ DOMAIN vmanifest' = DOMAIN vmanifest \ {h}
      /\ \A t \in DOMAIN vmanifest' : vmanifest'[t] = vmanifest[t]
  BY <1>1, OpenedShard
<1>3. AllSound(Latest) /\ Latest[h] = getShard(h)
  BY <1>1, ShardsSound DEF Latest
<1>4. Contents(Latest') = {x \in Contents(Latest) : x.id # id} \cup es
  <2>. DEFINE old == Latest
              new == Latest'
  <2>1. /\ DOMAIN new = DOMAIN old /\ h \in DOMAIN old /\ AllSound(old)
        /\ \A t \in DOMAIN old : t # h => new[t] = old[t]
        /\ Content(new[h]) = {x \in Content(old[h]) : x.id # id} \cup es
    BY <1>1, <1>2, <1>3
  <2>. HIDE DEF old, new
  <2>2. Contents(new) = {x \in Contents(old) : x.id # id} \cup es
    BY <2>1, ReplacedInTable
  <2>. QED  BY <2>2 DEF old, new
<1>5. ASSUME NEW x \in Contents(vmanifest') PROVE x \in Contents(vmanifest) /\ x.id # id
  <2>1. PICK t \in DOMAIN vmanifest', b \in Buckets : x \in Range(vmanifest'[t][b])
    BY <1>5, InContents
  <2>2. t \in DOMAIN vmanifest /\ t # h /\ vmanifest'[t] = vmanifest[t]
    BY <1>2
  <2>3. x \in Range(vmanifest[t][b])
    BY <2>1, <2>2
  <2>4. x \in Contents(vmanifest)
    BY <2>2, <2>3, InContents
  <2>5. Home[x.id] = [shard |-> t, bucket |-> b]
    BY <2>2, <2>3 DEF VramInv, AllSound, Sound
  <2>. QED  BY <2>2, <2>4, <2>5
<1>. QED  BY <1>2, <1>4, <1>5

LEMMA PutRow ==
  ASSUME VramInv, NEW e \in Entries, setBucket(e.id, <<e>>),
         vconfig' \in [next_available_key : Nat, revision : Nat],
         vconfig'.revision = vconfig.revision, UNCHANGED <<backups, mixed>>
  PROVE  /\ VramInv'
         /\ Contents(Latest)' = {x \in Contents(Latest) : x.id # e.id} \cup {e}
         /\ Contents(vmanifest)' \subseteq {x \in Contents(vmanifest) : x.id # e.id}
<1>. DEFINE at == Home[e.id]
            uri == getShard(at.shard)
            data == _combineParsedBucketParts(_parseCacheBucket(uri[at.bucket], e.id), <<e>>)
            new == [uri EXCEPT ![at.bucket] = data]
<1>1. e.id \in Ids /\ at.shard \in Shards /\ at.bucket \in Buckets
  BY BlocksOrder, HomeOfId
<1>2. opened(at.shard, new)
  BY DEF setBucket, lookup
<1>3. Sound(at.shard, uri)
  BY <1>1, ShardsSound DEF Latest, AllSound
<1>. HIDE DEF uri
<1>4. uri[at.bucket] \in Seq(Entries) /\ Sorted(uri[at.bucket])
  BY <1>1, <1>3 DEF Sound, IsShard
<1>5. /\ data \in Seq(Entries) /\ Sorted(data)
      /\ Range(data) = {x \in Range(uri[at.bucket]) : x.id # e.id} \cup {e}
  BY <1>4, PutInBucket
<1>. HIDE DEF data
<1>6. Sound(at.shard, new) /\ Content(new) = {x \in Content(uri) : x.id # e.id} \cup {e}
  <2>1. \A x \in {e} : x.id = e.id
    OBVIOUS
  <2>2. /\ IsShard(new) /\ new[at.bucket] = data
        /\ \A c \in Buckets : c # at.bucket => new[c] = uri[c]
    BY <1>1, <1>3, <1>5 DEF Sound, IsShard
  <2>. DEFINE id == e.id
              b == at.bucket
              s == at.shard
              es == {e}
  <2>3. /\ id \in Ids /\ b = Home[id].bucket /\ s = Home[id].shard
        /\ Sound(s, uri) /\ IsShard(new) /\ Sorted(new[b])
        /\ \A c \in Buckets : c # b => new[c] = uri[c]
        /\ \A x \in es : x.id = id
        /\ Range(new[b]) = {x \in Range(uri[b]) : x.id # id} \cup es
    BY <1>1, <1>3, <1>5, <2>1, <2>2
  <2>. HIDE DEF new, id, b, s, es
  <2>4. Sound(s, new) /\ Content(new) = {x \in Content(uri) : x.id # id} \cup es
    BY <2>3, ReplacedInShard
  <2>. QED  BY <2>4 DEF id, s, es
<1>. HIDE DEF new
<1>7. Content(new) = {x \in Content(getShard(at.shard)) : x.id # e.id} \cup {e}
  BY <1>6 DEF uri
<1>. QED  BY <1>1, <1>2, <1>6, <1>7, Operation

LEMMA TakeRow ==
  ASSUME VramInv, NEW id \in Ids, get(id) # <<>>, setBucket(id, <<>>),
         UNCHANGED <<vconfig, backups, mixed>>
  PROVE  /\ VramInv'
         /\ Contents(Latest)' = {x \in Contents(Latest) : x.id # id}
         /\ Contents(vmanifest)' \subseteq {x \in Contents(vmanifest) : x.id # id}
<1>. DEFINE at == Home[id]
            uri == getShard(at.shard)
            data == _combineParsedBucketParts(_parseCacheBucket(uri[at.bucket], id), <<>>)
            new == [uri EXCEPT ![at.bucket] = data]
<1>1. at.shard \in Shards /\ at.bucket \in Buckets
  BY HomeOfId
<1>2. opened(at.shard, new)
  BY DEF setBucket, lookup
<1>3. Sound(at.shard, uri)
  BY <1>1, ShardsSound DEF Latest, AllSound
<1>a. get(id) = _parseCacheBucket(uri[at.bucket], id).found
  BY DEF get, lookup
<1>. HIDE DEF uri
<1>4. uri[at.bucket] \in Seq(Entries) /\ Sorted(uri[at.bucket])
  BY <1>1, <1>3 DEF Sound, IsShard
<1>b. \E k \in DOMAIN uri[at.bucket] : uri[at.bucket][k].id = id
  <2>1. {x \in Range(uri[at.bucket]) : x.id = id} # {}
    BY <1>4, <1>a, LookupInBucket
  <2>. QED  BY <2>1 DEF Range
<1>5. /\ data \in Seq(Entries) /\ Sorted(data)
      /\ Range(data) = {x \in Range(uri[at.bucket]) : x.id # id}
  BY <1>4, <1>b, RemovedFromBucket
<1>. HIDE DEF data
<1>6. Sound(at.shard, new) /\ Content(new) = {x \in Content(uri) : x.id # id} \cup {}
  <2>1. \A x \in {} : x.id = id
    OBVIOUS
  <2>2. Range(data) = {x \in Range(uri[at.bucket]) : x.id # id} \cup {}
    BY <1>5
  <2>3. /\ IsShard(new) /\ new[at.bucket] = data
        /\ \A c \in Buckets : c # at.bucket => new[c] = uri[c]
    BY <1>1, <1>3, <1>5 DEF Sound, IsShard
  <2>. DEFINE b == at.bucket
              s == at.shard
              es == {}
  <2>4. /\ b = Home[id].bucket /\ s = Home[id].shard
        /\ Sound(s, uri) /\ IsShard(new) /\ Sorted(new[b])
        /\ \A c \in Buckets : c # b => new[c] = uri[c]
        /\ \A x \in es : x.id = id
        /\ Range(new[b]) = {x \in Range(uri[b]) : x.id # id} \cup es
    BY <1>1, <1>3, <1>5, <2>1, <2>2, <2>3
  <2>. HIDE DEF new, b, s, es
  <2>5. Sound(s, new) /\ Content(new) = {x \in Content(uri) : x.id # id} \cup es
    BY <2>4, ReplacedInShard
  <2>. QED  BY <2>5 DEF s, es
<1>. HIDE DEF new
<1>7. Content(new) = {x \in Content(getShard(at.shard)) : x.id # id} \cup {}
  BY <1>6 DEF uri
<1>8. vconfig' \in [next_available_key : Nat, revision : Nat] /\ vconfig'.revision = vconfig.revision
  BY DEF VramInv, VramTypeOK
<1>9. /\ VramInv'
      /\ Contents(Latest)' = {x \in Contents(Latest) : x.id # id} \cup {}
      /\ Contents(vmanifest)' \subseteq {x \in Contents(vmanifest) : x.id # id}
  BY <1>1, <1>2, <1>6, <1>7, <1>8, Operation
<1>. QED  BY <1>9

(* Looking a row up opens its shard as it is. *)
LEMMA LookAtRow ==
  ASSUME VramInv, NEW id \in Ids, getBucket(id), UNCHANGED <<vconfig, backups, mixed>>
  PROVE  /\ VramInv'
         /\ Contents(Latest)' = Contents(Latest)
         /\ Contents(vmanifest)' \subseteq {x \in Contents(vmanifest) : x.id # id}
<1>. DEFINE h == Home[id].shard
            uri == getShard(h)
            es == {x \in Content(uri) : x.id = id}
<1>1. h \in Shards
  BY HomeOfId
<1>2. opened(h, uri) /\ Sound(h, uri)
  BY <1>1, ShardsSound DEF getBucket, Latest, AllSound
<1>3. Content(uri) = {x \in Content(uri) : x.id # id} \cup es
  OBVIOUS
<1>4. vconfig' \in [next_available_key : Nat, revision : Nat] /\ vconfig'.revision = vconfig.revision
  BY DEF VramInv, VramTypeOK
<1>. HIDE DEF es
<1>5. /\ VramInv'
      /\ Contents(Latest)' = {x \in Contents(Latest) : x.id # id} \cup es
      /\ Contents(vmanifest)' \subseteq {x \in Contents(vmanifest) : x.id # id}
  BY <1>1, <1>2, <1>3, <1>4, Operation
<1>6. Contents(Latest)' = Contents(Latest)
  <2>1. ASSUME NEW x \in es PROVE x \in Contents(Latest)
    BY <1>1, <2>1 DEF es, Contents, Latest
  <2>2. AllSound(Latest) /\ DOMAIN Latest = Shards
    BY ShardsSound DEF Latest
  <2>3. ASSUME NEW x \in Contents(Latest), x.id = id PROVE x \in es
    <3>1. Home[id].bucket \in Buckets /\ x \in Range(Latest[h][Home[id].bucket]) /\ Latest[h] = uri
      BY <1>1, <2>2, <2>3, ContentsAtHome, HomeOfId DEF Latest
    <3>. QED  BY <2>3, <3>1 DEF es, Content
  <2>. QED  BY <1>5, <2>1, <2>3
<1>. QED  BY <1>5, <1>6

(* After the revision is raised only the shards to come back are there. *)
LEMMA RevisionRaised ==
  ASSUME VramInv, NEW next_ \in Nat,
         vconfig' = [next_available_key |-> next_, revision |-> vconfig.revision + 1],
         AllSound(vmanifest'), UNCHANGED shardbuckets, mixed' \in BOOLEAN,
         \A m \in backups' : m.next_available_key \in Nat /\ AllSound(m.shardbuckets)
  PROVE  VramInv' /\ Contents(Latest)' = Contents(vmanifest)'
<1>1. VramTypeOK
  BY DEF VramInv
<1>2. /\ vconfig.revision \in Nat
      /\ \A s \in DOMAIN shardbuckets : shardbuckets[s].revision \in 0..vconfig.revision
  BY <1>1 DEF VramTypeOK
<1>3. /\ vconfig' \in [next_available_key : Nat, revision : Nat]
      /\ vconfig'.revision = vconfig.revision + 1
  BY <1>2
<1>4. \A s \in DOMAIN shardbuckets : /\ shardbuckets[s].revision \in 0..vconfig'.revision
                                     /\ shardbuckets[s].revision # vconfig'.revision
  BY <1>2, <1>3
<1>5. \A s : ~ current(s)'
  BY <1>4 DEF current
<1>6. VramTypeOK'
  <2>1. \A s \in DOMAIN vmanifest' : IsShard(vmanifest'[s]) /\ ~ current(s)'
    BY <1>5 DEF AllSound, Sound
  <2>2. \A m \in backups' :
          /\ m.next_available_key \in Nat
          /\ DOMAIN m.shardbuckets \subseteq Shards
          /\ \A s \in DOMAIN m.shardbuckets : IsShard(m.shardbuckets[s])
    BY DEF AllSound, Sound
  <2>3. /\ DOMAIN shardbuckets' \subseteq Shards
        /\ \A s \in DOMAIN shardbuckets' : /\ IsShard(shardbuckets'[s].shard_uri)
                                           /\ shardbuckets'[s].revision \in 0..vconfig'.revision
    BY <1>1, <1>4 DEF VramTypeOK
  <2>4. DOMAIN vmanifest' \subseteq Shards
    BY DEF AllSound
  <2>. QED  BY <1>3, <2>1, <2>2, <2>3, <2>4 DEF VramTypeOK
<1>7. VramInv'
  BY <1>6 DEF VramInv
<1>8. Contents(Latest') = Contents(vmanifest')
  <2>1. \A s \in Shards : Latest'[s] = IF s \in DOMAIN vmanifest' THEN vmanifest'[s] ELSE EmptyShard
    BY <1>5 DEF Latest, getShard
  <2>2. DOMAIN Latest' = Shards /\ DOMAIN vmanifest' \subseteq Shards
    BY DEF Latest, AllSound
  <2>. DEFINE new == Latest'
              pending == vmanifest'
  <2>. HIDE DEF new, pending
  <2>3. /\ \A s \in Shards : new[s] = IF s \in DOMAIN pending THEN pending[s] ELSE EmptyShard
        /\ DOMAIN new = Shards /\ DOMAIN pending \subseteq Shards
    BY <2>1, <2>2 DEF new, pending
  <2>4. Contents(new) = Contents(pending)
    BY <2>3, EmptyShardIsSound DEF Contents
  <2>. QED  BY <2>4 DEF new, pending
<1>. QED  BY <1>7, <1>8

(* What is saved is what the table holds. *)
LEMMA SavedShards ==
  ASSUME VramInv
  PROVE  AllSound(currentShards) /\ Contents(currentShards) = Contents(Latest)
<1>1. VramTypeOK
  BY DEF VramInv
<1>2. DOMAIN currentShards \subseteq Shards
  BY <1>1 DEF currentShards, VramTypeOK
<1>3. \A s \in DOMAIN currentShards : currentShards[s] = getShard(s)
  BY <1>1 DEF currentShards, VramTypeOK, getShard
<1>4. \A s \in Shards : s \notin DOMAIN currentShards => getShard(s) = EmptyShard
  BY <1>1 DEF currentShards, getShard, current
<1>5. DOMAIN Latest = Shards /\ \A s \in Shards : Latest[s] = getShard(s)
  BY DEF Latest
<1>6. AllSound(currentShards)
  BY <1>2, <1>3, <1>5, ShardsSound DEF AllSound
<1>. DEFINE saved_ == currentShards
            new == Latest
<1>7. /\ DOMAIN saved_ \subseteq Shards /\ DOMAIN new = Shards
      /\ \A s \in DOMAIN saved_ : saved_[s] = new[s]
      /\ \A s \in Shards : s \notin DOMAIN saved_ => new[s] = EmptyShard
  BY <1>2, <1>3, <1>4, <1>5
<1>. HIDE DEF saved_, new
<1>8. Contents(saved_) = Contents(new)
  BY <1>7, EmptyShardIsSound DEF Contents
<1>. QED  BY <1>6, <1>8 DEF saved_, new

(* The key emplace is given is free here and in everything that is kept. *)
KeysFree ==
  ~ mixed => /\ \A e \in Contents(Latest) : key(e.id) < vconfig.next_available_key
             /\ \A m \in backups : \A e \in Contents(m.shardbuckets) :
                  key(e.id) < m.next_available_key

VramIInv == VramInv /\ KeysFree

(* The keys and the numbers they are compared with. *)
LEMMA Numbers ==
  ASSUME VramInv
  PROVE  /\ vconfig \in [next_available_key : Nat, revision : Nat]
         /\ \A e \in Entries : key(e.id) \in Nat /\ key(e.id) = e.id[2]
         /\ \A e \in Contents(Latest) : e \in Entries
         /\ \A m \in backups : m.next_available_key \in Nat /\ AllSound(m.shardbuckets)
<1>1. \A e \in Entries : key(e.id) \in Nat /\ key(e.id) = e.id[2]
  BY BlocksOrder, VramAssumption DEF key
<1>2. \A e \in Contents(Latest) : e \in Entries
  BY ShardsSound, ContentsAtHome
<1>. QED  BY <1>1, <1>2 DEF VramInv, VramTypeOK

(* The kept states of the table as the contracts know them. *)
LEMMA SavedKept ==
  ASSUME UNCHANGED backups
  PROVE  UNCHANGED {[rows |-> Contents(m.shardbuckets), next |-> m.next_available_key] : m \in backups}
OBVIOUS

LEMMA EmplaceStep ==
  ASSUME VramIInv, NEW e \in Entries, emplace(e)
  PROVE  VramIInv' /\ R!Emplace(e)
<1>. DEFINE k == key(e.id)
            n == vconfig.next_available_key
<1>1. /\ get(e.id) = <<>> /\ setBucket(e.id, <<e>>)
      /\ vconfig' = [vconfig EXCEPT !.next_available_key = increment(e.id)]
      /\ UNCHANGED <<backups, mixed>>
  BY DEF emplace
<1>2. k \in Nat /\ n \in Nat /\ vconfig \in [next_available_key : Nat, revision : Nat] /\ k = e.id[2]
  BY Numbers DEF VramIInv
<1>3. increment(e.id) = IF n < k + 1 THEN k + 1 ELSE n
  BY DEF increment
<1>. HIDE DEF k
<1>4. /\ vconfig' \in [next_available_key : Nat, revision : Nat]
      /\ vconfig'.revision = vconfig.revision
      /\ vconfig'.next_available_key = IF n <= k THEN k + 1 ELSE n
  BY <1>1, <1>2, <1>3
<1>5. /\ VramInv'
      /\ Contents(Latest)' = {x \in Contents(Latest) : x.id # e.id} \cup {e}
      /\ Contents(vmanifest)' \subseteq {x \in Contents(vmanifest) : x.id # e.id}
  BY <1>1, <1>4, PutRow DEF VramIInv
<1>6. {x \in Contents(Latest) : x.id = e.id} = {}
  BY <1>1, LookupStep, BlocksOrder DEF VramIInv
<1>7. Contents(Latest)' = Contents(Latest) \cup {e}
  BY <1>5, <1>6
<1>8. R!Emplace(e)
  <2>1. R!Touch(e.id) /\ R!At(e.id) = {}
    BY <1>5, <1>6 DEF R!Touch, R!At
  <2>. QED  BY <1>1, <1>2, <1>4, <1>7, <2>1, SavedKept DEF R!Emplace
<1>9. KeysFree'
  <2>1. ASSUME ~ mixed' PROVE \A x \in Contents(Latest)' : key(x.id) < vconfig'.next_available_key
    <3>1. ASSUME NEW x \in Contents(Latest) PROVE key(x.id) < vconfig'.next_available_key
      <4>1. key(x.id) \in Nat /\ key(x.id) < n
        BY <1>1, <2>1, <3>1, Numbers DEF VramIInv, KeysFree
      <4>. QED  BY <1>2, <1>4, <4>1
    <3>2. k < vconfig'.next_available_key
      BY <1>2, <1>4
    <3>. QED  BY <1>7, <3>1, <3>2 DEF k
  <2>. QED  BY <1>1, <2>1 DEF VramIInv, KeysFree
<1>. QED  BY <1>5, <1>8, <1>9 DEF VramIInv

LEMMA ModifyStep ==
  ASSUME VramIInv, NEW e \in Entries, modify(e)
  PROVE  VramIInv' /\ R!Modify(e)
<1>1. get(e.id) # <<>> /\ setBucket(e.id, <<e>>) /\ UNCHANGED <<vconfig, backups, mixed>>
  BY DEF modify
<1>2. /\ vconfig' \in [next_available_key : Nat, revision : Nat] /\ vconfig'.revision = vconfig.revision
  BY <1>1, Numbers DEF VramIInv
<1>3. /\ VramInv'
      /\ Contents(Latest)' = {x \in Contents(Latest) : x.id # e.id} \cup {e}
      /\ Contents(vmanifest)' \subseteq {x \in Contents(vmanifest) : x.id # e.id}
  BY <1>1, <1>2, PutRow DEF VramIInv
<1>4. {x \in Contents(Latest) : x.id = e.id} # {}
  BY <1>1, LookupStep, BlocksOrder DEF VramIInv
<1>5. R!Modify(e)
  <2>1. R!Touch(e.id) /\ R!At(e.id) # {}
    BY <1>3, <1>4 DEF R!Touch, R!At
  <2>2. Contents(Latest)' = (Contents(Latest) \ R!At(e.id)) \cup {e}
    BY <1>3 DEF R!At
  <2>. QED  BY <1>1, <2>1, <2>2, SavedKept DEF R!Modify
<1>6. KeysFree'
  <2>1. ASSUME ~ mixed' PROVE \A x \in Contents(Latest)' : key(x.id) < vconfig'.next_available_key
    <3>1. \A x \in Contents(Latest) : key(x.id) < vconfig'.next_available_key
      BY <1>1, <2>1 DEF VramIInv, KeysFree
    <3>2. key(e.id) < vconfig'.next_available_key
      BY <1>4, <3>1
    <3>. QED  BY <1>3, <3>1, <3>2
  <2>. QED  BY <1>1, <2>1 DEF VramIInv, KeysFree
<1>. QED  BY <1>3, <1>5, <1>6 DEF VramIInv

LEMMA EraseStep ==
  ASSUME VramIInv, NEW id \in Ids, erase(id)
  PROVE  VramIInv' /\ R!Erase(id)
<1>1. get(id) # <<>> /\ setBucket(id, <<>>) /\ UNCHANGED <<vconfig, backups, mixed>>
  BY DEF erase
<1>2. /\ VramInv'
      /\ Contents(Latest)' = {x \in Contents(Latest) : x.id # id}
      /\ Contents(vmanifest)' \subseteq {x \in Contents(vmanifest) : x.id # id}
  BY <1>1, TakeRow DEF VramIInv
<1>3. {x \in Contents(Latest) : x.id = id} # {}
  BY <1>1, LookupStep DEF VramIInv
<1>4. R!Erase(id)
  <2>1. R!Touch(id) /\ R!At(id) # {}
    BY <1>2, <1>3 DEF R!Touch, R!At
  <2>2. Contents(Latest)' = Contents(Latest) \ R!At(id)
    BY <1>2 DEF R!At
  <2>. QED  BY <1>1, <2>1, <2>2, SavedKept DEF R!Erase
<1>5. KeysFree'
  BY <1>1, <1>2 DEF VramIInv, KeysFree
<1>. QED  BY <1>2, <1>4, <1>5 DEF VramIInv

LEMMA FindStep ==
  ASSUME VramIInv, NEW id \in Ids, find(id)
  PROVE  VramIInv' /\ R!Find(id)
<1>1. getBucket(id) /\ UNCHANGED <<vconfig, backups, mixed>>
  BY DEF find
<1>2. /\ VramInv'
      /\ Contents(Latest)' = Contents(Latest)
      /\ Contents(vmanifest)' \subseteq {x \in Contents(vmanifest) : x.id # id}
  BY <1>1, LookAtRow DEF VramIInv
<1>3. R!Find(id)
  <2>1. R!Touch(id)
    BY <1>2 DEF R!Touch, R!At
  <2>. QED  BY <1>1, <1>2, <2>1, SavedKept DEF R!Find
<1>4. KeysFree'
  BY <1>1, <1>2 DEF VramIInv, KeysFree
<1>. QED  BY <1>2, <1>3, <1>4 DEF VramIInv

LEMMA ClearStep ==
  ASSUME VramIInv, clear
  PROVE  VramIInv' /\ R!Clear
<1>1. /\ vconfig' = [next_available_key |-> 0, revision |-> vconfig.revision + 1]
      /\ mixed' = (mixed \/ DOMAIN vmanifest # {})
      /\ UNCHANGED <<shardbuckets, vmanifest, backups>>
  BY DEF clear
<1>2. AllSound(vmanifest') /\ mixed' \in BOOLEAN
  BY <1>1 DEF VramIInv, VramInv, VramTypeOK
<1>3. \A m \in backups' : m.next_available_key \in Nat /\ AllSound(m.shardbuckets)
  BY <1>1, Numbers DEF VramIInv
<1>4. VramInv' /\ Contents(Latest)' = Contents(vmanifest)'
  BY <1>1, <1>2, <1>3, RevisionRaised DEF VramIInv
<1>5. R!Clear
  BY <1>1, <1>4, SavedKept DEF R!Clear
<1>6. KeysFree'
  <2>1. ASSUME ~ mixed' PROVE Contents(Latest)' = {} /\ ~ mixed
    <3>1. DOMAIN vmanifest = {} /\ ~ mixed
      BY <1>1, <2>1
    <3>. QED  BY <1>1, <1>4, <3>1 DEF Contents
  <2>. QED  BY <1>1, <2>1 DEF VramIInv, KeysFree
<1>. QED  BY <1>4, <1>5, <1>6 DEF VramIInv

LEMMA SaveStep ==
  ASSUME VramIInv, create_manifest
  PROVE  VramIInv' /\ R!Save
<1>. DEFINE m0 == [next_available_key |-> vconfig.next_available_key, shardbuckets |-> currentShards]
<1>1. backups' = backups \cup {m0} /\ UNCHANGED <<shardbuckets, vconfig, vmanifest, mixed>>
  BY DEF create_manifest
<1>2. /\ m0.next_available_key = vconfig.next_available_key /\ vconfig.next_available_key \in Nat
      /\ m0.shardbuckets = currentShards
  BY Numbers DEF VramIInv
<1>3. AllSound(m0.shardbuckets) /\ Contents(m0.shardbuckets) = Contents(Latest)
  BY <1>2, SavedShards DEF VramIInv
<1>. HIDE DEF m0
<1>4. \A s : current(s)' <=> current(s)
  BY <1>1 DEF current
<1>5. Contents(Latest)' = Contents(Latest)
  <2>1. \A s : getShard(s)' = getShard(s)
    BY <1>1, <1>4 DEF getShard
  <2>2. Latest' = Latest
    BY <2>1 DEF Latest
  <2>. QED  BY <2>2
<1>6. VramInv'
  <2>1. VramTypeOK'
    BY <1>1, <1>2, <1>3, <1>4 DEF VramIInv, VramInv, VramTypeOK, AllSound, Sound
  <2>. QED  BY <1>1, <1>3, <2>1 DEF VramIInv, VramInv
<1>7. R!Save
  <2>. DEFINE State(m) == [rows |-> Contents(m.shardbuckets), next |-> m.next_available_key]
  <2>1. State(m0) = [rows |-> Contents(Latest), next |-> vconfig.next_available_key]
    BY <1>2, <1>3
  <2>. HIDE DEF State
  <2>2. {State(m) : m \in backups'} = {State(m) : m \in backups} \cup {State(m0)}
    BY <1>1
  <2>. USE DEF State
  <2>3. {State(m) : m \in backups}' = {State(m) : m \in backups} \cup {State(m0)}
    BY <2>2
  <2>. QED  BY <1>1, <1>5, <2>1, <2>3 DEF R!Save
<1>8. KeysFree'
  BY <1>1, <1>2, <1>3, <1>5 DEF VramIInv, KeysFree
<1>. QED  BY <1>6, <1>7, <1>8 DEF VramIInv

LEMMA RestoreStep ==
  ASSUME VramIInv, NEW m \in backups, load_manifest(m)
  PROVE  /\ VramIInv'
         /\ R!Restore([rows |-> Contents(m.shardbuckets), next |-> m.next_available_key])
<1>1. /\ vmanifest' = m.shardbuckets
      /\ vconfig' = [next_available_key |-> m.next_available_key, revision |-> vconfig.revision + 1]
      /\ backups' = backups \cup {m} /\ UNCHANGED <<shardbuckets, mixed>>
  BY DEF load_manifest
<1>2. m.next_available_key \in Nat /\ AllSound(m.shardbuckets) /\ backups' = backups
  BY <1>1, Numbers DEF VramIInv
<1>3. \A x \in backups' : x.next_available_key \in Nat /\ AllSound(x.shardbuckets)
  BY <1>2, Numbers DEF VramIInv
<1>4. AllSound(vmanifest') /\ mixed' \in BOOLEAN
  BY <1>1, <1>2 DEF VramIInv, VramInv, VramTypeOK
<1>5. VramInv' /\ Contents(Latest)' = Contents(vmanifest)'
  BY <1>1, <1>2, <1>3, <1>4, RevisionRaised DEF VramIInv
<1>6. Contents(Latest)' = Contents(m.shardbuckets)
  BY <1>1, <1>5
<1>7. R!Restore([rows |-> Contents(m.shardbuckets), next |-> m.next_available_key])
  BY <1>1, <1>2, <1>5, <1>6, SavedKept DEF R!Restore
<1>8. KeysFree'
  BY <1>1, <1>2, <1>6 DEF VramIInv, KeysFree
<1>. QED  BY <1>5, <1>7, <1>8 DEF VramIInv

-----------------------------------------------------------------------------

LEMMA VramStep ==
  ASSUME VramIInv, [VramNext]_vars
  PROVE  VramIInv' /\ [R!Next]_(R!vars)
<1>1. ASSUME NEW e \in Entries, emplace(e) PROVE VramIInv' /\ R!Next
  BY <1>1, EmplaceStep DEF R!Next
<1>2. ASSUME NEW e \in Entries, modify(e) PROVE VramIInv' /\ R!Next
  BY <1>2, ModifyStep DEF R!Next
<1>3. ASSUME NEW id \in Ids, erase(id) PROVE VramIInv' /\ R!Next
  BY <1>3, EraseStep DEF R!Next, R!Ids, Ids
<1>4. ASSUME NEW id \in Ids, find(id) PROVE VramIInv' /\ R!Next
  BY <1>4, FindStep DEF R!Next, R!Ids, Ids
<1>5. CASE clear
  BY <1>5, ClearStep DEF R!Next
<1>6. CASE create_manifest
  BY <1>6, SaveStep DEF R!Next
<1>7. ASSUME NEW m \in backups, load_manifest(m) PROVE VramIInv' /\ R!Next
  BY <1>7, RestoreStep DEF R!Next
<1>8. CASE UNCHANGED vars
  <2>1. UNCHANGED <<shardbuckets, vconfig, vmanifest, backups, mixed>>
    BY <1>8 DEF vars
  <2>2. \A s : current(s)' <=> current(s)
    BY <2>1 DEF current
  <2>3. Latest' = Latest
    BY <2>1, <2>2 DEF Latest, getShard
  <2>4. VramInv'
    BY <2>1, <2>2 DEF VramIInv, VramInv, VramTypeOK
  <2>5. KeysFree' /\ UNCHANGED R!vars
    BY <2>1, <2>3, SavedKept DEF VramIInv, KeysFree, R!vars
  <2>. QED  BY <2>4, <2>5 DEF VramIInv
<1>. QED  BY <1>1, <1>2, <1>3, <1>4, <1>5, <1>6, <1>7, <1>8 DEF VramNext

LEMMA VramStart ==
  ASSUME VramInit
  PROVE  VramIInv /\ R!Init
<1>1. /\ DOMAIN shardbuckets = {} /\ DOMAIN vmanifest = {} /\ backups = {} /\ mixed = FALSE
      /\ vconfig = [next_available_key |-> 0, revision |-> 0]
  BY DEF VramInit, NoShards
<1>2. \A s : getShard(s) = EmptyShard
  BY <1>1 DEF getShard, current
<1>3. Contents(Latest) = {} /\ Contents(vmanifest) = {}
  BY <1>1, <1>2, EmptyShardIsSound DEF Contents, Latest
<1>4. VramInv
  BY <1>1 DEF VramInv, VramTypeOK, AllSound
<1>5. KeysFree /\ R!Init
  BY <1>1, <1>3 DEF KeysFree, R!Init
<1>. QED  BY <1>4, <1>5 DEF VramIInv

LEMMA VramInvariant == VramSpec => []VramIInv
<1>1. VramInit => VramIInv
  BY VramStart
<1>2. VramIInv /\ [VramNext]_vars => VramIInv'
  BY VramStep
<1>. QED  BY <1>1, <1>2, PTL DEF VramSpec

(* Every table has its shape in every state. *)
THEOREM VramTypeCorrect == VramSpec => []VramTypeOK
<1>1. VramIInv => VramTypeOK
  BY DEF VramIInv, VramInv
<1>. QED  BY <1>1, VramInvariant, PTL

(* find, get and the checks of emplace and modify see the row of their     *)
(* scope and key if it is anywhere in the table, and no other.             *)
THEOREM LookupsExact == VramSpec => []LookupIsExact
<1>1. VramIInv => LookupIsExact
  BY LookupStep DEF VramIInv
<1>. QED  BY <1>1, VramInvariant, PTL

(* available_primary_key is above every key in the table, in every scope.  *)
THEOREM AvailableKeysFree == VramSpec => []AvailableKeyIsFree
<1>1. VramIInv => AvailableKeyIsFree
  BY DEF VramIInv, KeysFree, AvailableKeyIsFree
<1>. QED  BY <1>1, VramInvariant, PTL

(* A reader in another contract sees what the owner does, or nothing where *)
(* a loaded manifest has not been opened.                                  *)
THEOREM OthersUpToDate == VramSpec => []OthersSeeNothingOld
<1>1. ASSUME VramTypeOK, NEW id \in Ids
      PROVE  getExternal(id) = IF Home[id].shard \in DOMAIN vmanifest THEN <<>> ELSE get(id)
  <2>. DEFINE at == Home[id]
  <2>1. at.shard \in DOMAIN vmanifest => ~ current(at.shard)
    BY <1>1 DEF VramTypeOK
  <2>2. CASE at.shard \in DOMAIN vmanifest
    BY <2>1, <2>2 DEF getExternal
  <2>3. CASE at.shard \notin DOMAIN vmanifest /\ current(at.shard)
    BY <2>3 DEF getExternal, get, lookup, getShard
  <2>4. CASE at.shard \notin DOMAIN vmanifest /\ ~ current(at.shard)
    <3>1. getExternal(id) = <<>> /\ getShard(at.shard) = EmptyShard
      BY <2>4 DEF getExternal, getShard
    <3>2. get(id) = _parseCacheBucket(<<>>, id).found
      BY <3>1, HomeOfId, EmptyShardIsSound DEF get, lookup
    <3>3. <<>> \in Seq(Entries) /\ Sorted(<<>>) /\ Range(<<>>) = {}
      BY DEF Sorted, Range
    <3>4. _parseCacheBucket(<<>>, id).found = <<>>
      BY <3>3, LookupInBucket
    <3>. QED  BY <2>4, <3>1, <3>2, <3>4
  <2>. QED  BY <2>2, <2>3, <2>4
<1>2. VramIInv => OthersSeeNothingOld
  BY <1>1 DEF VramIInv, VramInv, OthersSeeNothingOld
<1>. QED  BY <1>2, VramInvariant, PTL

(* The shards, buckets, revisions and manifests together are a set of rows *)
(* that can be saved, restored and cleared.                                *)
THEOREM VramIsRows == VramSpec => ImplementsRows
<1>1. VramInit => R!Init
  BY VramStart
<1>2. VramIInv /\ [VramNext]_vars => [R!Next]_(R!vars)
  BY VramStep
<1>. QED  BY <1>1, <1>2, VramInvariant, PTL DEF VramSpec, ImplementsRows, R!Spec

(* Two different entries of one id would be in one bucket, and a sorted    *)
(* bucket has an id only once.                                             *)
LEMMA RowsOnce == VramInv => R!OneRowPerKey
<1>. SUFFICES ASSUME VramInv, NEW x \in Contents(Latest), NEW y \in Contents(Latest), x.id = y.id
              PROVE  x = y
  BY DEF R!OneRowPerKey
<1>. DEFINE at == Home[x.id]
            bucket == Latest[at.shard][at.bucket]
<1>1. AllSound(Latest)
  BY ShardsSound
<1>2. /\ x.id \in Ids /\ at.shard \in DOMAIN Latest
      /\ x \in Range(bucket) /\ y \in Range(bucket)
  BY <1>1, ContentsAtHome
<1>3. at.bucket \in Buckets
  BY <1>2, HomeOfId
<1>4. bucket \in Seq(Entries) /\ Sorted(bucket)
  BY <1>1, <1>2, <1>3 DEF AllSound, Sound, IsShard
<1>. HIDE DEF bucket
<1>5. PICK i \in DOMAIN bucket, j \in DOMAIN bucket : x = bucket[i] /\ y = bucket[j]
  BY <1>2 DEF Range
<1>. QED  BY <1>4, <1>5, EntryOnce

(* A scope and a key name one row, whatever was emplaced, restored from a  *)
(* manifest or left over by clear.                                         *)
THEOREM OneRow == VramSpec => []R!OneRowPerKey
<1>1. VramIInv => R!OneRowPerKey
  BY RowsOnce DEF VramIInv
<1>. QED  BY <1>1, VramInvariant, PTL
=============================================================================

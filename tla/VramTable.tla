----------------------------- MODULE VramTable -----------------------------
(***************************************************************************)
(* A vRAM table (advanced_multi_index), on which the contracts keep all    *)
(* rows of one table name.  The chain holds a row per shard, with the uri  *)
(* of a list of buckets; a bucket holds the entries of some scopes and     *)
(* keys, side by side.  Storage is addressed by content, so a uri is       *)
(* modelled as what it stands for.                                         *)
(*                                                                         *)
(* clear only raises the revision, and load_manifest only keeps the list   *)
(* of the shards to come back: a shard is emptied or restored when         *)
(* getBucket opens it the next time, to write or only to look something up. *)
(***************************************************************************)
EXTENDS Naturals, Sequences, FiniteSets, Functions

CONSTANTS
  Entries,       \* what a bucket can hold: an id (scope and key) and a value
  Shards, Buckets,
  Home,          \* where the hash of an id sends its entry
  MaxRevision,   \* BOUND: how often the table is cleared or restored
  MaxBackups     \* BOUND: how many different manifests are kept

Ids == {e.id : e \in Entries}

ASSUME VramAssumption ==
  /\ Ids \subseteq Nat \X Nat
  /\ Home \in [Ids -> [shard : Shards, bucket : Buckets]]
  /\ MaxRevision \in Nat /\ MaxBackups \in Nat

VARIABLES
  shardbuckets,   \* a row for every shard ever opened: uri and revision
  vconfig,        \* next available key and revision, of all scopes
  vmanifest,      \* the shards of a loaded manifest not opened since
  backups,        \* the manifests made or loaded
  mixed           \* not in the code: cleared while shards were to come back

vars == <<shardbuckets, vconfig, vmanifest, backups, mixed>>

EmptyShard == [b \in Buckets |-> <<>>]
NoShards == [s \in {} |-> EmptyShard]

VramInit ==
  /\ shardbuckets = [s \in {} |-> [shard_uri |-> EmptyShard, revision |-> 0]]
  /\ vconfig = [next_available_key |-> 0, revision |-> 0]
  /\ vmanifest = NoShards
  /\ backups = {}
  /\ mixed = FALSE

With(f, x, y) == [z \in DOMAIN f \cup {x} |-> IF z = x THEN y ELSE f[z]]
Without(f, x) == Restrict(f, DOMAIN f \ {x})

-----------------------------------------------------------------------------
(* A bucket: entries in the order in which _parseCacheBucket searches.     *)

scope(id) == id[1]
key(id) == id[2]

(* Wrong: the search looks at the key only. *)
stops_AnyScope(e, id) == ~ (key(e.id) < key(id))

(* The search goes past entries of higher scopes and of lower keys. *)
stops(e, id) == ~ (scope(id) < scope(e.id)) /\ ~ (key(e.id) < key(id))

(* Where the search ends: at an entry, or behind the last one. *)
position(bucket, id) ==
  CHOOSE i \in 1..(Len(bucket) + 1) :
    /\ \A j \in 1..(i - 1) : ~ stops(bucket[j], id)
    /\ i \in DOMAIN bucket => stops(bucket[i], id)

matches(bucket, i, id) == i \in DOMAIN bucket /\ bucket[i].id = id

(* The parts before and after the place of the entry, and the entry found  *)
(* there, as a sequence of one or none.                                    *)
_parseCacheBucket(bucket, id) ==
  LET i == position(bucket, id)
      end == IF matches(bucket, i, id) THEN i ELSE i - 1
  IN  [before |-> SubSeq(bucket, 1, i - 1),
       found |-> SubSeq(bucket, i, end),
       after |-> SubSeq(bucket, end + 1, Len(bucket))]

_combineParsedBucketParts(parts, entries) == parts.before \o entries \o parts.after

-----------------------------------------------------------------------------
(* Shards. *)

current(shard) ==
  shard \in DOMAIN shardbuckets /\ shardbuckets[shard].revision = vconfig.revision

(* What getBucket makes of the shard: from the manifest if it is to come   *)
(* back, new if there is none of this revision, or as it is.               *)
getShard(shard) ==
  IF shard \in DOMAIN vmanifest THEN vmanifest[shard]
  ELSE IF current(shard) THEN shardbuckets[shard].shard_uri
  ELSE EmptyShard

lookup(id) ==
  LET at == Home[id]
  IN  _parseCacheBucket(getShard(at.shard)[at.bucket], id)

get(id) == lookup(id).found

(* Wrong: the manifest is not told that the shard is back. *)
opened_StillPending(shard, uri) ==
  /\ shardbuckets' = With(shardbuckets, shard, [shard_uri |-> uri, revision |-> vconfig.revision])
  /\ UNCHANGED vmanifest

(* The row of a shard after getBucket and, for a write, setBucket. *)
opened(shard, uri) ==
  /\ shardbuckets' = With(shardbuckets, shard, [shard_uri |-> uri, revision |-> vconfig.revision])
  /\ vmanifest' = Without(vmanifest, shard)

getBucket(id) ==
  LET shard == Home[id].shard IN opened(shard, getShard(shard))

setBucket(id, entries) ==
  LET at == Home[id]
      data == _combineParsedBucketParts(lookup(id), entries)
  IN  opened(at.shard, [getShard(at.shard) EXCEPT ![at.bucket] = data])

(* Wrong: another contract does not compare the revisions. *)
getExternal_AnyRevision(id) ==
  LET at == Home[id]
  IN  IF at.shard \in DOMAIN shardbuckets
      THEN _parseCacheBucket(shardbuckets[at.shard].shard_uri[at.bucket], id).found
      ELSE <<>>

(* The same table read by another contract: it opens nothing and does not  *)
(* know about manifests.                                                   *)
getExternal(id) ==
  LET at == Home[id]
  IN  IF current(at.shard)
      THEN _parseCacheBucket(shardbuckets[at.shard].shard_uri[at.bucket], id).found
      ELSE <<>>

-----------------------------------------------------------------------------
(* Operations. *)

(* Wrong: the available key follows the last row emplaced. *)
increment_Last(id) == key(id) + 1

(* In the code a number wider than the keys: only the key handed out of it *)
(* is cut to 64 bits, which the last of all keys would be needed to tell.  *)
increment(id) ==
  IF vconfig.next_available_key < key(id) + 1 THEN key(id) + 1 ELSE vconfig.next_available_key

emplace(e) ==
  /\ get(e.id) = <<>>
  /\ setBucket(e.id, <<e>>)
  /\ vconfig' = [vconfig EXCEPT !.next_available_key = increment(e.id)]
  /\ UNCHANGED <<backups, mixed>>

(* The row is found first, and written back under the key it has. *)
modify(e) ==
  /\ get(e.id) # <<>>
  /\ setBucket(e.id, <<e>>)
  /\ UNCHANGED <<vconfig, backups, mixed>>

erase(id) ==
  /\ get(id) # <<>>
  /\ setBucket(id, <<>>)
  /\ UNCHANGED <<vconfig, backups, mixed>>

(* Looking a row up opens its shard, whether it is there or not. *)
find(id) ==
  /\ getBucket(id)
  /\ UNCHANGED <<vconfig, backups, mixed>>

clear ==
  /\ vconfig.revision < MaxRevision
  /\ vconfig' = [next_available_key |-> 0, revision |-> vconfig.revision + 1]
  /\ mixed' = (mixed \/ DOMAIN vmanifest # {})
  /\ UNCHANGED <<shardbuckets, vmanifest, backups>>

(* Wrong: the shards still to come back are left out. *)
currentShards_Opened == [s \in {t \in DOMAIN shardbuckets : current(t)} |-> shardbuckets[s].shard_uri]

(* The shards to come back, and those of this revision. *)
currentShards ==
  [s \in DOMAIN vmanifest \cup {t \in DOMAIN shardbuckets : current(t)} |->
     IF current(s) THEN shardbuckets[s].shard_uri ELSE vmanifest[s]]

create_manifest ==
  /\ backups' = backups \cup {[next_available_key |-> vconfig.next_available_key,
                              shardbuckets |-> currentShards]}
  /\ Cardinality(backups') <= MaxBackups
  /\ UNCHANGED <<shardbuckets, vconfig, vmanifest, mixed>>

(* A manifest replaces one that is not all back yet, and is kept again. *)
load_manifest(manifest) ==
  /\ vconfig.revision < MaxRevision
  /\ vmanifest' = manifest.shardbuckets
  /\ vconfig' = [next_available_key |-> manifest.next_available_key,
                 revision |-> vconfig.revision + 1]
  /\ backups' = backups \cup {manifest}
  /\ UNCHANGED <<shardbuckets, mixed>>

VramNext ==
  \/ \E e \in Entries : emplace(e) \/ modify(e)
  \/ \E id \in Ids : erase(id) \/ find(id)
  \/ clear
  \/ create_manifest
  \/ \E manifest \in backups : load_manifest(manifest)

VramSpec == VramInit /\ [][VramNext]_vars

-----------------------------------------------------------------------------

(* The entries in the buckets of one shard, of some shards. *)
Content(uri) == UNION {Range(uri[b]) : b \in Buckets}
Contents(uris) == UNION {Content(uris[s]) : s \in DOMAIN uris}

Latest == [s \in Shards |-> getShard(s)]

IsShard(uri) == uri \in [Buckets -> Seq(Entries)]

(* Every table has its shape, also the ones that are kept; no row of a     *)
(* shard is of a later revision than the table.                            *)
VramTypeOK ==
  /\ DOMAIN shardbuckets \subseteq Shards
  /\ \A s \in DOMAIN shardbuckets :
       /\ IsShard(shardbuckets[s].shard_uri)
       /\ shardbuckets[s].revision \in 0..vconfig.revision
  /\ vconfig \in [next_available_key : Nat, revision : Nat]
  /\ DOMAIN vmanifest \subseteq Shards
  /\ \A s \in DOMAIN vmanifest : IsShard(vmanifest[s]) /\ ~ current(s)
  /\ \A m \in backups :
       /\ m.next_available_key \in Nat
       /\ DOMAIN m.shardbuckets \subseteq Shards
       /\ \A s \in DOMAIN m.shardbuckets : IsShard(m.shardbuckets[s])
  /\ mixed \in BOOLEAN

(* A lookup finds the row of its scope and key if there is one anywhere    *)
(* in the table, and nothing else, although a bucket mixes scopes and the  *)
(* search stops at the first entry that is neither of a higher scope nor   *)
(* of a lower key.                                                         *)
LookupIsExact ==
  \A id \in Ids :
    Range(get(id)) = {e \in Contents(Latest) : e.id = id}

(* The key emplace is given by available_primary_key is free in every      *)
(* scope, also after a manifest is loaded; unless the table was cleared    *)
(* while shards were still to come back.                                   *)
AvailableKeyIsFree ==
  ~ mixed => \A e \in Contents(Latest) : key(e.id) < vconfig.next_available_key

(* Another contract that reads the table never sees a row its owner does   *)
(* not: it sees what the owner sees, or, in a shard that is still to come  *)
(* back, nothing.                                                          *)
OthersSeeNothingOld ==
  \A id \in Ids :
    getExternal(id) = IF Home[id].shard \in DOMAIN vmanifest THEN <<>> ELSE get(id)

(* The table is a set of rows: what is written is what is found, what is   *)
(* restored is what was saved, and clear empties it, except for shards     *)
(* still to come back, which come back although the table was cleared.     *)
R == INSTANCE Rows WITH
  rows <- Contents(Latest),
  next <- vconfig.next_available_key,
  saved <- {[rows |-> Contents(m.shardbuckets), next |-> m.next_available_key] : m \in backups},
  untouched <- Contents(vmanifest)
ImplementsRows == R!Spec
=============================================================================

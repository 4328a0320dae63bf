---------------------------- MODULE MCVramTable ----------------------------
(***************************************************************************)
(* A table for the model checker: two rows of different scopes side by     *)
(* side in a bucket, one with two values, and a row in a shard of its own. *)
(***************************************************************************)
EXTENDS VramTable, TLC

CONSTANTS a, b, c

Row(scope_, key_, value) == [id |-> <<scope_, key_>>, value |-> value]
MCEntries == {Row(1, 1, a), Row(1, 1, b), Row(2, 1, c), Row(1, 2, c)}
MCHome ==
  [id \in Ids |-> IF key(id) = 2 THEN [shard |-> 2, bucket |-> 2] ELSE [shard |-> 1, bucket |-> 1]]
Symmetry == Permutations({a, b})
=============================================================================

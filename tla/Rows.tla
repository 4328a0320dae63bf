-------------------------------- MODULE Rows --------------------------------
(***************************************************************************)
(* What a vRAM table promises the contracts that keep their rows in it: a  *)
(* set of rows, one at most for a scope and a key, and a key that is free. *)
(* A saved state can be restored later, and clear empties the table; only  *)
(* what was restored and never looked at since survives it.                *)
(* VramTable is shown to implement it.                                     *)
(***************************************************************************)
EXTENDS Naturals

CONSTANT
  Entries   \* the rows there can be: an id (a scope and a key) and a value

Ids == {e.id : e \in Entries}

VARIABLES
  rows,       \* what is in the table
  next,       \* the next available key, of all scopes
  saved,      \* the states saved so far
  untouched   \* rows restored, and nothing near them read or written since

vars == <<rows, next, saved, untouched>>

Init ==
  /\ rows = {}
  /\ next = 0
  /\ saved = {}
  /\ untouched = {}

At(id) == {r \in rows : r.id = id}

(* Reading or writing a row touches it, and possibly others with it. *)
Touch(id) == untouched' \subseteq untouched \ At(id)

Emplace(e) ==
  /\ At(e.id) = {}
  /\ rows' = rows \cup {e}
  /\ next' = IF next <= e.id[2] THEN e.id[2] + 1 ELSE next
  /\ Touch(e.id)
  /\ UNCHANGED saved

Modify(e) ==
  /\ At(e.id) # {}
  /\ rows' = (rows \ At(e.id)) \cup {e}
  /\ Touch(e.id)
  /\ UNCHANGED <<next, saved>>

Erase(id) ==
  /\ At(id) # {}
  /\ rows' = rows \ At(id)
  /\ Touch(id)
  /\ UNCHANGED <<next, saved>>

Find(id) ==
  /\ Touch(id)
  /\ UNCHANGED <<rows, next, saved>>

Clear ==
  /\ rows' = untouched
  /\ next' = 0
  /\ UNCHANGED <<saved, untouched>>

Save ==
  /\ saved' = saved \cup {[rows |-> rows, next |-> next]}
  /\ UNCHANGED <<rows, next, untouched>>

Restore(state) ==
  /\ rows' = state.rows
  /\ next' = state.next
  /\ untouched' = rows'
  /\ UNCHANGED saved

Next ==
  \/ \E e \in Entries : Emplace(e) \/ Modify(e)
  \/ \E id \in Ids : Erase(id) \/ Find(id)
  \/ Clear
  \/ Save
  \/ \E state \in saved : Restore(state)

Spec == Init /\ [][Next]_vars

-----------------------------------------------------------------------------

(* A scope and a key name one row. *)
OneRowPerKey ==
  \A r, s \in rows : r.id = s.id => r = s
=============================================================================

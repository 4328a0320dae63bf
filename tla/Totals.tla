------------------------------- MODULE Totals -------------------------------
(***************************************************************************)
(* The total of a table of amounts over a finite set of its rows.  The     *)
(* contracts never compute such a total; the properties that speak of all  *)
(* the balances at once do.                                                *)
(*                                                                         *)
(* It is a recursive FUNCTION on the subsets of the rows, one row removed  *)
(* at a time, so that the proof system can reason about it (TotalsProofs). *)
(***************************************************************************)
EXTENDS Integers

(* Some row of the set s, and the rows that remain without it. *)
Chosen(s) == CHOOSE row \in s : TRUE
Rest(s) == s \ {Chosen(s)}

(* Subtotals(rows, table)[s] is the total over the subset s of rows. *)
Subtotals(rows, table) ==
  LET sub[s \in SUBSET rows] ==
        IF s = {} THEN 0 ELSE table[Chosen(s)] + sub[Rest(s)]
  IN  sub

Total(rows, table) == Subtotals(rows, table)[rows]
=============================================================================

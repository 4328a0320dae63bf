----------------------------- MODULE MCPledges -----------------------------
(***************************************************************************)
(* Pledges for the model checker.  A fee of one coin in two makes both the *)
(* amounts with a fee (2) and those too small for one (1) small.           *)
(***************************************************************************)
EXTENDS Pledges

CONSTANTS phx, fee, ann, ben, self, group, stake, alice, nobody

MCVAccounts == {phx, fee, ann, ben}
OnePatron == {ann}
TwoPatrons == {ann, ben}
MCAccounts == {self, group, stake, alice}
MCSupplies == {4}
Two == {2}
One == {1}

(* The real coins of the only depositor. *)
Endowed(q) == [a \in MCAccounts |-> IF a = alice THEN q ELSE 0]
TwoCoins == Endowed(2)
FourCoins == Endowed(4)

Offers(qtys, usds, renewals, deletions) ==
  [qty : qtys, usd : usds, autorenew : renewals, next_delete : deletions]
AllOffers == Offers({0, 1, 2}, {0}, BOOLEAN, {FALSE})
CheapOffers == Offers({1}, {1}, BOOLEAN, {FALSE})
DeletingOffers == Offers({1}, {0}, {TRUE}, BOOLEAN)
=============================================================================

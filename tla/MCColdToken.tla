----------------------------- MODULE MCColdToken -----------------------------
(***************************************************************************)
(* ColdToken for the model checker: two customers, five real coins against *)
(* a supply of four, of which the operators may hand out two for nothing.  *)
(***************************************************************************)
EXTENDS ColdToken

CONSTANTS phx, fee, ann, ben, self, group, stake, alice

MCVAccounts == {phx, fee, ann, ben}
MCKeyHolders == {ann, ben}
MCAccounts == {self, group, stake, alice}
MCEndowment == [a \in MCAccounts |->
                  CASE a = alice -> 4 [] a = stake -> 1 [] OTHER -> 0]
MCSupplies == {0, 4}
MCAmounts == {-1, 0, 1, 2, 3}
=============================================================================

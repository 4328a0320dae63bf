------------------------------ MODULE MCUsers ------------------------------
(***************************************************************************)
(* Users for the model checker: three people, two of whose emails derive   *)
(* the same name, one of them with two keys.                               *)
(***************************************************************************)
EXTENDS Users

CONSTANTS phx, fee, ann, ben, self, group, stake, amy, eve, bob, k1, k2, k3, k4, nokey, none

MCVAccounts == {phx, fee, ann, ben}
Patrons == {ann, ben}
MCAccounts == {self, group, stake}
Nothing == [a \in MCAccounts |-> 0]
One == {1}

People == {amy, eve, bob}
Names == [e \in People |-> IF e = bob THEN ben ELSE ann]
Keys == [e \in People |-> CASE e = amy -> {k1, k2} [] e = eve -> {k3} [] e = bob -> {k4}]
=============================================================================

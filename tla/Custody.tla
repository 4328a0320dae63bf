------------------------------- MODULE Custody -------------------------------
(***************************************************************************)
(* What the token contract promises its customers, without saying how: a   *)
(* vault of real WEOSDT, and for every customer a claim on it.             *)
(*                                                                         *)
(* Coins that enter the vault are credited to at most one customer, coins  *)
(* leave it only against an equal reduction of one claim, and whatever     *)
(* customers pay each other in between never adds up to more than before.  *)
(* Only the house may hand out claims nobody paid for, and how much it has *)
(* handed out is on the record.                                            *)
(* ColdToken and Pledges are shown to implement it.                        *)
(***************************************************************************)
EXTENDS Totals, FiniteSets

CONSTANT Customers   \* a finite set, where a total over them matters

VARIABLES
  claims,   \* what each customer may withdraw
  vault,    \* the real coins held for all of them
  granted   \* what the house handed out without a deposit

vars == <<claims, vault, granted>>

Init ==
  /\ claims = [c \in Customers |-> 0]
  /\ vault = 0
  /\ granted = 0

(* Coins arrive and customer c is credited with all of them. *)
Deposit(c) ==
  /\ vault' \in Nat /\ vault' > vault
  /\ claims' = [claims EXCEPT ![c] = @ + (vault' - vault)]
  /\ UNCHANGED granted

(* Coins arrive and nobody is credited. *)
Donate ==
  /\ vault' \in Nat /\ vault' > vault
  /\ UNCHANGED <<claims, granted>>

(* Coins leave, all of them against the claim of customer c. *)
Withdraw(c) ==
  /\ vault' \in Nat /\ vault' < vault
  /\ vault - vault' <= claims[c]
  /\ claims' = [claims EXCEPT ![c] = @ - (vault - vault')]
  /\ UNCHANGED granted

(* Customers pay each other, or give up a claim; no coin moves. *)
Redistribute ==
  /\ claims' \in [Customers -> Nat]
  /\ Total(Customers, claims') <= Total(Customers, claims)
  /\ UNCHANGED <<vault, granted>>

(* The house gives customer c a claim no coin came in for. *)
Grant(c) ==
  /\ granted' \in Nat /\ granted' > granted
  /\ claims' = [claims EXCEPT ![c] = @ + (granted' - granted)]
  /\ UNCHANGED vault

Next ==
  \/ \E c \in Customers : Deposit(c) \/ Withdraw(c) \/ Grant(c)
  \/ Donate
  \/ Redistribute

Spec == Init /\ [][Next]_vars

-----------------------------------------------------------------------------

TypeOK ==
  /\ claims \in [Customers -> Nat]
  /\ vault \in Nat
  /\ granted \in Nat

(* The vault can pay every customer out at the same time, but for what the *)
(* house itself handed out: no customer can bring about a bigger gap.      *)
Solvent == Total(Customers, claims) <= vault + granted
=============================================================================

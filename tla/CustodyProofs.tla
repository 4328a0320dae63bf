---------------------------- MODULE CustodyProofs ----------------------------
(***************************************************************************)
(* Facts about totals, and what follows for the custodian, whatever his    *)
(* customers do: a total is an integer, it changes by exactly what one row *)
(* changes by, and no row of natural amounts exceeds it.                   *)
(*                                                                         *)
(* Induction on the set of rows is done with a smallest counterexample     *)
(* (SmallestSubset), because the induction theorems of the library take an *)
(* operator the provers cannot instantiate.                                *)
(***************************************************************************)
EXTENDS Custody, TLAPS, FiniteSetTheorems

-----------------------------------------------------------------------------
(* Totals. *)

(* A nonempty collection of subsets of a finite set has a smallest member. *)
LEMMA SmallestSubset ==
  ASSUME NEW S, IsFiniteSet(S), NEW T \in SUBSET SUBSET S, T # {}
  PROVE  \E m \in T : \A t \in T : t \subseteq m => t = m
<1>1. IsWellFoundedOn(StrictSubsetOrdering(S), SUBSET S)
  BY FS_StrictSubsetOrderingWellFounded, FS_FiniteSubsetsOfFinite
<1>2. PICK m \in T : \A t \in T : ~ (<<t, m>> \in StrictSubsetOrdering(S))
  BY <1>1, WFMin
<1>3. \A t \in T : t \subseteq m => t = m
  BY <1>2 DEF StrictSubsetOrdering
<1>. QED  BY <1>3

(* A row removed leaves strictly fewer. *)
LEMMA RestSmaller ==
  ASSUME NEW s, s # {}
  PROVE  Chosen(s) \in s /\ Rest(s) \subseteq s /\ Rest(s) # s
BY DEF Chosen, Rest

(* t gives every subset of rows its subtotal. *)
AreSubtotals(t, rows, table) ==
  t = [s \in SUBSET rows |-> IF s = {} THEN 0 ELSE table[Chosen(s)] + t[Rest(s)]]

LEMMA SubtotalsAt ==
  ASSUME NEW rows, NEW table, NEW t, AreSubtotals(t, rows, table),
         NEW s \in SUBSET rows
  PROVE  t[s] = IF s = {} THEN 0 ELSE table[Chosen(s)] + t[Rest(s)]
BY DEF AreSubtotals

(* Two families of subtotals agree on every set both know. *)
LEMMA SubtotalsAgree ==
  ASSUME NEW U, NEW V, NEW table, NEW t, NEW u, NEW w,
         AreSubtotals(t, U, table), AreSubtotals(u, V, table),
         w \subseteq U, w \subseteq V, IsFiniteSet(w)
  PROVE  t[w] = u[w]
<1>. DEFINE T == {s \in SUBSET w : t[s] # u[s]}
<1>1. SUFFICES ASSUME T # {} PROVE FALSE
  OBVIOUS
<1>0. T \in SUBSET SUBSET w
  OBVIOUS
<1>. HIDE DEF T
<1>2. PICK m \in T : \A s \in T : s \subseteq m => s = m
  BY <1>0, <1>1, SmallestSubset
<1>3. m \in SUBSET w /\ m \in SUBSET U /\ m \in SUBSET V /\ t[m] # u[m]
  BY <1>2 DEF T
<1>4. /\ t[m] = IF m = {} THEN 0 ELSE table[Chosen(m)] + t[Rest(m)]
      /\ u[m] = IF m = {} THEN 0 ELSE table[Chosen(m)] + u[Rest(m)]
  BY <1>3, SubtotalsAt
<1>5. m # {} /\ t[Rest(m)] # u[Rest(m)]
  BY <1>3, <1>4
<1>6. Rest(m) \in T
  BY <1>3, <1>5, RestSmaller DEF T
<1>. QED  BY <1>2, <1>5, <1>6, RestSmaller

(* Whatever the table, subtotals exist. *)
LEMMA SubtotalsExist ==
  ASSUME NEW rows, IsFiniteSet(rows), NEW table
  PROVE  \E t : AreSubtotals(t, rows, table)
<1>. DEFINE T == {S \in SUBSET rows : ~ \E t : AreSubtotals(t, S, table)}
<1>1. SUFFICES ASSUME T # {} PROVE FALSE
  OBVIOUS
<1>0. T \in SUBSET SUBSET rows
  OBVIOUS
<1>. HIDE DEF T
<1>2. PICK m \in T : \A S \in T : S \subseteq m => S = m
  BY <1>0, <1>1, SmallestSubset
<1>3. m \in SUBSET rows /\ ~ \E t : AreSubtotals(t, m, table)
  BY <1>2 DEF T
<1>4. \A S \in SUBSET m : S # m => \E t : AreSubtotals(t, S, table)
  BY <1>2, <1>3 DEF T
<1>. DEFINE G(S) == CHOOSE t : AreSubtotals(t, S, table)
            V(s) == IF s = {} THEN 0 ELSE table[Chosen(s)] + G(Rest(s))[Rest(s)]
            t == [s \in SUBSET m |-> V(s)]
<1>5. \A S \in SUBSET m : S # m => AreSubtotals(G(S), S, table)
  BY <1>4
<1>. HIDE DEF G
<1>6. ASSUME NEW s \in SUBSET m, s # {}
      PROVE  t[Rest(s)] = G(Rest(s))[Rest(s)]
  <2>. DEFINE r == Rest(s)
  <2>1. r \in SUBSET m /\ r # m
    BY <1>6, RestSmaller
  <2>2. AreSubtotals(G(r), r, table)
    BY <1>5, <2>1
  <2>3. G(r)[r] = IF r = {} THEN 0 ELSE table[Chosen(r)] + G(r)[Rest(r)]
    BY <2>2, SubtotalsAt
  <2>4. ASSUME r # {} PROVE G(r)[Rest(r)] = G(Rest(r))[Rest(r)]
    <3>1. Rest(r) \subseteq r /\ Rest(r) \in SUBSET m /\ Rest(r) # m
      BY <2>1, <2>4, RestSmaller
    <3>2. AreSubtotals(G(Rest(r)), Rest(r), table)
      BY <1>5, <3>1
    <3>3. IsFiniteSet(Rest(r))
      BY <1>3, <3>1, FS_Subset
    <3>. QED  BY <2>2, <3>1, <3>2, <3>3, SubtotalsAgree
  <2>5. t[r] = V(r)
    BY <2>1
  <2>. QED  BY <2>3, <2>4, <2>5
<1>7. AreSubtotals(t, m, table)
  <2>1. ASSUME NEW s \in SUBSET m
        PROVE  V(s) = IF s = {} THEN 0 ELSE table[Chosen(s)] + t[Rest(s)]
    BY <1>6
  <2>. HIDE DEF V
  <2>2. t = [s \in SUBSET m |-> IF s = {} THEN 0 ELSE table[Chosen(s)] + t[Rest(s)]]
    BY <2>1
  <2>. QED  BY <2>2 DEF AreSubtotals
<1>. QED  BY <1>3, <1>7

(* The recursive function satisfies its equation on every set of rows. *)
LEMMA SubtotalsDef ==
  ASSUME NEW rows, IsFiniteSet(rows), NEW table
  PROVE  AreSubtotals(Subtotals(rows, table), rows, table)
<1>. DEFINE Step(t) == [s \in SUBSET rows |->
                          IF s = {} THEN 0 ELSE table[Chosen(s)] + t[Rest(s)]]
<1>1. PICK t : AreSubtotals(t, rows, table)
  BY SubtotalsExist
<1>0. t = Step(t)
  BY <1>1 DEF AreSubtotals
<1>2. Subtotals(rows, table) = CHOOSE u : u = Step(u)
  BY Zenon DEF Subtotals
<1>. HIDE DEF Step
<1>3. Subtotals(rows, table) = Step(Subtotals(rows, table))
  BY <1>0, <1>2
<1>. QED  BY <1>3 DEF AreSubtotals, Step

LEMMA SubtotalStep ==
  ASSUME NEW rows, IsFiniteSet(rows), NEW table, NEW s \in SUBSET rows
  PROVE  Subtotals(rows, table)[s] =
           IF s = {} THEN 0
           ELSE table[Chosen(s)] + Subtotals(rows, table)[Rest(s)]
BY SubtotalsDef, SubtotalsAt

(* The total of a table of integers is an integer. *)
LEMMA TotalType ==
  ASSUME NEW rows, IsFiniteSet(rows), NEW table \in [rows -> Int]
  PROVE  Total(rows, table) \in Int
<1>. DEFINE sub == Subtotals(rows, table)
            T == {s \in SUBSET rows : sub[s] \notin Int}
<1>0. T \in SUBSET SUBSET rows
  OBVIOUS
<1>1. SUFFICES ASSUME T # {} PROVE FALSE
  BY DEF Total
<1>. HIDE DEF T
<1>2. PICK m \in T : \A s \in T : s \subseteq m => s = m
  BY <1>0, <1>1, SmallestSubset
<1>3. m \in SUBSET rows /\ sub[m] \notin Int
  BY <1>2 DEF T
<1>. HIDE DEF sub
<1>4. sub[m] = IF m = {} THEN 0 ELSE table[Chosen(m)] + sub[Rest(m)]
  <2>. m \in SUBSET rows
    BY <1>3
  <2>. QED  BY SubtotalStep DEF sub
<1>5. m # {}
  BY <1>3, <1>4
<1>6. sub[Rest(m)] \in Int
  BY <1>2, <1>3, <1>5, RestSmaller DEF T
<1>7. table[Chosen(m)] \in Int
  BY <1>3, <1>5, RestSmaller
<1>. QED  BY <1>3, <1>4, <1>5, <1>6, <1>7

(* Naturals have a total that is a natural number no smaller than any row. *)
LEMMA TotalNat ==
  ASSUME NEW rows, IsFiniteSet(rows), NEW table \in [rows -> Nat]
  PROVE  /\ Total(rows, table) \in Nat
         /\ \A r \in rows : table[r] <= Total(rows, table)
<1>. DEFINE sub == Subtotals(rows, table)
            Good(s) == sub[s] \in Nat /\ \A r \in s : table[r] <= sub[s]
            T == {s \in SUBSET rows : ~ Good(s)}
<1>0. T \in SUBSET SUBSET rows
  OBVIOUS
<1>1. SUFFICES ASSUME T # {} PROVE FALSE
  BY DEF Total
<1>. HIDE DEF T
<1>2. PICK m \in T : \A s \in T : s \subseteq m => s = m
  BY <1>0, <1>1, SmallestSubset
<1>3. m \in SUBSET rows /\ ~ Good(m)
  BY <1>2 DEF T
<1>. HIDE DEF sub
<1>4. sub[m] = IF m = {} THEN 0 ELSE table[Chosen(m)] + sub[Rest(m)]
  <2>. m \in SUBSET rows
    BY <1>3
  <2>. QED  BY SubtotalStep DEF sub
<1>5. m # {}
  BY <1>3, <1>4
<1>6. Rest(m) \in SUBSET rows /\ Good(Rest(m))
  BY <1>2, <1>3, <1>5, RestSmaller DEF T
<1>7. table[Chosen(m)] \in Nat
  BY <1>3, <1>5, RestSmaller
<1>8. sub[m] \in Nat /\ table[Chosen(m)] <= sub[m] /\ sub[Rest(m)] <= sub[m]
  BY <1>4, <1>5, <1>6, <1>7
<1>9. ASSUME NEW r \in m PROVE table[r] <= sub[m]
  <2>1. CASE r = Chosen(m)
    BY <1>8, <2>1
  <2>2. CASE r # Chosen(m)
    <3>1. r \in Rest(m) /\ table[r] \in Nat
      BY <1>3, <2>2 DEF Rest
    <3>. QED  BY <1>6, <1>8, <3>1
  <2>. QED  BY <2>1, <2>2
<1>. QED  BY <1>3, <1>8, <1>9

(* Changing one row changes the total by what the row changes by. *)
LEMMA TotalUpdate ==
  ASSUME NEW rows, IsFiniteSet(rows), NEW table \in [rows -> Int],
         NEW new \in [rows -> Int], NEW c \in rows,
         \A r \in rows : r # c => new[r] = table[r]
  PROVE  Total(rows, new) = Total(rows, table) - table[c] + new[c]
<1>. DEFINE old(s) == Subtotals(rows, table)[s]
            nxt(s) == Subtotals(rows, new)[s]
            Good(s) == /\ old(s) \in Int
                       /\ nxt(s) = IF c \in s THEN old(s) - table[c] + new[c] ELSE old(s)
            T == {s \in SUBSET rows : ~ Good(s)}
<1>0. T \in SUBSET SUBSET rows
  OBVIOUS
<1>1. SUFFICES ASSUME T # {} PROVE FALSE
  BY DEF Total
<1>. HIDE DEF T
<1>2. PICK m \in T : \A s \in T : s \subseteq m => s = m
  BY <1>0, <1>1, SmallestSubset
<1>3. m \in SUBSET rows /\ ~ Good(m)
  BY <1>2 DEF T
<1>4. /\ old(m) = IF m = {} THEN 0 ELSE table[Chosen(m)] + old(Rest(m))
      /\ nxt(m) = IF m = {} THEN 0 ELSE new[Chosen(m)] + nxt(Rest(m))
  <2>. m \in SUBSET rows
    BY <1>3
  <2>1. old(m) = IF m = {} THEN 0 ELSE table[Chosen(m)] + old(Rest(m))
    BY SubtotalStep
  <2>2. nxt(m) = IF m = {} THEN 0 ELSE new[Chosen(m)] + nxt(Rest(m))
    BY SubtotalStep
  <2>. QED  BY <2>1, <2>2
<1>. HIDE DEF old, nxt
<1>6. m # {}
  BY <1>3, <1>4
<1>7. Good(Rest(m))
  BY <1>2, <1>3, <1>6, RestSmaller DEF T
<1>8. Chosen(m) \in m /\ (c \in Rest(m) <=> c \in m /\ c # Chosen(m))
  BY <1>6, RestSmaller DEF Rest
<1>9. /\ table[Chosen(m)] \in Int /\ table[c] \in Int
      /\ new[Chosen(m)] \in Int /\ new[c] \in Int
  BY <1>3, <1>8
<1>10. CASE c = Chosen(m)
  BY <1>3, <1>4, <1>6, <1>7, <1>8, <1>9, <1>10
<1>11. CASE c # Chosen(m)
  BY <1>3, <1>4, <1>6, <1>7, <1>8, <1>9, <1>11
<1>. QED  BY <1>10, <1>11

(* Rows of zeros add up to zero. *)
LEMMA TotalZero ==
  ASSUME NEW rows, IsFiniteSet(rows)
  PROVE  Total(rows, [r \in rows |-> 0]) = 0
<1>. DEFINE zero == [r \in rows |-> 0]
            sub == Subtotals(rows, zero)
            T == {s \in SUBSET rows : sub[s] # 0}
<1>0. T \in SUBSET SUBSET rows
  OBVIOUS
<1>1. SUFFICES ASSUME T # {} PROVE FALSE
  BY DEF Total
<1>. HIDE DEF T
<1>2. PICK m \in T : \A s \in T : s \subseteq m => s = m
  BY <1>0, <1>1, SmallestSubset
<1>3. m \in SUBSET rows /\ sub[m] # 0
  BY <1>2 DEF T
<1>4. sub[m] = IF m = {} THEN 0 ELSE zero[Chosen(m)] + sub[Rest(m)]
  <2>. m \in SUBSET rows
    BY <1>3
  <2>. HIDE DEF zero
  <2>. QED  BY SubtotalStep
<1>. HIDE DEF sub
<1>5. m # {}
  BY <1>3, <1>4
<1>6. sub[Rest(m)] = 0
  BY <1>2, <1>3, <1>5, RestSmaller DEF T
<1>7. zero[Chosen(m)] = 0
  BY <1>3, <1>5, RestSmaller
<1>. QED  BY <1>3, <1>4, <1>5, <1>6, <1>7

-----------------------------------------------------------------------------
(* The custodian stays solvent, up to what the house hands out. *)

(***************************************************************************)
(* Claims are natural numbers and the vault is never overdrawn in sign:    *)
(* what withdrawv and the deposit handler may rely on.                     *)
(***************************************************************************)
LEMMA TypeStep == TypeOK /\ [Next]_vars => TypeOK'
<1>. SUFFICES ASSUME TypeOK, [Next]_vars PROVE TypeOK'
  OBVIOUS
<1>1. ASSUME NEW c \in Customers, Deposit(c) PROVE TypeOK'
  BY <1>1 DEF TypeOK, Deposit
<1>2. ASSUME NEW c \in Customers, Withdraw(c) PROVE TypeOK'
  BY <1>2 DEF TypeOK, Withdraw
<1>3. CASE Donate
  BY <1>3 DEF TypeOK, Donate
<1>4. CASE Redistribute
  BY <1>4 DEF TypeOK, Redistribute
<1>5. ASSUME NEW c \in Customers, Grant(c) PROVE TypeOK'
  BY <1>5 DEF TypeOK, Grant
<1>6. CASE UNCHANGED vars
  BY <1>6 DEF TypeOK, vars
<1>. QED  BY <1>1, <1>2, <1>3, <1>4, <1>5, <1>6 DEF Next

(* No step of the custodian but a grant leaves claims the vault cannot pay, *)
(* and a grant is on the record.                                            *)
LEMMA SolventStep ==
  ASSUME IsFiniteSet(Customers), TypeOK, Solvent, [Next]_vars
  PROVE  Solvent'
<1>0. /\ claims \in [Customers -> Int] /\ Total(Customers, claims) \in Int
      /\ vault \in Int /\ granted \in Int
  BY TotalType DEF TypeOK
<1>1. ASSUME NEW c \in Customers, Deposit(c) PROVE Solvent'
  <2>1. vault' \in Int /\ claims[c] \in Int /\ claims' \in [Customers -> Int]
    BY <1>0, <1>1 DEF Deposit
  <2>2. /\ claims'[c] = claims[c] + (vault' - vault)
        /\ \A d \in Customers : d # c => claims'[d] = claims[d]
    BY <1>0, <1>1 DEF Deposit
  <2>3. Total(Customers, claims') = Total(Customers, claims) - claims[c] + claims'[c]
    BY <1>0, <2>1, <2>2, TotalUpdate
  <2>4. granted' = granted
    BY <1>1 DEF Deposit
  <2>. QED  BY <1>0, <2>1, <2>2, <2>3, <2>4 DEF Solvent
<1>2. ASSUME NEW c \in Customers, Withdraw(c) PROVE Solvent'
  <2>1. vault' \in Int /\ claims[c] \in Int /\ claims' \in [Customers -> Int]
    BY <1>0, <1>2 DEF Withdraw
  <2>2. /\ claims'[c] = claims[c] - (vault - vault')
        /\ \A d \in Customers : d # c => claims'[d] = claims[d]
    BY <1>0, <1>2 DEF Withdraw
  <2>3. Total(Customers, claims') = Total(Customers, claims) - claims[c] + claims'[c]
    BY <1>0, <2>1, <2>2, TotalUpdate
  <2>4. granted' = granted
    BY <1>2 DEF Withdraw
  <2>. QED  BY <1>0, <2>1, <2>2, <2>3, <2>4 DEF Solvent
<1>3. CASE Donate
  BY <1>0, <1>3 DEF Solvent, Donate
<1>4. CASE Redistribute
  <2>1. Total(Customers, claims') \in Int
    BY <1>4, TotalType DEF Redistribute
  <2>. QED  BY <1>0, <1>4, <2>1 DEF Solvent, Redistribute
<1>5. ASSUME NEW c \in Customers, Grant(c) PROVE Solvent'
  <2>1. granted' \in Int /\ claims[c] \in Int /\ claims' \in [Customers -> Int]
    BY <1>0, <1>5 DEF Grant
  <2>2. /\ claims'[c] = claims[c] + (granted' - granted)
        /\ \A d \in Customers : d # c => claims'[d] = claims[d]
        /\ vault' = vault
    BY <1>0, <1>5 DEF Grant
  <2>3. Total(Customers, claims') = Total(Customers, claims) - claims[c] + claims'[c]
    BY <1>0, <2>1, <2>2, TotalUpdate
  <2>. QED  BY <1>0, <2>1, <2>2, <2>3 DEF Solvent
<1>6. CASE UNCHANGED vars
  BY <1>6 DEF Solvent, vars
<1>. QED  BY <1>1, <1>2, <1>3, <1>4, <1>5, <1>6 DEF Next

(* At the start nobody has a claim. *)
LEMMA InitSafe ==
  ASSUME IsFiniteSet(Customers), Init
  PROVE  TypeOK /\ Solvent
<1>1. TypeOK
  BY DEF Init, TypeOK
<1>2. Total(Customers, [c \in Customers |-> 0]) = 0
  BY TotalZero
<1>. QED  BY <1>1, <1>2 DEF Init, Solvent

(***************************************************************************)
(* The custodian can always pay every customer out at the same time, but   *)
(* for what the house handed out without a deposit; a house that hands out *)
(* nothing is always solvent.                                              *)
(***************************************************************************)
THEOREM CustodianSolventButForGrants ==
  ASSUME IsFiniteSet(Customers)
  PROVE  Spec => []Solvent
<1>1. Init => TypeOK /\ Solvent
  BY InitSafe
<1>2. TypeOK /\ Solvent /\ [Next]_vars => (TypeOK /\ Solvent)'
  BY TypeStep, SolventStep
<1>. QED  BY <1>1, <1>2, PTL DEF Spec
=============================================================================

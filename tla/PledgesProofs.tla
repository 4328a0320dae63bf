---------------------------- MODULE PledgesProofs ----------------------------
(* The subscriptions, for every set of patrons and creators, every length  *)
(* of a cycle and any number of pledges.                                   *)
EXTENDS Pledges, ColdTokenProofs

-----------------------------------------------------------------------------
(* What a payment does to the balances. *)

(* From the table b to the table n, payer pays q, nobody else does, and    *)
(* only users get a row for it.                                            *)
Pays(b, n, payer, q) ==
  /\ IsTable(n)
  /\ payer \in DOMAIN b /\ payer \in DOMAIN n
  /\ DOMAIN b \subseteq DOMAIN n /\ DOMAIN n \subseteq DOMAIN b \cup users
  /\ n[payer] = b[payer] - q
  /\ Total(VAccounts, Balances(n)) = Total(VAccounts, Balances(b))
  /\ Total(Customers, Claims(n)) <= Total(Customers, Claims(b))

LEMMA TransferPays ==
  ASSUME NEW b, IsTable(b), NEW payer \in DOMAIN b, NEW to \in VAccounts, to \in users,
         payer # Phoenix, payer # to, NEW q \in Nat, q <= b[payer]
  PROVE  Pays(b, _transfer(b, payer, to, q), payer, q)
<1>. DEFINE n == _transfer(b, payer, to, q)
<1>1. Moved(b, n, payer, to, q)
  BY TransferEffect
<1>2. Total(VAccounts, Balances(n)) = Total(VAccounts, Balances(b))
  BY TransferTotal
<1>3. Total(Customers, Claims(n)) <= Total(Customers, Claims(b))
  BY TransferClaims
<1>. HIDE DEF n
<1>4. payer \in DOMAIN n /\ n[payer] = b[payer] - q
  BY <1>1 DEF Moved, get_balance
<1>5. Pays(b, n, payer, q)
  BY <1>1, <1>2, <1>3, <1>4 DEF Moved, Pays
<1>. QED  BY <1>5 DEF n

LEMMA FeesType ==
  ASSUME NEW q \in Nat
  PROVE  fees(q) \in Nat
BY PledgesAssumption DEF fees

(* The payment of a pledge costs the patron the whole quantity, fees       *)
(* included, and nothing else comes or goes.                               *)
LEMMA PaymentEffect ==
  ASSUME TokenTypeOK, NEW p, p.from \in KeyHolders, p.to \in VAccounts,
         NEW q \in Nat, payChecks(p, q)
  PROVE  Pays(accounts, afterPayment(p, q), p.from, q)
<1>. DEFINE b == accounts
            share == _transfer(b, p.from, p.to, q - fees(q))
<1>0. /\ IsTable(b) /\ Fees \in VAccounts
      /\ p.from # Phoenix /\ p.from # Fees
      /\ fees(q) \in Nat /\ q - fees(q) \in Int
  BY TokenAssumption, FeesType DEF TokenTypeOK, IsTable
<1>1. /\ p.from # p.to /\ p.to \in users
      /\ q - fees(q) > 0
      /\ p.from \in DOMAIN b /\ b[p.from] \in Nat /\ b[p.from] >= q - fees(q)
  BY <1>0 DEF payChecks, transferChecks, _transferChecks, IsTable
<1>2. Pays(b, share, p.from, q - fees(q))
  BY <1>0, <1>1, TransferPays
<1>3. CASE fees(q) = 0
  BY <1>0, <1>2, <1>3 DEF afterPayment
<1>4. CASE fees(q) > 0
  <2>1. afterPayment(p, q) = _transfer(share, p.from, Fees, fees(q))
    BY <1>4 DEF afterPayment
  <2>2. Fees \in users /\ share[p.from] >= fees(q)
    BY <1>4 DEF payChecks, transferChecks, _transferChecks
  <2>. HIDE DEF share
  <2>3. IsTable(share) /\ p.from \in DOMAIN share
    BY <1>2 DEF Pays
  <2>4. Pays(share, _transfer(share, p.from, Fees, fees(q)), p.from, fees(q))
    BY <1>0, <1>4, <2>2, <2>3, TransferPays
  <2>. DEFINE n == _transfer(share, p.from, Fees, fees(q))
  <2>5. Total(Customers, Claims(b)) \in Int /\ Total(Customers, Claims(share)) \in Int
        /\ Total(Customers, Claims(n)) \in Int
    BY <1>0, <2>3, <2>4, BalancesType, RowsFinite, TotalNat DEF Pays
  <2>. HIDE DEF n
  <2>6. Pays(b, n, p.from, q)
    BY <1>0, <1>1, <1>2, <2>4, <2>5 DEF Pays, n
  <2>. QED  BY <2>1, <2>6 DEF n
<1>. QED  BY <1>0, <1>3, <1>4

-----------------------------------------------------------------------------
(* What a step may do. *)

Signs(v, to, terms) == v \in VAccounts /\ to \in VAccounts /\ terms \in Terms /\ pledge(v, to, terms)

Charges(by, id, pending) ==
  /\ by \in KeyHolders \cup {Nobody} /\ id \in DOMAIN pledges
  /\ pending \in {timers, Without(timers, id)}
  /\ renew(by, id, pending)

(* The pledges stay as they are; a timer may be given up. *)
Idles ==
  /\ [TokenNext]_tokenVars
  /\ UNCHANGED <<pledges, relFrom, relTo, signed, last>>
  /\ timers' = timers \/ \E id : timers' = Without(timers, id)
  /\ paused' = paused \/ paused' \in BOOLEAN
  /\ charge' = {} \/ UNCHANGED vars

LEMMA PledgeKinds ==
  ASSUME PledgesTypeOK, [PledgesNext]_vars
  PROVE  \/ \E v, to, terms : Signs(v, to, terms)
         \/ \E by, id, pending : Charges(by, id, pending)
         \/ Tick
         \/ Idles
<1>. DEFINE Goal == \/ \E v, to, terms : Signs(v, to, terms)
                    \/ \E by, id, pending : Charges(by, id, pending)
                    \/ Tick
                    \/ Idles
<1>1. ASSUME token PROVE Goal
  BY <1>1 DEF token, Idles, pledgeVars, observed
<1>2. ASSUME NEW v \in VAccounts, NEW to \in VAccounts, NEW terms \in Terms, pledge(v, to, terms)
      PROVE  Goal
  BY <1>2 DEF Signs
<1>3. ASSUME NEW by \in KeyHolders \cup {Nobody}, NEW id \in DOMAIN pledges, renewpledge(by, id)
      PROVE  Goal
  <2>1. Charges(by, id, timers)
    BY <1>3 DEF renewpledge, Charges
  <2>. QED  BY <2>1
<1>4. ASSUME NEW id \in DOMAIN timers, timer_callback(id) PROVE Goal
  <2>1. CASE renew(Nobody, id, Without(timers, id))
    <3>1. id \in DOMAIN pledges
      BY DEF PledgesTypeOK
    <3>2. Charges(Nobody, id, Without(timers, id))
      BY <2>1, <3>1 DEF Charges
    <3>. QED  BY <3>2
  <2>2. CASE ~ renew(Nobody, id, Without(timers, id))
    BY <1>4, <2>2 DEF timer_callback, Idles, observed
  <2>. QED  BY <2>1, <2>2
<1>5. ASSUME NEW b \in BOOLEAN, pause(b) PROVE Goal
  BY <1>5 DEF pause, Idles, observed
<1>6. ASSUME UNCHANGED vars PROVE Goal
  BY <1>6 DEF vars, pledgeVars, observed, Idles
<1>. HIDE DEF Goal
<1>7. Goal
  <2>1. Tick => Goal
    BY DEF Goal
  <2>. QED  BY <1>1, <1>2, <1>3, <1>4, <1>5, <1>6, <2>1 DEF PledgesNext
<1>. QED  BY <1>7 DEF Goal

-----------------------------------------------------------------------------
(* The tables of the pledges. *)

PledgeRow == [from : KeyHolders, to : VAccounts,
              qty : Nat \ {0}, usd : Nat, next_qty : Nat \ {0}, next_usd : Nat,
              autorenew : BOOLEAN, next_delete : BOOLEAN,
              paid : BOOLEAN, age : Ages]

Between(id, from, to) ==
  id \in DOMAIN pledges /\ pledges[id].from = from /\ pledges[id].to = to

(* The relations are the index of the pledges, said of one pair of a name  *)
(* and a pledge at a time; and no two pledges are between the same two.    *)
Indexed ==
  /\ IsFiniteSet(DOMAIN pledges)
  /\ \A from, to \in VAccounts, id \in Nat :
        /\ [name |-> to, pledge_id |-> id] \in relFrom[from] <=> Between(id, from, to)
        /\ [name |-> from, pledge_id |-> id] \in relTo[to] <=> Between(id, from, to)
  /\ \A i, j \in DOMAIN pledges :
        pledges[i].from = pledges[j].from /\ pledges[i].to = pledges[j].to => i = j

(* The id of a new pledge is the next one. *)
LEMMA NextId ==
  ASSUME PledgesTypeOK, Indexed
  PROVE  /\ Cardinality(DOMAIN pledges) \in Nat
         /\ DOMAIN pledges = 0..(Cardinality(DOMAIN pledges) - 1)
         /\ Cardinality(DOMAIN pledges) \notin DOMAIN pledges
         /\ LET D == DOMAIN pledges \cup {Cardinality(DOMAIN pledges)}
            IN  /\ IsFiniteSet(D)
                /\ D = 0..(Cardinality(D) - 1)
<1>. DEFINE n == Cardinality(DOMAIN pledges)
<1>1. n \in Nat
  BY FS_CardinalityType DEF Indexed
<1>2. DOMAIN pledges = 0..(n - 1)
  BY DEF PledgesTypeOK
<1>3. n \notin DOMAIN pledges
  BY <1>1, <1>2
<1>4. IsFiniteSet(DOMAIN pledges \cup {n}) /\ Cardinality(DOMAIN pledges \cup {n}) = n + 1
  BY <1>3, FS_AddElement DEF Indexed
<1>5. DOMAIN pledges \cup {n} = 0..n
  BY <1>1, <1>2
<1>. HIDE DEF n
<1>6. Cardinality(DOMAIN pledges \cup {n}) - 1 = n
  BY <1>1, <1>4
<1>7. DOMAIN pledges \cup {n} = 0..(Cardinality(DOMAIN pledges \cup {n}) - 1)
  BY <1>5, <1>6
<1>. QED  BY <1>1, <1>2, <1>3, <1>4, <1>7 DEF n

(* What is found in the patron's row is a pledge of his to that creator. *)
LEMMA FoundPledge ==
  ASSUME PledgesTypeOK, Indexed, NEW v \in VAccounts, NEW to \in VAccounts,
         PairsFor(relFrom[v], to) # {}
  PROVE  Between(pledge_id(relFrom[v], to), v, to)
<1>1. PICK r \in relFrom[v] : r.name = to
  BY DEF PairsFor
<1>2. \A s \in PairsFor(relFrom[v], to) :
        /\ s.pledge_id \in Nat /\ s = [name |-> to, pledge_id |-> s.pledge_id]
        /\ Between(s.pledge_id, v, to)
  <2>. SUFFICES ASSUME NEW s \in relFrom[v], s.name = to
                PROVE  /\ s.pledge_id \in Nat /\ s = [name |-> to, pledge_id |-> s.pledge_id]
                       /\ Between(s.pledge_id, v, to)
    BY DEF PairsFor
  <2>1. s \in [name : VAccounts, pledge_id : DOMAIN pledges]
    BY DEF PledgesTypeOK
  <2>2. s.pledge_id \in Nat
    BY <2>1, NextId
  <2>3. s = [name |-> to, pledge_id |-> s.pledge_id]
    BY <2>1
  <2>. QED  BY <2>2, <2>3 DEF Indexed
<1>3. \A s \in PairsFor(relFrom[v], to) : r.pledge_id = s.pledge_id
  BY <1>1, <1>2 DEF Between, Indexed, PairsFor
<1>4. \E x \in PairsFor(relFrom[v], to) :
        \A s \in PairsFor(relFrom[v], to) : x.pledge_id <= s.pledge_id
  <2>1. r \in PairsFor(relFrom[v], to)
    BY <1>1 DEF PairsFor
  <2>2. \A s \in PairsFor(relFrom[v], to) : r.pledge_id <= s.pledge_id
    BY <1>2, <1>3, <2>1
  <2>. QED  BY <2>1, <2>2
<1>. QED  BY <1>2, <1>4 DEF pledge_id

(* No pair in the patron's row, no pledge, and no pair in the creator's. *)
LEMMA NotFound ==
  ASSUME PledgesTypeOK, Indexed, NEW v \in VAccounts, NEW to \in VAccounts,
         PairsFor(relFrom[v], to) = {}
  PROVE  (\A id : ~ Between(id, v, to)) /\ PairsFor(relTo[to], v) = {}
<1>1. ASSUME NEW id, Between(id, v, to) PROVE FALSE
  <2>1. id \in Nat
    BY <1>1, NextId DEF Between
  <2>2. [name |-> to, pledge_id |-> id] \in relFrom[v]
    BY <1>1, <2>1 DEF Indexed
  <2>. QED  BY <2>2 DEF PairsFor
<1>2. ASSUME NEW s \in relTo[to], s.name = v PROVE FALSE
  <2>1. s \in [name : VAccounts, pledge_id : DOMAIN pledges]
    BY DEF PledgesTypeOK
  <2>2. s.pledge_id \in Nat /\ s = [name |-> v, pledge_id |-> s.pledge_id]
    BY <1>2, <2>1, NextId
  <2>3. Between(s.pledge_id, v, to)
    BY <1>2, <2>2 DEF Indexed
  <2>. QED  BY <1>1, <2>3
<1>. QED  BY <1>1, <1>2 DEF PairsFor

(* The parts of the type invariant that no signature touches. *)
LEMMA SignRest ==
  ASSUME PledgesTypeOK, NEW v, NEW to, NEW terms, Signs(v, to, terms)
  PROVE  /\ TokenTypeOK' /\ timers' = timers /\ paused' \in BOOLEAN /\ charge' = {}
         /\ DOMAIN signed' \subseteq Pairs /\ \A p \in DOMAIN signed' : signed'[p] \in Terms
         /\ DOMAIN last' = DOMAIN last
         /\ \A p \in DOMAIN last : /\ last'[p] \in [age : Ages, qty : Nat, delete : BOOLEAN]
                                   /\ last'[p].age = last[p].age /\ last'[p].qty = last[p].qty
<1>1. TokenTypeOK'
  BY DEF Signs, pledge, PledgesTypeOK, TokenTypeOK, tokenVars
<1>2. DOMAIN signed' \subseteq Pairs /\ \A p \in DOMAIN signed' : signed'[p] \in Terms
  <2>1. signed' = With(signed, <<v, to>>, terms) /\ <<v, to>> \in Pairs /\ terms \in Terms
    BY DEF Signs, pledge, Pairs
  <2>. QED  BY <2>1 DEF With, PledgesTypeOK
<1>3. DOMAIN last' = DOMAIN last
  BY DEF Signs, pledge
<1>4. ASSUME NEW p \in DOMAIN last
      PROVE  /\ last'[p] \in [age : Ages, qty : Nat, delete : BOOLEAN]
             /\ last'[p].age = last[p].age /\ last'[p].qty = last[p].qty
  <2>1. last[p] \in [age : Ages, qty : Nat, delete : BOOLEAN]
    BY DEF PledgesTypeOK
  <2>2. last'[p] = last[p] \/ last'[p] = [last[p] EXCEPT !.delete = FALSE]
    BY DEF Signs, pledge
  <2>. QED  BY <2>1, <2>2
<1>5. timers' = timers /\ paused' \in BOOLEAN /\ charge' = {}
  BY DEF Signs, pledge, PledgesTypeOK
<1>. QED  BY <1>1, <1>2, <1>3, <1>4, <1>5

(* A first signature adds a row, and a pair to either relation. *)
LEMMA CreateStep ==
  ASSUME PledgesTypeOK, Indexed, NEW v, NEW to, NEW terms, Signs(v, to, terms),
         ~ pledged(v, to)
  PROVE  /\ DOMAIN pledges' = DOMAIN pledges \cup {Cardinality(DOMAIN pledges)}
         /\ \A id \in DOMAIN pledges : pledges'[id] = pledges[id]
         /\ pledges'[Cardinality(DOMAIN pledges)] =
              [from |-> v, to |-> to, qty |-> terms.qty, usd |-> terms.qty,
               next_qty |-> terms.qty, next_usd |-> terms.qty,
               autorenew |-> terms.autorenew, next_delete |-> FALSE,
               paid |-> FALSE, age |-> 0]
         /\ \A id : ~ Between(id, v, to)
         /\ PledgesTypeOK' /\ Indexed'
<1>. DEFINE n == Cardinality(DOMAIN pledges)
            row == [from |-> v, to |-> to, qty |-> terms.qty, usd |-> terms.qty,
                    next_qty |-> terms.qty, next_usd |-> terms.qty,
                    autorenew |-> terms.autorenew, next_delete |-> FALSE,
                    paid |-> FALSE, age |-> 0]
<1>0. /\ v \in KeyHolders /\ v \in VAccounts /\ to \in VAccounts
      /\ terms \in [qty : Int, usd : Nat, autorenew : BOOLEAN, next_delete : BOOLEAN]
      /\ terms.qty > 0
  BY PledgesAssumption DEF Signs, pledge
<1>1. /\ pledges' = With(pledges, n, row)
      /\ relFrom' = [relFrom EXCEPT ![v] = upserted(@, to, n)]
      /\ relTo' = [relTo EXCEPT ![to] = upserted(@, v, n)]
  BY DEF Signs, pledge, create_pledge, upsert_pledge_relations
<1>2. PairsFor(relFrom[v], to) = {} /\ PairsFor(relTo[to], v) = {} /\ \A id : ~ Between(id, v, to)
  BY <1>0, NotFound DEF pledged
<1>3. /\ n \in Nat /\ n \notin DOMAIN pledges
      /\ IsFiniteSet(DOMAIN pledges \cup {n})
      /\ DOMAIN pledges \cup {n} = 0..(Cardinality(DOMAIN pledges \cup {n}) - 1)
  BY NextId
<1>4. row \in PledgeRow /\ row.from = v /\ row.to = to
  BY <1>0, PledgesAssumption DEF PledgeRow, Ages
<1>. HIDE DEF row, n
<1>5. /\ DOMAIN pledges' = DOMAIN pledges \cup {n}
      /\ pledges'[n] = row
      /\ \A id \in DOMAIN pledges : pledges'[id] = pledges[id]
  BY <1>1, <1>3 DEF With
<1>6. \A id \in DOMAIN pledges' : pledges'[id] \in PledgeRow
  <2>1. \A id \in DOMAIN pledges : pledges[id] \in PledgeRow
    BY DEF PledgesTypeOK, PledgeRow
  <2>. QED  BY <1>4, <1>5, <2>1
<1>7. /\ relFrom \in [VAccounts -> SUBSET [name : VAccounts, pledge_id : DOMAIN pledges]]
      /\ relTo \in [VAccounts -> SUBSET [name : VAccounts, pledge_id : DOMAIN pledges]]
  BY DEF PledgesTypeOK
<1>8. /\ relFrom'[v] = relFrom[v] \cup {[name |-> to, pledge_id |-> n]}
      /\ relTo'[to] = relTo[to] \cup {[name |-> v, pledge_id |-> n]}
      /\ \A u \in VAccounts : u # v => relFrom'[u] = relFrom[u]
      /\ \A u \in VAccounts : u # to => relTo'[u] = relTo[u]
      /\ DOMAIN relFrom' = VAccounts /\ DOMAIN relTo' = VAccounts
  BY <1>0, <1>1, <1>2, <1>7 DEF upserted
<1>9. {relFrom', relTo'} \subseteq
        [VAccounts -> SUBSET [name : VAccounts, pledge_id : DOMAIN pledges']]
  <2>1. \A u \in VAccounts :
          /\ relFrom'[u] \in SUBSET [name : VAccounts, pledge_id : DOMAIN pledges']
          /\ relTo'[u] \in SUBSET [name : VAccounts, pledge_id : DOMAIN pledges']
    BY <1>0, <1>5, <1>7, <1>8
  <2>2. relFrom' = [u \in VAccounts |-> relFrom'[u]] /\ relTo' = [u \in VAccounts |-> relTo'[u]]
    BY <1>1, <1>7
  <2>. QED  BY <2>1, <2>2
<1>10. PledgesTypeOK'
  <2>1. charge' \subseteq [id : DOMAIN pledges', by : KeyHolders \cup {Nobody}]
        /\ Cardinality(charge') <= 1
    BY SignRest, FS_EmptySet
  <2>2. DOMAIN timers' \subseteq DOMAIN pledges' /\ \A id \in DOMAIN timers' : timers'[id] \in Ages
    BY <1>5, SignRest DEF PledgesTypeOK
  <2>3. DOMAIN pledges' = 0..(Cardinality(DOMAIN pledges') - 1)
    BY <1>3, <1>5
  <2>. QED  BY <1>6, <1>9, <2>1, <2>2, <2>3, SignRest DEF PledgesTypeOK, PledgeRow
<1>11. Indexed'
  <2>1. \A f, t \in VAccounts, id \in Nat :
          Between(id, f, t)' <=> Between(id, f, t) \/ (id = n /\ f = v /\ t = to)
    BY <1>3, <1>4, <1>5 DEF Between
  <2>2. \A f, t \in VAccounts, id \in Nat :
          /\ [name |-> t, pledge_id |-> id] \in relFrom'[f] <=>
                [name |-> t, pledge_id |-> id] \in relFrom[f] \/ (id = n /\ f = v /\ t = to)
          /\ [name |-> f, pledge_id |-> id] \in relTo'[t] <=>
                [name |-> f, pledge_id |-> id] \in relTo[t] \/ (id = n /\ f = v /\ t = to)
    BY <1>0, <1>8
  <2>3. \A i, j \in DOMAIN pledges' :
          pledges'[i].from = pledges'[j].from /\ pledges'[i].to = pledges'[j].to => i = j
    BY <1>2, <1>4, <1>5 DEF Between, Indexed
  <2>4. IsFiniteSet(DOMAIN pledges')
    BY <1>3, <1>5
  <2>. QED  BY <2>1, <2>2, <2>3, <2>4 DEF Indexed
<1>. QED  BY <1>2, <1>5, <1>10, <1>11 DEF n, row

(* Whatever else a step does to the rows, if it keeps who pledges to whom  *)
(* it keeps the relations right.                                           *)
LEMMA SameIndex ==
  ASSUME PledgesTypeOK, Indexed, UNCHANGED <<relFrom, relTo>>,
         DOMAIN pledges' = DOMAIN pledges,
         \A id \in DOMAIN pledges : /\ pledges'[id] \in PledgeRow
                                    /\ pledges'[id].from = pledges[id].from
                                    /\ pledges'[id].to = pledges[id].to
  PROVE  /\ Indexed'
         /\ DOMAIN pledges' = 0..(Cardinality(DOMAIN pledges') - 1)
         /\ {relFrom', relTo'} \subseteq
              [VAccounts -> SUBSET [name : VAccounts, pledge_id : DOMAIN pledges']]
<1>1. DOMAIN pledges' = 0..(Cardinality(DOMAIN pledges') - 1)
  BY DEF PledgesTypeOK
<1>2. {relFrom', relTo'} \subseteq
        [VAccounts -> SUBSET [name : VAccounts, pledge_id : DOMAIN pledges']]
  BY DEF PledgesTypeOK
<1>3. \A f, t \in VAccounts, id \in Nat : Between(id, f, t)' <=> Between(id, f, t)
  BY DEF Between
<1>4. IsFiniteSet(DOMAIN pledges')
  BY DEF Indexed
<1>5. \A i, j \in DOMAIN pledges' :
        pledges'[i].from = pledges'[j].from /\ pledges'[i].to = pledges'[j].to => i = j
  BY DEF Indexed
<1>. QED  BY <1>1, <1>2, <1>3, <1>4, <1>5 DEF Indexed

(* A later signature changes the terms of the next cycle, and of one       *)
(* pledge only: the patron's own.                                          *)
LEMMA UpdateStep ==
  ASSUME PledgesTypeOK, Indexed, NEW v, NEW to, NEW terms, Signs(v, to, terms),
         pledged(v, to)
  PROVE  /\ DOMAIN pledges' = DOMAIN pledges
         /\ \A id \in DOMAIN pledges :
              /\ pledges'[id].from = pledges[id].from /\ pledges'[id].to = pledges[id].to
              /\ pledges'[id].paid = pledges[id].paid /\ pledges'[id].age = pledges[id].age
              /\ pledges'[id].qty = pledges[id].qty
              /\ Between(id, v, to) =>
                    pledges'[id].next_qty = terms.qty /\ pledges'[id].autorenew = terms.autorenew
              /\ ~ Between(id, v, to) => pledges'[id] = pledges[id]
         /\ PledgesTypeOK' /\ Indexed'
<1>. DEFINE u == pledge_id(relFrom[v], to)
<1>0. /\ v \in VAccounts /\ to \in VAccounts
      /\ terms \in [qty : Int, usd : Nat, autorenew : BOOLEAN, next_delete : BOOLEAN]
      /\ terms.qty \in Nat \ {0}
  BY PledgesAssumption DEF Signs, pledge
<1>1. /\ pledges' = [pledges EXCEPT ![u].next_qty = terms.qty, ![u].next_usd = terms.usd,
                                    ![u].autorenew = terms.autorenew,
                                    ![u].next_delete = terms.next_delete]
      /\ UNCHANGED <<relFrom, relTo>>
  BY DEF Signs, pledge, update_pledge
<1>2. Between(u, v, to)
  BY <1>0, FoundPledge DEF pledged
<1>. HIDE DEF u
<1>3. \A id \in DOMAIN pledges : Between(id, v, to) <=> id = u
  BY <1>2 DEF Between, Indexed
<1>4. \A id \in DOMAIN pledges : pledges[id] \in PledgeRow
  BY DEF PledgesTypeOK, PledgeRow
<1>5. /\ DOMAIN pledges' = DOMAIN pledges
      /\ \A id \in DOMAIN pledges : id # u => pledges'[id] = pledges[id]
      /\ pledges'[u] = [pledges[u] EXCEPT !.next_qty = terms.qty, !.next_usd = terms.usd,
                                          !.autorenew = terms.autorenew,
                                          !.next_delete = terms.next_delete]
  BY <1>1, <1>2 DEF Between
<1>6. /\ pledges'[u] \in PledgeRow
      /\ pledges'[u].from = pledges[u].from /\ pledges'[u].to = pledges[u].to
      /\ pledges'[u].paid = pledges[u].paid /\ pledges'[u].age = pledges[u].age
      /\ pledges'[u].qty = pledges[u].qty
      /\ pledges'[u].next_qty = terms.qty /\ pledges'[u].autorenew = terms.autorenew
  <2>1. pledges[u] \in PledgeRow
    BY <1>2, <1>4 DEF Between
  <2>. QED  BY <1>0, <1>5, <2>1 DEF PledgeRow
<1>7. \A id \in DOMAIN pledges : /\ pledges'[id] \in PledgeRow
                                 /\ pledges'[id].from = pledges[id].from
                                 /\ pledges'[id].to = pledges[id].to
  BY <1>4, <1>5, <1>6
<1>8. PledgesTypeOK'
  <2>1. charge' \subseteq [id : DOMAIN pledges', by : KeyHolders \cup {Nobody}]
        /\ Cardinality(charge') <= 1
    BY SignRest, FS_EmptySet
  <2>2. DOMAIN timers' \subseteq DOMAIN pledges' /\ \A id \in DOMAIN timers' : timers'[id] \in Ages
    BY <1>5, SignRest DEF PledgesTypeOK
  <2>. QED  BY <1>1, <1>5, <1>7, <2>1, <2>2, SignRest, SameIndex DEF PledgesTypeOK, PledgeRow
<1>9. Indexed'
  BY <1>1, <1>5, <1>7, SameIndex
<1>. QED  BY <1>3, <1>5, <1>6, <1>8, <1>9

(* A charge takes what the next cycle was signed for, and starts it.       *)
LEMMA ChargeStep ==
  ASSUME PledgesTypeOK, Indexed, NEW by, NEW c, NEW pending, Charges(by, c, pending)
  PROVE  /\ DOMAIN pledges' = DOMAIN pledges
         /\ \A id \in DOMAIN pledges :
              /\ pledges'[id].from = pledges[id].from /\ pledges'[id].to = pledges[id].to
              /\ pledges'[id].next_qty = pledges[id].next_qty
              /\ pledges'[id].autorenew = pledges[id].autorenew
              /\ id # c => pledges'[id] = pledges[id]
         /\ pledges'[c].age = 0 /\ pledges'[c].paid /\ pledges'[c].qty = pledges[c].next_qty
         /\ DOMAIN last' = DOMAIN last \cup {<<pledges[c].from, pledges[c].to>>}
         /\ last'[<<pledges[c].from, pledges[c].to>>] =
               [age |-> 0, qty |-> pledges[c].next_qty, delete |-> pledges[c].next_delete]
         /\ \A p \in DOMAIN last : p # <<pledges[c].from, pledges[c].to>> => last'[p] = last[p]
         /\ Pays(accounts, accounts', pledges[c].from, pledges[c].next_qty)
         /\ PledgesTypeOK' /\ Indexed'
<1>. DEFINE p == pledges[c]
            q == p.next_qty
            pair == <<p.from, p.to>>
            paid == [age |-> 0, qty |-> q, delete |-> p.next_delete]
<1>0. /\ c \in DOMAIN pledges /\ by \in KeyHolders \cup {Nobody}
      /\ pending \in {timers, Without(timers, c)}
      /\ TokenTypeOK /\ IsTable(accounts)
  BY DEF Charges, PledgesTypeOK, TokenTypeOK, IsTable
<1>1. p \in PledgeRow /\ q \in Nat
  BY <1>0 DEF PledgesTypeOK, PledgeRow
<1>2. Pays(accounts, accounts', p.from, q)
  <2>1. payChecks(p, q) /\ accounts' = afterPayment(p, q)
    BY DEF Charges, renew, renewChecks
  <2>. QED  BY <1>0, <1>1, <2>1, PaymentEffect DEF PledgeRow
<1>3. /\ pledges' = [pledges EXCEPT ![c].age = 0, ![c].paid = TRUE,
                                    ![c].qty = p.next_qty, ![c].usd = p.next_usd]
      /\ UNCHANGED <<users, stat, chain, granted, relFrom, relTo, paused, signed>>
      /\ timers' = IF p.autorenew THEN With(pending, c, Cycle + 1) ELSE pending
      /\ charge' = {[id |-> c, by |-> by]}
  BY DEF Charges, renew, schedule_renewpledge
<1>4. last' = With(last, pair, paid)
  <2>1. last' = With(last, pair, [age |-> 0, qty |-> accounts[p.from] - accounts'[p.from],
                                  delete |-> p.next_delete])
    BY DEF Charges, renew
  <2>2. accounts[p.from] - accounts'[p.from] = q
    BY <1>0, <1>1, <1>2 DEF Pays, IsTable
  <2>. QED  BY <2>1, <2>2
<1>5. /\ DOMAIN last' = DOMAIN last \cup {pair} /\ last'[pair] = paid
      /\ \A r \in DOMAIN last : r # pair => last'[r] = last[r]
  BY <1>4 DEF With
<1>6. /\ DOMAIN pledges' = DOMAIN pledges
      /\ \A id \in DOMAIN pledges : id # c => pledges'[id] = pledges[id]
      /\ pledges'[c] = [p EXCEPT !.age = 0, !.paid = TRUE,
                                 !.qty = p.next_qty, !.usd = p.next_usd]
  BY <1>0, <1>3
<1>7. /\ pledges'[c] \in PledgeRow
      /\ pledges'[c].from = p.from /\ pledges'[c].to = p.to
      /\ pledges'[c].next_qty = p.next_qty /\ pledges'[c].autorenew = p.autorenew
      /\ pledges'[c].age = 0 /\ pledges'[c].paid /\ pledges'[c].qty = q
  <2>0. 0 \in Ages
    BY PledgesAssumption DEF Ages
  <2>. DEFINE n == [p EXCEPT !.age = 0, !.paid = TRUE, !.qty = p.next_qty, !.usd = p.next_usd]
  <2>1. n \in PledgeRow
    BY <1>1, <2>0 DEF PledgeRow
  <2>2. /\ n.from = p.from /\ n.to = p.to
        /\ n.next_qty = p.next_qty /\ n.autorenew = p.autorenew
        /\ n.age = 0 /\ n.paid = TRUE /\ n.qty = q
    BY <1>1 DEF PledgeRow
  <2>. HIDE DEF n, p, q
  <2>3. pledges'[c] = n
    BY <1>6 DEF n
  <2>. QED  BY <2>1, <2>2, <2>3
<1>8. \A id \in DOMAIN pledges : /\ pledges'[id] \in PledgeRow
                                 /\ pledges'[id].from = pledges[id].from
                                 /\ pledges'[id].to = pledges[id].to
                                 /\ pledges'[id].next_qty = pledges[id].next_qty
                                 /\ pledges'[id].autorenew = pledges[id].autorenew
  BY <1>6, <1>7 DEF PledgesTypeOK, PledgeRow
<1>9. PledgesTypeOK'
  <2>1. TokenTypeOK'
    BY <1>0, <1>2, <1>3 DEF Pays, IsTable, TokenTypeOK
  <2>2. DOMAIN timers' \subseteq DOMAIN pledges' /\ \A id \in DOMAIN timers' : timers'[id] \in Ages
    <3>1. DOMAIN pending \subseteq DOMAIN pledges /\ \A id \in DOMAIN pending : pending[id] \in Ages
      BY <1>0 DEF PledgesTypeOK, Without
    <3>2. Cycle + 1 \in Ages
      BY PledgesAssumption DEF Ages
    <3>. QED  BY <1>0, <1>3, <1>6, <3>1, <3>2 DEF With
  <2>3. /\ charge' \subseteq [id : DOMAIN pledges', by : KeyHolders \cup {Nobody}]
        /\ Cardinality(charge') <= 1
    <3>1. Cardinality({[id |-> c, by |-> by]}) = 1
      BY FS_Singleton
    <3>. QED  BY <1>0, <1>3, <1>6, <3>1
  <2>4. DOMAIN last' \subseteq Pairs
        /\ \A r \in DOMAIN last' : last'[r] \in [age : Ages, qty : Nat, delete : BOOLEAN]
    <3>1. pair \in Pairs /\ paid \in [age : Ages, qty : Nat, delete : BOOLEAN]
      BY <1>1, TokenAssumption, PledgesAssumption DEF Pairs, Ages, PledgeRow
    <3>. HIDE DEF pair, paid
    <3>. QED  BY <1>5, <3>1 DEF PledgesTypeOK
  <2>5. paused' \in BOOLEAN /\ DOMAIN signed' \subseteq Pairs
        /\ \A r \in DOMAIN signed' : signed'[r] \in Terms
    BY <1>3 DEF PledgesTypeOK
  <2>. QED  BY <1>3, <1>6, <1>8, <2>1, <2>2, <2>3, <2>4, <2>5, SameIndex
            DEF PledgesTypeOK, PledgeRow
<1>10. Indexed'
  BY <1>3, <1>6, <1>8, SameIndex
<1>. QED  BY <1>2, <1>5, <1>6, <1>7, <1>8, <1>9, <1>10

LEMMA OlderType ==
  ASSUME NEW age \in Ages
  PROVE  Older(age) \in Ages
BY PledgesAssumption DEF Ages, Older

(* Time moves the cycles of the pledges and of the last charges alike.     *)
LEMMA TickStep ==
  ASSUME PledgesTypeOK, Indexed, Tick
  PROVE  /\ DOMAIN pledges' = DOMAIN pledges
         /\ \A id \in DOMAIN pledges :
              /\ pledges'[id].from = pledges[id].from /\ pledges'[id].to = pledges[id].to
              /\ pledges'[id].next_qty = pledges[id].next_qty
              /\ pledges'[id].autorenew = pledges[id].autorenew
              /\ pledges'[id].paid = pledges[id].paid /\ pledges'[id].qty = pledges[id].qty
              /\ pledges'[id].age = Older(pledges[id].age)
         /\ DOMAIN last' = DOMAIN last
         /\ \A r \in DOMAIN last : /\ last'[r].age = Older(last[r].age)
                                   /\ last'[r].qty = last[r].qty
         /\ signed' = signed /\ charge' = {}
         /\ PledgesTypeOK' /\ Indexed'
<1>1. /\ pledges' = [id \in DOMAIN pledges |-> [pledges[id] EXCEPT !.age = Older(@)]]
      /\ timers' = [id \in DOMAIN timers |-> IF timers[id] > 0 THEN timers[id] - 1 ELSE 0]
      /\ last' = [r \in DOMAIN last |-> [last[r] EXCEPT !.age = Older(@)]]
      /\ charge' = {} /\ UNCHANGED <<tokenVars, relFrom, relTo, paused, signed>>
  BY DEF Tick
<1>2. /\ DOMAIN pledges' = DOMAIN pledges
      /\ \A id \in DOMAIN pledges :
           /\ pledges'[id] \in PledgeRow
           /\ pledges'[id].from = pledges[id].from /\ pledges'[id].to = pledges[id].to
           /\ pledges'[id].next_qty = pledges[id].next_qty
           /\ pledges'[id].autorenew = pledges[id].autorenew
           /\ pledges'[id].paid = pledges[id].paid /\ pledges'[id].qty = pledges[id].qty
           /\ pledges'[id].age = Older(pledges[id].age)
  <2>1. \A id \in DOMAIN pledges : pledges[id] \in PledgeRow
    BY DEF PledgesTypeOK, PledgeRow
  <2>2. \A id \in DOMAIN pledges : Older(pledges[id].age) \in Ages
    BY <2>1, OlderType DEF PledgeRow
  <2>. QED  BY <1>1, <2>1, <2>2 DEF PledgeRow
<1>3. /\ DOMAIN last' = DOMAIN last
      /\ \A r \in DOMAIN last : /\ last'[r] \in [age : Ages, qty : Nat, delete : BOOLEAN]
                                /\ last'[r].age = Older(last[r].age)
                                /\ last'[r].qty = last[r].qty
  <2>1. \A r \in DOMAIN last : last[r] \in [age : Ages, qty : Nat, delete : BOOLEAN]
    BY DEF PledgesTypeOK
  <2>2. \A r \in DOMAIN last : Older(last[r].age) \in Ages
    BY <2>1, OlderType
  <2>. QED  BY <1>1, <2>1, <2>2
<1>4. TokenTypeOK'
  BY <1>1 DEF PledgesTypeOK, TokenTypeOK, tokenVars
<1>5. DOMAIN timers' = DOMAIN timers /\ \A id \in DOMAIN timers' : timers'[id] \in Ages
  BY <1>1, PledgesAssumption DEF PledgesTypeOK, Ages
<1>6. PledgesTypeOK'
  <2>1. charge' \subseteq [id : DOMAIN pledges', by : KeyHolders \cup {Nobody}]
        /\ Cardinality(charge') <= 1
    BY <1>1, FS_EmptySet
  <2>2. /\ paused' \in BOOLEAN /\ DOMAIN signed' \subseteq Pairs
        /\ \A r \in DOMAIN signed' : signed'[r] \in Terms
        /\ DOMAIN last' \subseteq Pairs /\ DOMAIN timers' \subseteq DOMAIN pledges'
    BY <1>1, <1>2, <1>3, <1>5 DEF PledgesTypeOK
  <2>. QED  BY <1>1, <1>2, <1>3, <1>4, <1>5, <2>1, <2>2, SameIndex DEF PledgesTypeOK, PledgeRow
<1>7. Indexed'
  BY <1>1, <1>2, SameIndex
<1>. QED  BY <1>1, <1>2, <1>3, <1>6, <1>7

LEMMA IdleStep ==
  ASSUME PledgesTypeOK, Indexed, Idles
  PROVE  PledgesTypeOK' /\ Indexed'
<1>1. TokenTypeOK'
  BY TypeStep DEF PledgesTypeOK, Idles
<1>2. UNCHANGED <<pledges, relFrom, relTo, signed, last>>
  BY DEF Idles
<1>3. DOMAIN timers' \subseteq DOMAIN pledges' /\ \A id \in DOMAIN timers' : timers'[id] \in Ages
  BY DEF Idles, PledgesTypeOK, Without
<1>4. paused' \in BOOLEAN /\ charge' \subseteq [id : DOMAIN pledges', by : KeyHolders \cup {Nobody}]
      /\ Cardinality(charge') <= 1
  <2>1. paused' \in BOOLEAN
    BY DEF Idles, PledgesTypeOK
  <2>2. Cardinality({}) <= 1
    BY FS_EmptySet
  <2>3. charge' \in {{}, charge} /\ DOMAIN pledges' = DOMAIN pledges
    BY <1>2 DEF Idles, vars
  <2>. QED  BY <2>1, <2>2, <2>3 DEF PledgesTypeOK
<1>5. PledgesTypeOK'
  BY <1>1, <1>2, <1>3, <1>4 DEF PledgesTypeOK
<1>6. Indexed'
  BY <1>2 DEF Indexed, Between
<1>. QED  BY <1>5, <1>6

LEMMA IndexedInit == PledgesInit => PledgesTypeOK /\ Indexed
<1>. SUFFICES ASSUME PledgesInit PROVE PledgesTypeOK /\ Indexed
  OBVIOUS
<1>1. TokenTypeOK
  BY TypeInit DEF PledgesInit
<1>2. Cardinality({}) = 0 /\ IsFiniteSet({}) /\ {} = 0..(0 - 1)
  BY FS_EmptySet
<1>3. DOMAIN pledges = {} /\ charge = {}
  BY DEF PledgesInit
<1>4. PledgesTypeOK
  <2>1. DOMAIN pledges = 0..(Cardinality(DOMAIN pledges) - 1) /\ Cardinality(charge) <= 1
    BY <1>2, <1>3
  <2>2. {relFrom, relTo} \subseteq
          [VAccounts -> SUBSET [name : VAccounts, pledge_id : DOMAIN pledges]]
    BY DEF PledgesInit
  <2>3. DOMAIN timers = {} /\ DOMAIN signed = {} /\ DOMAIN last = {} /\ paused \in BOOLEAN
    BY DEF PledgesInit
  <2>. QED  BY <1>1, <1>3, <2>1, <2>2, <2>3 DEF PledgesTypeOK
<1>5. Indexed
  BY <1>2, <1>3 DEF PledgesInit, Indexed, Between
<1>. QED  BY <1>4, <1>5

LEMMA IndexedStep == PledgesTypeOK /\ Indexed /\ [PledgesNext]_vars => PledgesTypeOK' /\ Indexed'
<1>. SUFFICES ASSUME PledgesTypeOK, Indexed, [PledgesNext]_vars PROVE PledgesTypeOK' /\ Indexed'
  OBVIOUS
<1>1. ASSUME NEW v, NEW to, NEW terms, Signs(v, to, terms) PROVE PledgesTypeOK' /\ Indexed'
  BY <1>1, CreateStep, UpdateStep
<1>2. ASSUME NEW by, NEW id, NEW pending, Charges(by, id, pending) PROVE PledgesTypeOK' /\ Indexed'
  BY <1>2, ChargeStep
<1>3. CASE Tick
  BY <1>3, TickStep
<1>4. CASE Idles
  BY <1>4, IdleStep
<1>. QED  BY <1>1, <1>2, <1>3, <1>4, PledgeKinds

(***************************************************************************)
(* The tables of the subscriptions keep their shape, for any number of     *)
(* pledges; what is owed is always something, and no balance goes below    *)
(* zero for it.                                                            *)
(***************************************************************************)
THEOREM PledgesTypeCorrect == PledgesSpec => []PledgesTypeOK
BY IndexedInit, IndexedStep, PTL DEF PledgesSpec

(***************************************************************************)
(* The two relation tables are the index of the pledges in both directions *)
(* and nobody has two pledges to one creator.                              *)
(***************************************************************************)
THEOREM RelationsCorrect == PledgesSpec => []RelationsMirrorPledges
<1>1. PledgesTypeOK /\ Indexed => RelationsMirrorPledges
  <2>. SUFFICES ASSUME PledgesTypeOK, Indexed, NEW from \in VAccounts, NEW to \in VAccounts
                PROVE  LET ids == {id \in DOMAIN pledges : pledges[id].from = from /\ pledges[id].to = to}
                           pointsTo(rel, name) == {r.pledge_id : r \in PairsFor(rel, name)}
                       IN  /\ Cardinality(ids) <= 1
                           /\ pointsTo(relFrom[from], to) = ids
                           /\ pointsTo(relTo[to], from) = ids
    BY DEF RelationsMirrorPledges
  <2>. DEFINE ids == {id \in DOMAIN pledges : pledges[id].from = from /\ pledges[id].to = to}
              pointsTo(rel, name) == {r.pledge_id : r \in PairsFor(rel, name)}
  <2>1. Cardinality(ids) <= 1
    <3>1. CASE ids = {}
      BY <3>1, FS_EmptySet
    <3>2. CASE ids # {}
      <4>1. PICK i \in ids : TRUE
        BY <3>2
      <4>2. ids = {i}
        BY <4>1 DEF Indexed
      <4>3. Cardinality({i}) = 1
        BY FS_Singleton, Zenon
      <4>. HIDE DEF ids
      <4>. QED  BY <4>2, <4>3
    <3>. QED  BY <3>1, <3>2
  <2>2. ASSUME NEW rel \in SUBSET [name : VAccounts, pledge_id : DOMAIN pledges],
               NEW name \in VAccounts,
               \A id \in Nat : [name |-> name, pledge_id |-> id] \in rel <=> Between(id, from, to)
        PROVE  pointsTo(rel, name) = ids
    <3>0. DOMAIN pledges \subseteq Nat
      BY NextId
    <3>1. \A r \in PairsFor(rel, name) : r.pledge_id \in ids
      <4>1. \A r \in rel : r.name = name => r = [name |-> name, pledge_id |-> r.pledge_id]
                                              /\ r.pledge_id \in Nat
        BY <3>0
      <4>. QED  BY <2>2, <4>1 DEF PairsFor, Between
    <3>2. \A id \in ids : [name |-> name, pledge_id |-> id] \in PairsFor(rel, name)
      BY <2>2, <3>0 DEF PairsFor, Between
    <3>3. pointsTo(rel, name) \subseteq ids
      BY <3>1
    <3>4. ids \subseteq pointsTo(rel, name)
      <4>1. ASSUME NEW id \in ids PROVE id \in pointsTo(rel, name)
        <5>1. [name |-> name, pledge_id |-> id] \in PairsFor(rel, name)
          BY <3>2
        <5>2. [name |-> name, pledge_id |-> id].pledge_id = id
          OBVIOUS
        <5>. QED  BY <5>1, <5>2, Zenon
      <4>. QED  BY <4>1
    <3>. QED  BY <3>3, <3>4
  <2>3. pointsTo(relFrom[from], to) = ids
    BY <2>2 DEF Indexed, PledgesTypeOK
  <2>4. pointsTo(relTo[to], from) = ids
    BY <2>2 DEF Indexed, PledgesTypeOK
  <2>. QED  BY <2>1, <2>3, <2>4
<1>. QED  BY <1>1, IndexedInit, IndexedStep, PTL DEF PledgesSpec

-----------------------------------------------------------------------------
(* Charges. *)

PairOf(pl, id) == <<pl[id].from, pl[id].to>>

(* The terms of the next cycle are the ones signed last. *)
KnowsTerms ==
  \A id \in DOMAIN pledges :
    /\ PairOf(pledges, id) \in DOMAIN signed
    /\ signed[PairOf(pledges, id)].qty = pledges[id].next_qty
    /\ signed[PairOf(pledges, id)].autorenew = pledges[id].autorenew

(* Who was charged has a pledge that shows it, with the age and the amount *)
(* of the charge, and no other pledge shows one.                           *)
KnowsCharges ==
  /\ \A id \in DOMAIN pledges :
       /\ pledges[id].paid <=> PairOf(pledges, id) \in DOMAIN last
       /\ pledges[id].paid => /\ last[PairOf(pledges, id)].age = pledges[id].age
                              /\ last[PairOf(pledges, id)].qty = pledges[id].qty
  /\ \A r \in DOMAIN last : \E id \in DOMAIN pledges : r = PairOf(pledges, id)

IInv == PledgesTypeOK /\ Indexed /\ KnowsTerms /\ KnowsCharges

LEMMA InitInv == PledgesInit => IInv
BY IndexedInit DEF PledgesInit, IInv, KnowsTerms, KnowsCharges

LEMMA TermsStep == IInv /\ [PledgesNext]_vars => KnowsTerms'
<1>. SUFFICES ASSUME IInv, [PledgesNext]_vars PROVE KnowsTerms'
  OBVIOUS
<1>0. PledgesTypeOK /\ Indexed /\ KnowsTerms
  BY DEF IInv
<1>1. ASSUME NEW v, NEW to, NEW terms, Signs(v, to, terms) PROVE KnowsTerms'
  <2>0. signed' = With(signed, <<v, to>>, terms)
    BY <1>1 DEF Signs, pledge
  <2>1. CASE pledged(v, to)
    <3>1. ASSUME NEW id \in DOMAIN pledges
          PROVE  /\ PairOf(pledges', id) \in DOMAIN signed'
                 /\ signed'[PairOf(pledges', id)].qty = pledges'[id].next_qty
                 /\ signed'[PairOf(pledges', id)].autorenew = pledges'[id].autorenew
      <4>1. PairOf(pledges', id) = PairOf(pledges, id)
        BY <1>0, <1>1, <2>1, UpdateStep DEF PairOf
      <4>2. CASE Between(id, v, to)
        <5>1. PairOf(pledges, id) = <<v, to>>
          BY <4>2 DEF PairOf, Between
        <5>2. pledges'[id].next_qty = terms.qty /\ pledges'[id].autorenew = terms.autorenew
          BY <1>0, <1>1, <2>1, <4>2, UpdateStep
        <5>. QED  BY <2>0, <4>1, <5>1, <5>2 DEF With
      <4>3. CASE ~ Between(id, v, to)
        <5>1. PairOf(pledges, id) # <<v, to>>
          BY <4>3 DEF PairOf, Between
        <5>2. pledges'[id] = pledges[id]
          BY <1>0, <1>1, <2>1, <4>3, UpdateStep
        <5>. QED  BY <1>0, <2>0, <4>1, <5>1, <5>2 DEF With, KnowsTerms
      <4>. QED  BY <4>2, <4>3
    <3>. QED  BY <1>0, <1>1, <2>1, <3>1, UpdateStep DEF KnowsTerms
  <2>2. CASE ~ pledged(v, to)
    <3>. DEFINE n == Cardinality(DOMAIN pledges)
    <3>1. /\ DOMAIN pledges' = DOMAIN pledges \cup {n}
          /\ \A id \in DOMAIN pledges : pledges'[id] = pledges[id]
          /\ pledges'[n].from = v /\ pledges'[n].to = to
          /\ pledges'[n].next_qty = terms.qty /\ pledges'[n].autorenew = terms.autorenew
          /\ \A id : ~ Between(id, v, to)
      <4>1. pledges'[n] = [from |-> v, to |-> to, qty |-> terms.qty, usd |-> terms.qty,
                           next_qty |-> terms.qty, next_usd |-> terms.qty,
                           autorenew |-> terms.autorenew, next_delete |-> FALSE,
                           paid |-> FALSE, age |-> 0]
        BY <1>0, <1>1, <2>2, CreateStep
      <4>2. /\ DOMAIN pledges' = DOMAIN pledges \cup {n}
            /\ \A id \in DOMAIN pledges : pledges'[id] = pledges[id]
            /\ \A id : ~ Between(id, v, to)
        BY <1>0, <1>1, <2>2, CreateStep
      <4>. HIDE DEF n
      <4>. QED  BY <4>1, <4>2
    <3>. HIDE DEF n
    <3>2. ASSUME NEW id \in DOMAIN pledges
          PROVE  /\ PairOf(pledges', id) \in DOMAIN signed'
                 /\ signed'[PairOf(pledges', id)].qty = pledges'[id].next_qty
                 /\ signed'[PairOf(pledges', id)].autorenew = pledges'[id].autorenew
      <4>1. PairOf(pledges', id) = PairOf(pledges, id) /\ PairOf(pledges, id) # <<v, to>>
        BY <3>1 DEF PairOf, Between
      <4>. QED  BY <1>0, <2>0, <3>1, <4>1 DEF With, KnowsTerms
    <3>3. /\ PairOf(pledges', n) \in DOMAIN signed'
          /\ signed'[PairOf(pledges', n)].qty = pledges'[n].next_qty
          /\ signed'[PairOf(pledges', n)].autorenew = pledges'[n].autorenew
      BY <2>0, <3>1 DEF With, PairOf
    <3>. QED  BY <3>1, <3>2, <3>3 DEF KnowsTerms
  <2>. QED  BY <2>1, <2>2
<1>2. ASSUME NEW by, NEW c, NEW pending, Charges(by, c, pending) PROVE KnowsTerms'
  <2>1. signed' = signed
    BY <1>2 DEF Charges, renew
  <2>2. /\ DOMAIN pledges' = DOMAIN pledges
        /\ \A id \in DOMAIN pledges :
             /\ pledges'[id].from = pledges[id].from /\ pledges'[id].to = pledges[id].to
             /\ pledges'[id].next_qty = pledges[id].next_qty
             /\ pledges'[id].autorenew = pledges[id].autorenew
    BY <1>0, <1>2, ChargeStep
  <2>. QED  BY <1>0, <2>1, <2>2 DEF KnowsTerms, PairOf
<1>3. CASE Tick
  <2>1. signed' = signed
    BY <1>3 DEF Tick
  <2>2. /\ DOMAIN pledges' = DOMAIN pledges
        /\ \A id \in DOMAIN pledges :
             /\ pledges'[id].from = pledges[id].from /\ pledges'[id].to = pledges[id].to
             /\ pledges'[id].next_qty = pledges[id].next_qty
             /\ pledges'[id].autorenew = pledges[id].autorenew
    BY <1>0, <1>3, TickStep
  <2>. QED  BY <1>0, <2>1, <2>2 DEF KnowsTerms, PairOf
<1>4. CASE Idles
  BY <1>0, <1>4 DEF Idles, KnowsTerms
<1>. QED  BY <1>0, <1>1, <1>2, <1>3, <1>4, PledgeKinds

LEMMA KnowsChargesStep == IInv /\ [PledgesNext]_vars => KnowsCharges'
<1>. SUFFICES ASSUME IInv, [PledgesNext]_vars PROVE KnowsCharges'
  OBVIOUS
<1>0. PledgesTypeOK /\ Indexed /\ KnowsCharges
  BY DEF IInv
(* A step that keeps the pledges and only moves ages, both alike. *)
<1>s. ASSUME DOMAIN pledges' = DOMAIN pledges, DOMAIN last' = DOMAIN last,
             \A id \in DOMAIN pledges :
               /\ pledges'[id].from = pledges[id].from /\ pledges'[id].to = pledges[id].to
               /\ pledges'[id].paid = pledges[id].paid /\ pledges'[id].qty = pledges[id].qty,
             \A r \in DOMAIN last : last'[r].qty = last[r].qty,
             \A id \in DOMAIN pledges, r \in DOMAIN last :
               last[r].age = pledges[id].age => last'[r].age = pledges'[id].age
      PROVE  KnowsCharges'
  <2>1. \A id \in DOMAIN pledges : PairOf(pledges', id) = PairOf(pledges, id)
    BY <1>s DEF PairOf
  <2>2. ASSUME NEW id \in DOMAIN pledges
        PROVE  /\ pledges'[id].paid <=> PairOf(pledges', id) \in DOMAIN last'
               /\ pledges'[id].paid => /\ last'[PairOf(pledges', id)].age = pledges'[id].age
                                       /\ last'[PairOf(pledges', id)].qty = pledges'[id].qty
    BY <1>0, <1>s, <2>1 DEF KnowsCharges
  <2>3. \A r \in DOMAIN last' : \E id \in DOMAIN pledges' : r = PairOf(pledges', id)
    BY <1>0, <1>s, <2>1 DEF KnowsCharges
  <2>. QED  BY <1>s, <2>2, <2>3 DEF KnowsCharges
<1>1. ASSUME NEW v, NEW to, NEW terms, Signs(v, to, terms) PROVE KnowsCharges'
  <2>0. /\ DOMAIN last' = DOMAIN last
        /\ \A r \in DOMAIN last : last'[r].age = last[r].age /\ last'[r].qty = last[r].qty
    BY <1>0, <1>1, SignRest
  <2>1. CASE pledged(v, to)
    <3>1. /\ DOMAIN pledges' = DOMAIN pledges
          /\ \A id \in DOMAIN pledges :
               /\ pledges'[id].from = pledges[id].from /\ pledges'[id].to = pledges[id].to
               /\ pledges'[id].paid = pledges[id].paid /\ pledges'[id].qty = pledges[id].qty
               /\ pledges'[id].age = pledges[id].age
      BY <1>0, <1>1, <2>1, UpdateStep
    <3>. QED  BY <1>s, <2>0, <3>1
  <2>2. CASE ~ pledged(v, to)
    <3>. DEFINE n == Cardinality(DOMAIN pledges)
    <3>1. /\ DOMAIN pledges' = DOMAIN pledges \cup {n}
          /\ \A id \in DOMAIN pledges : pledges'[id] = pledges[id]
          /\ \A id : ~ Between(id, v, to)
          /\ pledges'[n] = [from |-> v, to |-> to, qty |-> terms.qty, usd |-> terms.qty,
                            next_qty |-> terms.qty, next_usd |-> terms.qty,
                            autorenew |-> terms.autorenew, next_delete |-> FALSE,
                            paid |-> FALSE, age |-> 0]
      BY <1>0, <1>1, <2>2, CreateStep
    <3>. HIDE DEF n
    <3>2. PairOf(pledges', n) = <<v, to>> /\ ~ pledges'[n].paid
      BY <3>1 DEF PairOf
    <3>3. <<v, to>> \notin DOMAIN last
      <4>1. ASSUME NEW id \in DOMAIN pledges, PairOf(pledges, id) = <<v, to>> PROVE FALSE
        BY <3>1, <4>1 DEF PairOf, Between
      <4>. QED  BY <1>0, <4>1 DEF KnowsCharges
    <3>4. \A id \in DOMAIN pledges : PairOf(pledges', id) = PairOf(pledges, id)
      BY <3>1 DEF PairOf
    <3>5. ASSUME NEW id \in DOMAIN pledges'
          PROVE  /\ pledges'[id].paid <=> PairOf(pledges', id) \in DOMAIN last'
                 /\ pledges'[id].paid => /\ last'[PairOf(pledges', id)].age = pledges'[id].age
                                         /\ last'[PairOf(pledges', id)].qty = pledges'[id].qty
      <4>1. CASE id = n
        BY <2>0, <3>2, <3>3, <4>1
      <4>2. CASE id \in DOMAIN pledges
        BY <1>0, <2>0, <3>1, <3>4, <4>2 DEF KnowsCharges
      <4>. QED  BY <3>1, <4>1, <4>2
    <3>6. \A r \in DOMAIN last' : \E id \in DOMAIN pledges' : r = PairOf(pledges', id)
      BY <1>0, <2>0, <3>1, <3>4 DEF KnowsCharges
    <3>. QED  BY <3>5, <3>6 DEF KnowsCharges
  <2>. QED  BY <2>1, <2>2
<1>2. ASSUME NEW by, NEW c, NEW pending, Charges(by, c, pending) PROVE KnowsCharges'
  <2>. DEFINE pair == PairOf(pledges, c)
  <2>0. c \in DOMAIN pledges
    BY <1>2 DEF Charges
  <2>1. /\ DOMAIN pledges' = DOMAIN pledges
        /\ \A id \in DOMAIN pledges : id # c => pledges'[id] = pledges[id]
    BY <1>2 DEF Charges, renew
  <2>p. pledges'[c].age = 0 /\ pledges'[c].paid /\ pledges'[c].qty = pledges[c].next_qty
    BY <1>0, <1>2, ChargeStep
  <2>2. /\ DOMAIN last' = DOMAIN last \cup {pair}
        /\ last'[pair].age = 0 /\ last'[pair].qty = pledges[c].next_qty
        /\ \A r \in DOMAIN last : r # pair => last'[r] = last[r]
    <3>1. last'[pair] = [age |-> 0, qty |-> pledges[c].next_qty, delete |-> pledges[c].next_delete]
      BY <1>0, <1>2, ChargeStep DEF PairOf
    <3>2. last' = With(last, pair, last'[pair])
      BY <1>2 DEF Charges, renew, With, PairOf
    <3>. HIDE DEF pair
    <3>3. /\ DOMAIN last' = DOMAIN last \cup {pair}
          /\ \A r \in DOMAIN last : r # pair => last'[r] = last[r]
      BY <3>2 DEF With
    <3>. QED  BY <3>1, <3>3
  <2>3. \A id \in DOMAIN pledges : PairOf(pledges', id) = PairOf(pledges, id)
    <3>1. \A id \in DOMAIN pledges : /\ pledges'[id].from = pledges[id].from
                                     /\ pledges'[id].to = pledges[id].to
      BY <1>0, <1>2, ChargeStep
    <3>. QED  BY <3>1 DEF PairOf
  <2>4. \A id \in DOMAIN pledges : id # c => PairOf(pledges, id) # pair
    BY <1>0, <2>0 DEF PairOf, Indexed
  <2>. HIDE DEF pair
  <2>5. ASSUME NEW id \in DOMAIN pledges
        PROVE  /\ pledges'[id].paid <=> PairOf(pledges', id) \in DOMAIN last'
               /\ pledges'[id].paid => /\ last'[PairOf(pledges', id)].age = pledges'[id].age
                                       /\ last'[PairOf(pledges', id)].qty = pledges'[id].qty
    <3>1. CASE id = c
      BY <2>0, <2>p, <2>2, <2>3, <3>1 DEF pair
    <3>2. CASE id # c
      <4>1. PairOf(pledges', id) = PairOf(pledges, id) /\ PairOf(pledges, id) # pair
        BY <2>3, <2>4, <3>2
      <4>2. pledges'[id] = pledges[id]
        BY <2>1, <3>2
      <4>3. /\ pledges[id].paid <=> PairOf(pledges, id) \in DOMAIN last
            /\ pledges[id].paid => /\ last[PairOf(pledges, id)].age = pledges[id].age
                                   /\ last[PairOf(pledges, id)].qty = pledges[id].qty
        BY <1>0 DEF KnowsCharges
      <4>4. /\ PairOf(pledges, id) \in DOMAIN last' <=> PairOf(pledges, id) \in DOMAIN last
            /\ PairOf(pledges, id) \in DOMAIN last =>
                 last'[PairOf(pledges, id)] = last[PairOf(pledges, id)]
        BY <2>2, <4>1
      <4>. QED  BY <4>1, <4>2, <4>3, <4>4
    <3>. QED  BY <3>1, <3>2
  <2>6. \A r \in DOMAIN last' : \E id \in DOMAIN pledges' : r = PairOf(pledges', id)
    <3>1. pair = PairOf(pledges', c)
      BY <2>0, <2>3 DEF pair
    <3>. QED  BY <1>0, <2>0, <2>1, <2>2, <2>3, <3>1 DEF KnowsCharges
  <2>. QED  BY <2>1, <2>5, <2>6 DEF KnowsCharges
<1>3. CASE Tick
  <2>1. /\ DOMAIN pledges' = DOMAIN pledges
        /\ \A id \in DOMAIN pledges :
             /\ pledges'[id].from = pledges[id].from /\ pledges'[id].to = pledges[id].to
             /\ pledges'[id].paid = pledges[id].paid /\ pledges'[id].qty = pledges[id].qty
             /\ pledges'[id].age = Older(pledges[id].age)
        /\ DOMAIN last' = DOMAIN last
        /\ \A r \in DOMAIN last : /\ last'[r].age = Older(last[r].age)
                                  /\ last'[r].qty = last[r].qty
    BY <1>0, <1>3, TickStep
  <2>. QED  BY <1>s, <2>1
<1>4. CASE Idles
  BY <1>0, <1>4 DEF Idles, KnowsCharges
<1>. QED  BY <1>0, <1>1, <1>2, <1>3, <1>4, PledgeKinds

LEMMA InvHolds == PledgesSpec => []IInv
<1>1. IInv /\ [PledgesNext]_vars => IInv'
  BY IndexedStep, TermsStep, KnowsChargesStep DEF IInv
<1>. QED  BY <1>1, InitInv, PTL DEF PledgesSpec

(***************************************************************************)
(* A creator who reads that a cycle is paid has been paid for that cycle,  *)
(* as much as the pledge says, whatever was signed in the meantime.        *)
(***************************************************************************)
THEOREM PaidIsCharged == PledgesSpec => []PaidMeansCharged
<1>1. IInv => PaidMeansCharged
  BY DEF IInv, KnowsCharges, PairOf, PaidMeansCharged
<1>. QED  BY <1>1, InvHolds, PTL

(* What is charged in a step, and under which checks. *)
LEMMA OnlyCharges ==
  ASSUME IInv, [PledgesNext]_vars, ~ UNCHANGED vars, NEW c \in charge'
  PROVE  /\ c.id \in DOMAIN pledges
         /\ Pays(accounts, accounts', pledges[c.id].from, pledges[c.id].next_qty)
         /\ c.by = pledges[c.id].from \/ pledges[c.id].autorenew
         /\ pledges[c.id].paid => pledges[c.id].age > Cycle
<1>0. PledgesTypeOK /\ Indexed
  BY DEF IInv
<1>1. ~ \E v, to, terms : Signs(v, to, terms)
  BY DEF Signs, pledge
<1>2. ~ Tick /\ ~ Idles
  BY DEF Tick, Idles
<1>3. PICK by, id, pending : Charges(by, id, pending)
  BY <1>0, <1>1, <1>2, PledgeKinds
<1>4. c = [id |-> id, by |-> by] /\ id \in DOMAIN pledges
  BY <1>3 DEF Charges, renew
<1>5. /\ by = pledges[id].from \/ pledges[id].autorenew
      /\ pledges[id].paid => pledges[id].age > Cycle
  BY <1>3 DEF Charges, renew, renewChecks
<1>6. Pays(accounts, accounts', pledges[id].from, pledges[id].next_qty)
  BY <1>0, <1>3, ChargeStep
<1>. QED  BY <1>4, <1>5, <1>6

(***************************************************************************)
(* Nobody is charged twice for a cycle, however many renewals are sent by  *)
(* himself, by others and by timers.                                       *)
(***************************************************************************)
THEOREM OnceACycle == PledgesSpec => ChargedOncePerCycle
<1>. DEFINE A == \A c \in charge' :
                   LET pair == <<pledges[c.id].from, pledges[c.id].to>>
                   IN  pair \in DOMAIN last => last[pair].age > Cycle
<1>1. IInv /\ [PledgesNext]_vars => [A]_vars
  <2>. SUFFICES ASSUME IInv, [PledgesNext]_vars, ~ UNCHANGED vars, NEW c \in charge',
                       PairOf(pledges, c.id) \in DOMAIN last
                PROVE  last[PairOf(pledges, c.id)].age > Cycle
    BY DEF PairOf
  <2>1. c.id \in DOMAIN pledges /\ (pledges[c.id].paid => pledges[c.id].age > Cycle)
    BY OnlyCharges
  <2>. QED  BY <2>1 DEF IInv, KnowsCharges
<1>. QED  BY <1>1, InvHolds, PTL DEF PledgesSpec, ChargedOncePerCycle

(***************************************************************************)
(* A charge takes from the patron what he signed last, fees included, and  *)
(* comes with his signature or with his leave.                             *)
(***************************************************************************)
THEOREM AsSigned == PledgesSpec => ChargedAsSigned
<1>. DEFINE A == \A c \in charge' :
                   LET from == pledges[c.id].from
                       terms == signed[<<from, pledges[c.id].to>>]
                   IN  /\ accounts[from] - accounts'[from] = terms.qty
                       /\ c.by = from \/ terms.autorenew
<1>1. IInv /\ [PledgesNext]_vars => [A]_vars
  <2>. SUFFICES ASSUME IInv, [PledgesNext]_vars, ~ UNCHANGED vars, NEW c \in charge'
                PROVE  /\ accounts[pledges[c.id].from] - accounts'[pledges[c.id].from]
                             = signed[PairOf(pledges, c.id)].qty
                       /\ \/ c.by = pledges[c.id].from
                          \/ signed[PairOf(pledges, c.id)].autorenew
    BY DEF PairOf
  <2>1. /\ c.id \in DOMAIN pledges
        /\ Pays(accounts, accounts', pledges[c.id].from, pledges[c.id].next_qty)
        /\ c.by = pledges[c.id].from \/ pledges[c.id].autorenew
    BY OnlyCharges
  <2>2. /\ signed[PairOf(pledges, c.id)].qty = pledges[c.id].next_qty
        /\ signed[PairOf(pledges, c.id)].autorenew = pledges[c.id].autorenew
    BY <2>1 DEF IInv, KnowsTerms
  <2>3. pledges[c.id].next_qty \in Nat /\ accounts[pledges[c.id].from] \in Nat
    BY <2>1 DEF IInv, PledgesTypeOK, TokenTypeOK, Pays
  <2>. QED  BY <2>1, <2>2, <2>3 DEF Pays
<1>. QED  BY <1>1, InvHolds, PTL DEF PledgesSpec, ChargedAsSigned

-----------------------------------------------------------------------------
(* Timers. *)

(* A timer that waits belongs to a cycle that is running. *)
LEMMA WaitingTimer ==
  ASSUME PledgesTypeOK, CallsWhenCycleOver, NEW id \in DOMAIN timers, timers[id] > 0
  PROVE  /\ id \in DOMAIN pledges /\ pledges[id].paid
         /\ pledges[id].age \in Nat /\ pledges[id].age <= Cycle
         /\ timers[id] \in Nat /\ timers[id] + pledges[id].age = Cycle + 1
<1>1. id \in DOMAIN pledges /\ timers[id] \in Ages
  BY DEF PledgesTypeOK
<1>2. pledges[id].age \in Ages
  BY <1>1 DEF PledgesTypeOK
<1>3. pledges[id].paid /\ timers[id] + pledges[id].age = Cycle + 1
  BY DEF CallsWhenCycleOver
<1>. QED  BY <1>1, <1>2, <1>3, PledgesAssumption DEF Ages

LEMMA CallsStep ==
  PledgesTypeOK /\ Indexed /\ CallsWhenCycleOver /\ [PledgesNext]_vars => CallsWhenCycleOver'
<1>. SUFFICES ASSUME PledgesTypeOK, Indexed, CallsWhenCycleOver, [PledgesNext]_vars
              PROVE  CallsWhenCycleOver'
  OBVIOUS
(* Timers that stay, on cycles that stay. *)
<1>s. ASSUME DOMAIN timers' \subseteq DOMAIN timers,
             \A id \in DOMAIN timers' : timers'[id] = timers[id],
             \A id \in DOMAIN pledges : /\ pledges'[id].paid = pledges[id].paid
                                        /\ pledges'[id].age = pledges[id].age
      PROVE  CallsWhenCycleOver'
  <2>. SUFFICES ASSUME NEW id \in DOMAIN timers', timers'[id] > 0
                PROVE  pledges'[id].paid /\ timers'[id] + pledges'[id].age = Cycle + 1
    BY DEF CallsWhenCycleOver
  <2>1. id \in DOMAIN timers /\ timers'[id] = timers[id] /\ timers[id] > 0
    BY <1>s
  <2>2. id \in DOMAIN pledges /\ pledges[id].paid /\ timers[id] + pledges[id].age = Cycle + 1
    BY <2>1, WaitingTimer
  <2>. QED  BY <1>s, <2>1, <2>2
<1>1. ASSUME NEW v, NEW to, NEW terms, Signs(v, to, terms) PROVE CallsWhenCycleOver'
  <2>1. timers' = timers
    BY <1>1 DEF Signs, pledge
  <2>2. \A id \in DOMAIN pledges : /\ pledges'[id].paid = pledges[id].paid
                                   /\ pledges'[id].age = pledges[id].age
    BY <1>1, CreateStep, UpdateStep
  <2>. QED  BY <1>s, <2>1, <2>2
<1>2. ASSUME NEW by, NEW c, NEW pending, Charges(by, c, pending) PROVE CallsWhenCycleOver'
  <2>1. /\ c \in DOMAIN pledges /\ pending \in {timers, Without(timers, c)}
        /\ pledges[c].paid => pledges[c].age > Cycle
        /\ timers' = IF pledges[c].autorenew THEN With(pending, c, Cycle + 1) ELSE pending
    BY <1>2 DEF Charges, renew, renewChecks, schedule_renewpledge
  <2>p. pledges'[c].age = 0 /\ pledges'[c].paid
    BY <1>2, ChargeStep
  <2>2. \A id \in DOMAIN pledges : id # c => pledges'[id] = pledges[id]
    BY <1>2 DEF Charges, renew
  <2>3. ASSUME NEW id \in DOMAIN timers', timers'[id] > 0, id # c
        PROVE  pledges'[id].paid /\ timers'[id] + pledges'[id].age = Cycle + 1
    <3>1. id \in DOMAIN timers /\ timers'[id] = timers[id]
      BY <2>1, <2>3 DEF With, Without
    <3>2. id \in DOMAIN pledges /\ pledges[id].paid /\ timers[id] + pledges[id].age = Cycle + 1
      BY <2>3, <3>1, WaitingTimer
    <3>. QED  BY <2>2, <2>3, <3>1, <3>2
  <2>4. ASSUME c \in DOMAIN timers', timers'[c] > 0
        PROVE  timers'[c] = Cycle + 1
    <3>1. CASE pledges[c].autorenew
      BY <2>1, <3>1 DEF With
    <3>2. CASE ~ pledges[c].autorenew
      <4>1. c \in DOMAIN timers /\ timers[c] > 0
        BY <2>1, <2>4, <3>2 DEF Without
      <4>2. pledges[c].paid /\ pledges[c].age \in Nat /\ pledges[c].age <= Cycle
        BY <4>1, WaitingTimer
      <4>. QED  BY <2>1, <4>2, PledgesAssumption
    <3>. QED  BY <3>1, <3>2
  <2>5. CallsWhenCycleOver'
    <3>. SUFFICES ASSUME NEW id \in DOMAIN timers', timers'[id] > 0
                  PROVE  pledges'[id].paid /\ timers'[id] + pledges'[id].age = Cycle + 1
      BY DEF CallsWhenCycleOver
    <3>1. CASE id = c
      BY <2>p, <2>4, <3>1, PledgesAssumption
    <3>. QED  BY <2>3, <3>1
  <2>. QED  BY <2>5
<1>3. CASE Tick
  <2>. SUFFICES ASSUME NEW id \in DOMAIN timers', timers'[id] > 0
                PROVE  pledges'[id].paid /\ timers'[id] + pledges'[id].age = Cycle + 1
    BY DEF CallsWhenCycleOver
  <2>1. id \in DOMAIN timers /\ timers'[id] = IF timers[id] > 0 THEN timers[id] - 1 ELSE 0
    BY <1>3 DEF Tick
  <2>2. timers[id] > 0 /\ timers'[id] = timers[id] - 1
    BY <2>1
  <2>3. /\ id \in DOMAIN pledges /\ pledges[id].paid
        /\ pledges[id].age \in Nat /\ pledges[id].age <= Cycle
        /\ timers[id] \in Nat /\ timers[id] + pledges[id].age = Cycle + 1
    BY <2>1, <2>2, WaitingTimer
  <2>4. pledges'[id].paid = pledges[id].paid /\ pledges'[id].age = Older(pledges[id].age)
    BY <1>3, <2>3, TickStep
  <2>5. pledges'[id].age = pledges[id].age + 1
    BY <2>3, <2>4 DEF Older
  <2>6. timers'[id] + pledges'[id].age = Cycle + 1
    BY <2>2, <2>3, <2>5, PledgesAssumption
  <2>. QED  BY <2>3, <2>4, <2>6
<1>4. CASE Idles
  <2>1. DOMAIN timers' \subseteq DOMAIN timers /\ \A id \in DOMAIN timers' : timers'[id] = timers[id]
    BY <1>4 DEF Idles, Without
  <2>2. pledges' = pledges
    BY <1>4 DEF Idles
  <2>. QED  BY <1>s, <2>1, <2>2
<1>. QED  BY <1>1, <1>2, <1>3, <1>4, PledgeKinds

(***************************************************************************)
(* A timer that still waits runs out just when the cycle of its pledge is  *)
(* over, for any length of a cycle: a charge finds no such timer, since    *)
(* the cycle would not be over, and sets the timer for the cycle it        *)
(* starts; no later signature, pause or given up call upsets that.         *)
(***************************************************************************)
THEOREM CallsWhenOver == PledgesSpec => []CallsWhenCycleOver
<1>1. PledgesInit => PledgesTypeOK /\ Indexed /\ CallsWhenCycleOver
  BY IndexedInit DEF PledgesInit, CallsWhenCycleOver
<1>. QED  BY <1>1, IndexedStep, CallsStep, PTL DEF PledgesSpec

-----------------------------------------------------------------------------
(* Custody. *)

LEMMA PledgesCustodyStep == IInv /\ [PledgesNext]_vars => [C!Next]_(C!vars)
<1>. SUFFICES ASSUME IInv, [PledgesNext]_vars PROVE [C!Next]_(C!vars)
  OBVIOUS
<1>0. PledgesTypeOK /\ Indexed /\ TokenTypeOK
  BY DEF IInv, PledgesTypeOK
<1>s. ASSUME UNCHANGED tokenVars PROVE [C!Next]_(C!vars)
  BY <1>0, <1>s, StepKinds, CustodyStep
<1>1. ASSUME NEW v, NEW to, NEW terms, Signs(v, to, terms) PROVE [C!Next]_(C!vars)
  BY <1>s, <1>1 DEF Signs, pledge
<1>2. ASSUME NEW by, NEW c, NEW pending, Charges(by, c, pending) PROVE [C!Next]_(C!vars)
  <2>1. Pays(accounts, accounts', pledges[c].from, pledges[c].next_qty)
    BY <1>0, <1>2, ChargeStep
  <2>2. chain[Self]' = chain[Self] /\ granted' = granted
    BY <1>2 DEF Charges, renew
  <2>3. PICK n : n = accounts'
    OBVIOUS
  <2>4. IsTable(n) /\ Total(Customers, Claims(n)) <= Total(Customers, Claims(accounts))
    BY <2>1, <2>3 DEF Pays
  <2>5. Claims(accounts)' = Claims(n)
    BY <2>3 DEF Claims, get_balance
  <2>6. Claims(n) \in [Customers -> Nat]
    BY <2>4, BalancesType
  <2>7. C!Redistribute
    BY <2>2, <2>4, <2>5, <2>6, SameTotal DEF C!Redistribute
  <2>. QED  BY <2>7 DEF C!Next
<1>3. CASE Tick
  BY <1>s, <1>3 DEF Tick
<1>4. CASE Idles
  BY <1>0, <1>4, StepKinds, CustodyStep DEF Idles
<1>. QED  BY <1>0, <1>1, <1>2, <1>3, <1>4, PledgeKinds

(***************************************************************************)
(* With the subscriptions on top the contracts still implement the         *)
(* custodian: a charge moves claims between customers and nothing else,    *)
(* and is never a grant.                                                   *)
(***************************************************************************)
THEOREM PledgesImplementCustodian == PledgesSpec => ImplementsCustody
<1>1. PledgesInit => C!Init
  BY CustodyInit DEF PledgesInit
<1>. QED  BY <1>1, InvHolds, PledgesCustodyStep, PTL DEF PledgesSpec, ImplementsCustody, C!Spec

(* The token's own invariants hold under the subscriptions too: a charge   *)
(* is one more transaction that moves coins between users.                 *)
LEMMA PledgesTokenStep ==
  ASSUME IInv, TokenInv, [PledgesNext]_vars
  PROVE  TokenInv'
<1>0. /\ PledgesTypeOK /\ Indexed /\ TokenTypeOK
      /\ Conservation /\ NoSupplyBeforeCreate /\ BalanceRowPerUser /\ NothingBeforePhoenix
  BY DEF IInv, PledgesTypeOK, TokenInv
<1>s. ASSUME [TokenNext]_tokenVars PROVE TokenInv'
  <2>1. [SomeKind]_tokenVars
    BY <1>0, <1>s, StepKinds
  <2>. QED  BY <1>0, <2>1, ConservationStep, RowsStep DEF TokenInv
<1>1. ASSUME NEW v, NEW to, NEW terms, Signs(v, to, terms) PROVE TokenInv'
  <2>1. UNCHANGED tokenVars
    BY <1>1 DEF Signs, pledge
  <2>. QED  BY <1>s, <2>1
<1>2. ASSUME NEW by, NEW c, NEW pending, Charges(by, c, pending) PROVE TokenInv'
  <2>. DEFINE q == pledges[c].next_qty
              payer == pledges[c].from
  <2>1. UNCHANGED <<stat, users>> /\ c \in DOMAIN pledges
    BY <1>2 DEF Charges, renew
  <2>2. Pays(accounts, accounts', payer, q)
    BY <1>0, <1>2, ChargeStep
  <2>3. q \in Nat \ {0}
    BY <1>0, <2>1 DEF PledgesTypeOK
  <2>. HIDE DEF q, payer
  <2>4. Conservation' /\ NoSupplyBeforeCreate'
    <3>1. Total(VAccounts, Balances(accounts')) = Total(VAccounts, Balances(accounts))
      BY <2>2 DEF Pays
    <3>2. Balances(accounts)' = Balances(accounts')
      BY DEF Balances, get_balance
    <3>. QED  BY <1>0, <2>1, <3>1, <3>2 DEF Conservation, NoSupplyBeforeCreate
  <2>5. BalanceRowPerUser'
    BY <1>0, <2>1, <2>2 DEF Pays, BalanceRowPerUser
  <2>6. accounts[payer] # 0 /\ payer \in DOMAIN accounts
    BY <1>0, <2>2, <2>3 DEF Pays, IsTable, TokenTypeOK
  <2>7. Phoenix \in users
    BY <1>0, <2>6 DEF NothingBeforePhoenix
  <2>8. NothingBeforePhoenix'
    BY <2>1, <2>7 DEF NothingBeforePhoenix
  <2>. QED  BY <2>4, <2>5, <2>8 DEF TokenInv
<1>3. CASE Tick
  BY <1>s, <1>3 DEF Tick
<1>4. CASE Idles
  BY <1>s, <1>4 DEF Idles
<1>. QED  BY <1>0, <1>1, <1>2, <1>3, <1>4, PledgeKinds

LEMMA PledgesTokenInv == PledgesSpec => []TokenInv
<1>1. PledgesInit => TokenInv
  BY TokenInvInit DEF PledgesInit
<1>. QED  BY <1>1, PledgesTokenStep, InvHolds, PTL DEF PledgesSpec

(***************************************************************************)
(* The subscriptions neither make nor destroy virtual coins: the share and *)
(* the fees together are what the patron lost, and the balances add up to  *)
(* the supply.                                                             *)
(***************************************************************************)
THEOREM PledgesConserve == PledgesSpec => []Conservation
BY PledgesTokenInv, PTL DEF TokenInv

(***************************************************************************)
(* Nor does a charge give a balance to anybody who is no user.             *)
(***************************************************************************)
THEOREM PledgesRowPerUser == PledgesSpec => []BalanceRowPerUser
BY PledgesTokenInv, PTL DEF TokenInv

(***************************************************************************)
(* Whatever is charged, every customer can be paid out, but for what the   *)
(* operators moved out of the pool without a deposit: a charge, a renewal  *)
(* or a timer never widens that gap.                                       *)
(***************************************************************************)
THEOREM PledgesSolventButForGrants == PledgesSpec => []Solvent
BY PledgesImplementCustodian, SolventByRefinement, PTL
=============================================================================

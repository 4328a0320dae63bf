------------------------------ MODULE Pledges ------------------------------
(***************************************************************************)
(* The subscriptions of the phoenix contract (pledges.cpp): a patron signs *)
(* a pledge to a creator and is charged for it once per cycle, by his own  *)
(* signed command or, if he agreed to that, by anybody, which in practice  *)
(* is the timer the contract left with the DSP's scheduler.  Charges are   *)
(* transfers of the token contract, in the same transaction.               *)
(*                                                                         *)
(* Time is kept relative: a pledge has the age of its cycle instead of the *)
(* instant the cycle started, a timer the time it has left.  Ages stop     *)
(* counting just past the end of a cycle, where nothing tells them apart.  *)
(***************************************************************************)
EXTENDS ColdToken

CONSTANTS
  Cycle,       \* cycle_us, the same for every pledge
  FeeShare,    \* one coin in so many goes to Fees: 1/FEES_PERCENTAGE
  Terms,       \* what the payloads of pledge may carry, also senseless terms
  Nobody,      \* the caller who shows no virtual account's signature
  MaxPledges   \* BOUND: how many pledges are ever created

ASSUME PledgesAssumption ==
  /\ Cycle \in Nat \ {0}
  /\ FeeShare \in Nat \ {0, 1}
  /\ Terms \subseteq [qty : Int, usd : Nat, autorenew : BOOLEAN, next_delete : BOOLEAN]
  /\ Nobody \notin VAccounts
  /\ MaxPledges \in Nat

VARIABLES
  pledges,   \* the pledges table, a function on the ids given out
  relFrom,   \* for every virtual account the pairs of its row in scope "from"
  relTo,     \* the same in scope "to"
  timers,    \* the timers the scheduler holds: id -> time left
  paused,    \* globals.paused
  (* What happened, for the properties only: no action reads it. *)
  signed,    \* <<from, to>> -> the terms the patron signed last
  last,      \* <<from, to>> -> the age and the amount of his last charge, and
             \* whether the pledge was to be deleted after it
  charge     \* the charge the last step made, if any

pledgeVars == <<pledges, relFrom, relTo, timers, paused>>
observed == <<signed, last>>
vars == <<tokenVars, pledgeVars, observed, charge>>

PledgesInit ==
  /\ TokenInit
  /\ pledges = [id \in {} |-> 0]
  /\ relFrom = [v \in VAccounts |-> {}]
  /\ relTo = [v \in VAccounts |-> {}]
  /\ timers = [id \in {} |-> 0]
  /\ paused = FALSE
  /\ signed = [p \in {} |-> 0]
  /\ last = [p \in {} |-> 0]
  /\ charge = {}

With(f, x, y) == [z \in DOMAIN f \cup {x} |-> IF z = x THEN y ELSE f[z]]
Without(f, x) == [z \in DOMAIN f \ {x} |-> f[z]]

-----------------------------------------------------------------------------
(* Signing a pledge. *)

PairsFor(rel, name) == {r \in rel : r.name = name}

(* The vector is searched from its front, and appended to at its end. *)
pledge_id(rel, name) ==
  (CHOOSE r \in PairsFor(rel, name) :
      \A s \in PairsFor(rel, name) : r.pledge_id <= s.pledge_id).pledge_id

upserted(rel, name, id) ==
  IF PairsFor(rel, name) = {} THEN rel \cup {[name |-> name, pledge_id |-> id]} ELSE rel

(* Wrong: the creator's row is written under the patron's name. *)
upsert_pledge_relations_OneKey(from, to, id) ==
  /\ relFrom' = [relFrom EXCEPT ![from] = upserted(@, to, id)]
  /\ relTo' = [relTo EXCEPT ![from] = upserted(@, from, id)]

upsert_pledge_relations(from, to, id) ==
  /\ relFrom' = [relFrom EXCEPT ![from] = upserted(@, to, id)]
  /\ relTo' = [relTo EXCEPT ![to] = upserted(@, from, id)]

(* A new pledge takes its value in dollars from the quantity, not from the *)
(* payload, and owes its first payment at once.                            *)
create_pledge(from, to, terms) ==
  LET id == Cardinality(DOMAIN pledges)
  IN  /\ id < MaxPledges
      /\ pledges' = With(pledges, id,
           [from |-> from, to |-> to, qty |-> terms.qty, usd |-> terms.qty,
            next_qty |-> terms.qty, next_usd |-> terms.qty,
            autorenew |-> terms.autorenew, next_delete |-> FALSE,
            paid |-> FALSE, age |-> 0])
      /\ upsert_pledge_relations(from, to, id)

(* Wrong: a new quantity is shown at once, in the cycle already paid for. *)
update_pledge_AtOnce(id, terms) ==
  /\ pledges' = [pledges EXCEPT ![id].qty = terms.qty,
                                ![id].next_qty = terms.qty,
                                ![id].next_usd = terms.usd,
                                ![id].autorenew = terms.autorenew,
                                ![id].next_delete = terms.next_delete]
  /\ UNCHANGED <<relFrom, relTo>>

(* The running cycle keeps its terms; whether to renew changes at once. *)
update_pledge(id, terms) ==
  /\ pledges' = [pledges EXCEPT ![id].next_qty = terms.qty,
                                ![id].next_usd = terms.usd,
                                ![id].autorenew = terms.autorenew,
                                ![id].next_delete = terms.next_delete]
  /\ UNCHANGED <<relFrom, relTo>>

(* Is there a pledge already?  It is looked up in the patron's row. *)
pledged(vaccount, to) == PairsFor(relFrom[vaccount], to) # {}

pledge(vaccount, to, terms) ==
  /\ ~ paused
  /\ vaccount \in KeyHolders
  /\ {vaccount, to} \subseteq users
  /\ terms.qty > 0
  /\ IF pledged(vaccount, to)
     THEN update_pledge(pledge_id(relFrom[vaccount], to), terms)
     ELSE create_pledge(vaccount, to, terms)
  /\ signed' = With(signed, <<vaccount, to>>, terms)
  /\ last' = [p \in DOMAIN last |->
                IF p = <<vaccount, to>> THEN [last[p] EXCEPT !.delete = FALSE] ELSE last[p]]
  /\ charge' = {}
  /\ UNCHANGED <<tokenVars, timers, paused>>

-----------------------------------------------------------------------------
(* Charging for it. *)

(* Truncated to the coin's smallest unit, in the patron's favour. *)
fees(q) == q \div FeeShare

(* Wrong: both transfers are checked against the same balance. *)
payChecks_Stale(p, q) ==
  /\ transferChecks(accounts, p.from, p.to, q - fees(q))
  /\ fees(q) > 0 => transferChecks(accounts, p.from, Fees, fees(q))

(* pay_pledge: the creator's share, then the fees if there are any.  The   *)
(* second transfer is checked against what the first one left.             *)
payChecks(p, q) ==
  /\ transferChecks(accounts, p.from, p.to, q - fees(q))
  /\ fees(q) > 0 =>
       transferChecks(_transfer(accounts, p.from, p.to, q - fees(q)), p.from, Fees, fees(q))

(* Wrong: the second transfer writes back a balance read before the first. *)
afterPayment_LostUpdate(p, q) ==
  LET share == _transfer(accounts, p.from, p.to, q - fees(q))
  IN  IF fees(q) > 0
      THEN add_balance([share EXCEPT ![p.from] = accounts[p.from] - fees(q)], Fees, fees(q))
      ELSE share

afterPayment(p, q) ==
  LET share == _transfer(accounts, p.from, p.to, q - fees(q))
  IN  IF fees(q) > 0 THEN _transfer(share, p.from, Fees, fees(q)) ELSE share

(* Wrong: the call comes when the cycle is just ending. *)
schedule_renewpledge_AtEnd(pending, id) == With(pending, id, Cycle)

(* One second is added, because the cycle must be over and not just ending. *)
schedule_renewpledge(pending, id) == With(pending, id, Cycle + 1)

(* Wrong: the flag is read as leave for the patron, not for others. *)
renewChecks_ByAnybody(by, p) ==
  /\ ~ paused
  /\ p.paid => p.age > Cycle
  /\ payChecks(p, p.next_qty)

(* Wrong: the cycle may be just ending. *)
renewChecks_AtItsEnd(by, p) ==
  /\ ~ paused
  /\ ~ p.autorenew => by = p.from
  /\ p.paid => p.age >= Cycle
  /\ payChecks(p, p.next_qty)

renewChecks(by, p) ==
  /\ ~ paused
  /\ ~ p.autorenew => by = p.from
  /\ p.paid => p.age > Cycle
  /\ payChecks(p, p.next_qty)

(* The pledge moves into its next cycle and is paid for; a payment that    *)
(* fails takes the new cycle back with it.                                 *)
renew(by, id, pending) ==
  LET p == pledges[id]
  IN  /\ renewChecks(by, p)
      /\ pledges' = [pledges EXCEPT ![id].age = 0, ![id].paid = TRUE,
                                    ![id].qty = p.next_qty, ![id].usd = p.next_usd]
      /\ accounts' = afterPayment(p, p.next_qty)
      /\ timers' = IF p.autorenew THEN schedule_renewpledge(pending, id) ELSE pending
      /\ last' = With(last, <<p.from, p.to>>,
                      [age |-> 0, qty |-> accounts[p.from] - accounts'[p.from],
                       delete |-> p.next_delete])
      /\ charge' = {[id |-> id, by |-> by]}
      /\ UNCHANGED <<users, stat, chain, granted, relFrom, relTo, paused, signed>>

(* A command signed by some patron, or the bare action sent by anybody. *)
renewpledge(by, id) == renew(by, id, timers)

(* The scheduler calls when the time has run out, with nobody's signature. *)
(* timer_callback returns false, so the timer is gone; a call the contract *)
(* refuses may be repeated, or given up.                                   *)
timer_callback(id) ==
  /\ timers[id] = 0
  /\ \/ renew(Nobody, id, Without(timers, id))
     \/ /\ ~ renewChecks(Nobody, pledges[id])
        /\ timers' = Without(timers, id)
        /\ charge' = {}
        /\ UNCHANGED <<tokenVars, pledges, relFrom, relTo, paused, observed>>

-----------------------------------------------------------------------------
(* The rest of the world. *)

pause(b) ==
  /\ paused # b
  /\ paused' = b
  /\ charge' = {}
  /\ UNCHANGED <<tokenVars, pledges, relFrom, relTo, timers, observed>>

Older(age) == IF age <= Cycle THEN age + 1 ELSE age

Tick ==
  /\ pledges' = [id \in DOMAIN pledges |-> [pledges[id] EXCEPT !.age = Older(@)]]
  /\ timers' = [id \in DOMAIN timers |-> IF timers[id] > 0 THEN timers[id] - 1 ELSE 0]
  /\ last' = [p \in DOMAIN last |-> [last[p] EXCEPT !.age = Older(@)]]
  /\ charge' = {}
  /\ UNCHANGED <<tokenVars, relFrom, relTo, paused, signed>>

(* The token contract goes on while the phoenix contract is paused, only   *)
(* nobody can sign up; the operators could still run init.                 *)
token ==
  /\ TokenNext
  /\ paused => users' \ users \subseteq {Phoenix, Fees}
  /\ charge' = {}
  /\ UNCHANGED <<pledgeVars, observed>>

PledgesNext ==
  \/ token
  \/ \E v, to \in VAccounts, terms \in Terms : pledge(v, to, terms)
  \/ \E by \in KeyHolders \cup {Nobody}, id \in DOMAIN pledges : renewpledge(by, id)
  \/ \E id \in DOMAIN timers : timer_callback(id)
  \/ \E b \in BOOLEAN : pause(b)
  \/ Tick

PledgesSpec == PledgesInit /\ [][PledgesNext]_vars

(* Time passes, and the scheduler makes the calls it was asked for. *)
callbackFor(id) == id \in DOMAIN timers /\ timer_callback(id)

PledgesFairSpec ==
  /\ PledgesSpec
  /\ WF_vars(Tick)
  /\ \A id \in 0..(MaxPledges - 1) : WF_vars(callbackFor(id))

-----------------------------------------------------------------------------

Pairs == VAccounts \X VAccounts
Ages == 0..(Cycle + 1)

(* Every table has its shape; a pledge always owes something. *)
PledgesTypeOK ==
  /\ TokenTypeOK
  /\ DOMAIN pledges = 0..(Cardinality(DOMAIN pledges) - 1)
  /\ \A id \in DOMAIN pledges :
        pledges[id] \in [from : KeyHolders, to : VAccounts,
                         qty : Nat \ {0}, usd : Nat, next_qty : Nat \ {0}, next_usd : Nat,
                         autorenew : BOOLEAN, next_delete : BOOLEAN,
                         paid : BOOLEAN, age : Ages]
  /\ {relFrom, relTo} \subseteq
       [VAccounts -> SUBSET [name : VAccounts, pledge_id : DOMAIN pledges]]
  /\ DOMAIN timers \subseteq DOMAIN pledges
  /\ \A id \in DOMAIN timers : timers[id] \in Ages
  /\ paused \in BOOLEAN
  /\ DOMAIN signed \subseteq Pairs /\ \A p \in DOMAIN signed : signed[p] \in Terms
  /\ DOMAIN last \subseteq Pairs
  /\ \A p \in DOMAIN last : last[p] \in [age : Ages, qty : Nat, delete : BOOLEAN]
  /\ charge \subseteq [id : DOMAIN pledges, by : KeyHolders \cup {Nobody}]
  /\ Cardinality(charge) <= 1

(* The two relation tables are the index of the pledges, in both           *)
(* directions, and there is one pledge per patron and creator.             *)
RelationsMirrorPledges ==
  \A from, to \in VAccounts :
    LET ids == {id \in DOMAIN pledges : pledges[id].from = from /\ pledges[id].to = to}
        pointsTo(rel, name) == {r.pledge_id : r \in PairsFor(rel, name)}
    IN  /\ Cardinality(ids) <= 1
        /\ pointsTo(relFrom[from], to) = ids
        /\ pointsTo(relTo[to], from) = ids

(* A creator who reads that a cycle is paid has been paid for this cycle,  *)
(* and as much as the pledge says.                                         *)
PaidMeansCharged ==
  \A id \in DOMAIN pledges :
    LET p == pledges[id]
    IN  p.paid => /\ <<p.from, p.to>> \in DOMAIN last
                  /\ last[<<p.from, p.to>>].age = p.age
                  /\ last[<<p.from, p.to>>].qty = p.qty

(* Whoever renews, and however often the timers fire: nobody pays the same *)
(* creator twice within a cycle.                                           *)
ChargedOncePerCycle ==
  [][\A c \in charge' :
       LET pair == <<pledges[c.id].from, pledges[c.id].to>>
       IN  pair \in DOMAIN last => last[pair].age > Cycle]_vars

(* A charge takes what the patron signed last, not a coin more with the    *)
(* fees, and without his signature only if he last agreed to renewals.     *)
ChargedAsSigned ==
  [][\A c \in charge' :
       LET from == pledges[c.id].from
           terms == signed[<<from, pledges[c.id].to>>]
       IN  /\ accounts[from] - accounts'[from] = terms.qty
           /\ c.by = from \/ terms.autorenew]_vars

(* A timer that still has to wait runs out when the cycle of its pledge is *)
(* over, not one unit before: no patron's renewal comes in between, and no *)
(* call is wasted on a cycle that is still running.                        *)
CallsWhenCycleOver ==
  \A id \in DOMAIN timers :
    timers[id] > 0 => pledges[id].paid /\ timers[id] + pledges[id].age = Cycle + 1

charged(id) == \E c \in charge : c.id = id

Renewable(id) ==
  /\ id \in DOMAIN pledges
  /\ pledges[id].autorenew
  /\ ~ paused
  /\ payChecks(pledges[id], pledges[id].next_qty)

(* Once charged, a pledge that stays set to renew, whose patron can always *)
(* pay the next cycle and whose contract is not paused is charged again    *)
(* and again without anybody's doing: each charge leaves the timer of the  *)
(* next (pay_pledge), and its call comes when the cycle is over.           *)
KeepsRenewing ==
  \A id \in 0..(MaxPledges - 1) :
    <>(charged(id) /\ []Renewable(id)) => []<>charged(id)

-----------------------------------------------------------------------------
(* What the documents say and the code does not do. *)

(* README.md: recurring payments are made by the scheduler for pledges     *)
(* that are set to renew, whenever they were set to.                       *)
RecursWhenSetToRenew ==
  \A id \in 0..(MaxPledges - 1) :
    <>[](Renewable(id) /\ pledges[id].paid) => []<>charged(id)

(* phoenix.hpp: a pledge signed with next_delete is removed after its next *)
(* cycle, so it is not charged for another one.                            *)
RemovedAfterNextCycle ==
  [][\A c \in charge' :
       LET pair == <<pledges[c.id].from, pledges[c.id].to>>
       IN  pair \in DOMAIN last => ~ last[pair].delete]_vars
=============================================================================

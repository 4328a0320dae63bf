------------------------------ MODULE ColdToken ------------------------------
(***************************************************************************)
(* The token contract (phoenixtoken.cpp): a virtual WEOSDT whose balances  *)
(* belong to virtual accounts, issued once to the virtual account Phoenix  *)
(* and handed out of that pool against deposits of real WEOSDT.            *)
(*                                                                         *)
(* One action is one transaction.  A transaction either passes every check *)
(* of its action and of the inline actions it sends, in the order they     *)
(* run, or changes nothing: the checks are the guards, and the calls are   *)
(* operators on the table of balances that an action composes.             *)
(***************************************************************************)
EXTENDS Totals, FiniteSets

CONSTANTS
  VAccounts,      \* names of virtual accounts
  Phoenix, Fees,  \* PHOENIX_VACCOUNT, PHOENIX_FEES_VACCOUNT
  KeyHolders,     \* virtual accounts somebody holds the key of
  Accounts,       \* chain accounts
  Self,           \* the token contract's own account
  PhoenixGroup,   \* the phoenix contract's account, which refuses WEOSDT
  Stake,          \* eosio.stake, whose transfers are not deposits
  Endowment,      \* the real WEOSDT every chain account starts with
  Supplies,       \* maximum supplies the contract may be created with
  Amounts,        \* quantities a caller may name, also senseless ones
  MaxGranted      \* BOUND: how much the operators hand out of the pool

(***************************************************************************)
(* Phoenix and Fees are set up with the null key (init.js, and the tests), *)
(* so nobody signs for them.                                               *)
(***************************************************************************)
ASSUME TokenAssumption ==
  /\ IsFiniteSet(VAccounts)
  /\ {Phoenix, Fees} \subseteq VAccounts /\ Phoenix # Fees
  /\ KeyHolders \subseteq VAccounts \ {Phoenix, Fees}
  /\ {Self, PhoenixGroup, Stake} \subseteq Accounts
  /\ Self # PhoenixGroup /\ Self # Stake
  /\ Endowment \in [Accounts -> Nat] /\ Endowment[Self] = 0
  /\ Supplies \subseteq Int /\ Amounts \subseteq Int
  /\ MaxGranted \in Nat

VARIABLES
  users,      \* primary keys of the phoenix contract's users table
  stat,       \* the row of the stat table for WEOSDT
  accounts,   \* the balance rows: a function on the owners that have one
  chain,      \* the real WEOSDT of every chain account
  (* What happened, for the properties only: nothing else reads it. *)
  granted     \* what the operators handed out of the pool without a deposit

tokenVars == <<users, stat, accounts, chain, granted>>

TokenInit ==
  /\ users = {}
  /\ stat = [exists |-> FALSE, supply |-> 0, max |-> 0, issuer |-> Self]
  /\ accounts = [v \in {} |-> 0]
  /\ chain = Endowment
  /\ granted = 0

-----------------------------------------------------------------------------
(* The helpers, on a table b of balances. *)

get_balance(b, owner) == IF owner \in DOMAIN b THEN b[owner] ELSE 0

(* A missing row is created by the credit. *)
add_balance(b, owner, q) ==
  [v \in DOMAIN b \cup {owner} |->
     IF v = owner THEN get_balance(b, v) + q ELSE b[v]]

(* The row stays when it reaches zero. *)
sub_balance(b, owner, q) == [b EXCEPT ![owner] = @ - q]

(* Wrong: both balances are read before either is written. *)
_transfer_ReadFirst(b, from, to, q) ==
  [v \in DOMAIN b \cup {to} |->
     CASE v = to -> get_balance(b, to) + q
       [] v = from /\ v # to -> b[from] - q
       [] OTHER -> b[v]]

(* Debit, then credit: with from = to the row ends where it began. *)
_transfer(b, from, to, q) == add_balance(sub_balance(b, from, q), to, q)

(* Wrong: a row is taken for enough of a balance. *)
_transferChecks_AnyRow(b, from, q) ==
  /\ stat.exists
  /\ q > 0
  /\ from \in DOMAIN b

_transferChecks(b, from, q) ==
  /\ stat.exists
  /\ q > 0
  /\ from \in DOMAIN b /\ b[from] >= q

(* Wrong: only the sender has to be a user. *)
transferChecks_AnyPayee(b, from, to, q) ==
  /\ from # to
  /\ from \in users
  /\ _transferChecks(b, from, q)

transferChecks(b, from, to, q) ==
  /\ from # to
  /\ {from, to} \subseteq users
  /\ _transferChecks(b, from, q)

(* The row is created unless it is there. *)
opened(b, owners) ==
  [v \in DOMAIN b \cup owners |-> get_balance(b, v)]

(* The real token's transfer, with the contracts it notifies.  The phoenix *)
(* contract refuses to be party to one, and nobody pays himself.           *)
realTransferChecks(from, to, q) ==
  /\ from # to
  /\ PhoenixGroup \notin {from, to}
  /\ 0 < q /\ q <= chain[from]

realTransfer(from, to, q) ==
  [chain EXCEPT ![from] = @ - q, ![to] = @ + q]

-----------------------------------------------------------------------------
(* The actions of the contract. *)

create(issuer, maximum) ==
  /\ maximum > 0
  /\ ~ stat.exists
  /\ stat' = [exists |-> TRUE, supply |-> 0, max |-> maximum, issuer |-> issuer]
  /\ UNCHANGED <<users, accounts, chain, granted>>

(* Wrong: issued straight to whoever is named. *)
issue_ToAnyone(to, q) ==
  /\ stat.exists
  /\ 0 < q /\ q <= stat.max - stat.supply
  /\ stat.issuer = Self
  /\ to \in users
  /\ stat' = [stat EXCEPT !.supply = @ + q]
  /\ accounts' = add_balance(accounts, to, q)
  /\ UNCHANGED <<users, chain, granted>>

issue(to, q) ==
  /\ stat.exists
  /\ 0 < q /\ q <= stat.max - stat.supply
  /\ stat.issuer = Self
  /\ to = Phoenix
  /\ Phoenix \in users
  /\ stat' = [stat EXCEPT !.supply = @ + q]
  /\ accounts' = add_balance(accounts, to, q)
  /\ UNCHANGED <<users, chain, granted>>

(* Sent by the operators with the authority of one of the two contracts:   *)
(* any user may be made the payer, the pool too.                           *)
transfer(from, to, q) ==
  /\ transferChecks(accounts, from, to, q)
  /\ accounts' = _transfer(accounts, from, to, q)
  /\ granted' = IF from = Phoenix THEN granted + q ELSE granted
  /\ granted' <= MaxGranted
  /\ UNCHANGED <<users, stat, chain>>

(* Signed by the sender, carried out by the inline transfer. *)
transferv(vaccount, to, q) ==
  /\ vaccount \in KeyHolders
  /\ transferChecks(accounts, vaccount, to, q)
  /\ accounts' = _transfer(accounts, vaccount, to, q)
  /\ UNCHANGED <<users, stat, chain, granted>>

open(owner) ==
  /\ owner \in users
  /\ stat.exists
  /\ accounts' = opened(accounts, {owner})
  /\ UNCHANGED <<users, stat, chain, granted>>

withdrawv(vaccount, to, q) ==
  /\ vaccount \in KeyHolders \cap users
  /\ _transferChecks(accounts, vaccount, q)
  /\ realTransferChecks(Self, to, q)
  /\ accounts' = _transfer(accounts, vaccount, Phoenix, q)
  /\ chain' = realTransfer(Self, to, q)
  /\ UNCHANGED <<users, stat, granted>>

(* Wrong: the real coins go out and the virtual ones stay. *)
payoutfees_NoDebit(to) ==
  LET fees == get_balance(accounts, Fees)
  IN  /\ Fees \in users
      /\ _transferChecks(accounts, Fees, fees)
      /\ realTransferChecks(Self, to, fees)
      /\ chain' = realTransfer(Self, to, fees)
      /\ UNCHANGED <<users, stat, accounts, granted>>

payoutfees(to) ==
  LET fees == get_balance(accounts, Fees)
  IN  /\ Fees \in users
      /\ _transferChecks(accounts, Fees, fees)
      /\ realTransferChecks(Self, to, fees)
      /\ accounts' = _transfer(accounts, Fees, Phoenix, fees)
      /\ chain' = realTransfer(Self, to, fees)
      /\ UNCHANGED <<users, stat, granted>>

(* A real transfer to the contract that names the virtual account to credit. *)
on_transfer(payer, depositor, q) ==
  /\ payer # Stake
  /\ realTransferChecks(payer, Self, q)
  /\ depositor \in users
  /\ _transferChecks(accounts, Phoenix, q)
  /\ accounts' = _transfer(accounts, Phoenix, depositor, q)
  /\ chain' = realTransfer(payer, Self, q)
  /\ UNCHANGED <<users, stat, granted>>

(* Coins coming back from staking are taken without looking at the memo. *)
on_transferFromStake(q) ==
  /\ realTransferChecks(Stake, Self, q)
  /\ chain' = realTransfer(Stake, Self, q)
  /\ UNCHANGED <<users, stat, accounts, granted>>

(* What the token sees of the phoenix contract: its users table gains rows *)
(* and, in the same transaction, each new user's balance is opened.        *)
newUsers(names) ==
  /\ names \cap users = {}
  /\ stat.exists
  /\ users' = users \cup names
  /\ accounts' = opened(accounts, names)
  /\ UNCHANGED <<stat, chain, granted>>

TokenNext ==
  \/ \E issuer \in Accounts, maximum \in Supplies : create(issuer, maximum)
  \/ \E to \in VAccounts, q \in Amounts : issue(to, q)
  \/ \E from, to \in VAccounts, q \in Amounts :
        transfer(from, to, q) \/ transferv(from, to, q)
  \/ \E owner \in VAccounts : open(owner)
  \/ \E v \in VAccounts, to \in Accounts, q \in Amounts : withdrawv(v, to, q)
  \/ \E to \in Accounts : payoutfees(to)
  \/ \E payer \in Accounts, v \in VAccounts, q \in Amounts : on_transfer(payer, v, q)
  \/ \E q \in Amounts : on_transferFromStake(q)
  \/ newUsers({Phoenix, Fees})
  \/ \E v \in VAccounts \ {Phoenix, Fees} : newUsers({v})

TokenSpec == TokenInit /\ [][TokenNext]_tokenVars

-----------------------------------------------------------------------------

(* Every balance is a natural number and every table has its shape. *)
TokenTypeOK ==
  /\ users \subseteq VAccounts
  /\ stat \in [exists : BOOLEAN, supply : Nat, max : Nat, issuer : Accounts]
  /\ DOMAIN accounts \subseteq VAccounts
  /\ accounts \in [DOMAIN accounts -> Nat]
  /\ chain \in [Accounts -> Nat]
  /\ granted \in 0..MaxGranted

(* The users table of one contract and the balance table of the other name *)
(* the same accounts: signup and its inline open are one transaction, and  *)
(* nothing credits an account that is no user.                             *)
BalanceRowPerUser == DOMAIN accounts = users

Balances(b) == [v \in VAccounts |-> get_balance(b, v)]

(* No sequence of transactions makes or destroys virtual coins: all the    *)
(* balances together are the supply, which stays within its maximum.       *)
Conservation ==
  /\ Total(VAccounts, Balances(accounts)) = stat.supply
  /\ stat.supply <= stat.max

Customers == VAccounts \ {Phoenix}
Claims(b) == [v \in Customers |-> get_balance(b, v)]

(* Every virtual coin outside the pool is backed, but for those the        *)
(* operators moved out of it by transfer, which asks for no deposit: if    *)
(* they moved none, the contract can pay all customers out at once, and    *)
(* whatever customers pay each other, deposit and withdraw, the gap is     *)
(* never bigger than what was handed out.                                  *)
Solvent == Total(Customers, Claims(accounts)) <= chain[Self] + granted

C == INSTANCE Custody WITH Customers <- Customers, claims <- Claims(accounts),
                           vault <- chain[Self], granted <- granted

(* The contract implements the abstract custodian: deposits, withdrawals,  *)
(* the payout of fees and the transfers between users do nothing else, and *)
(* only the operators' transfer out of the pool raises a claim for nothing.*)
ImplementsCustody == C!Spec
=============================================================================

--------------------------- MODULE ColdTokenProofs ---------------------------
(* The token contract, for every set of accounts, every supply and every   *)
(* sequence of transactions.                                               *)
EXTENDS ColdToken, TLAPS, FiniteSetTheorems

-----------------------------------------------------------------------------
(* What is proved of totals and of the custodian holds of the contract's   *)
(* claims and its coins.                                                   *)

CP == INSTANCE CustodyProofs WITH Customers <- Customers, claims <- Claims(accounts),
                                  vault <- chain[Self], granted <- granted

LEMMA SameTotal ==
  ASSUME NEW rows, NEW table
  PROVE  C!Total(rows, table) = Total(rows, table)
BY DEF C!Total, Total, C!Subtotals, Subtotals, C!Chosen, Chosen, C!Rest, Rest

LEMMA CPTotal ==
  ASSUME NEW rows, NEW table
  PROVE  CP!Total(rows, table) = Total(rows, table)
BY DEF CP!Total, Total, CP!Subtotals, Subtotals, CP!Chosen, Chosen, CP!Rest, Rest

LEMMA TotalType ==
  ASSUME NEW rows, IsFiniteSet(rows), NEW table \in [rows -> Int]
  PROVE  Total(rows, table) \in Int
BY CP!TotalType, CPTotal DEF CP!IsFiniteSet, IsFiniteSet

LEMMA TotalNat ==
  ASSUME NEW rows, IsFiniteSet(rows), NEW table \in [rows -> Nat]
  PROVE  /\ Total(rows, table) \in Nat
         /\ \A r \in rows : table[r] <= Total(rows, table)
BY CP!TotalNat, CPTotal DEF CP!IsFiniteSet, IsFiniteSet

LEMMA TotalUpdate ==
  ASSUME NEW rows, IsFiniteSet(rows), NEW table \in [rows -> Int],
         NEW new \in [rows -> Int], NEW c \in rows,
         \A r \in rows : r # c => new[r] = table[r]
  PROVE  Total(rows, new) = Total(rows, table) - table[c] + new[c]
<1>1. CP!IsFiniteSet(rows)
  BY DEF CP!IsFiniteSet, IsFiniteSet
<1>2. CP!Total(rows, new) = CP!Total(rows, table) - table[c] + new[c]
  BY <1>1, CP!TotalUpdate
<1>. QED  BY <1>2, CPTotal

LEMMA TotalZero ==
  ASSUME NEW rows, IsFiniteSet(rows)
  PROVE  Total(rows, [r \in rows |-> 0]) = 0
BY CP!TotalZero, CPTotal DEF CP!IsFiniteSet, IsFiniteSet

(* Moving q from one row to another keeps the total. *)
LEMMA TotalMove ==
  ASSUME NEW rows, IsFiniteSet(rows), NEW table \in [rows -> Int],
         NEW new \in [rows -> Int], NEW q \in Int,
         NEW from \in rows, NEW to \in rows, from # to,
         new[from] = table[from] - q, new[to] = table[to] + q,
         \A r \in rows : r \notin {from, to} => new[r] = table[r]
  PROVE  Total(rows, new) = Total(rows, table)
<1>. DEFINE mid == [r \in rows |-> IF r = from THEN new[from] ELSE table[r]]
<1>1. /\ mid \in [rows -> Int] /\ mid[from] = new[from] /\ mid[to] = table[to]
      /\ \A r \in rows : r # from => mid[r] = table[r]
      /\ \A r \in rows : r # to => new[r] = mid[r]
  OBVIOUS
<1>. HIDE DEF mid
<1>2. Total(rows, mid) = Total(rows, table) - table[from] + mid[from]
  BY <1>1, TotalUpdate
<1>3. Total(rows, new) = Total(rows, mid) - mid[to] + new[to]
  BY <1>1, TotalUpdate
<1>4. Total(rows, table) \in Int /\ table[from] \in Int /\ table[to] \in Int
  BY TotalType
<1>. QED  BY <1>1, <1>2, <1>3, <1>4

-----------------------------------------------------------------------------
(* What the operators on tables of balances do. *)

IsTable(b) == DOMAIN b \subseteq VAccounts /\ b \in [DOMAIN b -> Nat]

LEMMA BalanceType ==
  ASSUME NEW b, IsTable(b), NEW v
  PROVE  get_balance(b, v) \in Nat
BY DEF IsTable, get_balance

(* Crediting changes one balance, and gives its owner a row. *)
LEMMA AddEffect ==
  ASSUME NEW b, IsTable(b), NEW owner \in VAccounts, NEW q \in Nat
  PROVE  /\ IsTable(add_balance(b, owner, q))
         /\ DOMAIN add_balance(b, owner, q) = DOMAIN b \cup {owner}
         /\ get_balance(add_balance(b, owner, q), owner) = get_balance(b, owner) + q
         /\ \A v : v # owner => get_balance(add_balance(b, owner, q), v) = get_balance(b, v)
<1>. DEFINE n == add_balance(b, owner, q)
<1>1. DOMAIN n = DOMAIN b \cup {owner}
  BY DEF add_balance
<1>2. get_balance(b, owner) \in Nat
  BY BalanceType
<1>3. n[owner] = get_balance(b, owner) + q
  BY DEF add_balance
<1>4. \A v \in DOMAIN b : v # owner => n[v] = b[v]
  BY DEF add_balance
<1>5. IsTable(n)
  <2>1. \A v \in DOMAIN n : n[v] \in Nat
    BY <1>1, <1>2, <1>3, <1>4 DEF IsTable
  <2>2. n = [v \in DOMAIN n |-> n[v]]
    BY <1>1 DEF add_balance
  <2>. HIDE DEF n
  <2>. QED  BY <1>1, <2>1, <2>2 DEF IsTable
<1>. HIDE DEF n
<1>. QED  BY <1>1, <1>3, <1>4, <1>5 DEF get_balance, n

(* Debiting changes one balance and no row. *)
LEMMA SubEffect ==
  ASSUME NEW b, IsTable(b), NEW owner \in DOMAIN b, NEW q \in Nat, q <= b[owner]
  PROVE  /\ IsTable(sub_balance(b, owner, q))
         /\ DOMAIN sub_balance(b, owner, q) = DOMAIN b
         /\ get_balance(sub_balance(b, owner, q), owner) = get_balance(b, owner) - q
         /\ \A v : v # owner => get_balance(sub_balance(b, owner, q), v) = get_balance(b, v)
BY DEF IsTable, sub_balance, get_balance

(* n is b with q moved from one balance to the other, and nothing else. *)
Moved(b, n, from, to, q) ==
  /\ IsTable(n)
  /\ DOMAIN n = DOMAIN b \cup {to}
  /\ from # to => /\ get_balance(n, from) = get_balance(b, from) - q
                  /\ get_balance(n, to) = get_balance(b, to) + q
  /\ from = to => get_balance(n, to) = get_balance(b, to)
  /\ \A v : v \notin {from, to} => get_balance(n, v) = get_balance(b, v)

(* A transfer moves q from one balance to the other, and only that. *)
LEMMA TransferEffect ==
  ASSUME NEW b, IsTable(b), NEW from \in DOMAIN b, NEW to \in VAccounts,
         NEW q \in Nat, q <= b[from]
  PROVE  Moved(b, _transfer(b, from, to, q), from, to, q)
<1>. DEFINE m == sub_balance(b, from, q)
            n == add_balance(m, to, q)
<1>1. /\ IsTable(m) /\ DOMAIN m = DOMAIN b
      /\ get_balance(m, from) = get_balance(b, from) - q
      /\ \A v : v # from => get_balance(m, v) = get_balance(b, v)
  BY SubEffect
<1>. HIDE DEF m
<1>2. /\ IsTable(n) /\ DOMAIN n = DOMAIN m \cup {to}
      /\ get_balance(n, to) = get_balance(m, to) + q
      /\ \A v : v # to => get_balance(n, v) = get_balance(m, v)
  BY <1>1, AddEffect
<1>3. get_balance(b, to) \in Nat /\ get_balance(b, from) \in Nat
  BY BalanceType
<1>. HIDE DEF n
<1>4. Moved(b, n, from, to, q)
  BY <1>1, <1>2, <1>3 DEF Moved
<1>. QED  BY <1>4 DEF n, m, _transfer

(* Opening rows changes no balance. *)
LEMMA OpenEffect ==
  ASSUME NEW b, IsTable(b), NEW owners \in SUBSET VAccounts
  PROVE  /\ IsTable(opened(b, owners))
         /\ DOMAIN opened(b, owners) = DOMAIN b \cup owners
         /\ \A v : get_balance(opened(b, owners), v) = get_balance(b, v)
BY DEF IsTable, opened, get_balance

-----------------------------------------------------------------------------
(* Types. *)

(* A real transfer keeps the chain's ledger a table of naturals. *)
LEMMA RealTransferEffect ==
  ASSUME chain \in [Accounts -> Nat], NEW from \in Accounts, NEW to \in Accounts,
         NEW q \in Int, realTransferChecks(from, to, q)
  PROVE  /\ realTransfer(from, to, q) \in [Accounts -> Nat]
         /\ realTransfer(from, to, q)[from] = chain[from] - q
         /\ realTransfer(from, to, q)[to] = chain[to] + q
BY DEF realTransferChecks, realTransfer

LEMMA TypeInit == TokenInit => TokenTypeOK
BY TokenAssumption DEF TokenInit, TokenTypeOK

LEMMA TypeStep == TokenTypeOK /\ [TokenNext]_tokenVars => TokenTypeOK'
<1>. SUFFICES ASSUME TokenTypeOK, [TokenNext]_tokenVars PROVE TokenTypeOK'
  OBVIOUS
<1>. USE TokenAssumption
<1>0. IsTable(accounts) /\ stat.supply \in Nat /\ stat.max \in Nat
  BY DEF TokenTypeOK, IsTable
<1>1. ASSUME NEW issuer \in Accounts, NEW maximum \in Supplies, create(issuer, maximum)
      PROVE  TokenTypeOK'
  BY <1>1 DEF create, TokenTypeOK
<1>2. ASSUME NEW to \in VAccounts, NEW q \in Amounts, issue(to, q)
      PROVE  TokenTypeOK'
  <2>1. q \in Nat /\ stat.supply + q \in Nat
    BY <1>0, <1>2 DEF issue
  <2>2. IsTable(accounts')
    BY <1>0, <1>2, <2>1, AddEffect DEF issue
  <2>. QED  BY <1>2, <2>1, <2>2 DEF issue, TokenTypeOK, IsTable
<1>3. ASSUME NEW from \in VAccounts, NEW to \in VAccounts, NEW q \in Amounts,
             transfer(from, to, q) \/ transferv(from, to, q)
      PROVE  TokenTypeOK'
  <2>1. q \in Nat /\ from \in DOMAIN accounts /\ q <= accounts[from]
    BY <1>0, <1>3 DEF transfer, transferv, transferChecks, _transferChecks, IsTable
  <2>2. IsTable(_transfer(accounts, from, to, q))
    BY <1>0, <2>1, TransferEffect DEF Moved
  <2>3. granted' \in 0..MaxGranted
    BY <1>3, <2>1 DEF transfer, transferv, TokenTypeOK
  <2>. QED  BY <1>3, <2>2, <2>3 DEF transfer, transferv, TokenTypeOK, IsTable
<1>4. ASSUME NEW owner \in VAccounts, open(owner) PROVE TokenTypeOK'
  <2>1. IsTable(accounts')
    BY <1>0, <1>4, OpenEffect DEF open
  <2>. QED  BY <1>4, <2>1 DEF open, TokenTypeOK, IsTable
<1>5. ASSUME NEW v \in VAccounts, NEW to \in Accounts, NEW q \in Amounts, withdrawv(v, to, q)
      PROVE  TokenTypeOK'
  <2>1. q \in Nat /\ v \in DOMAIN accounts /\ q <= accounts[v]
    BY <1>0, <1>5 DEF withdrawv, _transferChecks, IsTable
  <2>2. IsTable(accounts')
    BY <1>0, <1>5, <2>1, TransferEffect DEF Moved, withdrawv
  <2>3. chain' \in [Accounts -> Nat]
    BY <1>5, RealTransferEffect DEF Moved, withdrawv, TokenTypeOK
  <2>. QED  BY <1>5, <2>2, <2>3 DEF withdrawv, TokenTypeOK, IsTable
<1>6. ASSUME NEW to \in Accounts, payoutfees(to) PROVE TokenTypeOK'
  <2>. DEFINE q == get_balance(accounts, Fees)
  <2>1. q \in Nat /\ Fees \in DOMAIN accounts /\ q <= accounts[Fees]
    BY <1>0, <1>6, BalanceType DEF payoutfees, _transferChecks
  <2>2. accounts' = _transfer(accounts, Fees, Phoenix, q) /\ chain' = realTransfer(Self, to, q)
        /\ realTransferChecks(Self, to, q) /\ UNCHANGED <<users, stat, granted>>
    BY <1>6 DEF payoutfees
  <2>. HIDE DEF q
  <2>3. IsTable(accounts')
    BY <1>0, <2>1, <2>2, TransferEffect DEF Moved
  <2>4. chain' \in [Accounts -> Nat]
    BY <2>1, <2>2, RealTransferEffect DEF TokenTypeOK
  <2>. QED  BY <2>2, <2>3, <2>4 DEF TokenTypeOK, IsTable
<1>7. ASSUME NEW payer \in Accounts, NEW v \in VAccounts, NEW q \in Amounts,
             on_transfer(payer, v, q)
      PROVE  TokenTypeOK'
  <2>1. q \in Nat /\ Phoenix \in DOMAIN accounts /\ q <= accounts[Phoenix]
    BY <1>0, <1>7 DEF on_transfer, _transferChecks, IsTable
  <2>2. IsTable(accounts')
    BY <1>0, <1>7, <2>1, TransferEffect DEF Moved, on_transfer
  <2>3. chain' \in [Accounts -> Nat]
    BY <1>7, RealTransferEffect DEF Moved, on_transfer, TokenTypeOK
  <2>. QED  BY <1>7, <2>2, <2>3 DEF on_transfer, TokenTypeOK, IsTable
<1>8. ASSUME NEW q \in Amounts, on_transferFromStake(q) PROVE TokenTypeOK'
  <2>1. chain' \in [Accounts -> Nat]
    BY <1>8, RealTransferEffect DEF Moved, on_transferFromStake, TokenTypeOK
  <2>. QED  BY <1>8, <2>1 DEF on_transferFromStake, TokenTypeOK
<1>9. ASSUME NEW names \in SUBSET VAccounts, newUsers(names) PROVE TokenTypeOK'
  <2>1. IsTable(accounts')
    BY <1>0, <1>9, OpenEffect DEF newUsers
  <2>. QED  BY <1>9, <2>1 DEF newUsers, TokenTypeOK, IsTable
<1>10. CASE UNCHANGED tokenVars
  BY <1>10 DEF tokenVars, TokenTypeOK
<1>. QED
  BY <1>1, <1>2, <1>3, <1>4, <1>5, <1>6, <1>7, <1>8, <1>9, <1>10 DEF TokenNext

(***************************************************************************)
(* No transaction ever leaves a negative balance, a negative real holding  *)
(* or a malformed row behind.                                              *)
(***************************************************************************)
THEOREM TokenTypeCorrect == TokenSpec => []TokenTypeOK
BY TypeInit, TypeStep, PTL DEF TokenSpec

-----------------------------------------------------------------------------
(* What the operators do to the totals. *)

LEMMA RowsFinite == IsFiniteSet(VAccounts) /\ IsFiniteSet(Customers)
BY TokenAssumption, FS_Difference DEF Customers

LEMMA BalancesType ==
  ASSUME NEW b, IsTable(b)
  PROVE  Balances(b) \in [VAccounts -> Nat] /\ Claims(b) \in [Customers -> Nat]
<1>1. \A v : get_balance(b, v) \in Nat
  BY BalanceType
<1>. QED  BY <1>1 DEF Balances, Claims

(* A transfer, also one to the sender himself, leaves the total alone. *)
LEMMA TransferTotal ==
  ASSUME NEW b, IsTable(b), NEW from \in DOMAIN b, NEW to \in VAccounts,
         NEW q \in Nat, q <= b[from]
  PROVE  Total(VAccounts, Balances(_transfer(b, from, to, q))) = Total(VAccounts, Balances(b))
<1>. DEFINE n == _transfer(b, from, to, q)
<1>0. Moved(b, n, from, to, q)
  BY TransferEffect
<1>. HIDE DEF n
<1>1. /\ IsTable(n)
      /\ from # to => /\ get_balance(n, from) = get_balance(b, from) - q
                      /\ get_balance(n, to) = get_balance(b, to) + q
      /\ from = to => get_balance(n, to) = get_balance(b, to)
      /\ \A v : v \notin {from, to} => get_balance(n, v) = get_balance(b, v)
  BY <1>0 DEF Moved
<1>2. Balances(b) \in [VAccounts -> Int] /\ Balances(n) \in [VAccounts -> Int]
  BY <1>1, BalancesType
<1>3. from \in VAccounts
  BY DEF IsTable
<1>4. CASE from # to
  <2>1. /\ Balances(n)[from] = Balances(b)[from] - q
        /\ Balances(n)[to] = Balances(b)[to] + q
        /\ \A r \in VAccounts : r \notin {from, to} => Balances(n)[r] = Balances(b)[r]
    BY <1>1, <1>3, <1>4 DEF Balances
  <2>2. Total(VAccounts, Balances(n)) = Total(VAccounts, Balances(b))
    BY <1>2, <1>3, <1>4, <2>1, RowsFinite, TotalMove
  <2>. QED  BY <2>2 DEF n
<1>5. CASE from = to
  <2>1. Balances(n) = Balances(b)
    BY <1>1, <1>5 DEF Balances
  <2>. QED  BY <2>1 DEF n
<1>. QED  BY <1>4, <1>5

(* A credit adds what it credits. *)
LEMMA AddTotal ==
  ASSUME NEW b, IsTable(b), NEW owner \in VAccounts, NEW q \in Nat
  PROVE  Total(VAccounts, Balances(add_balance(b, owner, q)))
           = Total(VAccounts, Balances(b)) + q
<1>. DEFINE n == add_balance(b, owner, q)
<1>1. /\ IsTable(n)
      /\ get_balance(n, owner) = get_balance(b, owner) + q
      /\ \A v : v # owner => get_balance(n, v) = get_balance(b, v)
  BY AddEffect
<1>. HIDE DEF n
<1>2. Balances(b) \in [VAccounts -> Int] /\ Balances(n) \in [VAccounts -> Int]
  BY <1>1, BalancesType
<1>3. /\ Balances(n)[owner] = Balances(b)[owner] + q
      /\ \A r \in VAccounts : r # owner => Balances(n)[r] = Balances(b)[r]
      /\ Balances(b)[owner] \in Int
  BY <1>1, <1>2 DEF Balances
<1>4. Total(VAccounts, Balances(n))
        = Total(VAccounts, Balances(b)) - Balances(b)[owner] + Balances(n)[owner]
  BY <1>2, <1>3, RowsFinite, TotalUpdate
<1>5. Total(VAccounts, Balances(b)) \in Int
  BY <1>2, RowsFinite, TotalType
<1>6. Total(VAccounts, Balances(n)) = Total(VAccounts, Balances(b)) + q
  BY <1>3, <1>4, <1>5
<1>. QED  BY <1>6 DEF n

(* Opening rows changes no balance and no claim. *)
LEMMA OpenTotal ==
  ASSUME NEW b, IsTable(b), NEW owners \in SUBSET VAccounts
  PROVE  Balances(opened(b, owners)) = Balances(b) /\ Claims(opened(b, owners)) = Claims(b)
<1>1. \A v : get_balance(opened(b, owners), v) = get_balance(b, v)
  BY OpenEffect
<1>. QED  BY <1>1 DEF Balances, Claims

(* A transfer between customers leaves the total of the claims alone, one  *)
(* to the pool lowers it: never does it rise.                              *)
LEMMA TransferClaims ==
  ASSUME NEW b, IsTable(b), NEW from \in DOMAIN b, NEW to \in VAccounts,
         NEW q \in Nat, q <= b[from], from # Phoenix
  PROVE  Total(Customers, Claims(_transfer(b, from, to, q))) <= Total(Customers, Claims(b))
<1>. DEFINE n == _transfer(b, from, to, q)
<1>0. Moved(b, n, from, to, q)
  BY TransferEffect
<1>. HIDE DEF n
<1>1. /\ IsTable(n)
      /\ from # to => /\ get_balance(n, from) = get_balance(b, from) - q
                      /\ get_balance(n, to) = get_balance(b, to) + q
      /\ from = to => get_balance(n, to) = get_balance(b, to)
      /\ \A v : v \notin {from, to} => get_balance(n, v) = get_balance(b, v)
  BY <1>0 DEF Moved
<1>2. Claims(b) \in [Customers -> Int] /\ Claims(n) \in [Customers -> Int]
  BY <1>1, BalancesType
<1>3. from \in Customers /\ Total(Customers, Claims(b)) \in Int
  BY <1>2, RowsFinite, TotalType DEF IsTable, Customers
<1>4. CASE from # to /\ to # Phoenix
  <2>1. /\ to \in Customers
        /\ Claims(n)[from] = Claims(b)[from] - q
        /\ Claims(n)[to] = Claims(b)[to] + q
        /\ \A r \in Customers : r \notin {from, to} => Claims(n)[r] = Claims(b)[r]
    BY <1>1, <1>3, <1>4 DEF Claims, Customers
  <2>2. Total(Customers, Claims(n)) = Total(Customers, Claims(b))
    BY <1>2, <1>3, <1>4, <2>1, RowsFinite, TotalMove
  <2>. QED  BY <1>3, <2>2 DEF n
<1>5. CASE to = Phoenix
  <2>1. /\ Claims(n)[from] = Claims(b)[from] - q
        /\ \A r \in Customers : r # from => Claims(n)[r] = Claims(b)[r]
        /\ Claims(b)[from] \in Int
    BY <1>1, <1>2, <1>3, <1>5 DEF Claims, Customers
  <2>2. Total(Customers, Claims(n)) = Total(Customers, Claims(b)) - Claims(b)[from] + Claims(n)[from]
    BY <1>2, <1>3, <2>1, RowsFinite, TotalUpdate
  <2>3. Total(Customers, Claims(n)) = Total(Customers, Claims(b)) - q
    BY <1>3, <2>1, <2>2
  <2>. QED  BY <1>3, <2>3 DEF n
<1>6. CASE from = to
  <2>1. Claims(n) = Claims(b)
    BY <1>1, <1>6 DEF Claims
  <2>. QED  BY <1>3, <2>1 DEF n
<1>. QED  BY <1>4, <1>5, <1>6

-----------------------------------------------------------------------------
(* What a transaction may do, in terms of the operators above. *)

(* Virtual coins move between accounts, none of them out of the pool. *)
MovesCoins(from, to, q) ==
  /\ IsTable(accounts) /\ q \in Nat /\ 0 < q /\ from \in DOMAIN accounts /\ q <= accounts[from]
  /\ from # Phoenix /\ to \in users
  /\ accounts' = _transfer(accounts, from, to, q)
  /\ UNCHANGED <<users, stat, chain, granted>>

(* The operators move coins out of the pool, and no real ones come in. *)
HandsOut(to, q) ==
  /\ IsTable(accounts) /\ q \in Nat /\ 0 < q
  /\ Phoenix \in DOMAIN accounts /\ q <= accounts[Phoenix]
  /\ to \in users /\ to # Phoenix
  /\ accounts' = _transfer(accounts, Phoenix, to, q)
  /\ granted' = granted + q
  /\ UNCHANGED <<users, stat, chain>>

(* Real coins leave against virtual ones. *)
PaysOut(v, q) ==
  /\ IsTable(accounts) /\ q \in Nat /\ 0 < q /\ v \in DOMAIN accounts /\ q <= accounts[v]
  /\ v # Phoenix
  /\ accounts' = _transfer(accounts, v, Phoenix, q)
  /\ q <= chain[Self]
  /\ chain' \in [Accounts -> Nat] /\ chain'[Self] = chain[Self] - q
  /\ UNCHANGED <<users, stat, granted>>

(* Real coins come in and virtual ones leave the pool. *)
PaysIn(v, q) ==
  /\ IsTable(accounts) /\ q \in Nat /\ 0 < q
  /\ Phoenix \in DOMAIN accounts /\ q <= accounts[Phoenix]
  /\ v \in users
  /\ accounts' = _transfer(accounts, Phoenix, v, q)
  /\ chain' \in [Accounts -> Nat] /\ chain'[Self] = chain[Self] + q
  /\ UNCHANGED <<users, stat, granted>>

(* Real coins come in and nobody is credited. *)
ComesIn(q) ==
  /\ q \in Nat /\ 0 < q
  /\ chain' \in [Accounts -> Nat] /\ chain'[Self] = chain[Self] + q
  /\ UNCHANGED <<users, stat, accounts, granted>>

(* Rows are opened for users, old or new. *)
Opens(owners) ==
  /\ owners \in SUBSET VAccounts
  /\ IsTable(accounts)
  /\ accounts' = opened(accounts, owners)
  /\ users' = users \cup owners
  /\ UNCHANGED <<stat, chain, granted>>

(* The pool is filled. *)
Issues(q) ==
  /\ IsTable(accounts) /\ q \in Nat /\ 0 < q /\ q <= stat.max - stat.supply
  /\ stat.exists /\ Phoenix \in users
  /\ accounts' = add_balance(accounts, Phoenix, q)
  /\ stat' = [stat EXCEPT !.supply = @ + q]
  /\ UNCHANGED <<users, chain, granted>>

LEMMA WithdrawPaysOut ==
  ASSUME TokenTypeOK, NEW v \in VAccounts, NEW to \in Accounts, NEW q \in Amounts,
         withdrawv(v, to, q)
  PROVE  PaysOut(v, q)
<1>1. /\ IsTable(accounts) /\ q \in Nat /\ v \in DOMAIN accounts /\ q <= accounts[v]
      /\ v # Phoenix
  BY TokenAssumption DEF withdrawv, _transferChecks, TokenTypeOK, IsTable
<1>2. chain' \in [Accounts -> Nat] /\ chain'[Self] = chain[Self] - q
  BY TokenAssumption, RealTransferEffect DEF withdrawv, TokenTypeOK
<1>. QED  BY <1>1, <1>2 DEF withdrawv, realTransferChecks, PaysOut

LEMMA FeesPayOut ==
  ASSUME TokenTypeOK, NEW to \in Accounts, payoutfees(to)
  PROVE  PaysOut(Fees, get_balance(accounts, Fees))
<1>. DEFINE q == get_balance(accounts, Fees)
<1>1. /\ IsTable(accounts) /\ Fees \in DOMAIN accounts /\ q <= accounts[Fees]
      /\ Fees # Phoenix
      /\ realTransferChecks(Self, to, q)
      /\ accounts' = _transfer(accounts, Fees, Phoenix, q)
      /\ chain' = realTransfer(Self, to, q)
      /\ UNCHANGED <<users, stat, granted>>
  BY TokenAssumption DEF payoutfees, _transferChecks, TokenTypeOK, IsTable
<1>2. q \in Nat
  BY <1>1, BalanceType
<1>. HIDE DEF q
<1>3. chain' \in [Accounts -> Nat] /\ chain'[Self] = chain[Self] - q
  BY <1>1, <1>2, TokenAssumption, RealTransferEffect DEF TokenTypeOK
<1>4. PaysOut(Fees, q)
  BY <1>1, <1>2, <1>3 DEF realTransferChecks, PaysOut
<1>. QED  BY <1>4 DEF q

LEMMA DepositPaysIn ==
  ASSUME TokenTypeOK, NEW payer \in Accounts, NEW v \in VAccounts, NEW q \in Amounts,
         on_transfer(payer, v, q)
  PROVE  PaysIn(v, q)
<1>1. /\ IsTable(accounts) /\ q \in Nat /\ 0 < q
      /\ Phoenix \in DOMAIN accounts /\ q <= accounts[Phoenix]
  BY TokenAssumption DEF on_transfer, _transferChecks, TokenTypeOK, IsTable
<1>2. chain' \in [Accounts -> Nat] /\ chain'[Self] = chain[Self] + q
  BY TokenAssumption, RealTransferEffect DEF on_transfer, TokenTypeOK
<1>. QED  BY <1>1, <1>2 DEF on_transfer, _transferChecks, PaysIn

(***************************************************************************)
(* Every transaction is of one of these kinds, so a property they all      *)
(* preserve is an invariant.                                               *)
(***************************************************************************)
SomeKind ==
  \/ \E issuer \in Accounts, maximum \in Supplies : create(issuer, maximum)
  \/ \E q : Issues(q)
  \/ \E from, to, q : MovesCoins(from, to, q)
  \/ \E to, q : HandsOut(to, q)
  \/ \E v, q : PaysOut(v, q)
  \/ \E v, q : PaysIn(v, q)
  \/ \E q : ComesIn(q)
  \/ \E owners : Opens(owners)

LEMMA StepKinds == TokenTypeOK /\ [TokenNext]_tokenVars => [SomeKind]_tokenVars
<1>. SUFFICES ASSUME TokenTypeOK, TokenNext PROVE SomeKind
  OBVIOUS
<1>. USE TokenAssumption
<1>0. IsTable(accounts)
  BY DEF TokenTypeOK, IsTable
<1>1. ASSUME NEW issuer \in Accounts, NEW maximum \in Supplies, create(issuer, maximum)
      PROVE  SomeKind
  BY <1>1 DEF SomeKind
<1>2. ASSUME NEW to \in VAccounts, NEW q \in Amounts, issue(to, q) PROVE SomeKind
  <2>1. Issues(q)
    BY <1>0, <1>2 DEF issue, Issues
  <2>. QED  BY <2>1 DEF SomeKind
<1>3. ASSUME NEW from \in VAccounts, NEW to \in VAccounts, NEW q \in Amounts,
             transfer(from, to, q) \/ transferv(from, to, q)
      PROVE  SomeKind
  <2>0. /\ q \in Nat /\ 0 < q /\ from \in DOMAIN accounts /\ q <= accounts[from]
        /\ from # to /\ to \in users
        /\ accounts' = _transfer(accounts, from, to, q)
        /\ UNCHANGED <<users, stat, chain>>
    BY <1>3 DEF transfer, transferv, transferChecks, _transferChecks
  <2>1. CASE from = Phoenix
    <3>1. transfer(from, to, q)
      BY <1>3, <2>1 DEF transferv
    <3>2. HandsOut(to, q)
      BY <1>0, <2>0, <2>1, <3>1 DEF transfer, HandsOut
    <3>. QED  BY <3>2 DEF SomeKind
  <2>2. CASE from # Phoenix
    <3>1. granted' = granted
      BY <1>3, <2>2 DEF transfer, transferv
    <3>2. MovesCoins(from, to, q)
      BY <1>0, <2>0, <2>2, <3>1 DEF MovesCoins
    <3>. QED  BY <3>2 DEF SomeKind
  <2>. QED  BY <2>1, <2>2
<1>4. ASSUME NEW owner \in VAccounts, open(owner) PROVE SomeKind
  <2>1. Opens({owner})
    BY <1>0, <1>4 DEF open, Opens
  <2>. QED  BY <2>1 DEF SomeKind
<1>5. ASSUME NEW v \in VAccounts, NEW to \in Accounts, NEW q \in Amounts, withdrawv(v, to, q)
      PROVE  SomeKind
  BY <1>5, WithdrawPaysOut DEF SomeKind
<1>6. ASSUME NEW to \in Accounts, payoutfees(to) PROVE SomeKind
  BY <1>6, FeesPayOut DEF SomeKind
<1>7. ASSUME NEW payer \in Accounts, NEW v \in VAccounts, NEW q \in Amounts,
             on_transfer(payer, v, q)
      PROVE  SomeKind
  BY <1>7, DepositPaysIn DEF SomeKind
<1>8. ASSUME NEW q \in Amounts, on_transferFromStake(q) PROVE SomeKind
  <2>1. q \in Nat /\ 0 < q
    BY <1>8 DEF on_transferFromStake, realTransferChecks
  <2>2. ComesIn(q)
    BY <1>8, <2>1, RealTransferEffect DEF on_transferFromStake, TokenTypeOK, ComesIn
  <2>. QED  BY <2>2 DEF SomeKind
<1>9. ASSUME NEW names \in SUBSET VAccounts, newUsers(names) PROVE SomeKind
  <2>1. Opens(names)
    BY <1>0, <1>9 DEF newUsers, Opens
  <2>. QED  BY <2>1 DEF SomeKind
<1>10. newUsers({Phoenix, Fees}) => SomeKind
  BY <1>9
<1>11. ASSUME NEW v \in VAccounts, newUsers({v}) PROVE SomeKind
  BY <1>9, <1>11
<1>. QED
  BY <1>1, <1>2, <1>3, <1>4, <1>5, <1>6, <1>7, <1>8, <1>10, <1>11 DEF TokenNext

-----------------------------------------------------------------------------
(***************************************************************************)
(* Rows and users.  A credit could give a row to an account that is no     *)
(* user only if the account credited is Phoenix before Phoenix signed up;  *)
(* but until then there is nothing to be credited with.                    *)
(***************************************************************************)
NothingBeforePhoenix ==
  Phoenix \notin users => \A v \in DOMAIN accounts : accounts[v] = 0

LEMMA RowsStep ==
  ASSUME TokenTypeOK, BalanceRowPerUser, NothingBeforePhoenix, [SomeKind]_tokenVars
  PROVE  BalanceRowPerUser' /\ NothingBeforePhoenix'
<1>. DEFINE Goal == BalanceRowPerUser' /\ NothingBeforePhoenix'
<1>0. /\ IsTable(accounts) /\ DOMAIN accounts = users
      /\ Phoenix \in VAccounts /\ users \subseteq VAccounts
  BY TokenAssumption DEF TokenTypeOK, IsTable, BalanceRowPerUser
<1>t. ASSUME NEW from \in DOMAIN accounts, NEW to \in VAccounts, NEW q \in Nat, q > 0,
             to \in users \cup {Phoenix},
             q <= accounts[from], accounts' = _transfer(accounts, from, to, q), users' = users
      PROVE  Goal
  <2>1. Phoenix \in users
    BY <1>t DEF NothingBeforePhoenix
  <2>2. Moved(accounts, _transfer(accounts, from, to, q), from, to, q)
    BY <1>0, <1>t, TransferEffect
  <2>3. DOMAIN accounts' = DOMAIN accounts \cup {to}
    BY <1>t, <2>2 DEF Moved
  <2>. QED  BY <1>0, <1>t, <2>1, <2>3 DEF BalanceRowPerUser, NothingBeforePhoenix
<1>1. ASSUME NEW issuer \in Accounts, NEW maximum \in Supplies, create(issuer, maximum)
      PROVE  Goal
  BY <1>1 DEF create, BalanceRowPerUser, NothingBeforePhoenix
<1>2. ASSUME NEW q, Issues(q) PROVE Goal
  BY <1>0, <1>2 DEF Issues, add_balance, BalanceRowPerUser, NothingBeforePhoenix
<1>3. ASSUME NEW from, NEW to, NEW q, MovesCoins(from, to, q) PROVE Goal
  BY <1>0, <1>t, <1>3 DEF MovesCoins
<1>4. ASSUME NEW v, NEW q, PaysOut(v, q) PROVE Goal
  BY <1>0, <1>t, <1>4 DEF PaysOut
<1>5. ASSUME NEW v, NEW q, PaysIn(v, q) PROVE Goal
  BY <1>0, <1>t, <1>5 DEF PaysIn
<1>6. ASSUME NEW q, ComesIn(q) PROVE Goal
  BY <1>6 DEF ComesIn, BalanceRowPerUser, NothingBeforePhoenix
<1>7. ASSUME NEW owners, Opens(owners) PROVE Goal
  BY <1>0, <1>7 DEF Opens, opened, get_balance, BalanceRowPerUser, NothingBeforePhoenix
<1>8. ASSUME NEW to, NEW q, HandsOut(to, q) PROVE Goal
  BY <1>0, <1>t, <1>8 DEF HandsOut
<1>9. ASSUME UNCHANGED tokenVars PROVE Goal
  BY <1>9 DEF tokenVars, BalanceRowPerUser, NothingBeforePhoenix
<1>. HIDE DEF Goal
<1>10. Goal
  BY <1>1, <1>2, <1>3, <1>4, <1>5, <1>6, <1>7, <1>8, <1>9 DEF SomeKind
<1>. QED  BY <1>10 DEF Goal

(***************************************************************************)
(* Nothing but signing up gives an account a balance row, and every user   *)
(* has one: a payment to a user never stumbles over a missing row.         *)
(***************************************************************************)
THEOREM RowPerUser == TokenSpec => []BalanceRowPerUser
<1>. DEFINE IInv == TokenTypeOK /\ BalanceRowPerUser /\ NothingBeforePhoenix
<1>1. TokenInit => IInv
  BY TypeInit DEF TokenInit, BalanceRowPerUser, NothingBeforePhoenix
<1>2. IInv /\ [TokenNext]_tokenVars => IInv'
  BY TypeStep, StepKinds, RowsStep
<1>3. IInv => BalanceRowPerUser
  OBVIOUS
<1>. HIDE DEF IInv
<1>. QED  BY <1>1, <1>2, <1>3, PTL DEF TokenSpec

-----------------------------------------------------------------------------
(* Conservation.  Until the stat row exists the supply is zero. *)

NoSupplyBeforeCreate == ~ stat.exists => stat.supply = 0

LEMMA ConservationStep ==
  ASSUME TokenTypeOK, Conservation, NoSupplyBeforeCreate, [SomeKind]_tokenVars
  PROVE  Conservation' /\ NoSupplyBeforeCreate'
<1>. DEFINE Goal == Conservation' /\ NoSupplyBeforeCreate'
            T(b) == Total(VAccounts, Balances(b))
<1>0. /\ IsTable(accounts) /\ stat.supply \in Nat /\ stat.max \in Nat
      /\ Phoenix \in VAccounts /\ users \subseteq VAccounts
      /\ Total(VAccounts, Balances(accounts)) = stat.supply /\ stat.supply <= stat.max
  BY TokenAssumption DEF TokenTypeOK, IsTable, Conservation
<1>s. ASSUME T(accounts') = T(accounts), UNCHANGED stat PROVE Goal
  BY <1>0, <1>s DEF Conservation, NoSupplyBeforeCreate, Balances
<1>1. ASSUME NEW issuer \in Accounts, NEW maximum \in Supplies, create(issuer, maximum)
      PROVE  Goal
  <2>1. /\ maximum \in Nat /\ accounts' = accounts
        /\ stat'.supply = 0 /\ stat'.max = maximum /\ stat.supply = 0 /\ stat'.exists
    BY <1>1, TokenAssumption DEF create, NoSupplyBeforeCreate
  <2>2. T(accounts') = 0
    BY <1>0, <2>1
  <2>. QED  BY <2>1, <2>2 DEF Conservation, NoSupplyBeforeCreate, Balances
<1>2. ASSUME NEW q, Issues(q) PROVE Goal
  <2>1. T(accounts') = T(accounts) + q
    BY <1>0, <1>2, AddTotal DEF Issues
  <2>2. stat'.supply = stat.supply + q /\ stat'.max = stat.max /\ stat'.exists = stat.exists
    BY <1>2 DEF Issues, TokenTypeOK
  <2>3. stat.supply + q <= stat.max /\ q \in Nat /\ 0 < q
    BY <1>0, <1>2 DEF Issues
  <2>4. stat.exists
    BY <1>2 DEF Issues
  <2>. QED  BY <1>0, <2>1, <2>2, <2>3, <2>4 DEF Conservation, NoSupplyBeforeCreate, Balances
<1>3. ASSUME NEW from, NEW to, NEW q, MovesCoins(from, to, q) PROVE Goal
  <2>1. T(accounts') = T(accounts)
    BY <1>0, <1>3, TransferTotal DEF MovesCoins
  <2>. QED  BY <1>s, <1>3, <2>1 DEF MovesCoins
<1>4. ASSUME NEW v, NEW q, PaysOut(v, q) PROVE Goal
  <2>1. T(accounts') = T(accounts)
    BY <1>0, <1>4, TransferTotal DEF PaysOut
  <2>. QED  BY <1>s, <1>4, <2>1 DEF PaysOut
<1>5. ASSUME NEW v, NEW q, PaysIn(v, q) PROVE Goal
  <2>1. T(accounts') = T(accounts)
    BY <1>0, <1>5, TransferTotal DEF PaysIn
  <2>. QED  BY <1>s, <1>5, <2>1 DEF PaysIn
<1>6. ASSUME NEW q, ComesIn(q) PROVE Goal
  BY <1>s, <1>6 DEF ComesIn
<1>7. ASSUME NEW owners, Opens(owners) PROVE Goal
  <2>1. T(accounts') = T(accounts)
    BY <1>7, OpenTotal DEF Opens
  <2>. QED  BY <1>s, <1>7, <2>1 DEF Opens
<1>8. ASSUME NEW to, NEW q, HandsOut(to, q) PROVE Goal
  <2>1. T(accounts') = T(accounts)
    BY <1>0, <1>8, TransferTotal DEF HandsOut
  <2>. QED  BY <1>s, <1>8, <2>1 DEF HandsOut
<1>9. ASSUME UNCHANGED tokenVars PROVE Goal
  BY <1>s, <1>9 DEF tokenVars
<1>. HIDE DEF Goal
<1>10. Goal
  BY <1>1, <1>2, <1>3, <1>4, <1>5, <1>6, <1>7, <1>8, <1>9 DEF SomeKind
<1>. QED  BY <1>10 DEF Goal

(* What the token promises whoever builds on it, with what it takes to be   *)
(* kept by every step.                                                     *)
TokenInv ==
  Conservation /\ NoSupplyBeforeCreate /\ BalanceRowPerUser /\ NothingBeforePhoenix

(* Before anything happened there are no coins, no rows and no users.      *)
LEMMA TokenInvInit ==
  ASSUME TokenInit
  PROVE  TokenInv
<1>1. Balances(accounts) = [v \in VAccounts |-> 0]
  BY DEF TokenInit, Balances, get_balance
<1>2. Total(VAccounts, [v \in VAccounts |-> 0]) = 0
  BY RowsFinite, TotalZero
<1>3. Conservation /\ NoSupplyBeforeCreate
  BY <1>1, <1>2 DEF TokenInit, Conservation, NoSupplyBeforeCreate
<1>. QED  BY <1>3 DEF TokenInit, TokenInv, BalanceRowPerUser, NothingBeforePhoenix

(***************************************************************************)
(* No sequence of transactions makes or destroys virtual coins.            *)
(***************************************************************************)
THEOREM CoinsConserved == TokenSpec => []Conservation
<1>. DEFINE IInv == TokenTypeOK /\ Conservation /\ NoSupplyBeforeCreate
<1>1. TokenInit => IInv
  BY TypeInit, TokenInvInit DEF TokenInv
<1>2. IInv /\ [TokenNext]_tokenVars => IInv'
  BY TypeStep, StepKinds, ConservationStep
<1>3. IInv => Conservation
  OBVIOUS
<1>. HIDE DEF IInv
<1>. QED  BY <1>1, <1>2, <1>3, PTL DEF TokenSpec

-----------------------------------------------------------------------------
(***************************************************************************)
(* The contract implements the custodian: a customer is any virtual        *)
(* account but the pool's, his claim is his balance, the vault is what the *)
(* contract holds of the real coin.                                        *)
(***************************************************************************)

(* A payment out of the pool lowers no claim but raises the payee's. *)
LEMMA PaidFromPool ==
  ASSUME NEW b, IsTable(b), Phoenix \in DOMAIN b, NEW to \in VAccounts,
         NEW q \in Nat, q <= b[Phoenix]
  PROVE  LET n == _transfer(b, Phoenix, to, q)
         IN  Claims(n) = IF to = Phoenix THEN Claims(b)
                         ELSE [Claims(b) EXCEPT ![to] = @ + q]
<1>. DEFINE n == _transfer(b, Phoenix, to, q)
<1>1. Moved(b, n, Phoenix, to, q)
  BY TransferEffect
<1>. HIDE DEF n
<1>2. CASE to = Phoenix
  BY <1>1, <1>2 DEF Moved, Claims, Customers, n
<1>3. CASE to # Phoenix
  <2>1. /\ get_balance(n, to) = get_balance(b, to) + q
        /\ \A v \in Customers : v # to => get_balance(n, v) = get_balance(b, v)
    BY <1>1, <1>3 DEF Moved, Customers
  <2>. QED  BY <1>3, <2>1 DEF Claims, n
<1>. QED  BY <1>2, <1>3

LEMMA CustodyStep == TokenTypeOK /\ [SomeKind]_tokenVars => [C!Next]_(C!vars)
<1>. SUFFICES ASSUME TokenTypeOK, [SomeKind]_tokenVars PROVE [C!Next]_(C!vars)
  OBVIOUS
<1>. DEFINE Goal == [C!Next]_(C!vars)
<1>0. /\ IsTable(accounts) /\ chain[Self] \in Nat /\ Self \in Accounts
      /\ users \subseteq VAccounts /\ Phoenix \in VAccounts
  BY TokenAssumption DEF TokenTypeOK, IsTable
<1>s. ASSUME Claims(accounts)' = Claims(accounts), UNCHANGED <<chain, granted>> PROVE Goal
  BY <1>s DEF C!vars
<1>1. ASSUME NEW issuer \in Accounts, NEW maximum \in Supplies, create(issuer, maximum)
      PROVE  Goal
  BY <1>s, <1>1 DEF create, Claims, get_balance
<1>2. ASSUME NEW q, Issues(q) PROVE Goal
  <2>0. accounts' = add_balance(accounts, Phoenix, q) /\ q \in Nat
    BY <1>2 DEF Issues
  <2>. DEFINE n == add_balance(accounts, Phoenix, q)
  <2>1. \A v : v # Phoenix => get_balance(n, v) = get_balance(accounts, v)
    BY <1>0, <2>0, AddEffect
  <2>. HIDE DEF n
  <2>2. Claims(n) = Claims(accounts)
    BY <2>1 DEF Claims, Customers
  <2>3. Claims(accounts)' = Claims(n)
    BY <2>0 DEF Claims, get_balance, n
  <2>. QED  BY <1>s, <1>2, <2>2, <2>3 DEF Issues
<1>3. ASSUME NEW from, NEW to, NEW q, MovesCoins(from, to, q) PROVE Goal
  <2>. DEFINE n == _transfer(accounts, from, to, q)
  <2>0. /\ accounts' = n /\ to \in VAccounts /\ from # Phoenix
        /\ UNCHANGED <<chain, granted>>
    BY <1>0, <1>3 DEF MovesCoins
  <2>1. Total(Customers, Claims(n)) <= Total(Customers, Claims(accounts))
    BY <1>0, <1>3, <2>0, TransferClaims DEF MovesCoins
  <2>2. IsTable(n)
    BY <1>0, <1>3, <2>0, TransferEffect DEF MovesCoins, Moved
  <2>. HIDE DEF n
  <2>3. Claims(n) \in [Customers -> Nat]
    BY <2>2, BalancesType
  <2>4. Claims(accounts)' = Claims(n)
    BY <2>0 DEF Claims, get_balance
  <2>5. chain[Self]' = chain[Self]
    BY <2>0
  <2>6. C!Redistribute
    BY <2>0, <2>1, <2>3, <2>4, <2>5, SameTotal DEF C!Redistribute
  <2>. QED  BY <2>6 DEF C!Next
<1>4. ASSUME NEW v, NEW q, PaysOut(v, q) PROVE Goal
  <2>. DEFINE n == _transfer(accounts, v, Phoenix, q)
  <2>0. /\ accounts' = n /\ v \in Customers /\ q \in Nat /\ 0 < q /\ q <= chain[Self]
        /\ chain'[Self] = chain[Self] - q /\ q <= get_balance(accounts, v)
        /\ granted' = granted
    BY <1>0, <1>4 DEF PaysOut, IsTable, Customers, get_balance
  <2>1. Moved(accounts, n, v, Phoenix, q)
    BY <1>0, <1>4, TransferEffect DEF PaysOut
  <2>. HIDE DEF n
  <2>2. /\ get_balance(n, v) = get_balance(accounts, v) - q
        /\ \A c \in Customers : c # v => get_balance(n, c) = get_balance(accounts, c)
    BY <2>0, <2>1 DEF Moved, Customers
  <2>3. Claims(accounts)' = Claims(n)
    BY <2>0 DEF Claims, get_balance
  <2>4. Claims(n) = [Claims(accounts) EXCEPT ![v] = @ - q]
    BY <2>0, <2>2 DEF Claims
  <2>5. q <= Claims(accounts)[v] /\ chain[Self] - chain'[Self] = q
    BY <1>0, <2>0 DEF Claims
  <2>6. chain'[Self] \in Nat /\ chain'[Self] < chain[Self]
    BY <1>0, <2>0
  <2>7. C!Withdraw(v)
    BY <2>0, <2>3, <2>4, <2>5, <2>6 DEF C!Withdraw
  <2>. QED  BY <2>0, <2>7 DEF C!Next
<1>5. ASSUME NEW v, NEW q, PaysIn(v, q) PROVE Goal
  <2>. DEFINE n == _transfer(accounts, Phoenix, v, q)
  <2>0. /\ accounts' = n /\ v \in VAccounts /\ q \in Nat /\ 0 < q
        /\ chain'[Self] = chain[Self] + q /\ granted' = granted
    BY <1>0, <1>5 DEF PaysIn
  <2>1. Claims(n) = IF v = Phoenix THEN Claims(accounts)
                    ELSE [Claims(accounts) EXCEPT ![v] = @ + q]
    BY <1>0, <1>5, <2>0, PaidFromPool DEF PaysIn
  <2>. HIDE DEF n
  <2>2. Claims(accounts)' = Claims(n)
    BY <2>0 DEF Claims, get_balance
  <2>3. /\ chain'[Self] \in Nat /\ chain'[Self] > chain[Self]
        /\ chain'[Self] - chain[Self] = q
    BY <1>0, <2>0
  <2>4. CASE v = Phoenix
    BY <2>0, <2>1, <2>2, <2>3, <2>4 DEF C!Next, C!Donate
  <2>5. CASE v # Phoenix
    <3>1. C!Deposit(v)
      BY <2>0, <2>1, <2>2, <2>3, <2>5 DEF C!Deposit
    <3>. QED  BY <2>0, <2>5, <3>1 DEF C!Next, Customers
  <2>. QED  BY <2>4, <2>5
<1>6. ASSUME NEW q, ComesIn(q) PROVE Goal
  <2>1. Claims(accounts)' = Claims(accounts)
    BY <1>6 DEF ComesIn, Claims, get_balance
  <2>2. chain'[Self] \in Nat /\ chain'[Self] > chain[Self] /\ granted' = granted
    BY <1>0, <1>6 DEF ComesIn
  <2>. QED  BY <2>1, <2>2 DEF C!Next, C!Donate
<1>7. ASSUME NEW owners, Opens(owners) PROVE Goal
  <2>1. Claims(opened(accounts, owners)) = Claims(accounts)
    BY <1>7, OpenTotal DEF Opens
  <2>2. Claims(accounts)' = Claims(opened(accounts, owners))
    BY <1>7 DEF Opens, Claims, get_balance
  <2>. QED  BY <1>s, <1>7, <2>1, <2>2 DEF Opens
<1>8. ASSUME NEW to, NEW q, HandsOut(to, q) PROVE Goal
  <2>. DEFINE n == _transfer(accounts, Phoenix, to, q)
  <2>0. /\ accounts' = n /\ to \in Customers /\ q \in Nat /\ 0 < q
        /\ granted' = granted + q /\ chain' = chain
    BY <1>0, <1>8 DEF HandsOut, Customers
  <2>1. Claims(n) = [Claims(accounts) EXCEPT ![to] = @ + q]
    BY <1>0, <1>8, <2>0, PaidFromPool DEF HandsOut
  <2>. HIDE DEF n
  <2>2. Claims(accounts)' = Claims(n)
    BY <2>0 DEF Claims, get_balance
  <2>3. granted' \in Nat /\ granted' > granted /\ granted' - granted = q
    BY <2>0 DEF TokenTypeOK
  <2>4. chain[Self]' = chain[Self]
    BY <2>0
  <2>5. C!Grant(to)
    BY <2>1, <2>2, <2>3, <2>4 DEF C!Grant
  <2>. QED  BY <2>0, <2>5 DEF C!Next
<1>9. ASSUME UNCHANGED tokenVars PROVE Goal
  BY <1>s, <1>9 DEF tokenVars, Claims, get_balance
<1>. HIDE DEF Goal
<1>10. Goal
  BY <1>1, <1>2, <1>3, <1>4, <1>5, <1>6, <1>7, <1>8, <1>9 DEF SomeKind
<1>. QED  BY <1>10 DEF Goal

LEMMA CustodyInit == TokenInit => C!Init
BY TokenAssumption DEF TokenInit, C!Init, Claims, get_balance

(***************************************************************************)
(* Every transaction of the contract is one the custodian may make, or     *)
(* leaves him alone; the operators' transfer out of the pool, and nothing  *)
(* else, is one of his grants.                                             *)
(***************************************************************************)
THEOREM ImplementsCustodian == TokenSpec => ImplementsCustody
<1>1. TokenTypeOK /\ [TokenNext]_tokenVars => [C!Next]_(C!vars)
  BY StepKinds, CustodyStep
<1>. QED  BY <1>1, CustodyInit, TokenTypeCorrect, PTL DEF TokenSpec, ImplementsCustody, C!Spec

(* What is proved of the custodian, carried over by the refinement. *)

(* A contract that implements the custodian is as solvent as he is. *)
LEMMA SolventByRefinement == ImplementsCustody => []Solvent
<1>0. IsFiniteSet(Customers)
  BY RowsFinite
<1>1. C!Init => CP!TypeOK /\ CP!Solvent
  <2>1. CP!Init => CP!TypeOK /\ CP!Solvent
    BY <1>0, CP!InitSafe DEF CP!IsFiniteSet, IsFiniteSet
  <2>. QED  BY <2>1 DEF C!Init, CP!Init
<1>2. CP!TypeOK /\ CP!Solvent /\ [C!Next]_(C!vars) => (CP!TypeOK /\ CP!Solvent)'
  <2>1. CP!TypeOK /\ CP!Solvent /\ [CP!Next]_(CP!vars) => (CP!TypeOK /\ CP!Solvent)'
    BY <1>0, CP!TypeStep, CP!SolventStep DEF CP!IsFiniteSet, IsFiniteSet
  <2>2. [C!Next]_(C!vars) => [CP!Next]_(CP!vars)
    BY CPTotal, SameTotal DEF C!Next, CP!Next, C!vars, CP!vars, C!Deposit, CP!Deposit,
           C!Withdraw, CP!Withdraw, C!Grant, CP!Grant, C!Donate, CP!Donate, C!Redistribute, CP!Redistribute
  <2>. QED  BY <2>1, <2>2
<1>3. CP!Solvent => Solvent
  BY CPTotal DEF CP!Solvent, Solvent
<1>. QED  BY <1>1, <1>2, <1>3, PTL DEF ImplementsCustody, C!Spec

(***************************************************************************)
(* Whatever customers deposit, pay each other and withdraw: what they may  *)
(* withdraw together is covered by the real coins held and those the       *)
(* operators moved out of the pool without a deposit.                      *)
(***************************************************************************)
THEOREM SolventButForGrants == TokenSpec => []Solvent
BY ImplementsCustodian, SolventByRefinement, PTL
=============================================================================

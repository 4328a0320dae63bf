CONSTANTS
  phx = phx
  fee = fee
  ann = ann
  ben = ben
  self = self
  group = group
  stake = stake
  alice = alice
  VAccounts <- MCVAccounts
  Phoenix = phx
  Fees = fee
  KeyHolders <- MCKeyHolders
  Accounts <- MCAccounts
  Self = self
  PhoenixGroup = group
  Stake = stake
  Endowment <- MCEndowment
  Supplies <- MCSupplies
  Amounts <- MCAmounts
  MaxGranted = 2
SPECIFICATION TokenSpec
INVARIANTS
  TokenTypeOK
  BalanceRowPerUser
  Conservation
  Solvent
PROPERTY ImplementsCustody

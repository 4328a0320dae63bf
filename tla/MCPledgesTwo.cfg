CONSTANTS
  phx = phx
  fee = fee
  ann = ann
  ben = ben
  self = self
  group = group
  stake = stake
  alice = alice
  nobody = nobody
  VAccounts <- MCVAccounts
  Phoenix = phx
  Fees = fee
  KeyHolders <- TwoPatrons
  Accounts <- MCAccounts
  Self = self
  PhoenixGroup = group
  Stake = stake
  Endowment <- TwoCoins
  Supplies <- MCSupplies
  Amounts <- Two
  MaxGranted = 0
  Cycle = 1
  FeeShare = 2
  Terms <- CheapOffers
  Nobody = nobody
  MaxPledges = 2
SPECIFICATION PledgesSpec
INVARIANTS
  RelationsMirrorPledges
  CallsWhenCycleOver
PROPERTY ChargedOncePerCycle

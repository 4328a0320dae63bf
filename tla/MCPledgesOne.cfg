CONSTANTS
  phx = phx
  fee = fee
  ann = ann
  ben = ben
  self = self
  group = group
  stake = stake
  alice = alice
  nobody = nobody
  VAccounts <- MCVAccounts
  Phoenix = phx
  Fees = fee
  KeyHolders <- OnePatron
  Accounts <- MCAccounts
  Self = self
  PhoenixGroup = group
  Stake = stake
  Endowment <- FourCoins
  Supplies <- MCSupplies
  Amounts <- Two
  MaxGranted = 2
  Cycle = 1
  FeeShare = 2
  Terms <- AllOffers
  Nobody = nobody
  MaxPledges = 1
SPECIFICATION PledgesFairSpec
INVARIANTS
  PledgesTypeOK
  PaidMeansCharged
PROPERTIES
  ChargedAsSigned
  ImplementsCustody
  KeepsRenewing

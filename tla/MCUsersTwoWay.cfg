CONSTANTS
  phx = phx
  fee = fee
  ann = ann
  ben = ben
  self = self
  group = group
  stake = stake
  amy = amy
  eve = eve
  bob = bob
  k1 = k1
  k2 = k2
  k3 = k3
  k4 = k4
  nokey = nokey
  none = none
  VAccounts <- MCVAccounts
  Phoenix = phx
  Fees = fee
  KeyHolders <- Patrons
  Accounts <- MCAccounts
  Self = self
  PhoenixGroup = group
  Stake = stake
  Endowment <- Nothing
  Supplies <- One
  Amounts <- One
  MaxGranted = 1
  Emails <- People
  NameOf <- Names
  KeysOf <- Keys
  NoKey = nokey
  None = none
  Urls = {u1, u2}
  FreeNames = {}
  MaxPerDay = 2
  MaxDay = 1
SPECIFICATION UsersSpec
INVARIANT TwoWayBinding

CONSTANTS
  a = a
  b = b
  c = c
  Entries <- MCEntries
  Shards = {1, 2}
  Buckets = {1, 2}
  Home <- MCHome
  MaxRevision = 2
  MaxBackups = 2
SYMMETRY Symmetry
SPECIFICATION VramSpec
INVARIANTS
  VramTypeOK
  LookupIsExact
  AvailableKeyIsFree
  OthersSeeNothingOld
PROPERTY ImplementsRows

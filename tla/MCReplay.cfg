CONSTANTS
  LIMIT = 5
  CHUNK = 3
  Blank = {2}
  MaxHistory = 7
SPECIFICATION ReplayFairSpec
INVARIANTS
  ReplayTypeOK
  NothingSkipped
  RepeatedOnlyIfGrown
  FewAtATime
PROPERTY Ends
CHECK_DEADLOCK FALSE

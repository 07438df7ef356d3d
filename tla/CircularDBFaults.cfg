SPECIFICATION FairAnySpec
CONSTANTS
  NumRows = 3
  TLimit = 2
  MaxTime = 3
  MaxId = 4
INVARIANTS
  RangeBounded
PROPERTIES
  RecoveryEnds
CHECK_DEADLOCK FALSE

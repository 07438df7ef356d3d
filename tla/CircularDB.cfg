SPECIFICATION Spec
CONSTANTS
  NumRows = 3
  TLimit = 3
  MaxTime = 8
  MaxId = 8
INVARIANTS
  SlotsHoldTheirRows
  RingInv
PROPERTIES
  RecoveryKeepsRows
  ImplementsRowLog
CHECK_DEADLOCK FALSE

SPECIFICATION FairSpec
CONSTANTS
  MaxBatch = 2
  Extra = 1
  MaxConn = 2
  Setups <- MCSetups
INVARIANTS RangesRight StoredNearOwnId OneQueryPerGreeting NoIdForgotten
PROPERTIES SyncFills
CHECK_DEADLOCK FALSE

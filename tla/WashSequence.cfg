SPECIFICATION FairSpec
CONSTANTS
  MaxRequests = 2
  MaxRestarts = 1
INVARIANTS
  SequenceFollowsSignal
  PumpHasPath
PROPERTIES
  WashEnds
  PumpStops
CHECK_DEADLOCK FALSE

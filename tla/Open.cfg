SPECIFICATION Spec
CONSTANTS
  Setups <- MCSetups
  MaxRetries = 2
  MaxForks = 1
CHECK_DEADLOCK FALSE
INVARIANTS AllUsed OnTheStream NothingLost RightsLast RightsGivenUp

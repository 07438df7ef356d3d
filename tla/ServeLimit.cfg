SPECIFICATION LeavingSpec
CONSTANTS
  Setups <- LimitSetups
  MaxItems = 3
  MaxKids = 3
PROPERTIES KeepsListening
CHECK_DEADLOCK FALSE

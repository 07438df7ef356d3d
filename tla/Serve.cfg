SPECIFICATION Spec
CONSTANTS
  Setups <- MCSetups
  MaxItems = 3
  MaxKids = 3
INVARIANTS CountIsRight OwnPacket
PROPERTIES ServesOn
CHECK_DEADLOCK FALSE

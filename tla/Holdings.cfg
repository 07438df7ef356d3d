SPECIFICATION MCSpec
CONSTANTS
  a = a
  b = b
  k = k
  L = L
  N = N
  Q = Q
  None = None
  Masters <- MCMasters
  Kids <- MCKids
  Setups <- MCSetups
INVARIANTS
  OneHolder
  LeavesNothing
PROPERTIES
  OnlyItsOwn
  WaitEnds
CHECK_DEADLOCK FALSE

SPECIFICATION Spec
CONSTANTS
  Setups <- MCSetups
  MaxBytes = 2
  BufSize = 2
  Intervals = 1
INVARIANTS NothingLeftBehind
PROPERTIES PassesEofLast EofEnds InactivityEnds FollowsFirst
CHECK_DEADLOCK FALSE

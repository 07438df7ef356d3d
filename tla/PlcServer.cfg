SPECIFICATION Spec
CONSTANTS
  c1 = c1
  c2 = c2
  None = None
  Conns <- MCConns
  Setups <- MCSetups
  Limit = 2
  MaxRetries = 2
  MaxErrors = 2
INVARIANTS OperatorsKnow
PROPERTIES NobodyWaits SmsEnds
CHECK_DEADLOCK FALSE

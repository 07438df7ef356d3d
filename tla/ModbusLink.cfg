SPECIFICATION Spec
CONSTANTS
  Setups <- MCSetups
  Conns <- MCConns
  MaxDevices = 2
  Timeout = 2
  ReadBuffer = 64
  OutputCount = 2
  InputCount = 2
  RegisterCount = 1
INVARIANTS NoPhantom InputsAreReal
PROPERTIES Recovers RelaysFollow
CHECK_DEADLOCK FALSE

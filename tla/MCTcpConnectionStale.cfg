CONSTANTS
  Connections = {c1, c2}
  Nobody = Nobody
SPECIFICATION SafeSpec
INVARIANTS
  SocketIsValid
CHECK_DEADLOCK FALSE

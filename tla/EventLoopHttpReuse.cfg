SPECIFICATION Spec
CONSTANTS
  FD = {0, 1, 2}
  EchoListeners = {}
  HttpListeners = {0}
  MaxConn = 0
  MaxConnects = 2
CHECK_DEADLOCK FALSE
INVARIANTS
  ClosedAppearsUnset

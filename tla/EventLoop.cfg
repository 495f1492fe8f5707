SPECIFICATION Spec
CONSTANTS
  FD = {0, 1, 2, 3}
  EchoListeners = {0}
  HttpListeners = {1}
  MaxConn = 1
  MaxConnects = 3
CHECK_DEADLOCK FALSE
INVARIANTS
  NoStaleEvent
  ConnsAccounted
  ReusedAppearsUnset
  ListFits
PROPERTIES
  NoneForgotten
  AcceptProgress

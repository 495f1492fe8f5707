SPECIFICATION Spec
CONSTANTS
  k1 = k1
  k2 = k2
  k3 = k3
  k4 = k4
  Key = {k1, k2, k3, k4}
  HashOf <- MCHash
  InitSize = 2
  NoItem = NoItem
  Conn = {c1}
  Nobody = Nobody
  MaxVlen = 1
  MaxData = 2
  MC_BUFFER_SIZE = 5
  Behind <- MCBehind
  MaxFlight = 5
  Requests <- MCRequests
  Before <- MCBefore
  Bytes = {"x", "y"}
INVARIANT DataIsRead
CHECK_DEADLOCK FALSE

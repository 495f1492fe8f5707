SPECIFICATION PartsSpec
CONSTANTS
  FD = {lfd}
  Listener = lfd
  Worker = {w1, w2, w3}
  MaxConnects = 4
  Sig = {SIGINT, SIGTERM, SIGHUP}
  StopSig = {SIGINT, SIGTERM}
  MAX_SIGNAL = 3
  MaxRaise = 4
  r1 = r1
  r2 = r2
  Router <- Routers
  Interfaces <- RouterIps
  PortOf <- RouterPort
  Rules <- RuleTables
  Outgoing <- Datagrams
  Stray <- StrayBytes
  max_packet = 40
  R_BUFF_SIZE = 40
  MaxSends = 2
  MaxCopies = 1
CHECK_DEADLOCK FALSE
INVARIANTS
  LastListens
  QueueSound
  OnlyRacedLost
  AckAnswersDelivery
  RefusedForCause
PROPERTIES
  AcceptProgress
  SignalsHandled
  Settles

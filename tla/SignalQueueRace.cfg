SPECIFICATION Spec
CONSTANTS
  Sig = {SIGINT, SIGTERM, SIGHUP}
  StopSig = {SIGINT, SIGTERM}
  MAX_SIGNAL = 3
  MaxRaise = 4
CHECK_DEADLOCK FALSE
INVARIANTS
  AllQueued

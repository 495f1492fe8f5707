SPECIFICATION Spec
CONSTANTS
  N = 8
  Task = {k1, k2}
  Timeouts = {1, 2}
  MaxAdvance = 1
  MAX_DELAY_MS = 2
  MAX_RUN = 1
INVARIANTS
  KeyMinorant
  NoLostTimer
  WakeComplete
PROPERTIES
  ExpiredRuns

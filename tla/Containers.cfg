SPECIFICATION PartsSpec
CONSTANTS
  Node = {x1, x2, x3, x4, x5}
  ROOT = ROOT
  NIL = NIL
  KeyBits = 3
  Expiry = {2, 3, 6}
  Elem = {x1, x2, x3, x4, x5}
  Keys <- MCKeys
  HashFcns <- MCHashFcns
  HASH_INITIAL_NUM_BUCKETS_LOG2 = 0
  HASH_BKT_CAPACITY_THRESH = 2
  NoElem = NoElem
  MaxLog2 = 4
  MaxId = 2
SYMMETRY Interchangeable
VIEW LiveFields
CHECK_DEADLOCK FALSE
INVARIANTS
  LookupsAgree
  WalksAgree
  Fsck
  FindsAll
  ChainsBounded
PROPERTY ImplementsQueue

SPECIFICATION Spec
CONSTANTS
  FD = {f1, f2, f3}
  Account = {a1}
  Topic = {t1}
  OutCap = 4
  PlainLen = {1}
  HttpLen = {1, 4}
  Kinds = {"psub", "http"}
  MaxConn = 2
  MaxLogins = 1
  MaxEvents = 1
  MaxAccepts = 3
SYMMETRY Names
INVARIANTS
  TrickDetectsClosed
  PublishPrunes
  NoInheritedLogin
PROPERTIES
  SubscribersServed

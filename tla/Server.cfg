CONSTANTS
  Sessions = {s1, s2}
  Sockets = {1, 2, 3}
  NoSession = NoSession
  MaxData = 2
  QueueLen = 1
SPECIFICATION RunSpec
INVARIANTS TypeOK OnePlace OneSocket
PROPERTIES OnWriteReturns ConnectionsAccepted DataReceived
CHECK_DEADLOCK FALSE

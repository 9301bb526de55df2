CONSTANTS
  Sessions = {s1, s2}
  Sockets = {1, 2, 3}
  NoSession = NoSession
  MaxData = 2
  QueueLen = 1
SPECIFICATION Spec
INVARIANT AddsInitialised
CHECK_DEADLOCK FALSE

CONSTANTS
  Size = 4
  W = 8
  LenCovers = "frame"
  Lengths = {1, 3, 4, 5}
  MaxFrames = 3
  QueueLen = 2
  Messages = {m1, m2}
  Nothing = Nothing
  Sizes = {0, 2, 5}
  BufSize = 16
SPECIFICATION FairSessionSpec
INVARIANTS SessionTypeOK NoLostWakeup
PROPERTIES SendServed ReadsServed
CHECK_DEADLOCK FALSE

CONSTANTS
  Size = 16
  W = 64
  LenCovers = "frame"
  Lengths = {1, 3, 5, 16, 17}
  MaxFrames = 4
  QueueLen = 2
SPECIFICATION FairSpec
INVARIANTS TypeOK Aligned LengthsIntact StoppedByLength
PROPERTY OnReadReturns
CHECK_DEADLOCK FALSE

CONSTANTS
  Size = 16
  W = 64
  LenCovers = "frame"
  Lengths = {3, 5, 16}
  MaxFrames = 4
  QueueLen = 2
SPECIFICATION Spec
INVARIANT InsideArray
CHECK_DEADLOCK FALSE

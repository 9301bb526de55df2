CONSTANTS
  Size = 4
  W = 8
  Bytes = {b0, b1}
  Garbage = Garbage
  MaxLen = 2
SPECIFICATION Spec
INVARIANTS TypeOK NoByteRace StagedStays
PROPERTY ImplementsFifo

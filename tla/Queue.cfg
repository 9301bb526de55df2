CONSTANTS
  N = 4
  W = 8
  Entries = {m1, m2}
  Nothing = Nothing
  ProgramOrder = TRUE
SPECIFICATION FairSpec
INVARIANTS TypeOK NoPhantom NoSlotRace
PROPERTIES ImplementsQueue ImplementsFairQueue

CONSTANTS
  N = 4
  W = 8
  Entries = {m1, m2}
  Nothing = Nothing
  ProgramOrder = TRUE
SPECIFICATION RawSpec
INVARIANT NoPhantom

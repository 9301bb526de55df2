\* Two rounds on halves of one bit, all round functions, two keys.
SPECIFICATION Spec
CONSTANTS
  Bits = {1}
  Rounds = 2
  Keys = {k1, k2}
  Key = k1
  Lens = {5, 8, 9, 16}
  MaxBlocks = 2
INVARIANTS
  TypeOK
  WithinBuffer
  RoundTrip
  InStep

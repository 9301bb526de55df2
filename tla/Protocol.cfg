SPECIFICATION Spec
CONSTANTS
  BUFFER_SIZE = 8
  W = 2
  MAX_XOR_NUM = 2
  MaxFrames = 3
  Rooms = {6, 9, 12, 13}
  XorKeys <- RunXorKeys
  SessionKeys <- RunSessionKeys
  Payloads <- RunPayloads
  Damages <- RunDamages
  Ids <- RunIds
  Values <- RunValues
INVARIANTS TypeOK InOrder NextPasses PeerReadsMessage WithinRoom

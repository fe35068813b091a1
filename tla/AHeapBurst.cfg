CONSTANTS
  a = a
  b = b
  c = c
  d = d
  e = e
  NoKey = NoKey
  Flow = {a, b, c, d, e}
  MinBucketNum = 1
  Hash <- MCHash
  Word = 256
  MaxPackets = 8
  EIGHT = 3
SPECIFICATION BurstSpec
INVARIANTS
  BurstTypeOK
  NoFalseBurst
  BackToBackFound
PROPERTIES
  BurstImplementsCounter
SYMMETRY MCSymmetry
CHECK_DEADLOCK FALSE

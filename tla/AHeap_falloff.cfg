CONSTANTS
  a = a
  b = b
  c = c
  d = d
  e = e
  NoKey = NoKey
  Flow = {a, b, c, d, e}
  MinBucketNum = 1
  Hash <- MCHash
  Word = 64
  MaxPackets = 7
  aging = 0
  Byte = 4
  OtherBuilds = {}
  TestGone = FALSE
SPECIFICATION Spec
PROPERTIES
  LossNeedsFullPath
SYMMETRY MCSymmetry
CHECK_DEADLOCK FALSE

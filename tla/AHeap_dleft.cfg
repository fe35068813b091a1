CONSTANTS
  a = a
  b = b
  c = c
  d = d
  e = e
  NoKey = NoKey
  Flow = {a, b, c, d, e}
  MinBucketNum = 1
  Hash <- MCHash
  Word = 64
  MaxPackets = 8
  aging = 0
  Byte = 256
  OtherBuilds = {}
  TestGone = FALSE
SPECIFICATION Spec
INVARIANTS
  TypeOK
  OnPath
  NeverOverestimates
  MergeMatchesPath
  StampsTruthful
  LatestVisible
  FillOrder
PROPERTIES
  LossNeedsFullPath
  ElephantsKept
  ImplementsCounter
SYMMETRY MCSymmetry
CHECK_DEADLOCK FALSE

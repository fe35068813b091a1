CONSTANTS
  a = a
  b = b
  c = c
  d = d
  e = e
  NoKey = NoKey
  Flow = {a, b, c, d, e}
  MinBucketNum = 1
  Hash <- MCHash
  Word = 64
  MaxPackets = 7
  time_thre = 3
  counter_thre = 1
SPECIFICATION KVSpec
INVARIANTS
  TypeOK
  StampsTruthful
  LatestVisible
  LeafIsLatest
PROPERTIES
  StampsNeverGoBack
  KVImplementsCounter
SYMMETRY MCSymmetry
CHECK_DEADLOCK FALSE

CONSTANTS
  a = a
  b = b
  c = c
  d = d
  e = e
  NoKey = NoKey
  Flow = {a, b}
  MinBucketNum = 1
  Hash <- MCHash
  Word = 256
  MaxPackets = 9
  EIGHT = 8
SPECIFICATION BurstSpec
PROPERTIES
  FoundWhenReached
CHECK_DEADLOCK FALSE

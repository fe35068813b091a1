SPECIFICATION Spec
CONSTANTS
  Flow <- MCFlow
  NoKey = NoKey
  MinBucketNum = 1
  Hash <- MCHash
  Cacheid <- MCCacheid
  FullKey <- MCFullKey
  full_key <- MCfull_key
  real_key <- MCreal_key
  seg <- MCseg
  Byte = 256
  Mistaken = {}
  TestGone = FALSE
  ONE = 0
  TWO = 32
  THREE = 64
  Route <- MCRoute
  Target <- MCTarget
  BlackholeAt = 1
  FirstPoint = 1
  TESTPOINT = 2
  Recent = 1
  limit_ = 3
  MaxTime = 3
  MaxPackets = 4
INVARIANTS
  NetTypeOK
  SkewBounded
  AlarmsExact
CHECK_DEADLOCK FALSE

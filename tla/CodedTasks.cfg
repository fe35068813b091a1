SPECIFICATION Spec
CONSTANTS
  Flow <- MCFlow
  NoKey = NoKey
  MinBucketNum = 1
  Hash <- MCHash
  Cacheid <- MCCacheid
  FullKey <- MCFullKey
  full_key <- MCfull_key
  real_key <- MCreal_key
  seg <- MCseg
  Byte = 2
  Mistaken = {1}
  TestGone = FALSE
  Sent <- MCSent
  srcIP <- MCsrcIP
  dstIP <- MCdstIP
  thre = 2
  MaxPackets = 6
INVARIANTS
  LockStep
  DecodeExact
  ReportsTrue
CHECK_DEADLOCK FALSE

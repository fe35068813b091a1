SPECIFICATION Spec
CONSTANTS
  a = a
  b = b
  d = d
  Flow = {a, b, d}
  NoKey = NoKey
  Torn = Torn
  MinBucketNum = 2
  Hash <- MCHash
  Cpu = {p, q}
  MaxPackets = 5
  Alone = 3
SYMMETRY MCSymmetry
INVARIANTS
  OVSTypeOK
  KeysReadable
  OVSOnPath
  RaceConfined
CHECK_DEADLOCK FALSE

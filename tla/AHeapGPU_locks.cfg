CONSTANTS
  a = a
  b = b
  c = c
  d = d
  e = e
  NoKey = NoKey
  Flow = {a}
  Hash <- MCLastHash
  Packets = 1
  Traces <- MCOneTrace
  FIRST_LAYER_BUCKET = 16384
  LAST_LAYER_BUCKET = 512
  Age = 10000
  Retries = 40
SPECIFICATION Spec
INVARIANTS
  LocksInArray
CHECK_DEADLOCK FALSE

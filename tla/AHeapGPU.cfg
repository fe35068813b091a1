CONSTANTS
  a = a
  b = b
  c = c
  d = d
  e = e
  NoKey = NoKey
  Flow = {a, b, c, d, e}
  Hash <- MCHash
  Packets = 4
  Traces <- MCTraces
  FIRST_LAYER_BUCKET = 16
  LAST_LAYER_BUCKET = 2
  Age = 1
  Retries = 2
SPECIFICATION Spec
INVARIANTS
  GPUTypeOK
  Exclusive
PROPERTIES
  HeavyOrFreshStays
  StampsMonotone
  FirstComeKept
  GPUImplementsCounter
  Quiesces
CHECK_DEADLOCK FALSE

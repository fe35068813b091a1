CONSTANTS
  a = a
  b = b
  c = c
  d = d
  e = e
  NoKey = NoKey
  Flow = {a, b, c, d, e}
  MinBucketNum = 1
  Hash <- MCHash
  Word = 64
  MaxPackets = 15
  time_thre = 5
  counter_thre = 1
  w_iblt <- MCw_iblt
  bf_hash <- MCbf_hash
  iblt_hash <- MCiblt_hash
  srcIP <- MCsrcIP
  dstIP <- MCdstIP
  thre = 2
  gap = 1
  tuples <- MCtuples
SPECIFICATION WindowSpec
INVARIANTS
  WindowReports
  RadarDump
  RadarWindows
CHECK_DEADLOCK FALSE

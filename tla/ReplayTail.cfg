SPECIFICATION FairSpec
CONSTANTS
  w1 = w1
  w2 = w2
  lv = lv
  rp = rp
  s1 = s1
  s2 = s2
  ia = ia
  ib = ib
  ic = ic
  iid = iid
  m = m
  Stream = {s1, s2}
  Writer = {w1, w2}
  NoOne = NoOne
  Batch <- MCBatch
  MaxSeq = 3
  MaxAborts = 1
  Live = {lv}
  Replayer = {rp}
  Limit = 2
  Interval = 2
  NoPosition = NoPosition
  MaxCrashes = 1
  MaxReplays = 1
CHECK_DEADLOCK FALSE
INVARIANT
  NothingPassed
PROPERTIES
  PgImplementsEventLog
  EventuallyRead

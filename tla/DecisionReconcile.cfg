SPECIFICATION Spec
CONSTANTS
  r1 = r1
  r2 = r2
  k1 = k1
  k2 = k2
  k3 = k3
  Runner = {r1, r2}
  NTriggers = 1
  Key = {k1, k2}
  ParkKey = park
  NoRecord = NoRecord
  Batches <- MCBatches
  NoOp = {}
  Doomed = {1}
  AtCeiling = {}
  OccKeys = {}
  Silent = {}
  SealEmpty = TRUE
  Canonical = TRUE
  MaxInFlight = 1
  MaxAttempts = 2
  MaxWaits = 1
  MaxFaults = 0
  MaxCrashes = 2
  MaxRewinds = 1
SYMMETRY MCSymmetry
CHECK_DEADLOCK FALSE
INVARIANTS
  NoLyingRecord

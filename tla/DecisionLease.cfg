SPECIFICATION FairSpec
CONSTANTS
  r1 = r1
  r2 = r2
  k1 = k1
  k2 = k2
  k3 = k3
  Runner = {r1}
  NTriggers = 2
  Key = {k1, k2, k3}
  ParkKey = park
  NoRecord = NoRecord
  Batches <- MCBatchesOcc
  NoOp = {2}
  Doomed = {1, 2}
  AtCeiling = {}
  OccKeys = {k3}
  Silent = {}
  SealEmpty = FALSE
  Canonical = TRUE
  MaxInFlight = 1
  MaxAttempts = 2
  MaxWaits = 1
  MaxFaults = 1
  MaxCrashes = 1
  MaxRewinds = 0
CHECK_DEADLOCK FALSE
PROPERTIES
  EventuallyRetired
  SealedBecomesWhole

SPECIFICATION FairSpec
CONSTANTS
  k1 = k1
  k2 = k2
  w1 = w1
  w2 = w2
  p1 = p1
  p2 = p2
  MaxLog = 3
  Triggers = {1, 2, 3}
  PartOf <- TwoPartitions
  WfOf <- TwoWorkflows
  Cancels <- NoCancels
  Partition = {k1, k2}
  Workflow = {w1, w2}
  NoWf = NoWf
  Prober = {}
  Supervisor = sup
  HasStore = TRUE
  MaxPending = 2
  Batch = 2
  MaxCrashes = 1
  MaxFaults = 1
  MaxDeaths = 0
CHECK_DEADLOCK FALSE
INVARIANTS
  FloorSafe
  PersistedIsDurable
  PartitionOrder
  NothingStranded
PROPERTIES
  MemoOutlivesRedelivery
  EventuallyCaughtUp

SPECIFICATION Spec
CONSTANTS
  k1 = k1
  k2 = k2
  w1 = w1
  w2 = w2
  p1 = p1
  p2 = p2
  MaxLog = 3
  Triggers = {1, 3}
  PartOf <- AroundCancel
  WfOf <- OneWorkflow
  Cancels <- CancelAt2
  Partition = {k1, k2}
  Workflow = {w1, w2}
  NoWf = NoWf
  Prober = {p1}
  Supervisor = sup
  HasStore = FALSE
  MaxPending = 2
  Batch = 2
  MaxCrashes = 0
  MaxFaults = 0
  MaxDeaths = 1
CHECK_DEADLOCK FALSE
INVARIANTS
  DrainedSound
PROPERTIES
  ImplementsAtLeastOnce

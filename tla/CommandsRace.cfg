SPECIFICATION Spec
CONSTANTS
  s1 = s1
  s2 = s2
  a1 = a1
  e1 = e1
  e2 = e2
  q1 = q1
  f = f
  g = g
  h = h
  Stream = {s1, s2}
  Home = s1
  Commander = {a1}
  Emitter = {e1, e2}
  Reader = {q1}
  Plan <- MCPlan
  Supplied = {e2}
  Folds = {f}
  OccKinds = {h}
  SnapEvery = 1
  Threads = FALSE
  None = None
  MaxOcc = 2
  MaxCalls <- MCCalls
  MaxFaults = 1
CHECK_DEADLOCK FALSE
INVARIANTS
  DecidedOnTail
  CommandOnce
  LandsByRuns
  FoldsArePrefixes
  RepairConverges
PROPERTIES
  ImplementsEventLog

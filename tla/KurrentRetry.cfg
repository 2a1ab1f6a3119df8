SPECIFICATION Spec
CONSTANTS
  c1 = c1
  c2 = c2
  ia = ia
  ib = ib
  iid = iid
  m = m
  n = n
  Caller = {c1, c2}
  Batch <- MCBatch
  AnyHead = any
  NoBatch = NoBatch
  Other = other
  HasRegistry = TRUE
  Window = 3
  Attempts = 2
  MaxLog = 7
  MaxCalls = 3
  MaxFaults = 2
SYMMETRY MCSymmetry
CHECK_DEADLOCK FALSE
INVARIANTS
  AnsweredNeverRepeated
  DuplicatesAreFar
PROPERTY
  AnswersAreTrue

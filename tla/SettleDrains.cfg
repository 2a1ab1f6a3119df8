SPECIFICATION Spec
CONSTANTS
  ra = ra
  rb = rb
  pj = pj
  w1 = w1
  w2 = w2
  w3 = w3
  a = a
  b = b
  z = z
  c1 = c1
  c2 = c2
  c3 = c3
  Reactor = {ra, rb}
  Projector = {pj}
  Order <- BackToFront
  Workflow = {w1, w2}
  Kind = {a, b, z}
  NoKind = NoKind
  Consumes <- Chain
  Produces <- ShortChain
  Caller = {c1, c2}
  Plan <- TwoWorkflows
  Stuck = {}
  Broken = {}
  Window = 2
  Cap = 2
  Wedge = 2
  MaxBlips = 1
  MaxLog = 4
CHECK_DEADLOCK FALSE
INVARIANTS
  SettledMeansDrained
  MarkCoversAcked

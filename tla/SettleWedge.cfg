SPECIFICATION FairSpec
CONSTANTS
  ra = ra
  rb = rb
  pj = pj
  w1 = w1
  w2 = w2
  w3 = w3
  a = a
  b = b
  z = z
  c1 = c1
  c2 = c2
  c3 = c3
  Reactor = {ra}
  Projector = {pj}
  Order <- ReactorFirst
  Workflow = {w1, w2, w3}
  Kind = {a, b, z}
  NoKind = NoKind
  Consumes <- JustA
  Produces <- AtoB
  Caller = {c1, c2, c3}
  Plan <- OneWaits
  Stuck <- StuckElsewhere
  Broken = {pj}
  Window = 2
  Cap = 1
  Wedge = 2
  MaxBlips = 0
  MaxLog = 5
CHECK_DEADLOCK FALSE
PROPERTIES
  EvictionSparesSettling
  SettleReturns

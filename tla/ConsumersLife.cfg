SPECIFICATION FairSpec
CONSTANTS
  x = x
  y = y
  p = p
  q = q
  r = r
  s = s
  t = t
  u = u
  Engine = {x}
  Projector = {p, q}
  Reactor = {r, s}
  Casts <- MCCasts
  DependsOn <- MCDependsOn
  StartAt <- MCStartAt
  MaxAttempts = 2
  Flaky = {"fact"}
  Texts <- MCTexts
  Batch = 2
  None = None
  MaxEvents = 2
  MaxFaults = 1
  MaxLost = 0
  MaxCrashes = 1
  MaxRestores = 1
CHECK_DEADLOCK FALSE
INVARIANTS
  FenceCoversCursor
  NothingSkipped
  StateIsPrefix
PROPERTY
  EventuallyCaughtUp

SPECIFICATION Spec
CONSTANTS
  x = x
  y = y
  p = p
  q = q
  r = r
  s = s
  t = t
  u = u
  Engine = {x, y}
  Projector = {}
  Reactor = {r}
  Casts <- StandbyCasts
  DependsOn <- MCDependsOn
  StartAt <- MCStartAt
  MaxAttempts = 2
  Flaky = {}
  Texts <- MCTexts
  Batch = 2
  None = None
  MaxEvents = 2
  MaxFaults = 0
  MaxLost = 0
  MaxCrashes = 1
  MaxRestores = 0
CHECK_DEADLOCK FALSE
INVARIANT
  FenceCoversCursor

SPECIFICATION Spec
CONSTANTS
  p2 = p2
  q2 = q2
  i1 = i1
  i2 = i2
  NoRow = NoRow
  Host <- HostOf
  Domain = {d1}
  Hooks = {}
  Direct = {}
  Instances = {i1, i2}
  Passes = {p1, p2}
  Processors = {q1}
  Replayers = {r1, r2}
  BatchSize = 2
  MaxAttempts = 2
  SlowWorkers = TRUE
  Faults = TRUE
  MaxCrashes = 0
INVARIANTS TypeOK NeverLost QueuedIsUndelivered DeliveredWasHandled
PROPERTIES ImplementsAtLeastOnce
CHECK_DEADLOCK FALSE

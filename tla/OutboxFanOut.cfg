SPECIFICATION Spec
CONSTANTS
  p2 = p2
  q2 = q2
  i1 = i1
  i2 = i2
  NoRow = NoRow
  Host <- HostOf
  Domain = {d1}
  Hooks = {h1}
  Direct = {}
  Instances = {i1, i2}
  Passes = {p2}
  Processors = {}
  Replayers = {}
  BatchSize = 2
  MaxAttempts = 2
  SlowWorkers = FALSE
  Faults = TRUE
  MaxCrashes = 0
INVARIANTS DeliveredIsFannedOut
CHECK_DEADLOCK FALSE

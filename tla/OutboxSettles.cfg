SPECIFICATION FairSpec
CONSTANTS
  p2 = p2
  q2 = q2
  i1 = i1
  i2 = i2
  NoRow = NoRow
  Host <- HostOf
  Domain = {}
  Hooks = {h1, h2}
  Direct = {h1}
  Instances = {i1, i2}
  Passes = {p1, p2}
  Processors = {q1, q2}
  Replayers = {r1}
  BatchSize = 2
  MaxAttempts = 3
  SlowWorkers = FALSE
  Faults = TRUE
  MaxCrashes = 2
INVARIANTS ExclusiveLease FailedIsRetired
PROPERTIES AttemptsMonotone NoRespawn EventuallySettled
CHECK_DEADLOCK FALSE

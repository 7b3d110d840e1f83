SPECIFICATION Spec
CONSTANTS
  Rows = {r1}
  Funded = {r1}
  NoRow = NoRow
  q1 = q1
  q2 = q2
  i1 = i1
  i2 = i2
  Requests = {q1, q2}
  Instances = {i1, i2}
  Host <- HostOf
  Observed = {"create", "fund", "release", "cancel", "split", "dispute"}
  Faults = TRUE
  MaxRequests = 3
INVARIANTS TypeOK AckedIsPublished SettledOnce StatusIsEventHistory
CHECK_DEADLOCK FALSE

SPECIFICATION SyncFairSpec
CONSTANTS
  Rows = {r1, r2}
  Funded = {}
  NoRow = NoRow
  i1 = i1
  Requests = {q1, q2, s1}
  Sweepers = {s1}
  Instances = {i1}
  Host <- HostOf
  Observed = {}
  Faults = FALSE
  Extra = TRUE
  MaxRequests = 2
INVARIANTS SyncTypeOK
PROPERTIES RepairLosesNothing Converges
CHECK_DEADLOCK FALSE

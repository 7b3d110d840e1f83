SPECIFICATION WorkersSpec
CONSTANTS
  Gigs = {g1}
  NoGig = NoGig
  Started = {g1}
  q1 = q1
  q2 = q2
  q3 = q3
  i1 = i1
  i2 = i2
  p1 = p1
  p2 = p2
  g1 = g1
  Requests = {q1, q2, q3}
  Instances = {i1, i2}
  Contenders = {i1, i2}
  Nobody = Nobody
  Host <- HostOf
  MaxRetries = 2
  MaxCalls = 1
  MaxFailures = 0
  Concurrency = 1
  MaxPerSweep = 1
  Events = {1, 2}
  LedgerOf <- LedgersIngested
  KeyOf <- KeysIngested
  NoKey = NoKey
  Pollers = {p1, p2}
  Admins = {p2}
  Home <- HomeOf
  LastLedger = 3
  MaxRange = 2
  Lookback = 1
  MaxRequests = 1
  MaxFaults = 1
  IndexEvents = {1, 2, 3, 4}
  IndexLedgerOf <- LedgersIndexed
  Indexers = {i1, i2}
  Tip = 3
  IndexRange = 2
  IndexLookback = 1
  PageSize = 3
  MaxIndexFaults = 1
  Endpoints = {1, 2, 3}
  MaxUnhealthy = 3
  MaxCount = 4
  Runs = {"r1", "r2"}
  Undos = {"u1"}
  CallHome <- CallHomeOf
  Rows = {1}
  BatchSize = 1
  MaxTroubles = 1
  MaxBreaks = 2
  OpenAtFirst = {g1}
  Deadlines <- DeadlineOf
  Distances = {1, 2}
  Schedulers = {i1, i2}
  Horizon = 4
  MaxUpsets = 1
INVARIANT ResolvedOnce
CHECK_DEADLOCK FALSE

SPECIFICATION EdgeSpec
CONSTANTS
  r1 = r1
  r2 = r2
  r3 = r3
  Calls = {r1, r2, r3}
  Body <- BodyOf
  At <- ServedAt
  Absent = Absent
  MaxMishaps = 1
  Refreshes = {1, 2, 3}
  MaxTroubles = 3
  a1 = a1
  a2 = a2
  a3 = a3
  v1 = v1
  v2 = v2
  Askers = {a1, a2, a3}
  Verifiers = {v1, v2}
  Desk <- DeskOf
  NoChallenge = NoChallenge
  MaxGlitches = 2
  Cids = {1}
  NoCid = NoCid
  Providers = {1, 2}
  Jobs = {1, 2}
  MaxJobs = 3
  MaxLosses = 1
  MaxMisses = 2
  Updates = {1, 2}
  GigOf <- GigsOf
  s1 = s1
  s2 = s2
  Sockets = {s1, s2}
  Replica <- ReplicaOf
  MaxPublished = 2
  MaxRooms = 1
  MaxLapses = 1
  e1 = e1
  e2 = e2
  e3 = e3
  e4 = e4
  Edits = {e1, e2, e3, e4}
  Site <- SiteOf
  NoProfile = NoProfile
  MaxSetbacks = 1
  Outcomes = {1, 2, 3, 4}
  Parties <- PartiesOf
  Handler <- HandlerOf
  MaxOutages = 1
  Demands = {1, 2, 3, 4}
  Posts = {1}
  Targets = {1, 2}
  SendAttempts = 3
  Escalations = {1, 2, 3, 4}
  DisputeOf <- DisputesOf
  MaxPosts = 2
  MaxFailed = 2
  Letters = {1, 2}
  MailTries = 3
  PushTries = 2
  Visits = {1, 2, 3, 4}
  Keys <- KeysOf
  PointsOf <- TierPoints
  OnRedisError <- Policies
  Refill = 2
  AbuseWindow = 2
  AbuseThreshold = 2
  Lockout = 2
  LastTick = 3
  MaxTimeouts = 1
  MaxEntries = 3
  Exports = {1}
  PageRows = 2
  Replicas = {1, 2}
  ConnectTries = 2
  MaxDrops = 1
  Uploaded = {1, 2, 3, 4}
  Freelancers = {"a", "b"}
  By <- Senders
  For <- Named
  MaxHiccups = 2
  Servers = {"i1", "i2"}
  Reads = {"q1", "q2"}
  Changes = {"c1", "c2"}
  Place <- PlaceOf
  MaxErrors = 1
  Watchers = {"i1"}
  Cooldown = 2
  LastLook = 5
  MaxUnsent = 1
INVARIANTS EdgeTypeOK RequestsHandledOnce SessionsAreSafe GatewayDelivers RecordsAgree MessagesAccountedFor
PROPERTY UnpinningSticks
CHECK_DEADLOCK FALSE

-------------------------------- MODULE Edge --------------------------------
(***************************************************************************)
(* What the backend does for its clients and towards the outside, side by   *)
(* side. The components share neither state nor calls, so an invariant that *)
(* speaks of one of them holds in every interleaving of all if it holds     *)
(* when that one moves alone: `desk` says which one does.                   *)
(***************************************************************************)
EXTENDS Integers, FiniteSets

CONSTANTS
  Calls, Body, At, Absent, MaxMishaps,
  Refreshes, MaxTroubles,
  Askers, Verifiers, Desk, NoChallenge, MaxGlitches,
  Cids, NoCid, Providers, Jobs, MaxJobs, MaxLosses, MaxMisses,
  Updates, GigOf, Sockets, Replica, MaxPublished, MaxRooms, MaxLapses,
  Edits, Site, NoProfile, MaxSetbacks,
  Outcomes, Parties, Handler, MaxOutages,
  Demands,
  Posts, Targets, SendAttempts,
  Escalations, DisputeOf, MaxPosts, MaxFailed, Letters, MailTries, PushTries,
  Visits, Keys, PointsOf, OnRedisError, Refill, AbuseWindow, AbuseThreshold, Lockout,
  LastTick, MaxTimeouts,
  MaxEntries, Exports, PageRows, Replicas, ConnectTries, MaxDrops,
  Uploaded, Freelancers, By, For, MaxHiccups,
  Servers, Reads, Place, Changes, MaxErrors,
  Watchers, Cooldown, LastLook, MaxUnsent

ASSUME RequestsAssumption ==
  IsFiniteSet(Calls) /\ Absent \notin [by : Calls, completed : BOOLEAN] /\ MaxMishaps \in Nat
ASSUME TokensAssumption == IsFiniteSet(Refreshes) /\ MaxTroubles \in Nat
ASSUME LoginsAssumption ==
  NoChallenge \notin Askers /\ MaxGlitches \in Nat
ASSUME PinningAssumption ==
  /\ IsFiniteSet(Providers) /\ Providers = 1 .. Cardinality(Providers)
  /\ {MaxJobs, MaxLosses, MaxMisses} \subseteq Nat
ASSUME GatewayAssumption ==
  /\ IsFiniteSet(Updates) /\ Updates = 1 .. Cardinality(Updates) /\ Sockets # {}
  /\ {MaxPublished, MaxLapses} \subseteq Nat
ASSUME MessagesAssumption ==
  /\ {SendAttempts, MaxPosts, MailTries, PushTries, Cooldown} \subseteq Nat \ {0}
  /\ {MaxFailed, LastLook, MaxUnsent} \subseteq Nat /\ Cooldown <= LastLook
ASSUME ProfilesAssumption == NoProfile \notin Edits /\ MaxSetbacks \in Nat
\* An outcome has two parties, who may be one and the same.
ASSUME ReputationAssumption ==
  (\A c \in Outcomes : DOMAIN Parties[c] = 1 .. 2) /\ MaxOutages \in Nat
ASSUME AuditAssumption ==
  /\ IsFiniteSet(Replicas) /\ Replicas = 1 .. Cardinality(Replicas)
  /\ {PageRows, ConnectTries} \subseteq Nat \ {0} /\ {MaxEntries, MaxDrops} \subseteq Nat
ASSUME UploadsAssumption == MaxHiccups \in Nat
ASSUME CacheAssumption ==
  /\ IsFiniteSet(Changes) /\ MaxErrors \in Nat /\ \A q \in Reads \cup Changes : Place[q] \in Servers
\* Some request is of the best tier.
ASSUME LimitsAssumption ==
  /\ \A v \in Visits : PointsOf[v] \in Nat /\ OnRedisError[v] \in {"unchecked", "unavailable"}
  /\ \E v \in Visits : \A w \in Visits : PointsOf[w] <= PointsOf[v]
  /\ {Refill, AbuseWindow, AbuseThreshold, Lockout, LastTick} \subseteq Nat

VARIABLES
  desk,
  entry, phase, claimed, reply, released, gone, detached, inFlight, mode, mishaps,
  effects, lapsed,
  live, tombs, family, made, at, presented, members, troubles, successors, revoked,
  interrupted, inMemoryTokens, ownSuccessors, doubled,
  pending, pendingOwn, nonces, noncesOwn, ask, answer, verify, signed, glitches, logins,
  ended, unstored,
  pins, pinMap, holds, fires, task, started, losses, misses,
  published, publications, inbox, deciding, claims, local, connected, rooms, told,
  draining, lapses, heard, emitted, loose,
  profile, index, wallet, own, edit, setbacks, free, raced, revived, overlapped,
  score, ownScore, mutationQueue, turn, outages, counted, clobbered,
  subscription, demand, answered, shadowed,
  registered, unregistered, stopping, inFlightRequests, waitedFor, post, sends, steady,
  atStop,
  alert, failedNotifications, failures, expired, preferences, letter,
  tick, bucket, lockedUntil, abuse, visit, granted,
  boot, inserting, log, applied, reader, export, entries, drops, atStart, straggled, lagging,
  theGig, mapped, acceptors, overwritten, upload, rows, listed, ownRows, hiccups, unread,
  source, shared, copies, link, get, change, errors, missed, elsewhere, overtaken,
  time, balance, looks, lastAlert, alerts, unsent, seen

Req == INSTANCE Requests
Tok == INSTANCE RefreshTokens
Log == INSTANCE Logins
Pin == INSTANCE Pinning
Gate == INSTANCE Gateway
Prof == INSTANCE Profiles
Rep == INSTANCE Reputation
Sub == INSTANCE Subscriptions
Del == INSTANCE Deliveries
Note == INSTANCE Alerts
Rate == INSTANCE RateLimit
Audit == INSTANCE AuditTrail
Upl == INSTANCE Uploads
Cache == INSTANCE SharedCache
Bal == INSTANCE BalanceWatch

requestsVars == <<entry, phase, claimed, reply, released, gone, detached, inFlight, mode,
                  mishaps, effects, lapsed>>
tokensVars == <<live, tombs, family, made, at, presented, members, troubles, successors,
                revoked, interrupted, inMemoryTokens, ownSuccessors, doubled>>
loginsVars == <<pending, pendingOwn, nonces, noncesOwn, ask, answer, verify, signed, glitches,
                logins, ended, unstored>>
pinningVars == <<pins, pinMap, holds, fires, task, started, losses, misses>>
gatewayVars == <<published, publications, inbox, deciding, claims, local, connected, rooms,
                 told, draining, lapses, heard, emitted, loose>>
profilesVars == <<profile, index, wallet, own, edit, setbacks, free, raced, revived,
                  overlapped>>
reputationVars == <<score, ownScore, mutationQueue, turn, outages, counted, clobbered>>
subscriptionsVars == <<subscription, demand, answered, shadowed>>
deliveriesVars == <<registered, unregistered, stopping, inFlightRequests, waitedFor, post,
                    sends, steady, atStop>>
alertsVars == <<alert, failedNotifications, failures, expired, preferences, letter>>
limitsVars == <<tick, bucket, lockedUntil, abuse, visit, granted>>
auditVars == <<boot, inserting, log, applied, reader, export, entries, drops, atStart,
               straggled, lagging>>
uploadsVars == <<theGig, mapped, acceptors, overwritten, upload, rows, listed, ownRows, hiccups,
                 unread>>
cacheVars == <<source, shared, copies, link, get, change, errors, missed, elsewhere, overtaken>>
balanceVars == <<time, balance, looks, lastAlert, alerts, unsent, seen>>
edgeVars == <<desk, requestsVars, tokensVars, loginsVars, pinningVars, gatewayVars, profilesVars,
              reputationVars, subscriptionsVars, deliveriesVars, alertsVars, limitsVars,
              auditVars, uploadsVars, cacheVars, balanceVars>>

Desks == {"requests", "tokens", "logins", "pinning", "gateway", "profiles",
          "reputation", "subscriptions", "deliveries", "alerts", "letters", "limits",
          "audit", "uploads", "cache", "balance"}

EdgeInit ==
  /\ desk \in Desks
  /\ Req!Init /\ Tok!Init /\ Log!Init /\ Pin!Init /\ Gate!Init /\ Prof!Init
  /\ Rep!Init /\ Sub!Init /\ Del!Init /\ Note!Init /\ Rate!Init
  /\ Audit!Init /\ Upl!Init /\ Cache!Init /\ Bal!Init
  /\ desk # "tokens" => troubles = 0
  /\ desk # "uploads" => mapped = theGig

Only(d) == desk = d /\ UNCHANGED desk
Others(d) ==
  /\ d # "requests" => UNCHANGED requestsVars
  /\ d # "tokens" => UNCHANGED tokensVars
  /\ d # "logins" => UNCHANGED loginsVars
  /\ d # "pinning" => UNCHANGED pinningVars
  /\ d # "gateway" => UNCHANGED gatewayVars
  /\ d # "profiles" => UNCHANGED profilesVars
  /\ d # "reputation" => UNCHANGED reputationVars
  /\ d # "subscriptions" => UNCHANGED subscriptionsVars
  /\ d # "deliveries" => UNCHANGED deliveriesVars
  /\ d # "alerts" => UNCHANGED alertsVars
  /\ d # "limits" => UNCHANGED limitsVars
  /\ d # "audit" => UNCHANGED auditVars
  /\ d # "uploads" => UNCHANGED uploadsVars
  /\ d # "cache" => UNCHANGED cacheVars
  /\ d # "balance" => UNCHANGED balanceVars

EdgeNext ==
  \/ Only("requests") /\ Req!Next /\ Others("requests")
  \/ Only("tokens") /\ Tok!Next /\ Others("tokens")
  \/ Only("logins") /\ Log!Next /\ Others("logins")
  \/ Only("pinning") /\ Pin!Next /\ Others("pinning")
  \/ Only("gateway") /\ Gate!Next /\ Others("gateway")
  \/ Only("profiles") /\ Prof!Next /\ Others("profiles")
  \/ Only("reputation") /\ Rep!Next /\ Others("reputation")
  \/ Only("subscriptions") /\ Sub!Next /\ Others("subscriptions")
  \/ Only("deliveries") /\ Del!Next /\ Others("deliveries")
  \/ Only("alerts") /\ Note!NextAlert /\ Others("alerts")
  \/ Only("letters") /\ Note!NextLetter /\ Others("alerts")
  \/ Only("limits") /\ Rate!Next /\ Others("limits")
  \/ Only("audit") /\ Audit!Next /\ Others("audit")
  \/ Only("uploads") /\ Upl!Next /\ Others("uploads")
  \/ Only("cache") /\ Cache!Next /\ Others("cache")
  \/ Only("balance") /\ Bal!Next /\ Others("balance")

EdgeSpec == EdgeInit /\ [][EdgeNext]_edgeVars

----------------------------------------------------------------------------
EdgeTypeOK ==
  /\ desk \in Desks
  /\ desk = "requests" => Req!TypeOK
  /\ desk = "tokens" => Tok!TypeOK
  /\ desk = "logins" => Log!TypeOK
  /\ desk = "pinning" => Pin!TypeOK
  /\ desk = "gateway" => Gate!TypeOK
  /\ desk = "profiles" => Prof!TypeOK
  /\ desk = "reputation" => Rep!TypeOK
  /\ desk = "subscriptions" => Sub!TypeOK
  /\ desk = "deliveries" => Del!TypeOK
  /\ desk \in {"alerts", "letters"} => Note!TypeOK
  /\ desk = "limits" => Rate!TypeOK
  /\ desk = "audit" => Audit!TypeOK
  /\ desk = "uploads" => Upl!TypeOK
  /\ desk = "cache" => Cache!TypeOK
  /\ desk = "balance" => Bal!TypeOK

(* The handler of a request runs once under its idempotency key, a clean drain   *)
(* cuts none, and no identity is granted more than its bucket gives              *)
(* (IdempotencyKeyInterceptor, drain.middleware, RateLimitGuard).                *)
RequestsHandledOnce ==
  /\ desk = "requests" => Req!HandledOnce /\ Req!CleanExitCutsNothing
  /\ desk = "limits" => Rate!WithinLimits

(* Whatever requests race and whatever calls fail, a refresh token is exchanged  *)
(* once, in Redis or in memory; only that of a login whose transaction was       *)
(* applied and reported as failed may be exchanged once in each. A challenge     *)
(* logs in once while no more than two calls have failed: a third lets it in     *)
(* again, once in Redis and once in memory (RefreshTokenStore, NonceStoreService). *)
SessionsAreSafe ==
  /\ desk = "tokens" => Tok!TokensSpentOnce
  /\ desk = "logins" => Log!LoggedInOnce

(* No health check and no background pin brings back what a client is unpinning, *)
(* but one that writes a stale copy: read before, or found in the map of the     *)
(* instance when Redis failed (finalizeStatus, tryFindByCid).                    *)
UnpinningSticks == [][desk = "pinning" => Pin!UnpinStep]_<<desk, pinningVars>>

(* An event is emitted once and in the order of its gig, and a drain tells every *)
(* socket before it closes it (MilestoneNotificationsGateway).                   *)
GatewayDelivers == desk = "gateway" => Gate!BroadcastOnceInOrder /\ Gate!DrainReachesAll

(* Profiles, their index and the wallet key agree, scores keep what was counted, *)
(* subscriptions keep what was confirmed, an upload is found where it is looked  *)
(* for, an export holds what there was and a cache nothing older than its last   *)
(* invalidation, but for the overlaps that nothing in the code keeps apart       *)
(* (UserProfileService, ReputationService, WebhookSubscriptionService,           *)
(* DeliverableService, AuditService, CacheService).                              *)
RecordsAgree ==
  /\ desk = "profiles" => Prof!ProfilesAgree
  /\ desk = "reputation" => Rep!ScoresAddUp
  /\ desk = "subscriptions" => Sub!SubscriptionsAgree
  /\ desk = "uploads" => Upl!UploadsAreFound
  /\ desk = "audit" => Audit!ExportsAreWhole
  /\ desk = "cache" => Cache!CacheIsCurrent

(* What was reported as delivered was accepted by all concerned, what failed is  *)
(* listed, a shutdown that ends in time ends no delivery midway, and a low       *)
(* balance is alerted once a cooldown (WebhookService, DiscordService,           *)
(* NotificationService, PlatformBalanceService).                                 *)
MessagesAccountedFor ==
  /\ desk = "deliveries" => Del!ReturnedIsAccepted /\ Del!DrainedIsSettled
  /\ desk = "alerts" => Note!LatestFailuresListed
  /\ desk = "letters" => Note!ReportedAsTaken
  /\ desk = "balance" => Bal!AlertsArePaced
=============================================================================

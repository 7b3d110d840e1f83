# TLA+ models of the TrustFlow backend

TrustFlow is an escrow service over a Soroban (Stellar) contract. The backend
(`src/backend`, NestJS, several instances behind a load balancer) mirrors the
contract's escrows in Redis, runs disputes, gigs and notifications around them,
and tells the world through a transactional outbox. This directory holds TLA+
specifications of it, TLC configurations that check them on small instances, and
TLAPS proofs for every value of the constants.

    tlc -workers 2 -config OutboxSlow.cfg MCOutbox.tla     # model-check one run
    tlapm OutboxProofs.tla                                 # check the proofs of a module

`PROJECT.json` lists the runs, the source lines behind each definition (`map`),
seeded bugs for every property that TLC must find (`mutants`), the disagreements
between code and documents (`findings`) and what is hard to test (`hazards`).

## 1. Inventory

Paths are relative to `src/backend/src`. All state is in Redis unless said
otherwise; most stores fall back to a map of their own process when Redis does
not answer.

| Component | State | Operations | What makes it hard | What makes it correct | Module |
|---|---|---|---|---|---|
| `outbox` | event rows; sorted sets `outbox:pending`, `outbox:processing` (lease end as score) | append (in a service's MULTI or alone), reclaim, claim, load, publish, dispatch, mark, retry, replay-all | overlapping relay passes in all instances, lapsed leases, stale copies written back, crashes between two commands, half-failed batches | no row lost; nothing indexed after delivery; delivered means published and handled; one owner per row; settles in the end | `Outbox`, `AtLeastOnce` |
| `webhook` | claimed batch, promise pool; endpoints | cron tick, deliver with retries, shutdown | a hand-written pool on one thread; endpoints that come and go; a shutdown with deliveries open | the tick returns; success means everyone accepted; nothing is still being sent when a row is retried | `WebhookBatch`, `Deliveries` |
| webhook subscriptions | map of the process | create, update, remove, ping | waits for the name service between read and write | keeps what was confirmed | `Subscriptions` |
| `escrow` | escrow rows with status and version; index by contract id; fallback map | create, fund, release, cancel, split, dispute, link, correct, apply chain state, backfill | read, check, write without a lock; half-applied EXECs; the fallback map of one instance | settled once; every acknowledged change has its event; status agrees with the events | `Escrow` |
| `escrow-reconciliation` | snapshot and chain reads of a sweep; run reports; worker lock | sweep (timer, POST run), repair, backfill | everything moves while the sweep runs; a lock that is not renewed | converges to the chain; overwrites no change it could have seen | `EscrowSync` |
| `escrow-events.consumer`, `reputation` | score per address, queue of mutations per process | credit a completed or disputed escrow | duplicate deliveries; read-change-write in two instances | one credit per event; contributions stay | `Outbox`, `Reputation` |
| `dispute` | saga per dispute: step, votes, verdict, payout; mutexes of the process | escalate, assign, vote, payout, compensate | compensation after a failing step; releases past the saga; crashes between steps | paid once or flagged; a failed step is undone; votes count | `DisputeSaga` |
| `gig` | gigs with version; open-expiry index; search cache; expiry worker with lock | create, accept, cancel, update, remove, expire, search | WATCH on the connection every request shares; cache filled after invalidation; lock lost during a sweep | one final status per gig; open gigs are indexed; pages are current | `Gig`, `GigExpiry` |
| `common/redis/distributed-lock` | lock key with token and TTL | acquire, renew, release | expiry under a live holder, release after expiry | only the holder releases | `DistributedLock` |
| `event-ingestion` | ledger cursor, processed events | poll, one ledger, batch, retry failed, reorg | crash between effect and record; order per escrow; a cursor several callers move | no event passed over, each escrow's in order | `Ingestion` |
| `soroban-event-indexer` | cursor, events | poll, store, shutdown | swallowed write errors, page limit, polls of several instances | stored up to the cursor | `Indexer` |
| `common/idempotency`, `common/http`, `common/shutdown` | claim and response per key; 408 timeout; requests in flight | claim, look up, finalize, release; drain | the handler outlives its 408; expiry; a drain that counts both finish and close | one execution per key; a clean drain cuts nothing | `Requests` |
| `auth` | challenges and nonces; refresh tokens, tombstones, families | challenge, verify; rotate, revoke | single use across instances; separate commands | a token is exchanged once per store, a challenge logs in once | `RefreshTokens`, `Logins` |
| `common/rate-limit` | bucket, lockout and rejections per identity | one Lua script per identity | two identities per request, tiers that share a bucket, boundaries | no more than bucket plus refill; none in a lockout | `RateLimit` |
| `common/circuit-breaker` | breakers by name | fire | a breaker keeps the first function it was given | | in `Pinning` |
| `migration` | runs, slot per name, rows | run, compensate, roll back | claim and reclaim in several calls; boots that rerun; phases that throw | one run at a time; no row loses both values | `Migration` |
| `ipfs-pinning` | one record per CID; background pins; fallback map | pin, cross-pin, reconcile, unpin | copies written back after provider calls, or taken from an old map | an unpin is not undone by a check | `Pinning` |
| `deliverable` | rows, list per gig | check, pin, store | results of the MULTI are not read; the gig changes after the check | found where it is looked for; from a freelancer who had accepted | `Uploads` |
| `user-profile` | record, index, wallet key | create, amend, delete | check then write in several calls | index, key and record agree | `Profiles` |
| `milestone-notifications` | claims, rooms, queue per instance; reminder claims | publish, claim, emit, drain; sweep | claim before emit in every instance; overlapping sweeps | emitted once and in order; a drain tells everyone; reminded once | `Gateway`, `Reminders` |
| `notification`, Discord | preferences; capped list of failures | alert, letter by mail and push | retries, cap, expiry | latest failures listed; reported as taken | `Alerts` |
| `stellar` | endpoint health, current endpoint; last alerts | checks, switch; balance alerts | checks of a round side by side; which failures switch | leaves a dead endpoint; one alert a cooldown | `Failover`, `BalanceWatch` |
| `audit`, `common/database` | log on the primary; replicas | insert, export by pages or at once | replicas that lag, rows inserted meanwhile | an export holds what there was | `AuditTrail` |
| `common/cache.service` | key in Redis, map per instance | get or set, invalidate | the fallback map; a read overtaken by a change | nothing older than the last invalidation | `SharedCache` |
| `admin`, `monitoring`, `config`, `sentry`, logging | reports, metrics | reads | | | none |

How they interact. A service writes its row and an outbox row in one MULTI
(`EscrowService.persist`). `OutboxRelayService` claims due rows, publishes them,
appends a webhook row for each without waiting for it, and calls in-process handlers
(`OutboxEventDispatcher`), of which the escrow consumer updates reputation.
`WebhookProcessor` claims from the same two sets. What is published on Redis
reaches the browsers through the gateway of `milestone-notifications`. Contract
events reach the escrow rows through `event-ingestion`; what that misses,
`escrow-reconciliation` repairs from the chain; the dispute saga settles escrows
and corrects them when a step fails. Escrow, gig, outbox and ingestion share one
Redis connection per process.

## 2. Modules

    Outbox --- MCOutbox                                             (TLC)
       |  \--- OutboxProofs                                         (TLAPS)
       AtLeastOnce (refined)
    WebhookBatch                                                    (TLC)
    Escrow --- MCEscrow                                             (TLC)
       |------ EscrowProofs                                         (TLAPS)
       |------ EscrowSync --- MCEscrowSync                          (TLC)
       |                \--- EscrowSyncProofs                       (TLAPS)
       \------ DisputeSaga --- MCDisputeSaga                        (TLC)
                        \--- DisputeSagaProofs                      (TLAPS)
    DistributedLock \
    Gig ------------- GigExpiry --- Workers --- MCWorkers           (TLC)
       Ingestion, Indexer, Failover, Migration, Reminders --/ (INSTANCE)
                                       |--- WorkersProofs           (TLAPS)
                                                \--- ChainProofs    (TLAPS)
    Edge --- MCEdge                                                 (TLC)
       Requests, RateLimit, RefreshTokens, Logins, Pinning, Gateway,
       Profiles, Reputation, Subscriptions, Uploads, Deliveries, Alerts,
       AuditTrail, SharedCache, BalanceWatch (INSTANCE)
       |--- EdgeProofs                                              (TLAPS)
                \--- EdgeTrafficProofs                              (TLAPS)

In all of them an action is what happens between two awaits of the code, mostly
one Redis command (a MULTI or a Lua script is one), and the state between the
awaits (`pc`, `step`, `job`, `task`, a copy that was read) is in variables of its
own. Unless a module says otherwise every Redis call may fail, having taken effect
or not, and the code goes on as its catch block says. Variables marked "history" are
read by properties only. Definitions called "Variant" are the seeded bugs.

**Outbox** has one action per command of `outbox.service.ts`,
`outbox-relay.service.ts` and their callees. A worker is a pass of `runOnce` or a
cron tick of the webhook processor; its program counter `pc`, batch, row in hand
and loaded copy (`seen`, of which the attempts matter) are the locals of the code.
Instances group the workers for crashes (`Crash`) and for an event loop that is
blocked (`frozen`). A lease runs out by `LeaseExpires`; with `SlowWorkers` even
under a working owner. `published`, `handled` and `credited` are history. The
registered webhooks are no target of the relay in this code: they get a row of their
own (`FanOut`), whose append nobody waits for.

**AtLeastOnce** is what an outbox promises: an appended row stays owed until its
targets have accepted it or it is given up; a late worker or a replay may reopen
it, nothing may make it vanish. `Outbox` maps body and indexes of a row to
its fate (`Fate`); where the two disagree the row is "adrift", which no
abstract row is, so that a row in no queue refutes `ImplementsAtLeastOnce`.

**WebhookBatch** is the loop of `WebhookProcessor.processBatch` on the thread of
the event loop: callbacks run only while the loop awaits. It justifies the label
"spin" in `Outbox`: a processor that claimed rows blocks its instance.

**Escrow** splits every operation of `EscrowService` into the read with its
guard (`Create`, `Transition`, `Link`, `Correct`, `Apply`, `Seed`) and the EXEC
that writes the copy (`Commit`), which may fail half applied (`Partial`: the call
answers 503) or on the connection (`Fallback`: memory of the instance, then
`AppendEvent`). The event of a transition is counted in `events`, a reported
success in `acked`. `raced` and `corrected` record, per row, that two calls had
it in hand at once or a fault hit it, and that something wrote past the guards.

**EscrowSync** extends it with one contract escrow and the sweeps of
`EscrowReconciliationService`: `SweepStarts` (findAll), `ChainRead` (all chain
reads), then `Repair` or `Backfill` row by row with the version of the snapshot.
`Call` is what the contract's events, the API and the saga do in between.

**DisputeSaga** extends `Escrow` too: each escrow call of a saga is that module's
own read and write, with the saga's next phase hung on its outcome
(`AfterSuccess`, `AfterThrow`). `doing` is where a call of the saga stands, `held`
the copy it works on; the mutexes are `EscalationFree` and `SagaFree`; `Bypass` is
a release past the saga (POST /escrows/:id/release or the chain's released event).
The re-sync from the chain in `compensateEscalation` is left out because it cannot
run: DisputeModule imports no module that provides its chain client. So are
branches for a persist that throws: it never does. So is reconciliation, which writes the same
escrows (`applyChainState`): `EscrowSync` has it, and what it would do to a dispute the head
of the module says.

**Gig** runs the requests of two instances over gigs, the list of gigs, expiry index, search
cache and outbox rows; `watched` holds the connection's WATCHes, which any EXEC or UNWATCH
of the process ends. A search reads the list, then the rows (`FindAll`). `halved` records
the gigs whose row and index entry a half-applied EXEC put out of step. **GigExpiry** puts
the sweeps of the worker behind **DistributedLock** (lease, renewal, release by token).

The other modules are one component each and say in their heads which one and
what they leave out. Worth knowing before reading them: `Requests` has the
idempotency interceptor outside the timeout interceptor, as `main.ts` registers
them; `Pinning` keeps for every breaker the CID of its first call (`fires`),
since `getBreaker` never replaces the function, and the map that a failing GET reads and a
failing write fills (`pinMap`), whose object a job and the map then share; `RefreshTokens` has
both stores, Redis and the memory of the instance that served the login; `Uploads` lets its
gig go through every mutation of `Gig`, lost watches and written maps included, in one step
each; `Migration` models the registered
migration, whose rows are a map of each process; `Reminders`, `SharedCache` and the
paged export of `AuditTrail` model code that no module of the application wires
up yet; `RateLimit` models `rate-limit.guard.ts` as it is written, although the file
does not compile as committed (duplicate imports, a nested interface).

**Workers** and **Edge** put these components side by side, for the background and
for the client side. The components share neither state nor calls, so a state
predicate about one of them holds in all interleavings if it holds when that one
moves alone; `service` and `desk` choose, in the initial state, which one moves. This
loses nothing and makes the state space the sum of the parts, not the product.

## 3. What the runs check

| Run | Instance | Shows |
|---|---|---|
| `OutboxSlow` | 1 row, 2 passes in two instances, a webhook processor, 2 replays, 2 attempts, faults, leases that lapse under live workers | `NeverLost`, `QueuedIsUndelivered`, `DeliveredWasHandled` need no assumption about time; `ImplementsAtLeastOnce`: the outbox refines the abstract one |
| `OutboxSettles` | 1 webhook row of a service and a free one, a pass and a webhook processor in each of 2 instances, 1 replay, 3 attempts, faults, 2 crashes, workers within their leases, fairness | `ExclusiveLease`, `FailedIsRetired`, `AttemptsMonotone`, `NoRespawn`; `EventuallySettled`, unless batches of the processors have blocked both event loops |
| `EscrowFaults` | 1 escrow, 2 instances with a request each, 3 requests in all, faults and restarts | `AckedIsPublished`, `SettledOnce`, `StatusIsEventHistory` |
| `EscrowSync` | 2 row ids for one contract escrow, 1 sweep, 2 callers with 2 requests in all | `RepairLosesNothing`, `Converges` |
| `dispute_saga` | 1 escrow, 2 sagas, 2 calls of one process in flight, 3 jurors, releases past the saga, 1 failure or crash | `DisputeIsRecorded`, `OneOpenSaga`, `VotesCount`, `CompletedIsPaid`, `PaidTwiceIsFlagged`, `StuckOnlyByFailure`, `SagaOnward` |
| `workers` | see below | `ResolvedOnceIfWatched`, `OpenIsIndexed`, `PageIsCurrent`, `SweepsBehindLock` (gigs), `ChainIsRead` (ingestion, indexer, failover), `MigrationsAreSafe`, `RemindedOnce` |
| `edge` | see below | `RequestsHandledOnce` (idempotency, drain, rate limit), `SessionsAreSafe` (refresh, login), `UnpinningSticks`, `GatewayDelivers`, `RecordsAgree` (profiles, scores, subscriptions, uploads, exports, cache), `MessagesAccountedFor` (webhooks, alerts, letters, balance) |
| `OutboxFanOut` | 1 domain row, 1 webhook row, 1 pass, failing calls | violation: a row is delivered whose webhooks will never be called |
| `OutboxCredit` | 1 row, 1 pass, no fault | violation: reputation is credited twice per dedupKey |
| `WebhookBatchReturns` | 2 events, pool of 2 | violation: `processBatch` never returns |
| `EscrowRepair` | as `EscrowSync` | violation: a repair overwrites a row modified since |
| `gig_shared_connection` | 1 gig, an accept and an expiry in one instance, no fault (`MCWorkers` without failures) | violation: both succeed |

The bounds. Two workers are what it takes for one to act on what the other has
changed; a third (the processor) is there because it blocks its instance. Two
attempts give both branches of `retry` and a second round. One crash is enough
to abandon any set of claimed rows; further ones abandon them again. `OutboxSettles`
follows one row to its end, of aggregate type webhook, which both the passes and the
processors claim; a domain row takes the same steps and the branch of `FanOut`, which
leaves it as it is, besides. That branch's append fires in `OutboxFanOut` and `OutboxCredit`:
two rows with two passes, processors and replays are beyond a run of minutes, and the safety
properties the runs show for one row are proved for any rows (section 4). Two crashes let
each of the instances die with the row. One escrow row is enough for overlapping calls, since no operation looks at two; two row
ids are needed where a contract escrow may get a duplicate row. Three requests
let two overlap and a third act on the result. Attempt counts past the limit are
not told apart and counts of credits saturate at 2, which the properties do not
distinguish.

In `workers` there are two instances throughout: 1 gig, 3 requests of which two share a
connection, 2 of its 3 attempts (enough for both outcomes of one), one failing call, lapsed
lease or crash; 2 events of one chain of 3 ledgers (one without key), two pollers, one
administrator's call, batches of 2 ledgers; 4 events with pages of 3 for the indexer; 3
endpoints; 2 runs and a rollback over 1 row, with two broken phases and one failing call; 1
gig with reminders at two distances. In `edge`: three requests with one key, two of them
alike; 3 refreshes of one session under 3 failures; 3 requests for a challenge and 2
verifications, two failing calls; 1 CID at 2 providers, 3 calls of which 2 overlap, 1
failing provider and 2 calls that find Redis failing (one to leave a copy in the map, one to
take it from there); 2 publications of events, 2 sockets; 4 calls over the profiles of one
wallet; 4 outcomes of overlapping parties; 4 calls over subscriptions; 4 uploads of which
one comes from a stranger and one names one; 3 audit rows over pages of 2 and two replicas;
2 reads and 2 changes of one key; 1 webhook row to 2 endpoints with all its 3 tries; 4
alerts over a list of 2; 1 watcher of balances, as the cooldown is per instance; 4 requests
at rate limits over 3 ticks. Each is the smallest in which two parties overlap and a third
meets the result, or a list, page or bucket overflows. What bounds a component's faults is
in its module's CONSTANTS.

`MaxCrashes`, `MaxRequests`, `Hooks` and the constants named Max... are the bounds
that cut behaviour. Deadlock is not checked where the system may really stop: all
rows settled, or all requests spent.

Fairness. `OutboxSettles` assumes that timers keep firing and awaited calls
return (WF of each worker, which a blocked event loop disables), that leases run out (WF),
and that Redis neither passes over a due row for ever (ZRANGEBYSCORE returns the longest-due
row first) nor fails for ever to load it or to write its retry (SF per row, of whichever
workers there are). Nothing is assumed of appends, crashes and replays, nor that the
webhook processors leave an event loop running: `WebhookBatchReturns` shows that they may
not, and then only the other instance settles the row. `EscrowSync` assumes that started
calls are answered and that sweeps go on, as the worker's timer makes them.
`WebhookBatchReturns` assumes that the thread runs and deliveries end
(requests have a timeout). The other runs check safety only and assume nothing.

Conditional properties say so. `ExclusiveLease` and its companions hold while no live worker
outlives its lease (`SlowWorkers = FALSE`), since the lease is not renewed; `SettledOnce`
and `StatusIsEventHistory` hold for rows that no two calls had in hand at once, that no
fault hit and that nothing wrote past the guards, since the code has no lock around read,
check and write. The modules of `workers` and `edge` do the same: a history variable names
the very event that breaks the promise (`unguarded`, `excused`, `lapsed`, `raced`,
`clobbered`, `shadowed`, `straggled`, `overtaken`, `halved`, `doubled`, `overwritten`, ...)
and the property holds for everything else. Section 5 lists what these events do.

## 4. What is proved

Every safety property the passing runs check is proved for all values of the constants;
`PROJECT.json` lists the theorems. The argument is always the same: an inductive invariant,
one lemma per action (or per kind of action), and a last temporal step. What follows says
which invariant, why the property alone is not inductive, and from which assumptions.

**OutboxProofs** (`OutboxAssumption`), for any rows, workers, instances and limits.

- `TypeCorrect`, `NoRowIsLost`, `NoStaleIndexEntry`, `DeliveredMeansHandled`: `DeliveryInv`
  adds what a worker's program counter says of the row in hand: at "dispatch" it was
  published, at "mark" handled (`LabelInv`), without which a mark could deliver an
  unhandled row.
- `OneOwnerPerRow`, `FailedRowsRetire`, `AttemptsNeverGoBack` assume `~SlowWorkers` and at
  most one replay at a time. A row in the hands of a running worker is in the
  processing set with a live lease (`HeldInv`), no two running workers hold one row
  (`DisjointInv`), a row a replay has just read is still failed and unclaimed
  (`ReplayInv`), and the attempts a running worker has loaded are those in Redis
  (`CopyInv`). Two overlapping replays are excluded because the second would reset a
  row a relay already owns, and nothing in the code keeps them apart.
- `NoHookOfAHook` needs no such assumption: only relay passes publish, and a webhook row
  without a body has no origin yet (`OriginInv`).
- `OutboxImplementsAtLeastOnce`: the refinement. `Fate` is a function of the status as
  long as body and indexes agree, which `DeliveryInv` says; besides it takes that rows in
  anyone's hands were appended (`AppendedInv`) and that handlers see published rows only
  (`PublishedFirst`). Each write of a row is then a step of the abstract outbox or
  none, those of late workers and replays included.

**EscrowProofs** (`EscrowAssumption`; the requests in flight are a finite set):
`TypeCorrect`, `AcknowledgedIsPublished`, and, when every event type is counted
(`Observed = EventTypes`), `SettlesOnce` and `EventsTellTheStatus`. `AckInv` adds to the
acknowledged events those that a request will acknowledge without appending
again, because an EXEC that seemed to fail had appended it (`Appended`): otherwise two
requests could count on one event. `GuardInv` says of a row that is neither raced nor
corrected that at most one request has it in hand and that what its guard saw is
still so (`StillAllowed`): the property alone says nothing about the copies waiting to
be written. `HistoryOfTransition` is the arithmetic: an event after an unsettled history
replays to the status its operation writes.

**EscrowSyncProofs** builds on it: `SyncTypeCorrect` and `RepairsLoseNothing`. A row is never
older than a snapshot of it and the same if the version is (`SnapAgrees`), the request
that has a row in hand writes a successor of what is there (`HandSucceeds`), and a
repair on its way found the row as the sweep had read it (`RepairsSnap`).

**DisputeSagaProofs** (`SagaAssumption`, `EscrowAssumption`), for any sagas, escrows, calls
and jurors; one step lemma per kind of call, since every call of the saga holds a record
it will write back.

- `SagaTypeCorrect`: a type invariant that has to know in which step a record is at each
  phase of a call (`Holds`), which escrow call a phase makes (`Calls`) and what is true of
  every copy of a record (`GoodRecord`).
- `DisputesAreRecorded` (`PointerInv`: also for the copies still to be written),
  `NobodyLeavesASagaStuck` (`StuckInv`: whoever opened the saga is still at work on it),
  `SettledTwiceIsFlagged` (`FlagInv`, as `GuardInv` above for rows not yet flagged).
- `CompletedSagasHavePaid`, when the kinds of events that settle an escrow are counted:
  `PaidInv` counts, per escrow and verdict, the sagas that have paid or whose call has
  appended the event and not yet saved it; they are no more than the events.
- `OneSagaPerEscrow`, `VotesAreCounted`, `SagasGoOnward` assume that the calls run in one process
  (`OneProcess`): the mutexes are maps of a process, and two instances have two. `CopyInv`
  says that the record in a call's hand is the one in Redis, but for what the phase
  changes (`CopyAgrees`), and that one call per saga and one escalation per escrow are at
  work.

**WorkersProofs**. A behaviour of `Workers` is, part by part, a behaviour of the part
alone (`GigsAlone` and its like), so each part's property is proved of its own Init and Next.

- `SweepsAreExclusive` (`LockInv`): who sweeps and never lost a lease holds the token.
- `OpenGigsAreIndexed`, whatever calls fail, but for half-applied transactions (`halved`): a
  write that was applied in whole sets row and index alike, whoever retries it.
- `GigsResolveOnce` for gigs whose watch nobody ended: an unguarded
  mutation is watched by its connection, and at EXEC a connection that is not dirty still
  has the row the guard saw (`WatchInv`); one request creates a gig (`CreateInv`).
- `PagesAreCurrent` (`PageInv`): a page that differs from the open gigs has a mutation that
  will drop it.
- `RemindersGoOutOnce` (`ClaimInv`): a claim lasts until the deadline it reminds of.
- `MigrationsStaySafe`: `SlotInv` ties the slot to the run that holds it or a call
  that strayed; `RowsInv` says how far the rows of a process are copied at each
  phase (`CopiesSoFar`), that who works there unmixed is alone (`WorksAlone`), and
  what of the last run can still be undone (`UndoRestores`).

**ChainProofs** extends it: `ChainStaysRead` and, with it, `WorkersTypesHold`. The ingestion's
invariant says that up to every cursor, in Redis or in an instance, every event is recorded, in
a retry, or excused (`Counted`), and that a job covers the ledgers up to the cursor it
will write (`JobCovers`); that events of one escrow are handled in order follows from
whose turn it is (`TurnComesInOrder`). The indexer's polls cover their range (`PollsCover`).

**EdgeProofs**, in the same way, proves of what the backend keeps `SessionsStaySafe`,
`UnpinsStick` and `RecordsStayAgreed`. For the tokens:
one is good, in exchange by one request, or exchanged for one other in Redis (`TokensHeld`),
it is in memory or exchanged for one other there, and in both stores only if the login left
it in both; unless an exchange was interrupted the newest one is the only one
(`NewestHolds`). For the challenges: what a second login costs is counted in failed
calls (`TakenTwice`, `LetInUnmarked`, `LetInTwice`), which is why the property allows it from the
third on. For the pins: a job that will write its copy back has the status that is
in Redis, or knows that its copy is stale, because the record changed under it or because
it came from the map of the instance (`CopiesAre`).

`RecordsStayAgreed` takes six invariants. Three of them say the same of a read, a change and a
write back that no lock holds together: unless a history variable has recorded an
overlap, the request about to write is the only one and its copy is what is there.

- Scores: `WritesAlone`. The queue of an instance holds exactly the changes that wait or run
  there (`LineHolds`), and the one that runs is its first (`RunsFirst`); so two writers of one score
  are on two instances, which is the overlap `clobbered` records.
- Profiles: `EditsAlone`. While no call failed, a creation that goes on has found the wallet free
  (`EditIs`), hence two of them raced; what is there is listed and has the key (`Listed`) and the
  confirmed amendments (`Carried`).
- Subscriptions: `WaitingAlone`. A request that has begun is about one subscription that
  was created (`DemandIs`).
- Cache: the source counts the changes made, and a read in progress that was not overtaken
  stores its present value (`CacheInv`); a copy that differs has a change that will
  invalidate it, or a lost invalidation.
- Uploads: from its check on an upload is one of a freelancer who had accepted the gig, who has
  it still if no accepted gig was written over; and one
  reported as created has its row and its entry in the list, unless its MULTI did not go
  through as a whole (`UploadInv`).
- Exports: as long as rows commit in the order of their names, what the pages have pushed is
  the beginning of the log (`Begins`): the next page, asked of a replica that may lag and by
  an offset counted in rows pushed, continues it. That an ordered enumeration of a set of
  numbers exists (`InOrder`, what ORDER BY returns) is proved by taking the smallest m such
  that a subset of 1 .. m has none (`AllEnumerated`); `SliceIs` is the page.

**EdgeTrafficProofs**: what comes in and what goes out.

- `RequestsStayHandled`. Under a key: the claim is that of the request it protects until
  that request lapses (`ClaimHeld`), and a stored response is one of a handler that ran. In
  the drain: an instance's counter is the number of requests it let in and has not
  released (`InFlightCounts`). In the rate limit: `BucketFits` is a potential argument, that
  what was granted since any time, times the refill period, and what is in the bucket
  never exceed what the best tier gives (`Refill * granted + tokens <= Most * (Refill + elapsed)`).
- `UpdatesReachTheirSockets`: every instance has an event in its queue, ahead of all later ones,
  until somebody claimed it or its claim lapsed (`QueuesInOrder`); a claimed event was emitted,
  its winner still has it at the head of its queue, or an instance drains (`EmittedAre`).
- `MessagesStayAccountedFor`. Deliveries: those in flight are the calls that send, which
  have checked whoever stayed registered (`SendersAre`), and a shutdown waits for those that
  were sending when it began (`StoppedAre`). Alerts: a dispute stands in the list no farther
  from its end than its failures stand from theirs (`Latest`), which `Recording` and
  `Dropping` show to survive a new failure and an eviction. Letters: `LetterInv`. Balance:
  the stamp of a level is the time of its latest alert (`StampsAre`).
- `EdgeTypesHold` joins the types that all fifteen parts need for their invariants.

The assumptions on constants are the named ASSUMEs, which TLC evaluates in the runs. Most
only say what kind of value a constant is. Those that say more, and why the code justifies
them: `Providers`, `Updates`, `Replicas` and `Rows` of a migration are 1 .. n because the
code goes through them in order; `Absent`, `NoChallenge`, `NoGig`, `NoProfile`, `Nobody` are
not among what they stand in for; an outcome has two parties, who may be the same; every
read and change of the cached source is served by one of the instances, and the changes are
finitely many; limits of tries, batches, pages, pools, ledgers per poll and the cooldown are
at least 1, since they are positive literals or defaults in the code; `LedgerOf` follows the
order of the events, as the chain numbers them; endpoint 1 exists, the first of the list;
what `rate-limit.guard.ts` does when Redis fails is one of its two answers (`OnRedisError`),
and among finitely many tiers one is best.

What the proofs brought to light in the model and changed there: `NewSaga` has to take an
id that nobody was told a vote of (it is made of the time and six random characters, and
taken for unique), and `VotesCount` compares the
votes told with those of sagas that are recorded; `SyncTypeOK` did not say that what a
sweep still has to repair are linked rows of its own snapshot; the replicas of `AuditTrail`
are numbered, as their configured order numbers them, and its pages are cut out of an enumeration
defined by what it is (`InOrder`), not by how a library operator computes it; a score
that was written leaves the head of its instance's queue, which is where `LineHolds`
says it is.

Only model-checked:

- liveness (`EventuallySettled`, `Converges`): fairness and ENABLED are out of the prover's
  reach;
- the runs that expect a violation, of course.

Not used in any module with a theorem: RECURSIVE operators. What a recursive
definition computes for every input could not be proved here; none is needed.

## 5. Disagreements found

Those a run shows:

1. Reputation twice (`OutboxCredit`). The relay copies each escrow event into a
   webhook row with the same type, claims that row too, and hands it to the
   consumer registered for `escrow.*`, which does not compare `dedupKey` as
   `TRANSACTIONAL_OUTBOX.md` requires.
2. `processBatch` spins (`WebhookBatchReturns`). It awaits only while something is
   left to start; with a batch that fits the pool, as always, it never yields.
3. `applyChainState` (`EscrowRepair`). Its comment promises that a row modified
   since the chain was read is not overwritten. A row without version skips the
   check, and the check is not atomic with the write.
4. Delivered without its webhooks (`OutboxFanOut`). `TRANSACTIONAL_OUTBOX.md` counts the
   registered endpoints among the targets that must succeed before a row is marked
   delivered; `sendWebhook` appends their row without waiting for it, and a failing append
   is only logged.
5. Two resolutions of one gig (`gig_shared_connection`). `mutateWithRetry` WATCHes
   on the connection all requests share; another request's EXEC or UNWATCH
   ends the watch, and an accept and an expiry both commit.

Those met while modelling, which the properties exclude by a history variable or
the modules show in passing (paths as in section 1):

- Escrows: `docs/state-model.md:72-74` says that `release()` has no precondition, while
  `escrow.service.ts:386-387` refuses a released and a cancelled escrow.
  `docs/transaction-boundaries.md:52` says of a connection error that nothing was applied: an EXEC may
  have been applied all the same, and another instance sees what this one keeps in its map.
- Disputes: a crash between `raiseDispute` and the third step leaves a saga no call
  advances. After a release past the saga the payout throws, its compensation turns
  the settled escrow back to disputed, and a new escalation settles it again (flagged).
- Ingestion: a reorganisation's rewind is ignored, since `updateCursor` is monotone
  (`event-ingestion.service.ts:354-367`); a failed read of the cursor makes it start
  1000 ledgers back from the tip. The indexer's cursor passes failed stores and all
  pages but the first, despite the comment at `soroban-event-indexer.service.ts:161`;
  its get-then-set can move it backward.
- Failover: an endpoint that answers with an HTTP error is never left.
- Gigs: `create` takes an aborted or half-applied EXEC for an outage and reports success
  for a gig in one process's memory. The commands of an EXEC are not rolled back: where
  the row's alone fails, the gig stays open and no sweep finds it any more.
- Deliverables: an accepted gig can be written over (item 5 above, or the map of a process, which
  `persistResolved` and `persistGig` write whatever it holds) while a file is being pinned; the
  deliverable is stored for a gig that is somebody else's, cancelled or open again.
- Requests: a 408 releases the key while the handler runs on, and uncounts it for the drain.
- Auth: a login whose transaction was applied and reported as failed leaves its token in
  Redis and in memory, and it can be exchanged once in each; a challenge that two instances
  kept in their maps logs in twice when a third call fails; a refresh with the wrong address
  consumes the token; the family's key is not extended by rotations; `store` may hand out a
  challenge it did not keep (`?? challenge`).
- Gateway: without a Socket.IO adapter an event reaches the sockets of the claiming
  instance only, although `event-dedup.service.ts` calls a dropped event a missed
  update; a draining instance goes on claiming.
- Pinning: re-pinning keeps only this request's providers; a health check turns unpinned
  records into failed ones, which the worker then re-checks for ever; a late persist can
  resurrect an unpinned record; a check whose GET fails takes an old copy from the instance's map
  and persists it over a record being unpinned; a breaker's kept function acts on its first CID, against
  `API_DOCUMENTATION.md:571` on the pin events.
- Migrations: between SET NX and the creation of its record a run can be taken for stale
  and reclaimed ("Atomically claims the active run slot"); a rollback takes no slot and
  clears another run's marker; a crash leaves the marker and 409 for ever; every boot
  reruns the migration.
- Profiles: concurrent creates leave two profiles for a wallet; a second, overlapping
  delete removes another profile's wallet key. Subscriptions: an update that waits for
  the name service brings back a removed one. Scores: a failed GET starts from zero and
  overwrites.
- Webhooks and Discord: a call during shutdown returns as if delivered; a 429 or 5xx
  of Discord matches nothing in `isRetryable` and is never retried, nor is the webhook
  time limit.
- Reminders: every threshold at or above the remaining time is returned, not one
  window (`milestone-expiry-scheduler.service.ts:154`); a crash after the claim loses it.
- Audit: replica errors do not fall back to the primary (`database.service.ts:18`); the
  checksum of a paged export never resolves when no database is configured.
- Dead code: the legacy admin map of the outbox, `NotificationDeduplicationService`,
  `CacheService`, `AuditService.exportLogs`; milestone approval always fails, since its
  map is never filled.

## 6. Not modelled

The in-memory stores used when no Redis is configured (outside production), the legacy admin
map of the outbox, milestone approval, amounts and parties of escrows, the arithmetic of
scores, HTTP parsing and authorisation, GraphQL, XDR building, signatures, metrics, logging,
configuration, the admin's and the analytics' queries (reads only), provider-health
statistics, the contract-upgrade migration. Time is abstracted to "due or not" and "lease
over or not", or to a few ticks where durations matter (`RateLimit`, `Reminders`,
`BalanceWatch`). A Redis command is atomic and Redis keeps what it acknowledged. A
transaction may be applied whole, in part (where the code writes keys of several types) or
not at all, and be reported either way; that of an outbox row is applied whole or not at
all. Further: an update that moves a gig's `respondBy` after reminders of the old one were
claimed, a rollback whose read of the run fails, a failure between the two GETs of a
profile's check, and a notification channel without its key. `PROJECT.json` says per
component what is left out.

## 7. Plan

The model covers the components that keep state, and all their safety properties are
proved. What is left:

1. Liveness stays with TLC (`EventuallySettled`, `Converges`). The steps of an argument by
   hand are there: `DeliveryInv` says that an owed row is in an index a worker reads.
2. Of section 6, the stores in memory would be next: they repeat the protocols of the
   Redis stores with one process and no failing call.

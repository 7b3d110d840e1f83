------------------------------ MODULE Workers -------------------------------
(***************************************************************************)
(* What the backend does in the background, side by side: the gigs and      *)
(* their expiry sweep (GigExpiry), the ingestion of chain events, the       *)
(* Soroban indexer, the choice of an RPC endpoint, the data migrations and  *)
(* the reminders. They share neither state nor calls, so an invariant that  *)
(* speaks of one of them holds in every interleaving of all if it holds     *)
(* when that one moves alone: `service` says which one does.                *)
(***************************************************************************)
EXTENDS GigExpiry

CONSTANTS
  Events, LedgerOf, KeyOf, NoKey, Pollers, Admins, Home, LastLedger, MaxRange,
  Lookback, MaxRequests, MaxFaults,                               \* Ingestion
  IndexEvents, IndexLedgerOf, Indexers, Tip, IndexRange, IndexLookback, PageSize,
  MaxIndexFaults,                                                 \* Indexer
  Endpoints, MaxUnhealthy, MaxCount,                              \* Failover
  Runs, Undos, CallHome, Rows, BatchSize, MaxTroubles, MaxBreaks, \* Migration
  OpenAtFirst, Deadlines, Distances, Schedulers, Horizon, MaxUpsets  \* Reminders

ASSUME IngestionAssumption ==
  /\ Events \subseteq Nat /\ \A e \in Events : LedgerOf[e] \in Nat
  /\ \A e, f \in Events : e <= f => LedgerOf[e] <= LedgerOf[f]
  /\ LastLedger \in Nat \ {0} /\ MaxRange \in Nat \ {0} /\ Lookback \in Nat
  /\ MaxRequests \in Nat /\ MaxFaults \in Nat
ASSUME IndexerAssumption ==
  /\ IndexEvents \subseteq Nat /\ \A e \in IndexEvents : IndexLedgerOf[e] \in Nat \ {0}
  /\ Tip \in Nat \ {0} /\ IndexRange \in Nat \ {0} /\ IndexLookback \in Nat
  /\ MaxIndexFaults \in Nat
ASSUME FailoverAssumption ==
  /\ Endpoints \subseteq Nat /\ 1 \in Endpoints
  /\ MaxUnhealthy \in Nat \ {0} /\ MaxCount \in Nat /\ MaxUnhealthy <= MaxCount
ASSUME MigrationAssumption ==
  /\ Runs \cap Undos = {} /\ Nobody \notin Runs \cup Undos
  /\ IsFiniteSet(Rows) /\ Rows = 1 .. Cardinality(Rows)
  /\ BatchSize \in Nat \ {0} /\ MaxTroubles \in Nat /\ MaxBreaks \in Nat
ASSUME RemindersAssumption ==
  /\ \A g \in OpenAtFirst : Deadlines[g] \in Nat
  /\ Distances \subseteq Nat \ {0} /\ Horizon \in Nat /\ MaxUpsets \in Nat

VARIABLES
  service,
  cursor, latest, oldest, processed, ownEvents, job, requests, ingestFaults, tried, excused,
  indexCursor, head, tail, indexed, poll, running, indexFaults, passedOver,
  current, healthy, failureCount, unchecked, held,
  marker, runRecord, ownRuns, call, urgent, priority, columnAdded, troubles, breaks,
  strayed, newest, mixed,
  clock, open, sentKeys, inMemory, todo, inSweep, holding, upsets, sent, lost

Ingest == INSTANCE Ingestion WITH record <- processed, memory <- ownEvents
Index == INSTANCE Indexer WITH stored <- indexed
Rpc == INSTANCE Failover WITH MaxFailures <- MaxUnhealthy
Migrate == INSTANCE Migration WITH Home <- CallHome, record <- runRecord, own <- ownRuns,
                                   unguarded <- strayed
Remind == INSTANCE Reminders WITH OpenGigs <- OpenAtFirst, RespondBy <- Deadlines

ingestVars == <<cursor, latest, oldest, processed, ownEvents, job, requests, ingestFaults, tried, excused>>
indexVars == <<indexCursor, head, tail, indexed, poll, running, indexFaults, passedOver>>
rpcVars == <<current, healthy, failureCount, unchecked, held>>
migrateVars == <<marker, runRecord, ownRuns, call, urgent, priority, columnAdded, troubles, breaks,
                 strayed, newest, mixed>>
remindVars == <<clock, open, sentKeys, inMemory, todo, inSweep, holding, upsets, sent, lost>>

Services == {"gigs", "ingestion", "indexer", "rpc", "migration", "reminders"}

WorkersInit ==
  /\ service \in Services
  /\ Init /\ Ingest!Init /\ Index!Init /\ Rpc!Init /\ Migrate!Init /\ Remind!Init
  /\ service # "gigs" => gigs = [g \in Gigs |-> "none"]

Only(s) == service = s /\ UNCHANGED service
Others(s) ==
  /\ s # "gigs" => UNCHANGED vars
  /\ s # "ingestion" => UNCHANGED ingestVars
  /\ s # "indexer" => UNCHANGED indexVars
  /\ s # "rpc" => UNCHANGED rpcVars
  /\ s # "migration" => UNCHANGED migrateVars
  /\ s # "reminders" => UNCHANGED remindVars

WorkersNext ==
  \/ Only("gigs") /\ Next /\ Others("gigs")
  \/ Only("ingestion") /\ Ingest!Next /\ Others("ingestion")
  \/ Only("indexer") /\ Index!Next /\ Others("indexer")
  \/ Only("rpc") /\ Rpc!Next /\ Others("rpc")
  \/ Only("migration") /\ Migrate!Next /\ Others("migration")
  \/ Only("reminders") /\ Remind!Next /\ Others("reminders")

WorkersSpec == WorkersInit /\ [][WorkersNext]_<<service, vars, ingestVars, indexVars, rpcVars,
                                                migrateVars, remindVars>>

----------------------------------------------------------------------------
WorkersTypeOK ==
  /\ service \in Services
  /\ service = "gigs" => TypeOK
  /\ service = "ingestion" => Ingest!TypeOK
  /\ service = "indexer" => Index!TypeOK
  /\ service = "rpc" => Rpc!TypeOK
  /\ service = "migration" => Migrate!TypeOK
  /\ service = "reminders" => Remind!TypeOK

(* A lock is freed by nobody but its holder, and two instances sweep at once only *)
(* if a lease ran out under one of them (DistributedLockService, tick).           *)
SweepsBehindLock == HolderHolds /\ SweepsAlone

(* No event of the chain is passed over by ingestion, save those listed as        *)
(* excused, and those of one escrow are handled in their order; the indexer has   *)
(* stored what its cursor is past; and an endpoint that keeps failing is left     *)
(* while another one answers (EventIngestionService, SorobanEventIndexerService,  *)
(* RpcFailoverService).                                                           *)
ChainIsRead ==
  /\ service = "ingestion" => Ingest!NothingForgotten /\ Ingest!HandledInOrder
  /\ service = "indexer" => Index!IndexedUpToCursor
  /\ service = "rpc" => Rpc!LeftInTime

(* Migrations do not overlap as long as their slot was taken, a run that ends     *)
(* gives it back, and a row never loses both of its values (MigrationRunner).     *)
MigrationsAreSafe ==
  service = "migration" => Migrate!OneRunUnlessUnguarded /\ Migrate!SlotIsReleased /\ Migrate!RowsKeepAValue

\* No reminder goes out twice unless a claim on it was lost (claimReminder).
RemindedOnce == Remind!RemindedOnce
=============================================================================

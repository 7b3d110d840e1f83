------------------------------- MODULE Outbox -------------------------------
(***************************************************************************)
(* The Redis-backed transactional outbox: two sorted sets (pending and     *)
(* processing) over event rows, claimed under a lease by concurrent relay  *)
(* passes and by the webhook processor of every instance.                  *)
(*                                                                         *)
(* Time is abstracted: a pending row may be due at any moment, and a lease *)
(* may run out at any moment the constant SlowWorkers allows.              *)
(*                                                                         *)
(* A failing MULTI was applied as a whole or not at all, whichever is      *)
(* reported: its commands are on keys of this service alone, so that none  *)
(* fails for its type.                                                     *)
(***************************************************************************)
EXTENDS Naturals, FiniteSets

CONSTANTS
  Domain,      \* rows appended by the services (escrow.* events)
  Hooks,       \* rows of aggregate type 'webhook'; bounds the fan-outs
  Direct,      \* those of them a service may append by itself
  NoRow,       \* "no row"
  Instances,   \* backend processes
  Passes,      \* concurrent executions of OutboxRelayService.runOnce
  Processors,  \* WebhookProcessor cron ticks
  Host,        \* the instance each pass and processor runs in
  Replayers,   \* concurrent POST admin/outbox/replay-all requests
  BatchSize,
  MaxAttempts, \* config.OUTBOX_MAX_ATTEMPTS
  SlowWorkers, \* may a live worker outlive its lease?
  Faults,      \* may a Redis call or a handler fail?
  MaxCrashes   \* bounds the process crashes

Rows == Domain \cup Hooks
Workers == Passes \cup Processors
Statuses == {"none", "pending", "retrying", "delivered", "failed", "gone"}
Labels == {"idle", "claim", "load", "publish", "dispatch", "mark", "retry", "spin"}

ASSUME OutboxAssumption ==
  /\ Domain \cap Hooks = {} /\ NoRow \notin Rows /\ Direct \subseteq Hooks
  /\ Passes \cap Processors = {}
  /\ Host \in [Workers -> Instances]
  /\ BatchSize \in Nat \ {0}
  /\ MaxAttempts \in Nat \ {0}
  /\ SlowWorkers \in BOOLEAN /\ Faults \in BOOLEAN
  /\ MaxCrashes \in Nat

VARIABLES
  status,     \* status in the row's body; "none"/"gone": no body (yet/any more)
  attempts,   \* attempts in the row's body
  parent,     \* the row whose dedupKey a webhook row carries, or NoRow
  pending,    \* members of outbox:pending
  processing, \* members of outbox:processing
  expired,    \* members of outbox:processing whose lease is over
  pc, batch, cur, seen, \* per worker: label, ids claimed and not yet taken up,
                        \* the id in hand, attempts as loaded
  frozen,     \* instances whose event loop is blocked
  replaying,  \* per replay request: the failed row it has just read, or NoRow
  crashes,
  published, handled,   \* history: rows published, rows all handlers accepted
  credited    \* history: reputation contributions per dedupKey, saturating at 2

redisVars  == <<status, attempts, parent, pending, processing, expired>>
workerVars == <<pc, batch, cur, seen>>
histVars   == <<published, handled, credited>>
vars == <<redisVars, workerVars, frozen, replaying, crashes, histVars>>

Queued == pending \cup processing
Running(w) == Host[w] \notin frozen
Holding(w) == batch[w] \cup ({cur[w]} \ {NoRow})

\* The dedupKey a row carries, named by the row it was first created for.
DedupKey(e) == IF e \in Hooks THEN parent[e] ELSE e
Unloaded == [e \in Rows |-> 0]
Saturate(n) == IF n = 0 THEN 1 ELSE 2

Init ==
  /\ status = [e \in Rows |-> "none"]
  /\ attempts = [e \in Rows |-> 0]
  /\ parent = [h \in Hooks |-> NoRow]
  /\ pending = {} /\ processing = {} /\ expired = {}
  /\ pc = [w \in Workers |-> "idle"]
  /\ batch = [w \in Workers |-> {}]
  /\ cur = [w \in Workers |-> NoRow]
  /\ seen = [w \in Workers |-> Unloaded]
  /\ frozen = {} /\ crashes = 0
  /\ replaying = [r \in Replayers |-> NoRow]
  /\ published = {} /\ handled = {}
  /\ credited = [d \in Domain |-> 0]

----------------------------------------------------------------------------
(* Writers of rows. *)

\* appendToTransaction inside a service's MULTI: body and index in one EXEC.
AppendDomain(d) ==
  /\ status[d] = "none"
  /\ status' = [status EXCEPT ![d] = "pending"]
  /\ pending' = pending \cup {d}
  /\ UNCHANGED <<attempts, parent, processing, expired, workerVars, frozen,
                 replaying, crashes, histVars>>

\* WebhookService.dispatch called by a service: a webhook row of its own.
SendWebhook(h) ==
  /\ status[h] = "none"
  /\ status' = [status EXCEPT ![h] = "pending"]
  /\ pending' = pending \cup {h}
  /\ UNCHANGED <<attempts, parent, processing, expired, workerVars, frozen,
                 replaying, crashes, histVars>>

\* OUTBOX_DELIVERED_TTL_SECONDS after delivery the body expires.
ExpireBody(e) ==
  /\ status[e] = "delivered"
  /\ status' = [status EXCEPT ![e] = "gone"]
  /\ UNCHANGED <<attempts, parent, pending, processing, expired, workerVars,
                 frozen, replaying, crashes, histVars>>

----------------------------------------------------------------------------
(* Steps shared by the relay and the webhook processor: both name the same *)
(* two keys, whatever they pass for _isWebhook.                            *)

\* Variant: the sweep never looks at the processing set.
ReclaimNothing(w) ==
  /\ pc[w] = "idle" /\ Running(w)
  /\ pc' = [pc EXCEPT ![w] = "claim"]
  /\ UNCHANGED <<redisVars, batch, cur, seen, frozen, replaying, crashes, histVars>>

\* RECLAIM_EXPIRED_SCRIPT: up to BatchSize expired leases return to pending.
ReclaimExpired(w) ==
  /\ pc[w] = "idle" /\ Running(w)
  /\ \E S \in SUBSET expired :
       /\ Cardinality(S) <= BatchSize
       /\ S = {} => expired = {}
       /\ processing' = processing \ S
       /\ expired' = expired \ S
       /\ pending' = pending \cup S
  /\ pc' = [pc EXCEPT ![w] = "claim"]
  /\ UNCHANGED <<status, attempts, parent, batch, cur, seen, frozen, replaying,
                 crashes, histVars>>

\* Variant: a claimed row is popped instead of moved.
ClaimRowsPop(w, S) ==
  /\ pc[w] = "claim" /\ Running(w)
  /\ S \subseteq pending /\ Cardinality(S) <= BatchSize
  /\ pending' = pending \ S
  /\ batch' = [batch EXCEPT ![w] = S]
  /\ pc' = [pc EXCEPT ![w] = IF S = {} THEN "idle" ELSE "load"]
  /\ UNCHANGED <<status, attempts, parent, processing, expired, cur, seen, frozen,
                 replaying, crashes, histVars>>

\* Variant: a claimed row stays in the pending set.
ClaimRowsCopy(w, S) ==
  /\ pc[w] = "claim" /\ Running(w)
  /\ S \subseteq pending /\ Cardinality(S) <= BatchSize
  /\ processing' = processing \cup S
  /\ expired' = expired \ S
  /\ batch' = [batch EXCEPT ![w] = S]
  /\ pc' = [pc EXCEPT ![w] = IF S = {} THEN "idle" ELSE "load"]
  /\ UNCHANGED <<status, attempts, parent, pending, cur, seen, frozen, replaying,
                 crashes, histVars>>

\* CLAIM_DUE_SCRIPT: due rows S move to processing under a new lease.
ClaimRows(w, S) ==
  /\ pc[w] = "claim" /\ Running(w)
  /\ S \subseteq pending /\ Cardinality(S) <= BatchSize
  /\ pending' = pending \ S
  /\ processing' = processing \cup S
  /\ expired' = expired \ S
  /\ batch' = [batch EXCEPT ![w] = S]
  /\ pc' = [pc EXCEPT ![w] = IF S = {} THEN "idle" ELSE "load"]
  /\ UNCHANGED <<status, attempts, parent, cur, seen, frozen, replaying, crashes,
                 histVars>>

ClaimDue(w) == \E S \in SUBSET pending : ClaimRows(w, S)

\* loadEvents: a second round trip reads the bodies with one GET each; ids whose body
\* is not there, or whose GET fails, are left in processing.
Loadable(w) == {e \in batch[w] : status[e] \notin {"none", "gone"}}

LoadRows(w, L) ==
  /\ pc[w] = "load" /\ Running(w)
  /\ L = Loadable(w) \/ (Faults /\ L \subseteq Loadable(w))
  /\ batch' = [batch EXCEPT ![w] = L]
  /\ seen' = [seen EXCEPT ![w] = [e \in Rows |-> IF e \in L THEN attempts[e] ELSE 0]]
  /\ pc' = [pc EXCEPT ![w] = IF L = {} THEN "idle"
                             ELSE IF w \in Processors THEN "spin" ELSE "publish"]
  /\ frozen' = IF w \in Processors /\ L # {} THEN frozen \cup {Host[w]} ELSE frozen
  /\ UNCHANGED <<redisVars, cur, replaying, crashes, histVars>>

LoadEvents(w) == \E L \in SUBSET batch[w] : LoadRows(w, L)

\* Either call throws: the tick is over and what the script claimed stays in
\* processing. (A script that throws before it is applied claimed nothing.)
LoadThrows(w) ==
  /\ Faults /\ pc[w] = "load" /\ Running(w)
  /\ batch' = [batch EXCEPT ![w] = {}]
  /\ pc' = [pc EXCEPT ![w] = "idle"]
  /\ UNCHANGED <<redisVars, cur, seen, frozen, replaying, crashes, histVars>>

----------------------------------------------------------------------------
(* OutboxRelayService.runOnce, one row at a time. *)

\* Variant: rows that are webhooks already are fanned out as well (#792).
FanOutAlways(e) ==
  \/ \E h \in Hooks :
       /\ status[h] = "none"
       /\ status' = [status EXCEPT ![h] = "pending"]
       /\ parent' = [parent EXCEPT ![h] = DedupKey(e)]
       /\ pending' = pending \cup {h}
  \/ /\ \A h \in Hooks : status[h] # "none"
     /\ UNCHANGED <<status, parent, pending>>

\* What sendWebhook does after a successful publish of e: nothing for a row that
\* is a webhook already; otherwise its own MULTI appends a new webhook row. The
\* call is not awaited and its failure is only logged, but it runs before the
\* next command of the same connection.
FanOut(e) ==
  \/ /\ e \in Hooks
     /\ UNCHANGED <<status, parent, pending>>
  \/ /\ e \in Domain
     /\ \/ \E h \in Hooks :
             /\ status[h] = "none"
             /\ status' = [status EXCEPT ![h] = "pending"]
             /\ parent' = [parent EXCEPT ![h] = DedupKey(e)]
             /\ pending' = pending \cup {h}
        \/ /\ Faults \/ \A h \in Hooks : status[h] # "none"
           /\ UNCHANGED <<status, parent, pending>>

\* publisher.publish (one MULTI: channel, list, trim), then the fan-out.
RelayPublish(w) ==
  /\ pc[w] = "publish" /\ Running(w)
  /\ \E e \in batch[w] :
       /\ batch' = [batch EXCEPT ![w] = @ \ {e}]
       /\ cur' = [cur EXCEPT ![w] = e]
       /\ \/ /\ published' = published \cup {e}
             /\ FanOut(e)
             /\ pc' = [pc EXCEPT ![w] = "dispatch"]
          \/ /\ Faults
             /\ published' \in {published, published \cup {e}}
             /\ pc' = [pc EXCEPT ![w] = "retry"]
             /\ UNCHANGED <<status, parent, pending>>
  /\ UNCHANGED <<attempts, processing, expired, seen, frozen, replaying, crashes,
                 handled, credited>>

\* EscrowEventsConsumer is registered for 'escrow.*' and looks at event.type only,
\* so a webhook row copied from an escrow row reaches it as well.
Credit(e) ==
  IF DedupKey(e) = NoRow THEN credited
  ELSE [credited EXCEPT ![DedupKey(e)] = Saturate(@)]

\* Variant: a failing handler is logged and the row goes on to be marked.
RelayDispatchSwallows(w) ==
  /\ pc[w] = "dispatch" /\ Running(w)
  /\ \/ handled' = handled \cup {cur[w]} /\ credited' = Credit(cur[w])
     \/ Faults /\ UNCHANGED <<handled, credited>>
  /\ pc' = [pc EXCEPT ![w] = "mark"]
  /\ UNCHANGED <<redisVars, batch, cur, seen, frozen, replaying, crashes, published>>

RelayDispatch(w) ==
  /\ pc[w] = "dispatch" /\ Running(w)
  /\ \/ /\ handled' = handled \cup {cur[w]}
        /\ credited' = Credit(cur[w])
        /\ pc' = [pc EXCEPT ![w] = "mark"]
     \/ /\ Faults
        /\ credited' \in {credited, Credit(cur[w])}
        /\ pc' = [pc EXCEPT ![w] = "retry"]
        /\ UNCHANGED handled
  /\ UNCHANGED <<redisVars, batch, cur, seen, frozen, replaying, crashes, published>>

\* The loop goes on with the rest of the batch, or the pass ends.
NextRow(w) ==
  /\ cur' = [cur EXCEPT ![w] = NoRow]
  /\ seen' = [seen EXCEPT ![w][cur[w]] = 0]
  /\ pc' = [pc EXCEPT ![w] = IF batch[w] = {} THEN "idle" ELSE "publish"]
  /\ UNCHANGED batch

\* Variant: the pending set is left alone.
WriteDeliveredKeepsPending(w, e) ==
  /\ status' = [status EXCEPT ![e] = "delivered"]
  /\ attempts' = [attempts EXCEPT ![e] = seen[w][e]]
  /\ processing' = processing \ {e}
  /\ expired' = expired \ {e}
  /\ UNCHANGED pending

\* Variant: the attempt count starts again with the delivery.
WriteDeliveredFresh(w, e) ==
  /\ status' = [status EXCEPT ![e] = "delivered"]
  /\ attempts' = [attempts EXCEPT ![e] = 0]
  /\ pending' = pending \ {e}
  /\ processing' = processing \ {e}
  /\ expired' = expired \ {e}

\* The MULTI of markDelivered; it writes back the row as it was loaded.
WriteDelivered(w, e) ==
  /\ status' = [status EXCEPT ![e] = "delivered"]
  /\ attempts' = [attempts EXCEPT ![e] = seen[w][e]]
  /\ pending' = pending \ {e}
  /\ processing' = processing \ {e}
  /\ expired' = expired \ {e}

MarkDelivered(w) ==
  /\ pc[w] = "mark" /\ Running(w)
  /\ \/ WriteDelivered(w, cur[w]) /\ NextRow(w)
     \/ /\ Faults
        /\ WriteDelivered(w, cur[w]) \/ UNCHANGED <<status, attempts, pending, processing, expired>>
        /\ pc' = [pc EXCEPT ![w] = "retry"]
        /\ UNCHANGED <<batch, cur, seen>>
  /\ UNCHANGED <<parent, frozen, replaying, crashes, histVars>>

\* Variant: the limit is compared with > instead of >=.
WriteRetryOneMore(w, e) ==
  /\ attempts' = [attempts EXCEPT ![e] = seen[w][e] + 1]
  /\ processing' = processing \ {e}
  /\ expired' = expired \ {e}
  /\ status' = [status EXCEPT ![e] = IF seen[w][e] + 1 > MaxAttempts THEN "failed" ELSE "retrying"]
  /\ pending' = IF seen[w][e] + 1 > MaxAttempts THEN pending ELSE pending \cup {e}

\* Variant: a row is rescheduled even at the limit.
WriteRetryAlways(w, e) ==
  LET n == IF seen[w][e] < MaxAttempts THEN seen[w][e] + 1 ELSE MaxAttempts IN
  /\ attempts' = [attempts EXCEPT ![e] = n]
  /\ processing' = processing \ {e}
  /\ expired' = expired \ {e}
  /\ status' = [status EXCEPT ![e] = IF n >= MaxAttempts THEN "failed" ELSE "retrying"]
  /\ pending' = pending \cup {e}

\* The MULTI of retry: the attempt count is the loaded one plus one (counts past
\* the limit are not told apart). The pending set is touched only when another
\* attempt is scheduled.
WriteRetry(w, e) ==
  LET n == IF seen[w][e] < MaxAttempts THEN seen[w][e] + 1 ELSE MaxAttempts IN
  /\ attempts' = [attempts EXCEPT ![e] = n]
  /\ processing' = processing \ {e}
  /\ expired' = expired \ {e}
  /\ \/ /\ n >= MaxAttempts
        /\ status' = [status EXCEPT ![e] = "failed"]
        /\ UNCHANGED pending
     \/ /\ n < MaxAttempts
        /\ status' = [status EXCEPT ![e] = "retrying"]
        /\ pending' = pending \cup {e}

RetryWritten(w) ==
  /\ pc[w] = "retry" /\ Running(w)
  /\ WriteRetry(w, cur[w])
  /\ NextRow(w)
  /\ UNCHANGED <<parent, frozen, replaying, crashes, histVars>>

\* A retry that throws (applied or not) leaves the loop over the batch, whose
\* other rows stay in processing until their leases are over.
RetryThrows(w) ==
  /\ Faults /\ pc[w] = "retry" /\ Running(w)
  /\ WriteRetry(w, cur[w]) \/ UNCHANGED <<status, attempts, pending, processing, expired>>
  /\ pc' = [pc EXCEPT ![w] = "idle"]
  /\ batch' = [batch EXCEPT ![w] = {}]
  /\ cur' = [cur EXCEPT ![w] = NoRow]
  /\ seen' = [seen EXCEPT ![w] = Unloaded]
  /\ UNCHANGED <<parent, frozen, replaying, crashes, histVars>>

----------------------------------------------------------------------------
(* replayAll: GET each body, then a MULTI per row found failed. *)

ReplayRead(r) ==
  /\ replaying[r] = NoRow
  /\ \E e \in Rows : status[e] = "failed" /\ replaying' = [replaying EXCEPT ![r] = e]
  /\ UNCHANGED <<redisVars, workerVars, frozen, crashes, histVars>>

ReplayWrite(r) ==
  /\ replaying[r] # NoRow
  /\ \/ /\ status' = [status EXCEPT ![replaying[r]] = "pending"]
        /\ attempts' = [attempts EXCEPT ![replaying[r]] = 0]
        /\ pending' = pending \cup {replaying[r]}
     \/ Faults /\ UNCHANGED <<status, attempts, pending>>
  /\ replaying' = [replaying EXCEPT ![r] = NoRow]
  /\ UNCHANGED <<parent, processing, expired, workerVars, frozen, crashes, histVars>>

----------------------------------------------------------------------------
(* Environment. *)

\* A lease runs out. Without SlowWorkers only rows nobody is working on any more
\* (crash, aborted batch, blocked event loop) get that far.
LeaseExpires(e) ==
  /\ e \in processing \ expired
  /\ SlowWorkers \/ \A w \in Workers : e \in Holding(w) => ~Running(w)
  /\ expired' = expired \cup {e}
  /\ UNCHANGED <<status, attempts, parent, pending, processing, workerVars, frozen,
                 replaying, crashes, histVars>>

\* An instance dies (or is killed because it no longer answers) and restarts.
Crash(i) ==
  /\ crashes < MaxCrashes
  /\ \E w \in Workers : Host[w] = i /\ pc[w] # "idle"
  /\ crashes' = crashes + 1
  /\ frozen' = frozen \ {i}
  /\ pc' = [w \in Workers |-> IF Host[w] = i THEN "idle" ELSE pc[w]]
  /\ batch' = [w \in Workers |-> IF Host[w] = i THEN {} ELSE batch[w]]
  /\ cur' = [w \in Workers |-> IF Host[w] = i THEN NoRow ELSE cur[w]]
  /\ seen' = [w \in Workers |-> IF Host[w] = i THEN Unloaded ELSE seen[w]]
  /\ UNCHANGED <<redisVars, replaying, histVars>>

RelayStep(w) ==
  RelayPublish(w) \/ RelayDispatch(w) \/ MarkDelivered(w) \/ RetryWritten(w) \/ RetryThrows(w)
WorkerStep(w) ==
  ReclaimExpired(w) \/ ClaimDue(w) \/ LoadEvents(w) \/ LoadThrows(w) \/ RelayStep(w)

Next ==
  \/ \E d \in Domain : AppendDomain(d)
  \/ \E h \in Direct : SendWebhook(h)
  \/ \E e \in Rows : ExpireBody(e) \/ LeaseExpires(e)
  \/ \E w \in Workers : WorkerStep(w)
  \/ \E r \in Replayers : ReplayRead(r) \/ ReplayWrite(r)
  \/ \E i \in Instances : Crash(i)

Spec == Init /\ [][Next]_vars

\* The timers keep firing and an awaited call settles. ZRANGEBYSCORE returns the
\* longest-due row first, so a row that stays due is claimed in the end. Redis does
\* not refuse to load a row, or its retry write, for ever. Nothing is assumed of
\* appends, crashes or replays.
Fairness ==
  /\ \A w \in Workers : WF_vars(WorkerStep(w))
  /\ \A e \in Rows :
       /\ WF_vars(LeaseExpires(e))
       /\ SF_vars(\E w \in Workers, S \in SUBSET pending : e \in S /\ ClaimRows(w, S))
       /\ SF_vars(\E w \in Workers : \E L \in SUBSET batch[w] : e \in L /\ LoadRows(w, L))
       /\ SF_vars(\E w \in Passes : cur[w] = e /\ RetryWritten(w))

FairSpec == Spec /\ Fairness

----------------------------------------------------------------------------
(* What the outbox promises its producers, its consumers and its operators. *)

TypeOK ==
  /\ status \in [Rows -> Statuses]
  /\ attempts \in [Rows -> 0..MaxAttempts]
  /\ parent \in [Hooks -> Domain \cup {NoRow}]
  /\ pending \subseteq Rows
  /\ processing \subseteq Rows
  /\ expired \subseteq processing
  /\ pc \in [Workers -> Labels]
  /\ batch \in [Workers -> SUBSET Rows]
  /\ cur \in [Workers -> Rows \cup {NoRow}]
  /\ seen \in [Workers -> [Rows -> 0..MaxAttempts]]
  /\ frozen \subseteq Instances
  /\ replaying \in [Replayers -> Rows \cup {NoRow}]
  /\ crashes \in Nat
  /\ published \subseteq Rows
  /\ handled \subseteq Rows
  /\ credited \in [Domain -> 0..2]

\* At-least-once delivery: whatever crashes, expired leases, replays and stale
\* writes happened, a row that still has to be delivered is in one of the two
\* indexes a later sweep reads. (claimDue, reclaimExpired, retry, replayAll.)
NeverLost ==
  \A e \in Rows : status[e] \in {"pending", "retrying"} => e \in Queued

\* No index entry is left behind for a row that is done: an entry whose body is
\* delivered would be sent again, one whose body has expired would be claimed and
\* reclaimed for ever (loadEvents leaves it in processing).
QueuedIsUndelivered ==
  \A e \in Queued : status[e] \in {"pending", "retrying", "failed"}

\* A row is marked delivered only after the publisher and every in-process
\* handler accepted that very row (runOnce), even if another worker took it over.
\* (The third target the documents name is DeliveredIsFannedOut's.)
DeliveredWasHandled ==
  \A e \in Rows : status[e] \in {"delivered", "gone"} => e \in published \cap handled

\* While no live worker outlives its lease, nobody works on a row that another
\* worker has, or that the indexes offer to another worker.
ExclusiveLease ==
  \A v, w \in Workers : Running(v) /\ Running(w) /\ v # w =>
    /\ Holding(v) \cap Holding(w) = {}
    /\ Holding(v) \cap (pending \cup expired) = {}

\* A row at the attempt limit is out of the retry indexes (retry).
FailedIsRetired ==
  \A e \in Rows : status[e] = "failed" => e \notin Queued

\* The attempt count of a row never goes back, except when an administrator
\* replays a failed row. (retry computes it from the loaded copy.)
AttemptsMonotone ==
  [][\A e \in Rows : attempts'[e] < attempts[e] =>
        /\ status[e] = "failed" /\ status'[e] = "pending"
        /\ \E r \in Replayers : replaying[r] = e]_vars

\* A webhook row is appended by a service, or by the relay for the domain row a pass is
\* publishing, never for a row that is itself a webhook row (runOnce, #792).
NoRespawn ==
  [][\A h \in Hooks :
        /\ status[h] = "none" /\ status'[h] # "none"
        /\ h \notin Direct \/ parent'[h] # NoRow
       => \E w \in Passes :
            pc[w] = "publish" /\ cur'[w] \in Domain /\ cur'[w] = parent'[h]]_vars

\* Every row that is appended, tried before, reclaimed after a crash or left behind
\* by an aborted batch is delivered or fails for good in the end, unless the webhook
\* processors have blocked the event loop of every instance (BatchReturns of
\* WebhookBatch): one instance left is enough to take over what the others hold.
\* (Checked for one row: an administrator who replays a row for ever can starve
\* the rest of its batch, but not the row itself.)
EventuallySettled ==
  \A e \in Rows : (status[e] \in {"pending", "retrying"}) ~>
                   (status[e] \in {"delivered", "failed"} \/ frozen = Instances)

----------------------------------------------------------------------------
(* The outbox implements AtLeastOnce. *)

Fate(e) ==
  CASE status[e] = "none" -> "new"
    [] status[e] \in {"pending", "retrying"} /\ e \in Queued -> "owed"
    [] status[e] \in {"delivered", "gone"} /\ e \notin Queued -> "done"
    [] status[e] = "failed" -> "dead"
    [] OTHER -> "adrift"   \* body and indexes disagree: no fate of the abstract rows

Delivery == INSTANCE AtLeastOnce WITH
  fate <- [e \in Rows |-> Fate(e)],
  accepted <- published \cap handled

\* Body, indexes and targets together: seen from outside, every step of the relay, of
\* a late worker, of a replay or of a crash is one of the abstract outbox's, or none.
ImplementsAtLeastOnce == Delivery!Spec

----------------------------------------------------------------------------
(* Statements of the repository's documents that the code does not keep. *)

\* TRANSACTIONAL_OUTBOX.md, "Relay and at-least-once delivery": "consumers must
\* persist and compare `dedupKey`". Reputation is credited once per dedupKey.
CreditedOncePerDedupKey == \A d \in Domain : credited[d] <= 1

\* TRANSACTIONAL_OUTBOX.md, same section: the relay's targets include the registered
\* webhook endpoints, and a row is marked delivered only after every target
\* succeeds. Read as weakly as the words allow: what the webhooks are owed has at
\* least been appended as a row of its own. (sendWebhook's append is not awaited.)
DeliveredIsFannedOut ==
  \A d \in Domain : status[d] \in {"delivered", "gone"} =>
    \E h \in Hooks : status[h] # "none" /\ parent[h] = d
=============================================================================

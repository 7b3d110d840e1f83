----------------------------- MODULE Ingestion -----------------------------
(***************************************************************************)
(* Event ingestion: every instance polls the chain from the shared ledger   *)
(* cursor, processes the events of a range of ledgers and moves the cursor; *)
(* an administrator may ingest one ledger, announce a reorganisation or     *)
(* retry the failed events meanwhile. Processed events are recorded in      *)
(* Redis, or in the instance's memory while Redis fails.                    *)
(***************************************************************************)
EXTENDS Naturals, FiniteSets, FiniteSetsExt

CONSTANTS
  Events,        \* 1..n, in the order of (ledger, id)
  LedgerOf,      \* the ledger of each event
  KeyOf,         \* topic[1] of each event: an escrow, or NoKey
  NoKey,
  Pollers, Admins,
  Home,          \* the instance each of them runs in
  LastLedger,    \* bounds the chain
  MaxRange,      \* MAX_LEDGER_RANGE
  Lookback,      \* 1000 in ingestEvents
  MaxRequests,   \* bounds the administrator's calls
  MaxFaults      \* bounds the failed calls and the crashes

Workers == Pollers \cup Admins
Hosts == {Home[w] : w \in Workers}
NoCursor == LastLedger + 1
Stages == {"idle", "queued", "failed", "handled"}
Idle == [e \in Events |-> "idle"]
NoJob == [kind |-> "none", phase |-> "none", upTo |-> 0, seen |-> NoCursor, stage |-> Idle]

VARIABLES
  cursor,        \* ledger_cursor:<contract>, NoCursor when there is none
  latest, oldest, \* the ledgers the RPC node holds
  record,        \* processed-event:<id>: "none", "ok" or "failed"
  memory,        \* per instance: the fallback maps, of the records and of the cursor
  job,           \* per worker: what it is doing
  requests, ingestFaults,
  tried,         \* history: events whose handler ran
  excused        \* history: events a start past the cursor, a clear or a crash left out

vars == <<cursor, latest, oldest, record, memory, job, requests, ingestFaults, tried, excused>>

Init ==
  /\ cursor = NoCursor /\ latest = 1 /\ oldest = 1
  /\ record = [e \in Events |-> "none"]
  /\ memory = [i \in Hosts |-> [record |-> [e \in Events |-> "none"], cursor |-> NoCursor]]
  /\ job = [w \in Workers |-> NoJob]
  /\ requests = 0 /\ ingestFaults = 0
  /\ tried = {} /\ excused = {}

----------------------------------------------------------------------------
Between(a, b) == {e \in Events : LedgerOf[e] \in a .. b}
Known(e) == record[e] # "none" \/ \E i \in Hosts : memory[i].record[e] # "none"
InHand(e) == \E w \in Workers : job[w].stage[e] # "idle"
Fail == ingestFaults < MaxFaults /\ ingestFaults' = ingestFaults + 1
Go(w, j) == job' = [job EXCEPT ![w] = j]
Call == requests < MaxRequests /\ requests' = requests + 1

\* A call to Redis answers, or fails and the instance's own map answers.
Answer(found, own, got) == \/ got = found /\ UNCHANGED ingestFaults
                           \/ got = own /\ Fail
ReadCursor(w, got) == Answer(cursor, memory[Home[w]].cursor, got)

\* The chain grows; the node forgets old ledgers.
Grow == /\ \/ latest < LastLedger /\ latest' = latest + 1 /\ UNCHANGED oldest
           \/ oldest < latest /\ oldest' = oldest + 1 /\ UNCHANGED latest
        /\ UNCHANGED <<cursor, record, memory, job, requests, ingestFaults, tried, excused>>

StartLedger(seen, newest, first) ==
  IF seen # NoCursor THEN Max({seen + 1, first})
  ELSE Max({IF newest > Lookback THEN newest - Lookback ELSE 0, first})
EndLedger(start, newest) == Min({newest, start + MaxRange - 1})
Batch(kind, a, b) ==   \* the events of the ledgers a..b; the cursor is to move to upTo
  LET found == IF kind = "reorg" THEN {} ELSE Between(a, b)
  IN [kind |-> kind, phase |-> "batch", seen |-> NoCursor,
      upTo |-> IF kind = "poll" /\ found # {} THEN Max({LedgerOf[e] : e \in found}) ELSE b,
      stage |-> [e \in Events |-> IF e \in found THEN "queued" ELSE "idle"]]

(* ingestEvents: skipped while this instance's last ingestion is in flight, and *)
(* without effect when no ledger is new or the node fails (no step).            *)
IngestEvents(w) ==
  /\ job[w] = NoJob
  /\ \E seen \in 0 .. NoCursor :
       LET start == StartLedger(seen, latest, oldest)
           end == EndLedger(start, latest)
       IN /\ ReadCursor(w, seen) /\ start <= end
          /\ Go(w, Batch("poll", start, end))
          /\ excused' = IF seen = NoCursor \/ start = oldest
                        THEN excused \cup Between(0, start - 1) ELSE excused
  /\ UNCHANGED <<cursor, latest, oldest, record, memory, requests, tried>>

(* ingestSingleLedger, on request: not held back by a running ingestion. *)
IngestSingle(w) ==
  /\ job[w] = NoJob /\ Call
  /\ \E n \in oldest .. latest :
       /\ Go(w, Batch("single", n, n))
       /\ excused' = excused \cup {e \in Between(0, n - 1) : ~Known(e)}
  /\ UNCHANGED <<cursor, latest, oldest, record, memory, ingestFaults, tried>>

\* clearEventsFromLedger: the records in Redis, or if that fails the process's own.
ClearEventsFromLedger(w, n) ==
  LET Cleared(kept) == [e \in Events |-> IF LedgerOf[e] >= n THEN "none" ELSE kept[e]]
  IN \/ record' = Cleared(record) /\ UNCHANGED <<memory, ingestFaults>>
     \/ Fail /\ memory' = [memory EXCEPT ![Home[w]].record = Cleared(@)] /\ UNCHANGED record

(* handleReorg: the records from the ledger on are deleted; then the cursor. *)
Reorg(w) ==
  /\ job[w] = NoJob /\ Call
  /\ \E n \in oldest .. latest :
       /\ ClearEventsFromLedger(w, n)
       /\ excused' = excused \cup {e \in Events : LedgerOf[e] >= n \/ ~Known(e)}
       /\ Go(w, Batch("reorg", n - 1, n - 1))
  /\ UNCHANGED <<cursor, latest, oldest, tried>>

(* retryFailedEvents: one failed event after the other. *)
RetryFailed(w) ==
  /\ job[w] = NoJob /\ Call
  /\ \E e \in Events : record[e] = "failed"
  /\ Go(w, [NoJob EXCEPT !.kind = "retry", !.phase = "batch",
              !.stage = [e \in Events |-> IF record[e] = "failed" THEN "failed" ELSE "idle"]])
  /\ UNCHANGED <<cursor, latest, oldest, record, memory, ingestFaults, tried, excused>>

ClearFailed(w, e) ==
  /\ job[w].stage[e] = "failed" /\ \A f \in Events : job[w].stage[f] \in {"idle", "failed"}
  /\ \/ record' = [record EXCEPT ![e] = "none"] /\ UNCHANGED <<memory, ingestFaults>>
     \/ Fail /\ memory' = [memory EXCEPT ![Home[w]].record[e] = "none"] /\ UNCHANGED record
  /\ Go(w, [job[w] EXCEPT !.stage[e] = "queued"])
  /\ UNCHANGED <<cursor, latest, oldest, requests, tried, excused>>

(* processEventBatch: events without a key first, in order, then the groups of
   events with a key side by side, each in order. *)
Before(w, e) == {f \in Events : f < e /\ job[w].stage[f] \notin {"idle", "failed"}}
\* Variant: every event is grouped, those without a key too.
TurnInGroup(w, e) == \A f \in Before(w, e) : KeyOf[f] # KeyOf[e]
Turn(w, e) == IF KeyOf[e] = NoKey THEN \A f \in Before(w, e) : KeyOf[f] # NoKey
              ELSE \A f \in Events : job[w].stage[f] \in {"idle", "failed"} \/
                     (KeyOf[f] # NoKey /\ (KeyOf[f] = KeyOf[e] => f >= e))

\* processEvent: an event with a record, even of a failure, is left alone.
ProcessEvent(w, e) ==
  /\ job[w].stage[e] = "queued" /\ Turn(w, e)
  /\ \E got \in {"none", "ok", "failed"} :
       /\ Answer(record[e], memory[Home[w]].record[e], got)
       /\ Go(w, [job[w] EXCEPT !.stage[e] = IF got = "none" THEN "handled" ELSE "idle"])
       /\ tried' = IF got = "none" THEN tried \cup {e} ELSE tried
  /\ UNCHANGED <<cursor, latest, oldest, record, memory, requests, excused>>

\* Variant: the catch block records nothing.
PersistSuccess(w, e) ==
  /\ job[w].stage[e] = "handled"
  /\ \E result \in {"ok", "failed"} :
       \/ record' = [record EXCEPT ![e] = IF result = "ok" THEN "ok" ELSE @] /\ UNCHANGED <<memory, ingestFaults>>
       \/ Fail /\ memory' = [memory EXCEPT ![Home[w]].record[e] = result] /\ UNCHANGED record
  /\ Go(w, [job[w] EXCEPT !.stage[e] = "idle"])
  /\ UNCHANGED <<cursor, latest, oldest, requests, tried, excused>>

\* The result is recorded, whichever it is, here or in memory.
PersistEvent(w, e) ==
  /\ job[w].stage[e] = "handled"
  /\ \E result \in {"ok", "failed"} :
       \/ record' = [record EXCEPT ![e] = result] /\ UNCHANGED <<memory, ingestFaults>>
       \/ Fail /\ memory' = [memory EXCEPT ![Home[w]].record[e] = result] /\ UNCHANGED record
  /\ Go(w, [job[w] EXCEPT !.stage[e] = "idle"])
  /\ UNCHANGED <<cursor, latest, oldest, requests, tried, excused>>

(* updateCursor: read, compare, write, with nothing to hold the key between. *)
ReadForUpdate(w) ==
  /\ job[w].phase = "batch" /\ job[w].stage = Idle
  /\ \E c \in 0 .. NoCursor :
       /\ ReadCursor(w, c)
       /\ Go(w, IF job[w].kind = "retry" THEN NoJob
                ELSE [job[w] EXCEPT !.phase = "write", !.seen = c])
  /\ UNCHANGED <<cursor, latest, oldest, record, memory, requests, tried, excused>>

WriteCursor(w) ==
  /\ job[w].phase = "write" /\ Go(w, NoJob)
  /\ IF job[w].seen # NoCursor /\ job[w].seen >= job[w].upTo
     THEN UNCHANGED <<cursor, memory, ingestFaults>>
     ELSE \/ cursor' = job[w].upTo /\ UNCHANGED <<memory, ingestFaults>>
          \/ Fail /\ memory' = [memory EXCEPT ![Home[w]].cursor = job[w].upTo] /\ UNCHANGED cursor
  /\ UNCHANGED <<latest, oldest, record, requests, tried, excused>>

\* A crash loses the work in hand and the memory; a retry's event had been cleared.
Crash(i) ==
  /\ Fail
  /\ job' = [w \in Workers |-> IF Home[w] = i THEN NoJob ELSE job[w]]
  /\ memory' = [memory EXCEPT ![i] = [record |-> [e \in Events |-> "none"], cursor |-> NoCursor]]
  /\ excused' = excused \cup
       {e \in Events : memory[i].record[e] # "none" \/
          \E w \in Workers : Home[w] = i /\ job[w].kind = "retry" /\ job[w].stage[e] # "idle"}
  /\ UNCHANGED <<cursor, latest, oldest, record, requests, tried>>

Next ==
  \/ Grow
  \/ \E w \in Pollers : IngestEvents(w)
  \/ \E w \in Admins : IngestSingle(w) \/ Reorg(w) \/ RetryFailed(w)
  \/ \E w \in Workers : ReadForUpdate(w) \/ WriteCursor(w)
  \/ \E w \in Workers, e \in Events :
       ClearFailed(w, e) \/ ProcessEvent(w, e) \/ PersistEvent(w, e)
  \/ \E i \in Hosts : Crash(i)

Spec == Init /\ [][Next]_vars

----------------------------------------------------------------------------
TypeOK ==
  /\ cursor \in 0 .. NoCursor /\ latest \in 1 .. LastLedger /\ oldest \in 1 .. latest
  /\ record \in [Events -> {"none", "ok", "failed"}]
  /\ DOMAIN memory = Hosts
  /\ job \in [Workers -> [kind : {"none", "poll", "single", "reorg", "retry"},
                          phase : {"none", "batch", "write"},
                          upTo : 0 .. LastLedger,
                          seen : 0 .. NoCursor, stage : [Events -> Stages]]]
  /\ requests \in 0 .. MaxRequests /\ ingestFaults \in 0 .. MaxFaults
  /\ tried \subseteq Events /\ excused \subseteq Events

(* The cursor passes no event that was neither recorded nor is in hand, whatever  *)
(* fails or crashes, except where the code itself starts past the cursor, clears  *)
(* records or keeps the only one in memory (ingestEvents, processEvent, #408).    *)
NothingForgotten ==
  \A e \in Events : cursor # NoCursor /\ LedgerOf[e] <= cursor
    => Known(e) \/ InHand(e) \/ e \in excused

(* The handlers of one escrow's events first run in the order of the chain, with *)
(* any number of pollers and a request in between (processEventBatch, #238).     *)
HandledInOrder ==
  \A e \in tried : \A f \in Events :
    f < e /\ KeyOf[f] \in {KeyOf[e], NoKey} => f \in tried \cup excused
=============================================================================

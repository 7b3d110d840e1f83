------------------------------ MODULE Indexer ------------------------------
(***************************************************************************)
(* The Soroban event indexer: started in every instance, it stores the      *)
(* contract's events in Redis and moves one shared cursor. A poll takes the *)
(* first page of events from its start on, stores them one by one (a failed *)
(* store is logged) and then moves the cursor to the end of its range. On   *)
(* shutdown it waits for the poll, though not for ever.                     *)
(***************************************************************************)
EXTENDS Naturals, FiniteSetsExt

CONSTANTS
  IndexEvents,   \* 1..n, in the order of the chain
  IndexLedgerOf, \* the ledger of each
  Indexers,      \* instances
  Tip,           \* bounds the chain
  IndexRange,    \* MAX_LEDGER_RANGE
  IndexLookback, \* 1000 in poll
  PageSize,      \* limit: 100 in getEvents
  MaxIndexFaults \* bounds the failed calls, crashes and timeouts

VARIABLES
  indexCursor,   \* soroban:indexer:cursor, 0 when it is not set
  head, tail,    \* the newest and the oldest ledger of the RPC node
  stored,        \* events in Redis
  poll,          \* per instance: the poll in flight
  running,       \* per instance: "up", "stopping" or "down"
  indexFaults,
  passedOver     \* history: events left out by a failed store, the page or the start

vars == <<indexCursor, head, tail, stored, poll, running, indexFaults, passedOver>>

NoPoll == [phase |-> "none", todo |-> {}, end |-> 0, seen |-> 0]

Init ==
  /\ indexCursor = 0 /\ head = 1 /\ tail = 1 /\ stored = {}
  /\ poll = [i \in Indexers |-> NoPoll] /\ running = [i \in Indexers |-> "up"]
  /\ indexFaults = 0 /\ passedOver = {}

Fault == indexFaults < MaxIndexFaults /\ indexFaults' = indexFaults + 1
Continue(i, p) == poll' = [poll EXCEPT ![i] = p]
Below(l) == {e \in IndexEvents : IndexLedgerOf[e] < l}
FirstPage(S) == {e \in S : Cardinality({f \in S : f <= e}) <= PageSize}

----------------------------------------------------------------------------
Grow == /\ \/ head < Tip /\ head' = head + 1 /\ UNCHANGED tail
           \/ tail < head /\ tail' = tail + 1 /\ UNCHANGED head
        /\ UNCHANGED <<indexCursor, stored, poll, running, indexFaults, passedOver>>

(* poll: a cursor that cannot be read is taken for none. A poll whose bounds or *)
(* events cannot be fetched has no effect (no step). The page is the first      *)
(* events from the start on; getEvents is not told where the range ends.        *)
Start(seen) == IF seen > 0 THEN Max({seen + 1, tail})
               ELSE Max({IF head > IndexLookback THEN head - IndexLookback ELSE 0, tail})
End(start) == Min({head, start + IndexRange - 1})

Poll(i) ==
  /\ running[i] = "up" /\ poll[i] = NoPoll
  /\ \E seen \in {indexCursor, 0} :
       LET start == Start(seen)
           page == FirstPage(Below(head + 1) \ Below(start))
       IN /\ start <= End(start)
          /\ IF seen = indexCursor THEN UNCHANGED indexFaults ELSE Fault
          /\ Continue(i, [phase |-> "store", todo |-> page, end |-> End(start), seen |-> 0])
          /\ passedOver' = passedOver \cup (Below(End(start) + 1) \ (Below(start) \cup page))
                             \cup (IF seen = 0 \/ start = tail THEN Below(start) ELSE {})
  /\ UNCHANGED <<indexCursor, head, tail, stored, running>>

\* storeEvent, in order: a failure is swallowed.
StoreEvent(i) ==
  /\ poll[i].todo # {}
  /\ LET e == Min(poll[i].todo)
     IN /\ \/ stored' = stored \cup {e} /\ UNCHANGED <<indexFaults, passedOver>>
           \/ Fault /\ passedOver' = passedOver \cup {e} /\ UNCHANGED stored
        /\ Continue(i, [poll[i] EXCEPT !.todo = @ \ {e}])
  /\ UNCHANGED <<indexCursor, head, tail, running>>

\* Variant: the cursor moves before the events are stored.
ReadEarly(i) ==
  /\ poll[i].phase = "store"
  /\ \/ Continue(i, [poll[i] EXCEPT !.phase = "write", !.seen = indexCursor]) /\ UNCHANGED indexFaults
     \/ Fault /\ Continue(i, NoPoll)
  /\ UNCHANGED <<indexCursor, head, tail, stored, running, passedOver>>

\* setCursor: a read, then a write if it moves the cursor on; best effort.
ReadIndexCursor(i) ==
  /\ poll[i].phase = "store" /\ poll[i].todo = {}
  /\ \/ Continue(i, [poll[i] EXCEPT !.phase = "write", !.seen = indexCursor]) /\ UNCHANGED indexFaults
     \/ Fault /\ Continue(i, NoPoll)
  /\ UNCHANGED <<indexCursor, head, tail, stored, running, passedOver>>

WriteIndexCursor(i) ==
  /\ poll[i].phase = "write" /\ Continue(i, NoPoll)
  /\ \/ /\ indexCursor' = IF poll[i].end > poll[i].seen THEN poll[i].end ELSE indexCursor
        /\ UNCHANGED indexFaults
     \/ Fault /\ UNCHANGED indexCursor
  /\ UNCHANGED <<head, tail, stored, running, passedOver>>

\* beforeApplicationShutdown: no further poll; the one in flight has 15 s.
Shutdown(i) == /\ running[i] = "up" /\ running' = [running EXCEPT ![i] = "stopping"]
               /\ UNCHANGED <<indexCursor, head, tail, stored, poll, indexFaults, passedOver>>
Exit(i) == /\ running[i] = "stopping" /\ running' = [running EXCEPT ![i] = "down"]
           /\ \/ poll[i] = NoPoll /\ UNCHANGED <<poll, indexFaults>>
              \/ Fault /\ Continue(i, NoPoll)
           /\ UNCHANGED <<indexCursor, head, tail, stored, passedOver>>
Crash(i) == /\ running[i] = "up" /\ Fault /\ Continue(i, NoPoll)
            /\ UNCHANGED <<indexCursor, head, tail, stored, running, passedOver>>

Next == \/ Grow
        \/ \E i \in Indexers : \/ Poll(i) \/ StoreEvent(i) \/ ReadIndexCursor(i) \/ WriteIndexCursor(i)
                               \/ Shutdown(i) \/ Exit(i) \/ Crash(i)

Spec == Init /\ [][Next]_vars

----------------------------------------------------------------------------
TypeOK ==
  /\ indexCursor \in 0 .. Tip /\ head \in 1 .. Tip /\ tail \in 1 .. head
  /\ stored \subseteq IndexEvents /\ passedOver \subseteq IndexEvents
  /\ poll \in [Indexers -> [phase : {"none", "store", "write"}, todo : SUBSET IndexEvents,
                            end : 0 .. Tip, seen : 0 .. Tip]]
  /\ running \in [Indexers -> {"up", "stopping", "down"}] /\ indexFaults \in 0 .. MaxIndexFaults

(* Every event up to the cursor is in Redis, whatever instances, crashes and    *)
(* shutdowns do, but those the code gives up: a store that failed, events past  *)
(* the first page, and a start past the cursor (poll, storeEvent, setCursor).   *)
IndexedUpToCursor == \A e \in Below(indexCursor + 1) : e \in stored \cup passedOver
=============================================================================

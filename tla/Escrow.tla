------------------------------- MODULE Escrow -------------------------------
(***************************************************************************)
(* EscrowService: escrow rows in Redis behind a bare read, change, write.   *)
(* Every request reads the row, checks its guard on the copy and writes the *)
(* copy back with its outbox event in one MULTI; when Redis cannot be       *)
(* reached it degrades to a map of its own instance.                        *)
(*                                                                         *)
(* Of a row the model keeps the status, the version (0: no version field)   *)
(* and whether it is linked to its on-chain escrow.                         *)
(***************************************************************************)
EXTENDS Naturals, FiniteSets

CONSTANTS
  Rows,        \* escrow ids
  Funded,      \* those that may be there, created and funded, from the start
  NoRow,       \* "no row"
  Requests,    \* calls in flight
  Instances,   \* backend processes
  Host,        \* the instance that serves each request
  Observed,    \* the event types counted in the outbox
  Faults,      \* may a Redis command fail, may an instance die?
  MaxRequests  \* bounds the requests started

Statuses == {"pending", "active", "released", "disputed", "cancelled"}
Transitions == {"fund", "release", "cancel", "split", "dispute"}
EventTypes == {"create"} \cup Transitions
Ops == EventTypes \cup {"seed", "link", "correct", "apply", "none"}

ASSUME EscrowAssumption ==
  /\ NoRow \notin Rows /\ Funded \subseteq Rows /\ IsFiniteSet(Requests)
  /\ Host \in [Requests -> Instances]
  /\ Observed \subseteq EventTypes
  /\ Faults \in BOOLEAN
  /\ MaxRequests \in Nat

\* The status each guarded operation writes, and those its guard lets pass.
Target == [fund |-> "active", release |-> "released", cancel |-> "cancelled",
           split |-> "released", dispute |-> "disputed"]
Unsettled == {"pending", "active", "disputed"}
Allowed == [fund |-> {"pending"}, release |-> Unsettled, cancel |-> Unsettled,
            split |-> Unsettled, dispute |-> {"active"}]

Absent == [status |-> "none", version |-> 0, linked |-> FALSE]
Active == [status |-> "active", version |-> 1, linked |-> FALSE]
Escrows == [status : Statuses, version : Nat, linked : BOOLEAN]

VARIABLES
  db,         \* the rows in Redis
  index,      \* escrows:by-contract, for the one contract id modelled
  memory,     \* per instance: the fallback map
  events,     \* per row and type: how many events are in the outbox
  acked,      \* history: per row and type, how many calls reported success
  step,       \* per request: "idle", "write" or "append" (outbox.append)
  op, row, copy, \* per request: operation, row and the content to write
  stored,     \* per request: did the EXEC that seemed to fail append the event?
  begun,      \* requests started
  raced,      \* history: rows two requests had in hand at once, or a fault hit
  corrected   \* history: rows written past the guards

dbVars  == <<db, index, memory, events>>
reqVars == <<step, op, row, copy, stored>>
vars == <<dbVars, reqVars, acked, begun, raced, corrected>>

Init ==
  /\ \E F \in SUBSET Funded :
       /\ db = [r \in Rows |-> IF r \in F THEN Active ELSE Absent]
       /\ events = [r \in Rows |-> [t \in EventTypes |->
                      IF r \in F /\ t \in Observed \cap {"create", "fund"} THEN 1 ELSE 0]]
  /\ index = NoRow
  /\ memory = [i \in Instances |-> [r \in Rows |-> Absent]]
  /\ acked = [r \in Rows |-> [t \in EventTypes |-> 0]]
  /\ step = [q \in Requests |-> "idle"]
  /\ op = [q \in Requests |-> "none"]
  /\ row = [q \in Requests |-> NoRow]
  /\ copy = [q \in Requests |-> Absent]
  /\ stored = [q \in Requests |-> FALSE]
  /\ begun = 0 /\ raced = {} /\ corrected = {}

----------------------------------------------------------------------------
(* The read half of a request. *)

\* findById: what Redis holds, or the instance's map when Redis does not answer (d).
Degraded == IF Faults THEN BOOLEAN ELSE {FALSE}
Found(q, r, d) == IF d THEN memory[Host[q]][r] ELSE db[r]
Exists(e) == e.status # "none"
InHand(r) == {q \in Requests : row[q] = r}

\* A new randomUUID.
Fresh(r) ==
  /\ InHand(r) = {} /\ db[r] = Absent
  /\ \A i \in Instances : memory[i][r] = Absent
  /\ \A t \in EventTypes : events[r][t] = 0

\* q goes on to write e to r. The row found in the map is the map's own object, which
\* has changed by now. (Two calls that overlap on one such object are kept apart.) A row
\* is raced once two requests have it in hand, or once one works on the fallback copy.
Take(q, o, r, e, d) ==
  /\ step' = [step EXCEPT ![q] = "write"]
  /\ op' = [op EXCEPT ![q] = o]
  /\ row' = [row EXCEPT ![q] = r]
  /\ copy' = [copy EXCEPT ![q] = e]
  /\ memory' = IF d THEN [memory EXCEPT ![Host[q]][r] = e] ELSE memory
  /\ raced' = IF InHand(r) # {} \/ d THEN raced \cup {r} ELSE raced
  /\ corrected' = IF o \in {"seed", "correct", "apply"} THEN corrected \cup {r} ELSE corrected
  /\ UNCHANGED <<db, index, events, acked, stored>>

\* persist() increments the version of the copy before it writes it.
Bumped(e, s) == [status |-> s, version |-> e.version + 1, linked |-> e.linked]

\* create: no read, no version.
Create(q, r) ==
  /\ step[q] = "idle" /\ Fresh(r)
  /\ Take(q, "create", r, [Absent EXCEPT !.status = "pending"], FALSE)

\* createFromChainState, once the caller found no row for the contract id.
Seed(q, r, s) ==
  /\ step[q] = "idle" /\ Fresh(r)
  /\ Take(q, "seed", r, [Absent EXCEPT !.status = s, !.linked = TRUE], FALSE)

\* Variant: split forgets that a released escrow cannot be split.
TransitionSplitsAgain(q, o, r) ==
  /\ step[q] = "idle"
  /\ \E d \in Degraded :
       /\ Found(q, r, d).status \in Allowed[o] \cup IF o = "split" THEN {"released"} ELSE {}
       /\ Take(q, o, r, Bumped(Found(q, r, d), Target[o]), d)

\* fund, release, cancel, split, raiseDispute: the guard is on the copy read.
Transition(q, o, r) ==
  /\ step[q] = "idle"
  /\ \E d \in Degraded :
       /\ Found(q, r, d).status \in Allowed[o]
       /\ Take(q, o, r, Bumped(Found(q, r, d), Target[o]), d)

\* Variant: a missing row is not refused.
LinkUnknown(q, r) ==
  /\ step[q] = "idle"
  /\ \E d \in Degraded : Take(q, "link", r, [Found(q, r, d) EXCEPT !.linked = TRUE], d)

\* linkContractEscrowId: keeps the version it read.
Link(q, r) ==
  /\ step[q] = "idle"
  /\ \E d \in Degraded :
       /\ Exists(Found(q, r, d))
       /\ Take(q, "link", r, [Found(q, r, d) EXCEPT !.linked = TRUE], d)

\* correctStatus: any status, no guard; without a status it only sets flags.
Correct(q, r, s) ==
  /\ step[q] = "idle"
  /\ \E d \in Degraded :
       /\ Exists(Found(q, r, d))
       /\ Take(q, "correct", r, Bumped(Found(q, r, d), s), d)

\* applyChainState(id, {status}, expectedVersion): a caller that read a row without
\* version passes undefined (0), which switches the check off.
VersionMatches(e, expected) == expected = 0 \/ e.version = expected

Apply(q, r, s, expected) ==
  /\ step[q] = "idle"
  /\ \E d \in Degraded :
       /\ Exists(Found(q, r, d)) /\ VersionMatches(Found(q, r, d), expected)
       /\ Take(q, "apply", r, Bumped(Found(q, r, d), s), d)

----------------------------------------------------------------------------
(* The write half: persist(), and the MULTIs of create, link and seed. *)

HasEvent(q) == op[q] \in EventTypes
Count(f, q) == IF op[q] \in Observed THEN [f EXCEPT ![row[q]][op[q]] = @ + 1] ELSE f

Finish(q) ==
  /\ step' = [step EXCEPT ![q] = "idle"]
  /\ op' = [op EXCEPT ![q] = "none"]
  /\ row' = [row EXCEPT ![q] = NoRow]
  /\ copy' = [copy EXCEPT ![q] = Absent]
  /\ stored' = [stored EXCEPT ![q] = FALSE]

WriteRow(q) ==
  /\ db' = [db EXCEPT ![row[q]] = copy[q]]
  /\ index' = IF op[q] \in {"seed", "link"} THEN row[q] ELSE index

\* Variant: cancel persists without naming its event.
CommitCancelsSilently(q) ==
  /\ step[q] = "write"
  /\ WriteRow(q)
  /\ events' = IF op[q] = "cancel" THEN events ELSE Count(events, q)
  /\ acked' = IF op[q] = "cancel" THEN acked ELSE Count(acked, q)
  /\ Finish(q)
  /\ UNCHANGED <<memory, begun, raced, corrected>>

\* EXEC applied every command, and the caller is told so.
Commit(q) ==
  /\ step[q] = "write"
  /\ WriteRow(q)
  /\ events' = Count(events, q)
  /\ acked' = Count(acked, q)
  /\ Finish(q)
  /\ UNCHANGED <<memory, begun, raced, corrected>>

\* Each command of a MULTI may fail alone (also that of an index Redis is only asked
\* for listings, which is left out here), or all of them.
WriteInPart(q) ==
  /\ db' \in {db, [db EXCEPT ![row[q]] = copy[q]]}
  /\ index' \in {index, IF op[q] \in {"seed", "link"} THEN row[q] ELSE index}
  /\ events' \in {events, Count(events, q)}

\* Variant: the results of EXEC are not looked at.
PartialReported(q) ==
  /\ Faults /\ step[q] = "write" /\ WriteInPart(q)
  /\ acked' = Count(acked, q)
  /\ raced' = raced \cup {row[q]}
  /\ Finish(q)
  /\ UNCHANGED <<memory, begun, corrected>>

\* A queued command failed, or EXEC was aborted: assertTransactionApplied throws, the
\* caller gets a 503 and whatever was applied stays.
Partial(q) ==
  /\ Faults /\ step[q] = "write" /\ WriteInPart(q)
  /\ raced' = raced \cup {row[q]}
  /\ Finish(q)
  /\ UNCHANGED <<memory, acked, begun, corrected>>

\* The connection failed (before or after Redis applied the EXEC): the row goes to the
\* instance's map, and then the event to the outbox by itself.
Fallback(q) ==
  /\ Faults /\ step[q] = "write"
  /\ \E applied \in BOOLEAN :
       /\ IF applied THEN WriteRow(q) ELSE UNCHANGED <<db, index>>
       /\ events' = IF applied THEN Count(events, q) ELSE events
       /\ stored' = [stored EXCEPT ![q] = applied /\ HasEvent(q)]
  /\ memory' = [memory EXCEPT ![Host[q]][row[q]] = copy[q]]
  /\ raced' = raced \cup {row[q]}
  /\ step' = [step EXCEPT ![q] = "append"]
  /\ UNCHANGED <<op, row, copy, acked, begun, corrected>>

\* outbox.append of the same event: a second copy has the same id and replaces the
\* first one. Success is reported only after it.
AppendEvent(q) ==
  /\ step[q] = "append"
  /\ events' = IF stored[q] THEN events ELSE Count(events, q)
  /\ acked' = Count(acked, q)
  /\ Finish(q)
  /\ UNCHANGED <<db, index, memory, begun, raced, corrected>>

AppendThrows(q) ==
  /\ Faults /\ step[q] = "append" /\ HasEvent(q)
  /\ events' \in {events, IF stored[q] THEN events ELSE Count(events, q)}
  /\ Finish(q)
  /\ UNCHANGED <<db, index, memory, acked, begun, raced, corrected>>

\* An instance dies: its map and its requests are gone.
Restart(i) ==
  /\ Faults
  /\ memory' = [memory EXCEPT ![i] = [r \in Rows |-> Absent]]
  /\ step' = [q \in Requests |-> IF Host[q] = i THEN "idle" ELSE step[q]]
  /\ op' = [q \in Requests |-> IF Host[q] = i THEN "none" ELSE op[q]]
  /\ row' = [q \in Requests |-> IF Host[q] = i THEN NoRow ELSE row[q]]
  /\ copy' = [q \in Requests |-> IF Host[q] = i THEN Absent ELSE copy[q]]
  /\ stored' = [q \in Requests |-> IF Host[q] = i THEN FALSE ELSE stored[q]]
  /\ UNCHANGED <<db, index, events, acked, begun, raced, corrected>>

----------------------------------------------------------------------------
Begin(q) ==
  /\ begun < MaxRequests /\ begun' = begun + 1
  /\ \E r \in Rows :
       \/ Create(q, r) \/ Link(q, r)
       \/ \E o \in Transitions : Transition(q, o, r)
       \/ index = NoRow /\ \E s \in Statuses : Seed(q, r, s)
       \/ \E s \in Statuses : Correct(q, r, s)
       \/ \E s \in Statuses, v \in 0..MaxRequests : Apply(q, r, s, v)

Write(q) == Commit(q) \/ Partial(q) \/ Fallback(q) \/ AppendEvent(q) \/ AppendThrows(q)

Next ==
  \/ \E q \in Requests : Begin(q) \/ Write(q)
  \/ \E i \in Instances : Restart(i)

Spec == Init /\ [][Next]_vars

----------------------------------------------------------------------------
TypeOK ==
  /\ db \in [Rows -> Escrows \cup {Absent}]
  /\ index \in Rows \cup {NoRow}
  /\ memory \in [Instances -> [Rows -> Escrows \cup {Absent}]]
  /\ events \in [Rows -> [EventTypes -> Nat]]
  /\ acked \in [Rows -> [EventTypes -> Nat]]
  /\ step \in [Requests -> {"idle", "write", "append"}]
  /\ op \in [Requests -> Ops]
  /\ row \in [Requests -> Rows \cup {NoRow}]
  /\ copy \in [Requests -> Escrows \cup {Absent}]
  /\ stored \in [Requests -> BOOLEAN]
  /\ begun \in 0..MaxRequests
  /\ raced \subseteq Rows /\ corrected \subseteq Rows
  /\ \A q \in Requests : step[q] # "idle" => op[q] # "none" /\ row[q] \in Rows /\ copy[q] \in Escrows

\* No call reports success for a transition whose event is not in the outbox, however
\* its EXEC failed and whatever the fallback did: consumers hear of every change a
\* caller was told of. (persist, create, rethrowIfInconsistent.)
AckedIsPublished ==
  \A r \in Rows, t \in EventTypes : acked[r][t] <= events[r][t]

\* While requests for an escrow do not overlap, Redis answers and nothing bypasses the
\* guards, the escrow is settled once: released, split or cancelled, not twice and not
\* both. (Guards of release, cancel and split.)
SettledOnce ==
  \A r \in Rows \ (raced \cup corrected) :
    events[r]["release"] + events[r]["split"] + events[r]["cancel"] <= 1

\* Under the same conditions a consumer that replays the events of a row arrives at
\* the status the row has. (State and event of a transition are one MULTI.)
Replayed(r) ==
  IF events[r]["release"] + events[r]["split"] > 0 THEN "released"
  ELSE IF events[r]["cancel"] > 0 THEN "cancelled"
  ELSE IF events[r]["dispute"] > 0 THEN "disputed"
  ELSE IF events[r]["fund"] > 0 THEN "active"
  ELSE IF events[r]["create"] > 0 THEN "pending" ELSE "none"

StatusIsEventHistory ==
  \A r \in Rows \ (raced \cup corrected) : db[r].status = Replayed(r)
=============================================================================

---------------------------- MODULE DisputeSaga ----------------------------
(***************************************************************************)
(* DisputeSagaService over EscrowService: a dispute goes from escalation    *)
(* over juror assignment and voting to the payout. Each call reads a copy   *)
(* of the saga, checks its step, changes the copy and writes it back; only  *)
(* mutexes of its own process keep two calls apart. In between it calls the *)
(* escrow service, whose every read and write are the steps of Escrow.      *)
(*                                                                         *)
(* Other requests release and fund the same escrows past the saga, as the   *)
(* HTTP route and the ingested chain events do. Left out is reconciliation  *)
(* (applyChainState, in EscrowSync), which gives an escrow whatever status  *)
(* the chain has: one it makes disputed has no saga until a call adopts it, *)
(* and one it settles has no event.                                         *)
(***************************************************************************)
EXTENDS Escrow

CONSTANTS
  Sagas,       \* saga ids
  NoSaga,      \* "no saga"
  Jurors,      \* addresses that may be assigned, none of them a party
  MayVote,     \* the votes tried for each juror
  MaxFailures  \* bounds the failed Redis commands and the crashes

Sides == {"depositor", "beneficiary", "split"}
Steps == {"none", "escalation", "assignment", "voting", "payout", "completed", "failed"}
EscalatePhases == {"open", "freeze", "advance", "retire"}
SagaPhases == {"assign", "vote", "settle", "complete", "archive", "undo", "giveup"}

ASSUME SagaAssumption ==
  /\ NoSaga \notin Sagas /\ IsFiniteSet(Jurors)
  /\ MayVote \in [Jurors -> SUBSET Sides]
  /\ MaxFailures \in Nat

\* A saga: its escrow and the status that had, its step, the jurors assigned, their votes and the verdict.
Unvoted == [j \in Jurors |-> "none"]
NoRecord == [row |-> NoRow, prior |-> "none", step |-> "none", jurors |-> {},
             votes |-> Unvoted, verdict |-> "none"]
Records == [row : Rows \cup {NoRow}, prior : {"none", "active", "disputed"}, step : Steps, jurors : SUBSET Jurors,
            votes : [Jurors -> Sides \cup {"none"}], verdict : Sides \cup {"none"}]
Ended == {"completed", "failed"}
Open(rec) == rec.step \notin Ended \cup {"none"}

VARIABLES
  sagas,        \* saga:<id> in Redis
  current,      \* sagas:by-escrow:<id> in Redis
  localSagas, localCurrent, \* per instance: the fallback maps
  doing,        \* per call: its phase; "none" when it is not the saga's
  sid, held,    \* per call: the saga it works on and its copy
  told,         \* history: per saga, the votes whose callers were told of success
  review,       \* history: rows flagged for manual review
  degraded,     \* history: rows whose saga went through a fallback map
  crashed,      \* history: has an instance died?
  failures      \* failures so far

storeVars == <<sagas, current, localSagas, localCurrent>>
callVars  == <<doing, sid, held>>
pastVars  == <<told, review, degraded, crashed, failures>>
allVars   == <<vars, storeVars, callVars, pastVars>>

SagaInit ==
  /\ Init
  /\ sagas = [s \in Sagas |-> NoRecord] /\ current = [r \in Rows |-> NoSaga]
  /\ localSagas = [i \in Instances |-> sagas] /\ localCurrent = [i \in Instances |-> current]
  /\ doing = [q \in Requests |-> "none"] /\ sid = [q \in Requests |-> NoSaga]
  /\ held = [q \in Requests |-> NoRecord]
  /\ told = [s \in Sagas |-> Unvoted]
  /\ review = {} /\ degraded = {} /\ crashed = FALSE /\ failures = 0

----------------------------------------------------------------------------
(* Reading a saga, holding its mutex, writing it back. *)

Fails == Faults /\ failures < MaxFailures /\ failures' = failures + 1
Idle(q) == step[q] = "idle" /\ doing[q] = "none"

\* Variant: no mutex for escalations, or none for the other calls.
EscalationUnlocked(i, r) == TRUE
SagaUnlocked(i, s) == TRUE

\* KeyedMutex: escalations are kept apart per escrow, the other calls per saga, and only
\* within a process.
EscalationFree(i, r) ==
  \A q \in Requests : doing[q] \in EscalatePhases /\ Host[q] = i => held[q].row # r
SagaFree(i, s) ==
  \A q \in Requests : doing[q] \in SagaPhases /\ Host[q] = i => sid[q] # s

\* tryFindById and findByEscrowId: Redis, or the maps of the instance when it fails (d).
SagaFound(q, s, d) == IF d THEN localSagas[Host[q]][s] ELSE sagas[s]
CurrentSaga(q, r, d) ==
  LET s == IF d THEN localCurrent[Host[q]][r] ELSE current[r]
  IN  IF s = NoSaga THEN NoRecord ELSE SagaFound(q, s, d)
Reading(r, d) ==
  IF d THEN Fails /\ degraded' = degraded \cup {r} ELSE UNCHANGED <<degraded, failures>>

Enter(q, phase, s, rec) ==
  /\ doing' = [doing EXCEPT ![q] = phase]
  /\ sid' = [sid EXCEPT ![q] = s]
  /\ held' = [held EXCEPT ![q] = rec]
\* Variant: the call never ends.
LeaveNot(q) == Enter(q, doing[q], NoSaga, NoRecord)

Leave(q) == Enter(q, "none", NoSaga, NoRecord)
Goto(q, phase) == doing' = [doing EXCEPT ![q] = phase] /\ UNCHANGED <<sid, held>>

\* persistSaga never throws: when its MULTI fails, applied or not, the saga goes to the
\* map of the instance.
Save(q, rec) ==
  /\ \/ /\ sagas' = [sagas EXCEPT ![sid[q]] = rec]
        /\ UNCHANGED <<localSagas, degraded, failures>>
     \/ /\ Fails
        /\ sagas' \in {sagas, [sagas EXCEPT ![sid[q]] = rec]}
        /\ localSagas' = [localSagas EXCEPT ![Host[q]][sid[q]] = rec]
        /\ degraded' = degraded \cup {rec.row}
  /\ UNCHANGED <<current, localCurrent>>

----------------------------------------------------------------------------
(* escalate, and escalateFromChain, which is the same call with another initiator. *)

\* A new id, of the time and six random characters, taken for unique: nothing knows it,
\* and no caller was ever told of a vote in it.
NewSaga(s) ==
  /\ sagas[s] = NoRecord /\ \A i \in Instances : localSagas[i][s] = NoRecord
  /\ \A q \in Requests : sid[q] # s
  /\ told[s] = Unvoted

\* Read and guards. An escrow that is disputed already is adopted.
Escalate(q, r) ==
  /\ Idle(q) /\ EscalationFree(Host[q], r)
  /\ \E d, e \in Degraded, s \in Sagas, prior \in {"active", "disputed"} :
       /\ Reading(r, d) /\ ~Open(CurrentSaga(q, r, d))
       /\ Found(q, r, e).status = prior
       /\ NewSaga(s)
       /\ Enter(q, "open", s, [NoRecord EXCEPT !.row = r, !.prior = prior, !.step = "escalation"])
  /\ UNCHANGED <<vars, storeVars, told, review, crashed>>

\* Variant: the pointer of the escrow is not written.
OpenSagaUnindexed(q) ==
  /\ doing[q] = "open"
  /\ sagas' = [sagas EXCEPT ![sid[q]] = held[q]]
  /\ Goto(q, IF held[q].prior = "disputed" THEN "advance" ELSE "freeze")
  /\ UNCHANGED <<vars, current, localSagas, localCurrent, degraded, failures, told, review, crashed>>

\* createSaga: the saga and the pointer of its escrow in one MULTI, or both in the maps.
\* It never throws. An adopted escrow needs no freezing.
OpenSaga(q) ==
  LET s == sid[q]  rec == held[q] IN
  /\ doing[q] = "open"
  /\ \/ /\ sagas' = [sagas EXCEPT ![s] = rec] /\ current' = [current EXCEPT ![rec.row] = s]
        /\ UNCHANGED <<localSagas, localCurrent, degraded, failures>>
     \/ /\ Fails /\ degraded' = degraded \cup {rec.row}
        /\ sagas' \in {sagas, [sagas EXCEPT ![s] = rec]}
        /\ current' \in {current, [current EXCEPT ![rec.row] = s]}
        /\ localSagas' = [localSagas EXCEPT ![Host[q]][s] = rec]
        /\ localCurrent' = [localCurrent EXCEPT ![Host[q]][rec.row] = s]
  /\ Goto(q, IF rec.prior = "disputed" THEN "advance" ELSE "freeze")
  /\ UNCHANGED <<vars, told, review, crashed>>

\* raiseDispute: its guard reads the escrow again; its write is EscrowWrites.
Freeze(q) ==
  /\ doing[q] = "freeze" /\ Transition(q, "dispute", held[q].row)
  /\ UNCHANGED <<begun, storeVars, callVars, pastVars>>

\* Variant: compensateEscalation leaves the saga as it is.
FreezeRefusedForgets(q) ==
  /\ doing[q] = "freeze" /\ step[q] = "idle"
  /\ \E d \in Degraded : Found(q, held[q].row, d).status \notin Allowed["dispute"]
  /\ Leave(q)
  /\ UNCHANGED <<vars, storeVars, pastVars>>

FreezeRefused(q) ==
  /\ doing[q] = "freeze" /\ step[q] = "idle"
  /\ \E d \in Degraded : Found(q, held[q].row, d).status \notin Allowed["dispute"]
  /\ Goto(q, "retire")
  /\ UNCHANGED <<vars, storeVars, pastVars>>

\* Third step of the escalation: the saga goes on to juror assignment.
Advance(q) ==
  /\ doing[q] = "advance"
  /\ Save(q, [held[q] EXCEPT !.step = "assignment"]) /\ Leave(q)
  /\ UNCHANGED <<vars, told, review, crashed>>

\* compensateEscalation after a raiseDispute that threw, and the end of compensatePayout:
\* the escrow stays as it is, the saga has failed.
MarkFailed(q) ==
  /\ doing[q] \in {"retire", "giveup"}
  /\ Save(q, [held[q] EXCEPT !.step = "failed"]) /\ Leave(q)
  /\ UNCHANGED <<vars, told, review, crashed>>

----------------------------------------------------------------------------
(* assignJurors, castVote and executePayout. *)

\* Variant: whatever step the saga is at.
AssertNothing(rec, expected) == rec.step # "none"

\* assertStep; no saga is at the step "none".
AssertStep(rec, expected) == rec.step = expected

\* The beginning of each call: the mutex and the read (d), then the guards above it.
Work(q, phase, s, d, rec) ==
  /\ Idle(q) /\ SagaFree(Host[q], s) /\ Reading(rec.row, d)
  /\ Enter(q, phase, s, rec)
  /\ UNCHANGED <<vars, storeVars, told, review, crashed>>

\* At least three jurors, an odd number, none of them a party.
AssignJurors(q, s) ==
  \E d \in Degraded, J \in SUBSET Jurors :
    LET rec == SagaFound(q, s, d) IN
    /\ AssertStep(rec, "assignment")
    /\ Cardinality(J) >= 3 /\ Cardinality(J) % 2 = 1
    /\ Work(q, "assign", s, d, [rec EXCEPT !.jurors = J, !.step = "voting"])

Tally(votes, side) == Cardinality({j \in Jurors : votes[j] = side})
Wins(votes, side) == \A other \in Sides \ {side} : Tally(votes, side) > Tally(votes, other)

\* computeVerdict: without a winner among the parties it is a split.
ComputeVerdict(votes) ==
  IF Wins(votes, "depositor") THEN "depositor"
  ELSE IF Wins(votes, "beneficiary") THEN "beneficiary" ELSE "split"

\* The vote of j; the last one computes the verdict in the same write.
WithVote(rec, j, side) ==
  LET votes == [rec.votes EXCEPT ![j] = side] IN
  IF \A k \in rec.jurors : votes[k] # "none"
  THEN [rec EXCEPT !.votes = votes, !.verdict = ComputeVerdict(votes), !.step = "payout"]
  ELSE [rec EXCEPT !.votes = votes]

CastVote(q, s) ==
  \E d \in Degraded, j \in Jurors : \E side \in MayVote[j] :
    LET rec == SagaFound(q, s, d) IN
    /\ AssertStep(rec, "voting")
    /\ j \in rec.jurors /\ rec.votes[j] = "none"
    /\ Work(q, "vote", s, d, WithVote(rec, j, side))

\* persistSaga of assignJurors and castVote; the caller is told of success either way.
SaveProgress(q) ==
  /\ doing[q] \in {"assign", "vote"}
  /\ Save(q, held[q]) /\ Leave(q)
  /\ told' = [told EXCEPT ![sid[q]] =
       [j \in Jurors |-> IF held[q].votes[j] # "none" THEN held[q].votes[j] ELSE @[j]]]
  /\ UNCHANGED <<vars, review, crashed>>

\* payoutTxHash is written with the completed step, which assertStep has excluded.
ExecutePayout(q, s) ==
  \E d \in Degraded :
    LET rec == SagaFound(q, s, d) IN
    /\ AssertStep(rec, "payout") /\ rec.verdict # "none"
    /\ Work(q, "settle", s, d, rec)

\* applyPayout: the escrow call each verdict stands for.
Settlement == [beneficiary |-> "release", depositor |-> "cancel", split |-> "split"]

ApplyPayout(q) ==
  /\ doing[q] = "settle" /\ Transition(q, Settlement[held[q].verdict], held[q].row)
  /\ UNCHANGED <<begun, storeVars, callVars, pastVars>>

PayoutRefused(q) ==
  /\ doing[q] = "settle" /\ step[q] = "idle"
  /\ \E d \in Degraded :
       Found(q, held[q].row, d).status \notin Allowed[Settlement[held[q].verdict]]
  /\ Goto(q, "undo")
  /\ UNCHANGED <<vars, storeVars, pastVars>>

Complete(q) ==
  LET rec == [held[q] EXCEPT !.step = "completed"] IN
  /\ doing[q] = "complete"
  /\ Save(q, rec) /\ Enter(q, "archive", sid[q], rec)
  /\ UNCHANGED <<vars, told, review, crashed>>

\* archiveDispute: the id of a transaction; none if there is no uploader or the upload
\* failed. It never throws.
ArchiveDispute == {"id", "none"}

\* With an id the same copy of the saga is written again.
Archive(q) ==
  /\ doing[q] = "archive"
  /\ \E tx \in ArchiveDispute :
       IF tx = "none" THEN UNCHANGED <<storeVars, degraded, failures>> ELSE Save(q, held[q])
  /\ Leave(q)
  /\ UNCHANGED <<vars, told, review, crashed>>

\* compensatePayout: whatever status the escrow has by now, it becomes disputed and is
\* flagged for review, unless it is gone.
CompensatePayout(q) ==
  /\ doing[q] = "undo" /\ Correct(q, held[q].row, "disputed")
  /\ UNCHANGED <<begun, storeVars, callVars, pastVars>>

NothingToCorrect(q) ==
  /\ doing[q] = "undo" /\ step[q] = "idle"
  /\ \E d \in Degraded : ~Exists(Found(q, held[q].row, d))
  /\ Goto(q, "giveup")
  /\ UNCHANGED <<vars, storeVars, pastVars>>

----------------------------------------------------------------------------
(* The escrow's own writes, and what their outcome means to the call. *)

\* Variant: a payout whose escrow call threw is completed all the same.
AfterThrowPaid == [none |-> "none", freeze |-> "retire", settle |-> "complete", undo |-> "giveup"]

AfterSuccess == [none |-> "none", freeze |-> "advance", settle |-> "complete", undo |-> "giveup"]
AfterThrow   == [none |-> "none", freeze |-> "retire", settle |-> "undo", undo |-> "giveup"]

\* Variant: the correction does not ask for a review.
FlaggedNot(q) == UNCHANGED review

\* requiresManualReview is written with the status.
Flagged(q) ==
  review' = IF doing[q] = "undo" /\ db' # db THEN review \cup {row[q]} ELSE review

EscrowWrites(q) ==
  /\ Commit(q) \/ AppendEvent(q)
  /\ Flagged(q) /\ Goto(q, AfterSuccess[doing[q]])
  /\ UNCHANGED <<storeVars, told, degraded, crashed, failures>>

EscrowFallsBack(q) ==
  /\ Fails /\ Fallback(q) /\ Flagged(q)
  /\ UNCHANGED <<storeVars, callVars, told, degraded, crashed>>

EscrowThrows(q) ==
  /\ Fails /\ (Partial(q) \/ AppendThrows(q))
  /\ Flagged(q) /\ Goto(q, AfterThrow[doing[q]])
  /\ UNCHANGED <<storeVars, told, degraded, crashed>>

\* An instance dies with its calls and its maps.
Crash(i) ==
  /\ Fails /\ Restart(i)
  /\ doing' = [q \in Requests |-> IF Host[q] = i THEN "none" ELSE doing[q]]
  /\ sid' = [q \in Requests |-> IF Host[q] = i THEN NoSaga ELSE sid[q]]
  /\ held' = [q \in Requests |-> IF Host[q] = i THEN NoRecord ELSE held[q]]
  /\ localSagas' = [localSagas EXCEPT ![i] = [s \in Sagas |-> NoRecord]]
  /\ localCurrent' = [localCurrent EXCEPT ![i] = [r \in Rows |-> NoSaga]]
  /\ crashed' = TRUE
  /\ UNCHANGED <<sagas, current, told, review, degraded>>

\* POST /escrows/:id/release and the chain's funded and released events.
Bypass(q, r) ==
  /\ Idle(q) /\ begun < MaxRequests /\ begun' = begun + 1
  /\ \E o \in {"fund", "release"} : Transition(q, o, r)
  /\ UNCHANGED <<storeVars, callVars, pastVars>>

SagaNext ==
  \/ \E q \in Requests :
       \/ OpenSaga(q) \/ Freeze(q) \/ FreezeRefused(q) \/ Advance(q) \/ MarkFailed(q)
       \/ SaveProgress(q) \/ ApplyPayout(q) \/ PayoutRefused(q) \/ Complete(q) \/ Archive(q)
       \/ CompensatePayout(q) \/ NothingToCorrect(q)
       \/ EscrowWrites(q) \/ EscrowFallsBack(q) \/ EscrowThrows(q)
       \/ \E r \in Rows : Escalate(q, r) \/ Bypass(q, r)
       \/ \E s \in Sagas : AssignJurors(q, s) \/ CastVote(q, s) \/ ExecutePayout(q, s)
  \/ \E i \in Instances : Crash(i)

SagaSpec == SagaInit /\ [][SagaNext]_allVars

----------------------------------------------------------------------------
SagaTypeOK ==
  /\ TypeOK
  /\ sagas \in [Sagas -> Records] /\ current \in [Rows -> Sagas \cup {NoSaga}]
  /\ localSagas \in [Instances -> [Sagas -> Records]]
  /\ localCurrent \in [Instances -> [Rows -> Sagas \cup {NoSaga}]]
  /\ doing \in [Requests -> {"none"} \cup EscalatePhases \cup SagaPhases]
  /\ sid \in [Requests -> Sagas \cup {NoSaga}] /\ held \in [Requests -> Records]
  /\ told \in [Sagas -> [Jurors -> Sides \cup {"none"}]]
  /\ review \subseteq Rows /\ degraded \subseteq Rows /\ crashed \in BOOLEAN
  /\ failures \in 0..MaxFailures
  /\ \A q \in Requests : doing[q] # "none" => sid[q] \in Sagas /\ held[q].row \in Rows

\* There is never a disputed escrow without a saga recorded for it, whenever the process
\* dies, unless the saga went through a fallback map. (Order of steps in escalate.)
DisputeIsRecorded ==
  \A r \in Rows \ degraded : db[r].status = "disputed" => current[r] # NoSaga

\* An escrow has one open saga at a time, and its pointer leads to it. (The guard of
\* escalate and its mutex.)
OneOpenSaga ==
  \A s \in Sagas : Open(sagas[s]) /\ sagas[s].row \notin degraded => current[sagas[s].row] = s

\* No vote whose caller was told of success is lost or changed, and a verdict is what the
\* votes of all its jurors add up to: strictly more for one party, or a split. (castVote.)
VotesCount ==
  \A s \in Sagas :
    LET rec == sagas[s]
        For(side) == {j \in rec.jurors : rec.votes[j] = side}
        Most(side) == \A other \in Sides \ {side} : Cardinality(For(side)) > Cardinality(For(other))
    IN  /\ rec.row \in Rows \ degraded => rec.votes = told[s]
        /\ rec.verdict # "none" =>
             /\ \A j \in rec.jurors : rec.votes[j] # "none"
             /\ \A side \in {"depositor", "beneficiary"} : (rec.verdict = side) <=> Most(side)

\* A completed saga has paid: each one has an event of its own in the outbox, of the kind
\* its verdict demands, however its writes failed. (executePayout.)
CompletedIsPaid ==
  \A r \in Rows, side \in Sides :
    Cardinality({s \in Sagas : sagas[s].step = "completed" /\ sagas[s].row = r
                               /\ sagas[s].verdict = side}) <= events[r][Settlement[side]]

\* An escrow settled twice is flagged for manual review: the release that overtakes a
\* payout, which then puts the escrow back in dispute, never goes unnoticed, unless two
\* requests had the row in hand at once. (compensatePayout and the guards.)
PaidTwiceIsFlagged ==
  \A r \in Rows \ raced :
    events[r]["release"] + events[r]["split"] + events[r]["cancel"] > 1 => r \in review

\* Only a crash or a failed write leaves a saga at its first step, which no call leads
\* out of, with nobody at work on it. (escalate and compensateEscalation.)
StuckOnlyByFailure ==
  \A s \in Sagas :
    sagas[s].step = "escalation" =>
      crashed \/ sagas[s].row \in degraded \/ \E q \in Requests : sid[q] = s

\* A saga never goes back, neither in its step nor in its votes or its verdict, and an
\* ended one stays as it is. (assertStep, under the mutex of one process.)
Rank == [none |-> 0, escalation |-> 1, assignment |-> 2, voting |-> 3, payout |-> 4,
         completed |-> 5, failed |-> 6]
Onward(old, new) ==
  /\ Rank[old.step] <= Rank[new.step]
  /\ old.step \in Ended => new = old
  /\ old.verdict \in {"none", new.verdict}
  /\ \A j \in Jurors : old.votes[j] \in {"none", new.votes[j]}
SagaOnward ==
  [][\A s \in Sagas : sagas[s].row \notin degraded' => Onward(sagas[s], sagas'[s])]_allVars
=============================================================================

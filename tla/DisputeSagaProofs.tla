-------------------------- MODULE DisputeSagaProofs --------------------------
(* Theorems of DisputeSaga, for any sagas, escrows, calls, jurors and failures. *)
EXTENDS DisputeSaga, EscrowProofs

USE EscrowAssumption, SagaAssumption

----------------------------------------------------------------------------
(* The type invariant. It needs more than the types: a call goes on with the record it
   holds, so what step such a record can be at in each phase, and which operation the
   escrow call in progress is, have to be known. *)

\* What is true of every record, wherever a copy of it is kept. A verdict stays with the
\* votes it was computed from.
GoodRecord(rec) ==
  /\ rec \in Records
  /\ rec.step = "none" => rec = NoRecord
  /\ rec.step # "none" => rec.row \in Rows
  /\ rec.step \in {"none", "escalation", "assignment"} => rec.votes = Unvoted
  /\ rec.step \in {"none", "escalation", "assignment", "voting"} => rec.verdict = "none"
  /\ \A j \in Jurors : rec.votes[j] # "none" => j \in rec.jurors
  /\ rec.verdict # "none" => /\ \A j \in rec.jurors : rec.votes[j] # "none"
                             /\ rec.verdict = ComputeVerdict(rec.votes)

GoodStores ==
  \A s \in Sagas : GoodRecord(sagas[s]) /\ \A i \in Instances : GoodRecord(localSagas[i][s])

\* The step and the verdict of the record a call holds.
Holds(phase, rec) ==
  /\ phase = "none" => rec.step = "none"
  /\ phase \in EscalatePhases => rec.step = "escalation"
  /\ phase = "assign" => rec.step = "voting"
  /\ phase = "vote" => rec.step \in {"voting", "payout"}
  /\ phase \in {"settle", "undo", "giveup", "complete"} => rec.step = "payout" /\ rec.verdict # "none"
  /\ phase = "archive" => rec.step = "completed" /\ rec.verdict # "none"

\* The escrow call each phase makes.
Calls(phase, o, rec) ==
  \/ phase = "none" /\ o \in {"fund", "release"}
  \/ phase = "freeze" /\ o = "dispute"
  \/ phase = "settle" /\ rec.verdict # "none" /\ o = Settlement[rec.verdict]
  \/ phase = "undo" /\ o = "correct"

GoodCall(q) ==
  /\ GoodRecord(held[q]) /\ Holds(doing[q], held[q])
  /\ doing[q] = "none" => sid[q] = NoSaga
  /\ step[q] = "idle" => row[q] = NoRow
  /\ step[q] # "idle" => Calls(doing[q], op[q], held[q]) /\ (doing[q] # "none" => row[q] = held[q].row)

SagaTypes == SagaTypeOK /\ GoodStores /\ \A q \in Requests : GoodCall(q)

LEMMA NoRecordIsGood == GoodRecord(NoRecord)
<1>1. Unvoted \in [Jurors -> Sides \cup {"none"}] /\ \A j \in Jurors : Unvoted[j] = "none"
  BY DEF Unvoted
<1>q. QED BY <1>1 DEF GoodRecord, NoRecord, Records, Steps

\* Only the step of a record changes.
LEMMA OtherStep ==
  ASSUME NEW rec, GoodRecord(rec), rec.step # "none", NEW to \in Steps
  PROVE  LET new == [rec EXCEPT !.step = to] IN
         /\ new \in Records /\ new.step = to
         /\ new.row = rec.row /\ new.votes = rec.votes /\ new.jurors = rec.jurors
         /\ new.verdict = rec.verdict
BY DEF GoodRecord, Records

LEMMA LaterStep ==
  ASSUME NEW rec, GoodRecord(rec), rec.step # "none", NEW to \in Steps,
         \/ to \in {"completed", "failed"}
         \/ rec.step = "escalation" /\ to = "assignment"
  PROVE  GoodRecord([rec EXCEPT !.step = to]) /\ [rec EXCEPT !.step = to].step = to
<1> DEFINE new == [rec EXCEPT !.step = to]
<1>1. /\ new \in Records /\ new.step = to
      /\ new.row = rec.row /\ new.votes = rec.votes /\ new.jurors = rec.jurors
      /\ new.verdict = rec.verdict
  BY OtherStep
<1> HIDE DEF new
<1>2. GoodRecord(new) BY <1>1 DEF GoodRecord
<1>q. QED BY <1>1, <1>2 DEF new

\* The record of a new saga.
FirstRecord(r, prior) == [NoRecord EXCEPT !.row = r, !.prior = prior, !.step = "escalation"]

LEMMA FirstIsGood ==
  ASSUME NEW r \in Rows, NEW prior \in {"active", "disputed"}
  PROVE  /\ GoodRecord(FirstRecord(r, prior))
         /\ FirstRecord(r, prior).step = "escalation" /\ FirstRecord(r, prior).row = r
<1> DEFINE new == FirstRecord(r, prior)
<1>1. Unvoted \in [Jurors -> Sides \cup {"none"}] /\ \A j \in Jurors : Unvoted[j] = "none"
  BY DEF Unvoted
<1>2. /\ new \in Records /\ new.step = "escalation" /\ new.row = r
      /\ new.votes = Unvoted /\ new.verdict = "none"
  BY <1>1 DEF FirstRecord, NoRecord, Records, Steps
<1> HIDE DEF new
<1>3. GoodRecord(new) BY <1>1, <1>2 DEF GoodRecord
<1>q. QED BY <1>2, <1>3 DEF new

LEMMA AssignedIsGood ==
  ASSUME NEW rec, GoodRecord(rec), rec.step = "assignment", NEW J \in SUBSET Jurors
  PROVE  LET new == [rec EXCEPT !.jurors = J, !.step = "voting"] IN
         /\ GoodRecord(new) /\ new.step = "voting" /\ new.row = rec.row
         /\ new.votes = rec.votes /\ new.verdict = rec.verdict
<1> DEFINE new == [rec EXCEPT !.jurors = J, !.step = "voting"]
<1>1. \A j \in Jurors : Unvoted[j] = "none" BY DEF Unvoted
<1>2. /\ new \in Records /\ new.step = "voting" /\ new.row = rec.row /\ new.jurors = J
      /\ new.votes = rec.votes /\ new.verdict = rec.verdict
  BY DEF GoodRecord, Records, Steps
<1> HIDE DEF new
<1>3. GoodRecord(new) BY <1>1, <1>2 DEF GoodRecord
<1>q. QED BY <1>2, <1>3 DEF new

LEMMA VerdictIsSide == ASSUME NEW votes PROVE ComputeVerdict(votes) \in Sides
BY DEF ComputeVerdict, Sides

\* A vote keeps the votes there are, and with the last one comes the verdict.
LEMMA VotedIsGood ==
  ASSUME NEW rec, GoodRecord(rec), rec.step = "voting", NEW j \in rec.jurors, j \in Jurors,
         rec.votes[j] = "none", NEW side \in Sides
  PROVE  /\ GoodRecord(WithVote(rec, j, side))
         /\ WithVote(rec, j, side).step \in {"voting", "payout"}
         /\ WithVote(rec, j, side).row = rec.row
         /\ \A k \in Jurors : rec.votes[k] \in {"none", WithVote(rec, j, side).votes[k]}
<1> DEFINE votes == [rec.votes EXCEPT ![j] = side]
           new == WithVote(rec, j, side)
<1>1. /\ rec \in Records /\ rec.votes \in [Jurors -> Sides \cup {"none"}] /\ rec.verdict = "none"
      /\ \A k \in Jurors : rec.votes[k] # "none" => k \in rec.jurors
      /\ rec.row \in Rows
  BY DEF GoodRecord, Records
<1>2. votes \in [Jurors -> Sides \cup {"none"}] /\ \A k \in Jurors : votes[k] = IF k = j THEN side ELSE rec.votes[k]
  BY <1>1
<1> HIDE DEF votes
<1>3. \A k \in Jurors : rec.votes[k] \in {"none", votes[k]} BY <1>1, <1>2
<1>4. \A k \in Jurors : votes[k] # "none" => k \in rec.jurors BY <1>1, <1>2
<1>5. CASE \A k \in rec.jurors : votes[k] # "none"
  <2>0. PICK verdict \in Sides : verdict = ComputeVerdict(votes) BY VerdictIsSide
  <2>1. new = [rec EXCEPT !.votes = votes, !.verdict = verdict, !.step = "payout"]
    BY <1>5, <2>0 DEF votes, WithVote
  <2>2. /\ new \in Records /\ new.step = "payout" /\ new.row = rec.row /\ new.jurors = rec.jurors
        /\ new.votes = votes /\ new.verdict = verdict
    <3> HIDE <2>0
    <3>q. QED BY <1>1, <1>2, <2>1 DEF Records, Steps
  <2> HIDE DEF new
  <2>3. GoodRecord(new) BY <1>1, <1>4, <1>5, <2>0, <2>2 DEF GoodRecord
  <2>q. QED BY <1>3, <2>2, <2>3 DEF new
<1>6. CASE ~(\A k \in rec.jurors : votes[k] # "none")
  <2>1. new = [rec EXCEPT !.votes = votes] BY <1>6 DEF votes, WithVote
  <2>2. /\ new \in Records /\ new.step = "voting" /\ new.row = rec.row /\ new.jurors = rec.jurors
        /\ new.votes = votes /\ new.verdict = "none"
    BY <1>1, <1>2, <2>1 DEF Records
  <2> HIDE DEF new
  <2>3. GoodRecord(new) BY <1>1, <1>4, <2>2 DEF GoodRecord
  <2>q. QED BY <1>3, <2>2, <2>3 DEF new
<1>q. QED BY <1>5, <1>6

----------------------------------------------------------------------------
(* The escrow calls of a saga step by step. *)

LEMMA TransitionTakes ==
  ASSUME TypeOK, NEW q \in Requests, NEW r \in Rows, NEW o \in Transitions, Transition(q, o, r)
  PROVE  \E e \in Escrows, d \in BOOLEAN :
           /\ step[q] = "idle" /\ Take(q, o, r, e, d)
           /\ e.status = Target[o] /\ (~d => db[r].status \in Allowed[o])
<1>1. PICK d \in Degraded :
        /\ step[q] = "idle" /\ Found(q, r, d).status \in Allowed[o]
        /\ Take(q, o, r, Bumped(Found(q, r, d), Target[o]), d)
  BY DEF Transition
<1>2. Target[o] \in Statuses /\ Found(q, r, d).status \in Statuses BY <1>1, TransitionTables
<1>3. Exists(Found(q, r, d)) BY <1>2 DEF Exists, Statuses
<1>4. /\ Bumped(Found(q, r, d), Target[o]) \in Escrows
      /\ Bumped(Found(q, r, d), Target[o]).status = Target[o]
  BY <1>2, <1>3, FoundIsTyped, CopiesAreEscrows
<1>5. ~d => Found(q, r, d) = db[r] BY DEF Found
<1>q. QED BY <1>1, <1>4, <1>5, DegradedIsBoolean

\* A correction is a write of its own even when the status stays: the version goes up.
LEMMA CorrectTakes ==
  ASSUME TypeOK, NEW q \in Requests, NEW r \in Rows, Correct(q, r, "disputed")
  PROVE  \E e \in Escrows, d \in BOOLEAN :
           /\ step[q] = "idle" /\ Take(q, "correct", r, e, d)
           /\ e.status = "disputed" /\ (~d => e # db[r])
<1>1. PICK d \in Degraded :
        /\ step[q] = "idle" /\ Exists(Found(q, r, d))
        /\ Take(q, "correct", r, Bumped(Found(q, r, d), "disputed"), d)
  BY DEF Correct
<1>2. "disputed" \in Statuses BY DEF Statuses
<1>3. /\ Bumped(Found(q, r, d), "disputed") \in Escrows
      /\ Bumped(Found(q, r, d), "disputed").status = "disputed"
  BY <1>1, <1>2, FoundIsTyped, CopiesAreEscrows
<1>4. ~d => Bumped(Found(q, r, d), "disputed") # db[r]
  <2>1. Found(q, r, d).version \in Nat BY FoundIsTyped DEF Escrows, Absent
  <2>2. Bumped(Found(q, r, d), "disputed").version = Found(q, r, d).version + 1 BY DEF Bumped
  <2>q. QED BY <2>1, <2>2 DEF Found
<1>q. QED BY <1>1, <1>3, <1>4, DegradedIsBoolean

LEMMA Settlements ==
  /\ \A side \in Sides : Settlement[side] \in Transitions \cap {"release", "cancel", "split"}
  /\ \A one, other \in Sides : Settlement[one] = Settlement[other] => one = other
<1>1. /\ Settlement["beneficiary"] = "release" /\ Settlement["depositor"] = "cancel"
      /\ Settlement["split"] = "split"
  BY DEF Settlement
<1>q. QED BY <1>1 DEF Sides, Transitions

\* The operation of an escrow call in progress.
LEMMA CallsKinds ==
  ASSUME NEW q \in Requests, GoodCall(q), step[q] # "idle"
  PROVE  op[q] \in Transitions \cup {"correct"} /\ (op[q] = "correct" => doing[q] = "undo")
<1>1. held[q].verdict \in Sides \cup {"none"} BY DEF GoodCall, GoodRecord, Records
<1>2. held[q].verdict # "none" => Settlement[held[q].verdict] \in {"release", "cancel", "split"}
  BY <1>1, Settlements
<1>3. Calls(doing[q], op[q], held[q]) BY DEF GoodCall
<1>q. QED BY <1>2, <1>3 DEF Calls, Transitions

EscrowReads(q) ==
  Freeze(q) \/ ApplyPayout(q) \/ CompensatePayout(q) \/ \E r \in Rows : Bypass(q, r)

\* An escrow call starts: for its own saga's row, with the operation of the phase.
LEMMA EscrowCallStarts ==
  ASSUME SagaTypes, NEW q \in Requests, EscrowReads(q)
  PROVE  /\ UNCHANGED <<storeVars, callVars, pastVars>> /\ begun' \in 0..MaxRequests
         /\ \E r \in Rows, o \in Ops \ {"none"}, e \in Escrows, d \in BOOLEAN :
              /\ step[q] = "idle" /\ Take(q, o, r, e, d)
              /\ Calls(doing[q], o, held[q]) /\ (doing[q] # "none" => r = held[q].row)
              /\ o \in Transitions \cup {"correct"}
              /\ o \in Transitions => e.status = Target[o] /\ (~d => db[r].status \in Allowed[o])
              /\ o = "correct" => e.status = "disputed" /\ (~d => e # db[r])
<1>t. TypeOK /\ GoodCall(q) /\ GoodRecord(held[q]) /\ Holds(doing[q], held[q])
  BY DEF SagaTypes, SagaTypeOK, GoodCall
<1>a. Transitions \cup {"correct"} \subseteq Ops \ {"none"} /\ "correct" \notin Transitions
  BY DEF Ops, EventTypes, Transitions
<1>r. doing[q] \in {"freeze", "settle", "undo"} => held[q].row \in Rows
  BY <1>t DEF GoodRecord, Holds, EscalatePhases
<1>b. begun \in 0..MaxRequests BY <1>t DEF TypeOK
<1>1. CASE Freeze(q)
  <2>1. /\ doing[q] = "freeze" /\ Transition(q, "dispute", held[q].row)
        /\ UNCHANGED <<begun, storeVars, callVars, pastVars>>
    BY <1>1 DEF Freeze
  <2>2. "dispute" \in Transitions BY DEF Transitions
  <2>q. QED BY <1>t, <1>a, <1>r, <1>b, <2>1, <2>2, TransitionTakes DEF Calls
<1>2. CASE ApplyPayout(q)
  <2>1. /\ doing[q] = "settle" /\ Transition(q, Settlement[held[q].verdict], held[q].row)
        /\ UNCHANGED <<begun, storeVars, callVars, pastVars>>
    BY <1>2 DEF ApplyPayout
  <2>2. held[q].verdict \in Sides BY <1>t, <2>1 DEF Holds, GoodRecord, Records
  <2>3. Settlement[held[q].verdict] \in Transitions BY <2>2, Settlements
  <2>4. held[q].verdict # "none" BY <1>t, <2>1 DEF Holds
  <2>q. QED BY <1>t, <1>a, <1>r, <1>b, <2>1, <2>3, <2>4, TransitionTakes DEF Calls
<1>3. CASE CompensatePayout(q)
  <2>1. /\ doing[q] = "undo" /\ Correct(q, held[q].row, "disputed")
        /\ UNCHANGED <<begun, storeVars, callVars, pastVars>>
    BY <1>3 DEF CompensatePayout
  <2>q. QED BY <1>t, <1>a, <1>r, <1>b, <2>1, CorrectTakes DEF Calls
<1>4. ASSUME NEW r \in Rows, Bypass(q, r)
      PROVE  \E o \in {"fund", "release"} : Transition(q, o, r) /\ doing[q] = "none"
                /\ UNCHANGED <<storeVars, callVars, pastVars>> /\ begun < MaxRequests /\ begun' = begun + 1
  BY <1>4 DEF Bypass, Idle
<1>5. {"fund", "release"} \subseteq Transitions BY DEF Transitions
<1>6. ASSUME NEW r \in Rows, Bypass(q, r)
      PROVE  /\ UNCHANGED <<storeVars, callVars, pastVars>> /\ begun' \in 0..MaxRequests
             /\ \E p \in Rows, o \in Ops \ {"none"}, e \in Escrows, d \in BOOLEAN :
              /\ step[q] = "idle" /\ Take(q, o, p, e, d)
              /\ Calls(doing[q], o, held[q]) /\ (doing[q] # "none" => p = held[q].row)
              /\ o \in Transitions \cup {"correct"}
              /\ o \in Transitions => e.status = Target[o] /\ (~d => db[p].status \in Allowed[o])
              /\ o = "correct" => e.status = "disputed" /\ (~d => e # db[p])
  <2>1. PICK o \in {"fund", "release"} : Transition(q, o, r) /\ doing[q] = "none"
                /\ UNCHANGED <<storeVars, callVars, pastVars>> /\ begun < MaxRequests /\ begun' = begun + 1
    BY <1>4, <1>6
  <2>2. begun' \in 0..MaxRequests BY <1>b, <2>1
  <2>q. QED BY <1>t, <1>a, <1>5, <2>1, <2>2, TransitionTakes DEF Calls
<1>q. QED BY <1>1, <1>2, <1>3, <1>6 DEF EscrowReads

\* Where the outcome of an escrow call leads.
Leads(from, to) ==
  \/ from = "none" /\ to = "none"
  \/ from = "freeze" /\ to \in {"advance", "retire"}
  \/ from = "settle" /\ to \in {"complete", "undo"}
  \/ from = "undo" /\ to = "giveup"

EscrowGoesOn(q) == EscrowWrites(q) \/ EscrowFallsBack(q) \/ EscrowThrows(q)
Refused(q) == FreezeRefused(q) \/ PayoutRefused(q) \/ NothingToCorrect(q)

\* An escrow call goes on: it ends, or it falls back and goes on to its event.
LEMMA EscrowCallGoesOn ==
  ASSUME SagaTypes, NEW q \in Requests, EscrowGoesOn(q)
  PROVE  /\ Write(q) /\ UNCHANGED <<storeVars, sid, held, told, degraded, crashed>>
         /\ failures' \in 0..MaxFailures /\ Flagged(q)
         /\ \/ step'[q] = "idle" /\ row'[q] = NoRow
               /\ \E to : Leads(doing[q], to) /\ doing' = [doing EXCEPT ![q] = to]
            \/ Fallback(q) /\ UNCHANGED doing
         /\ doing'[q] = "complete" => Commit(q) \/ AppendEvent(q)
<1>t. TypeOK /\ SagaTypeOK /\ GoodCall(q) /\ failures \in 0..MaxFailures
      /\ doing \in [Requests -> {"none"} \cup EscalatePhases \cup SagaPhases]
  BY DEF SagaTypes, SagaTypeOK
<1>f. Fails => failures' \in 0..MaxFailures BY <1>t DEF Fails
<1>w. step[q] # "idle" /\ (Finish(q) => step'[q] = "idle" /\ row'[q] = NoRow)
  BY <1>t DEF EscrowGoesOn, EscrowWrites, EscrowFallsBack, EscrowThrows, Commit, Partial, WriteInPart, Fallback,
              AppendEvent, AppendThrows, Finish, TypeOK
<1>p. doing[q] \in {"none", "freeze", "settle", "undo"} BY <1>t, <1>w DEF GoodCall, Calls
<1>a. Leads(doing[q], AfterSuccess[doing[q]]) /\ Leads(doing[q], AfterThrow[doing[q]])
      /\ AfterThrow[doing[q]] # "complete"
  BY <1>p DEF Leads, AfterSuccess, AfterThrow
<1>1. CASE EscrowWrites(q)
  <2>1. /\ Commit(q) \/ AppendEvent(q)
        /\ Flagged(q) /\ doing' = [doing EXCEPT ![q] = AfterSuccess[doing[q]]]
        /\ UNCHANGED <<storeVars, sid, held, told, degraded, crashed, failures>>
    BY <1>1 DEF EscrowWrites, Goto
  <2>2. Finish(q) BY <2>1 DEF Commit, AppendEvent
  <2>q. QED BY <1>t, <1>w, <1>a, <2>1, <2>2 DEF Write
<1>2. CASE EscrowFallsBack(q)
  <2>1. /\ Fails /\ Fallback(q) /\ Flagged(q)
        /\ UNCHANGED <<storeVars, callVars, told, degraded, crashed>>
    BY <1>2 DEF EscrowFallsBack
  <2>2. UNCHANGED <<doing, sid, held>> BY <2>1 DEF callVars
  <2>q. QED BY <1>p, <1>f, <2>1, <2>2 DEF Write
<1>3. CASE EscrowThrows(q)
  <2>1. /\ Fails /\ (Partial(q) \/ AppendThrows(q))
        /\ Flagged(q) /\ doing' = [doing EXCEPT ![q] = AfterThrow[doing[q]]]
        /\ UNCHANGED <<storeVars, sid, held, told, degraded, crashed>>
    BY <1>3 DEF EscrowThrows, Goto
  <2>2. Finish(q) BY <2>1 DEF Partial, AppendThrows
  <2>q. QED BY <1>t, <1>f, <1>w, <1>a, <2>1, <2>2 DEF Write
<1>q. QED BY <1>1, <1>2, <1>3 DEF EscrowGoesOn

LEMMA RefusedGoesOn ==
  ASSUME NEW q \in Requests, Refused(q)
  PROVE  /\ UNCHANGED <<vars, storeVars, pastVars, sid, held>> /\ step[q] = "idle"
         /\ \E to \in {"retire", "undo", "giveup"} :
              Leads(doing[q], to) /\ doing' = [doing EXCEPT ![q] = to]
BY DEF Refused, FreezeRefused, PayoutRefused, NothingToCorrect, Goto, Leads

\* What the calls keep while an escrow call of q begins, goes on or ends.
LEMMA CallsGoOn ==
  ASSUME SagaTypes, NEW q \in Requests, UNCHANGED <<sid, held>>,
         \/ UNCHANGED doing
         \/ \E to : Leads(doing[q], to) /\ doing' = [doing EXCEPT ![q] = to],
         \A p \in Requests \ {q} : step'[p] = step[p] /\ op'[p] = op[p] /\ row'[p] = row[p],
         step'[q] = "idle" => row'[q] = NoRow,
         step'[q] # "idle" => Calls(doing'[q], op'[q], held[q]) /\ (doing'[q] # "none" => row'[q] = held[q].row)
  PROVE  /\ \A p \in Requests : GoodCall(p)'
         /\ doing' \in [Requests -> {"none"} \cup EscalatePhases \cup SagaPhases]
         /\ \A p \in Requests : doing'[p] # "none" => sid'[p] \in Sagas /\ held'[p].row \in Rows
<1>t. /\ doing \in [Requests -> {"none"} \cup EscalatePhases \cup SagaPhases]
      /\ \A p \in Requests : GoodCall(p) /\ (doing[p] # "none" => sid[p] \in Sagas /\ held[p].row \in Rows)
  BY DEF SagaTypes, SagaTypeOK
<1>1. \A p \in Requests \ {q} : doing'[p] = doing[p] BY <1>t
<1>2. doing'[q] = doing[q] \/ Leads(doing[q], doing'[q]) BY <1>t
<1>3. Holds(doing'[q], held[q]) /\ (doing'[q] = "none" <=> doing[q] = "none")
      /\ doing'[q] \in {"none"} \cup EscalatePhases \cup SagaPhases
  BY <1>2, <1>t DEF GoodCall, Leads, Holds, EscalatePhases, SagaPhases
<1>4. GoodCall(q)' BY <1>t, <1>3 DEF GoodCall
<1>5. ASSUME NEW p \in Requests, p # q PROVE GoodCall(p)' BY <1>t, <1>1, <1>5 DEF GoodCall
<1>6. doing' \in [Requests -> {"none"} \cup EscalatePhases \cup SagaPhases] BY <1>t, <1>3
<1>q. QED BY <1>t, <1>1, <1>3, <1>4, <1>5, <1>6

----------------------------------------------------------------------------
(* The saga's own steps: a call begins with a record, and it saves one. *)

LEMMA OnwardReflexive == ASSUME NEW rec, GoodRecord(rec) PROVE Onward(rec, rec)
<1>1. rec.step \in Steps BY DEF GoodRecord, Records
<1>2. Rank[rec.step] \in Nat BY <1>1 DEF Rank, Steps
<1>q. QED BY <1>2 DEF Onward

\* How the record a call holds is based on what it read: nothing for a new saga, the
\* next version of the record for jurors and votes, the record itself otherwise.
Based(phase, old, rec) ==
  \/ phase = "open" /\ old = NoRecord
  \/ phase \in {"assign", "vote"} /\ old.row = rec.row /\ old.step \in {"assignment", "voting"}
     /\ Onward(old, rec)
  \/ phase \notin {"none", "open", "assign", "vote"} /\ old = rec

Works(q) == \E s \in Sagas : AssignJurors(q, s) \/ CastVote(q, s) \/ ExecutePayout(q, s)

\* What assignJurors, castVote and executePayout begin with.
BeginsWork(q, phase, s, d, rec) ==
  /\ phase \in {"assign", "vote", "settle"} /\ GoodRecord(rec) /\ Holds(phase, rec)
  /\ Based(phase, SagaFound(q, s, d), rec)
  /\ GoodRecord(SagaFound(q, s, d)) /\ SagaFound(q, s, d).row = rec.row /\ rec.row \in Rows
  /\ SagaFound(q, s, d).step \in {"assignment", "voting", "payout"}
  /\ Work(q, phase, s, d, rec)

LEMMA CallWorks ==
  ASSUME SagaTypes, NEW q \in Requests, Works(q)
  PROVE  \E phase, rec : \E s \in Sagas, d \in BOOLEAN : BeginsWork(q, phase, s, d, rec)
<1>1. PICK s \in Sagas : AssignJurors(q, s) \/ CastVote(q, s) \/ ExecutePayout(q, s) BY DEF Works
<1>h. Host[q] \in Instances OBVIOUS
<1>g. \A d \in Degraded : GoodRecord(SagaFound(q, s, d))
  BY <1>h DEF SagaTypes, GoodStores, SagaFound
<1>2. CASE AssignJurors(q, s)
  <2>1. PICK d \in Degraded, J \in SUBSET Jurors :
          /\ SagaFound(q, s, d).step = "assignment"
          /\ Work(q, "assign", s, d, [SagaFound(q, s, d) EXCEPT !.jurors = J, !.step = "voting"])
    BY <1>2 DEF AssignJurors, AssertStep
  <2> DEFINE old == SagaFound(q, s, d)
             rec == [old EXCEPT !.jurors = J, !.step = "voting"]
  <2>2. GoodRecord(old) /\ d \in BOOLEAN BY <1>g, DegradedIsBoolean
  <2>3. /\ GoodRecord(rec) /\ rec.step = "voting" /\ rec.row = old.row
        /\ rec.votes = old.votes /\ rec.verdict = old.verdict
    BY <2>1, <2>2, AssignedIsGood
  <2>4. old.step = "assignment" /\ Work(q, "assign", s, d, rec) BY <2>1
  <2> HIDE DEF rec
  <2>5. Onward(old, rec) BY <2>3, <2>4 DEF Onward, Rank, Ended
  <2>6. rec.row \in Rows BY <2>3 DEF GoodRecord
  <2>7. Holds("assign", rec) BY <2>3 DEF Holds, EscalatePhases
  <2>8. BeginsWork(q, "assign", s, d, rec) BY <2>2, <2>3, <2>4, <2>5, <2>6, <2>7 DEF BeginsWork, Based
  <2>q. QED BY <2>2, <2>8
<1>3. CASE CastVote(q, s)
  <2>1. PICK d \in Degraded, j \in Jurors : \E side \in MayVote[j] :
          /\ SagaFound(q, s, d).step = "voting"
          /\ j \in SagaFound(q, s, d).jurors /\ SagaFound(q, s, d).votes[j] = "none"
          /\ Work(q, "vote", s, d, WithVote(SagaFound(q, s, d), j, side))
    BY <1>3 DEF CastVote, AssertStep
  <2>2. PICK side \in Sides :
          /\ SagaFound(q, s, d).step = "voting"
          /\ j \in SagaFound(q, s, d).jurors /\ SagaFound(q, s, d).votes[j] = "none"
          /\ Work(q, "vote", s, d, WithVote(SagaFound(q, s, d), j, side))
    BY <2>1
  <2> DEFINE old == SagaFound(q, s, d)
             rec == WithVote(old, j, side)
  <2>3. GoodRecord(old) /\ d \in BOOLEAN BY <1>g, DegradedIsBoolean
  <2>4. /\ GoodRecord(rec) /\ rec.step \in {"voting", "payout"} /\ rec.row = old.row
        /\ \A k \in Jurors : old.votes[k] \in {"none", rec.votes[k]}
    BY <2>2, <2>3, VotedIsGood
  <2>5. old.step = "voting" /\ Work(q, "vote", s, d, rec) BY <2>2
  <2> HIDE DEF rec
  <2>6. old.verdict = "none" BY <2>3, <2>5 DEF GoodRecord
  <2>7. Onward(old, rec) BY <2>4, <2>5, <2>6 DEF Onward, Rank, Ended
  <2>8. rec.row \in Rows /\ Holds("vote", rec) BY <2>4 DEF GoodRecord, Holds, EscalatePhases
  <2>9. BeginsWork(q, "vote", s, d, rec) BY <2>3, <2>4, <2>5, <2>7, <2>8 DEF BeginsWork, Based
  <2>q. QED BY <2>3, <2>9
<1>4. CASE ExecutePayout(q, s)
  <2>1. PICK d \in Degraded :
          /\ SagaFound(q, s, d).step = "payout" /\ SagaFound(q, s, d).verdict # "none"
          /\ Work(q, "settle", s, d, SagaFound(q, s, d))
    BY <1>4 DEF ExecutePayout, AssertStep
  <2> DEFINE rec == SagaFound(q, s, d)
  <2>2. GoodRecord(rec) /\ d \in BOOLEAN BY <1>g, DegradedIsBoolean
  <2>3. rec.step = "payout" /\ rec.verdict # "none" /\ Work(q, "settle", s, d, rec) BY <2>1
  <2>4. rec.row \in Rows /\ Holds("settle", rec)
    BY <2>2, <2>3 DEF GoodRecord, Holds, EscalatePhases
  <2>5. BeginsWork(q, "settle", s, d, rec) BY <2>2, <2>3, <2>4 DEF BeginsWork, Based
  <2>q. QED BY <2>2, <2>5
<1>q. QED BY <1>1, <1>2, <1>3, <1>4

Escalates(q) == \E r \in Rows : Escalate(q, r)

\* What an escalation begins with. Unless it reads the maps, Redis knows no open saga.
BeginsSaga(q, s, d, rec) ==
  /\ GoodRecord(rec) /\ rec.step = "escalation" /\ rec.row \in Rows
  /\ Idle(q) /\ EscalationFree(Host[q], rec.row) /\ NewSaga(s)
  /\ Reading(rec.row, d) /\ ~Open(CurrentSaga(q, rec.row, d))
  /\ Enter(q, "open", s, rec)
  /\ UNCHANGED <<vars, storeVars, told, review, crashed>>

LEMMA CallEscalates ==
  ASSUME NEW q \in Requests, Escalates(q)
  PROVE  \E rec : \E s \in Sagas, d \in BOOLEAN : BeginsSaga(q, s, d, rec)
<1>1. PICK r \in Rows : Escalate(q, r) BY DEF Escalates
<1>2. PICK d \in Degraded, s \in Sagas, prior \in {"active", "disputed"} :
       /\ Reading(r, d) /\ ~Open(CurrentSaga(q, r, d))
       /\ NewSaga(s)
       /\ Enter(q, "open", s, FirstRecord(r, prior))
  BY <1>1 DEF Escalate, FirstRecord
<1> DEFINE rec == FirstRecord(r, prior)
<1>3. GoodRecord(rec) /\ rec.step = "escalation" /\ rec.row = r BY FirstIsGood
<1>4. /\ Idle(q) /\ EscalationFree(Host[q], r) /\ UNCHANGED <<vars, storeVars, told, review, crashed>>
  BY <1>1 DEF Escalate
<1>5. Enter(q, "open", s, rec) BY <1>2
<1> HIDE DEF rec
<1>6. BeginsSaga(q, s, d, rec) BY <1>2, <1>3, <1>4, <1>5 DEF BeginsSaga
<1>q. QED BY <1>6, DegradedIsBoolean

Saves(q) == OpenSaga(q) \/ Advance(q) \/ MarkFailed(q) \/ SaveProgress(q) \/ Complete(q) \/ Archive(q)

\* The record a call saves in each phase.
Saved(phase, rec) ==
  IF phase = "advance" THEN [rec EXCEPT !.step = "assignment"]
  ELSE IF phase \in {"retire", "giveup"} THEN [rec EXCEPT !.step = "failed"]
  ELSE IF phase = "complete" THEN [rec EXCEPT !.step = "completed"] ELSE rec

SavingPhases == {"open", "advance", "retire", "giveup", "assign", "vote", "complete", "archive"}

LEMMA SavedIsGood ==
  ASSUME NEW rec, NEW phase \in SavingPhases, GoodRecord(rec), Holds(phase, rec)
  PROVE  /\ GoodRecord(Saved(phase, rec)) /\ Onward(rec, Saved(phase, rec))
         /\ Saved(phase, rec).row = rec.row /\ rec.row \in Rows
         /\ Saved(phase, rec).votes = rec.votes /\ Saved(phase, rec).verdict = rec.verdict
         /\ phase = "open" => Saved(phase, rec) = rec
         /\ phase # "open" => Saved(phase, rec).step \notin {"none", "escalation"}
         /\ Saved(phase, rec).step = "completed" => phase \in {"complete", "archive"}
         /\ phase \in {"complete", "archive"} => Saved(phase, rec).step = "completed"
<1>1. rec.step # "none" /\ rec.row \in Rows
  BY DEF Holds, GoodRecord, SavingPhases, EscalatePhases
<1>2. CASE phase \in {"open", "assign", "vote", "archive"}
  <2>1. Saved(phase, rec) = rec BY <1>2 DEF Saved
  <2>q. QED BY <1>1, <1>2, <2>1, OnwardReflexive DEF Holds, EscalatePhases
<1>3. ASSUME NEW to \in {"assignment", "failed", "completed"}, Saved(phase, rec) = [rec EXCEPT !.step = to],
             to = "assignment" => rec.step = "escalation",
             rec.step \in {"escalation", "payout"}
      PROVE  /\ GoodRecord(Saved(phase, rec)) /\ Onward(rec, Saved(phase, rec))
             /\ Saved(phase, rec).row = rec.row /\ Saved(phase, rec).step = to
             /\ Saved(phase, rec).votes = rec.votes /\ Saved(phase, rec).verdict = rec.verdict
  <2> DEFINE new == Saved(phase, rec)
  <2>1. to \in Steps BY DEF Steps
  <2>2. GoodRecord(new) BY <1>1, <1>3, <2>1, LaterStep
  <2>3. new.step = to /\ new.row = rec.row /\ new.votes = rec.votes /\ new.verdict = rec.verdict
    BY <1>1, <1>3, <2>1, OtherStep
  <2> HIDE DEF new
  <2>4. Onward(rec, new) BY <1>3, <2>3 DEF Onward, Rank, Ended
  <2>q. QED BY <2>2, <2>3, <2>4 DEF new
<1>4. CASE phase = "advance"
  <2>1. Saved(phase, rec) = [rec EXCEPT !.step = "assignment"] /\ rec.step = "escalation"
    BY <1>4 DEF Saved, Holds, EscalatePhases
  <2>q. QED BY <1>1, <1>3, <1>4, <2>1
<1>5. CASE phase \in {"retire", "giveup"}
  <2>1. Saved(phase, rec) = [rec EXCEPT !.step = "failed"] /\ rec.step \in {"escalation", "payout"}
    BY <1>5 DEF Saved, Holds, EscalatePhases
  <2>q. QED BY <1>1, <1>3, <1>5, <2>1
<1>6. CASE phase = "complete"
  <2>1. Saved(phase, rec) = [rec EXCEPT !.step = "completed"] /\ rec.step = "payout"
    BY <1>6 DEF Saved, Holds
  <2>q. QED BY <1>1, <1>3, <1>6, <2>1
<1>q. QED BY <1>2, <1>4, <1>5, <1>6 DEF SavingPhases

\* Where a save leaves the record: in Redis, or in the maps of a saga that went through
\* them, or, when there was nothing new to save, where it was.
Stored(q, rec) ==
  /\ sagas' \in {sagas, [sagas EXCEPT ![sid[q]] = rec]}
  /\ \/ sagas' = [sagas EXCEPT ![sid[q]] = rec]
     \/ rec.row \in degraded'
     \/ doing[q] = "archive" /\ UNCHANGED sagas
  /\ localSagas' \in {localSagas, [localSagas EXCEPT ![Host[q]][sid[q]] = rec]}
  /\ UNCHANGED localSagas \/ rec.row \in degraded'
  /\ degraded' \in {degraded, degraded \cup {rec.row}}
  /\ failures' \in 0..MaxFailures
  /\ current' \in {current, [current EXCEPT ![rec.row] = sid[q]]}
  /\ doing[q] = "open" => current' = [current EXCEPT ![rec.row] = sid[q]] \/ rec.row \in degraded'
  /\ doing[q] # "open" => UNCHANGED current
  /\ localCurrent' \in {localCurrent, [localCurrent EXCEPT ![Host[q]][rec.row] = sid[q]]}

\* What the call goes on to.
Continues(q, rec) ==
  \/ doing[q] = "open" /\ doing' \in {[doing EXCEPT ![q] = "advance"], [doing EXCEPT ![q] = "freeze"]}
     /\ UNCHANGED <<sid, held>>
  \/ doing[q] = "complete" /\ Enter(q, "archive", sid[q], rec)
  \/ doing[q] \notin {"open", "complete"} /\ Leave(q)

Told(q) ==
  IF doing[q] \in {"assign", "vote"}
  THEN told' = [told EXCEPT ![sid[q]] =
         [j \in Jurors |-> IF held[q].votes[j] # "none" THEN held[q].votes[j] ELSE @[j]]]
  ELSE UNCHANGED told

LEMMA SaveStores ==
  ASSUME NEW q \in Requests, NEW rec, failures \in 0..MaxFailures, Save(q, rec), doing[q] # "open"
  PROVE  Stored(q, rec)
<1>1. Fails => failures' \in 0..MaxFailures BY DEF Fails
<1>2. CASE sagas' = [sagas EXCEPT ![sid[q]] = rec] /\ UNCHANGED <<localSagas, degraded, failures>>
  BY <1>2 DEF Save, Stored
<1>3. CASE /\ Fails
           /\ sagas' \in {sagas, [sagas EXCEPT ![sid[q]] = rec]}
           /\ localSagas' = [localSagas EXCEPT ![Host[q]][sid[q]] = rec]
           /\ degraded' = degraded \cup {rec.row}
  BY <1>1, <1>3 DEF Save, Stored
<1>q. QED BY <1>2, <1>3 DEF Save

LEMMA CallSaves ==
  ASSUME NEW q \in Requests, failures \in 0..MaxFailures, Saves(q)
  PROVE  /\ doing[q] \in SavingPhases
         /\ UNCHANGED <<vars, review, crashed>>
         /\ Stored(q, Saved(doing[q], held[q])) /\ Continues(q, Saved(doing[q], held[q])) /\ Told(q)
<1>1. CASE OpenSaga(q)
  <2>1. doing[q] = "open" /\ Saved(doing[q], held[q]) = held[q] BY <1>1 DEF OpenSaga, Saved
  <2>2. Fails => failures' \in 0..MaxFailures BY DEF Fails
  <2>3. Stored(q, held[q])
    <3>1. CASE /\ sagas' = [sagas EXCEPT ![sid[q]] = held[q]]
               /\ current' = [current EXCEPT ![held[q].row] = sid[q]]
               /\ UNCHANGED <<localSagas, localCurrent, degraded, failures>>
      BY <2>1, <3>1 DEF Stored
    <3>2. CASE /\ Fails /\ degraded' = degraded \cup {held[q].row}
               /\ sagas' \in {sagas, [sagas EXCEPT ![sid[q]] = held[q]]}
               /\ current' \in {current, [current EXCEPT ![held[q].row] = sid[q]]}
               /\ localSagas' = [localSagas EXCEPT ![Host[q]][sid[q]] = held[q]]
               /\ localCurrent' = [localCurrent EXCEPT ![Host[q]][held[q].row] = sid[q]]
      BY <2>1, <2>2, <3>2 DEF Stored
    <3>q. QED BY <1>1, <3>1, <3>2 DEF OpenSaga
  <2>4. Continues(q, held[q]) BY <1>1, <2>1 DEF OpenSaga, Goto, Continues
  <2>q. QED BY <1>1, <2>1, <2>3, <2>4 DEF OpenSaga, Told, SavingPhases
<1>2. CASE Advance(q)
  <2>1. doing[q] = "advance" /\ Saved(doing[q], held[q]) = [held[q] EXCEPT !.step = "assignment"]
    BY <1>2 DEF Advance, Saved
  <2>q. QED BY <1>2, <2>1, SaveStores DEF Advance, Continues, Told, SavingPhases
<1>3. CASE MarkFailed(q)
  <2>1. doing[q] \in {"retire", "giveup"} /\ Saved(doing[q], held[q]) = [held[q] EXCEPT !.step = "failed"]
    BY <1>3 DEF MarkFailed, Saved
  <2>q. QED BY <1>3, <2>1, SaveStores DEF MarkFailed, Continues, Told, SavingPhases
<1>4. CASE SaveProgress(q)
  <2>1. doing[q] \in {"assign", "vote"} /\ Saved(doing[q], held[q]) = held[q]
    BY <1>4 DEF SaveProgress, Saved
  <2>q. QED BY <1>4, <2>1, SaveStores DEF SaveProgress, Continues, Told, SavingPhases
<1>5. CASE Complete(q)
  <2>1. doing[q] = "complete" /\ Saved(doing[q], held[q]) = [held[q] EXCEPT !.step = "completed"]
    BY <1>5 DEF Complete, Saved
  <2>q. QED BY <1>5, <2>1, SaveStores DEF Complete, Continues, Told, SavingPhases
<1>6. CASE Archive(q)
  <2>1. doing[q] = "archive" /\ Saved(doing[q], held[q]) = held[q] BY <1>6 DEF Archive, Saved
  <2>2. UNCHANGED <<storeVars, degraded, failures>> \/ Save(q, held[q])
    BY <1>6 DEF Archive
  <2>3. Stored(q, held[q])
    <3>1. CASE UNCHANGED <<storeVars, degraded, failures>> BY <2>1, <3>1 DEF storeVars, Stored
    <3>q. QED BY <2>1, <2>2, <3>1, SaveStores
  <2>q. QED BY <1>6, <2>1, <2>3 DEF Archive, Continues, Told, SavingPhases
<1>q. QED BY <1>1, <1>2, <1>3, <1>4, <1>5, <1>6 DEF Saves

----------------------------------------------------------------------------
(* SagaTypes is inductive. *)

SagaMoves ==
  \/ \E q \in Requests : \/ EscrowReads(q) \/ EscrowGoesOn(q) \/ Refused(q)
                        \/ Escalates(q) \/ Works(q) \/ Saves(q)
  \/ \E i \in Instances : Crash(i)

LEMMA EveryMove == SagaNext => SagaMoves
BY DEF SagaNext, SagaMoves, EscrowReads, EscrowGoesOn, Refused, Escalates, Works, Saves

\* A call begins: its record is good, and it is the only call that changes.
LEMMA EnterKeepsCalls ==
  ASSUME SagaTypes, NEW q \in Requests, NEW phase \in EscalatePhases \cup SagaPhases, NEW s \in Sagas,
         NEW rec, GoodRecord(rec), rec.row \in Rows, Holds(phase, rec),
         step[q] = "idle", Enter(q, phase, s, rec), UNCHANGED <<step, op, row>>
  PROVE  /\ \A p \in Requests : GoodCall(p)'
         /\ doing' \in [Requests -> {"none"} \cup EscalatePhases \cup SagaPhases]
         /\ sid' \in [Requests -> Sagas \cup {NoSaga}] /\ held' \in [Requests -> Records]
         /\ \A p \in Requests : doing'[p] # "none" => sid'[p] \in Sagas /\ held'[p].row \in Rows
<1>t. /\ doing \in [Requests -> {"none"} \cup EscalatePhases \cup SagaPhases]
      /\ sid \in [Requests -> Sagas \cup {NoSaga}] /\ held \in [Requests -> Records]
      /\ \A p \in Requests : GoodCall(p) /\ (doing[p] # "none" => sid[p] \in Sagas /\ held[p].row \in Rows)
  BY DEF SagaTypes, SagaTypeOK
<1>1. /\ doing'[q] = phase /\ sid'[q] = s /\ held'[q] = rec
      /\ \A p \in Requests \ {q} : doing'[p] = doing[p] /\ sid'[p] = sid[p] /\ held'[p] = held[p]
  BY <1>t DEF Enter
<1>2. "none" \notin EscalatePhases \cup SagaPhases BY DEF EscalatePhases, SagaPhases
<1>3. GoodCall(q)' BY <1>t, <1>1, <1>2 DEF GoodCall
<1>4. \A p \in Requests \ {q} : GoodCall(p)' BY <1>t, <1>1 DEF GoodCall
<1>5. rec \in Records BY DEF GoodRecord
<1>6. /\ doing' \in [Requests -> {"none"} \cup EscalatePhases \cup SagaPhases]
      /\ sid' \in [Requests -> Sagas \cup {NoSaga}] /\ held' \in [Requests -> Records]
  BY <1>t, <1>5 DEF Enter
<1>q. QED BY <1>t, <1>1, <1>3, <1>4, <1>6

LEMMA LeaveKeepsCalls ==
  ASSUME SagaTypes, NEW q \in Requests, step[q] = "idle", Leave(q), UNCHANGED <<step, op, row>>
  PROVE  /\ \A p \in Requests : GoodCall(p)'
         /\ doing' \in [Requests -> {"none"} \cup EscalatePhases \cup SagaPhases]
         /\ sid' \in [Requests -> Sagas \cup {NoSaga}] /\ held' \in [Requests -> Records]
         /\ \A p \in Requests : doing'[p] # "none" => sid'[p] \in Sagas /\ held'[p].row \in Rows
<1>t. /\ doing \in [Requests -> {"none"} \cup EscalatePhases \cup SagaPhases]
      /\ sid \in [Requests -> Sagas \cup {NoSaga}] /\ held \in [Requests -> Records]
      /\ \A p \in Requests : GoodCall(p) /\ (doing[p] # "none" => sid[p] \in Sagas /\ held[p].row \in Rows)
  BY DEF SagaTypes, SagaTypeOK
<1>1. /\ doing'[q] = "none" /\ sid'[q] = NoSaga /\ held'[q] = NoRecord
      /\ \A p \in Requests \ {q} : doing'[p] = doing[p] /\ sid'[p] = sid[p] /\ held'[p] = held[p]
  BY <1>t DEF Leave, Enter
<1>2. Holds("none", NoRecord) BY DEF Holds, NoRecord, EscalatePhases
<1>3. GoodCall(q)' BY <1>t, <1>1, <1>2, NoRecordIsGood DEF GoodCall
<1>4. \A p \in Requests \ {q} : GoodCall(p)' BY <1>t, <1>1 DEF GoodCall
<1>5. NoRecord \in Records BY NoRecordIsGood DEF GoodRecord
<1>6. /\ doing' \in [Requests -> {"none"} \cup EscalatePhases \cup SagaPhases]
      /\ sid' \in [Requests -> Sagas \cup {NoSaga}] /\ held' \in [Requests -> Records]
  BY <1>t, <1>5 DEF Leave, Enter
<1>q. QED BY <1>t, <1>1, <1>3, <1>4, <1>6

LEMMA InitSagaTypes == SagaInit => SagaTypes
<1> SUFFICES ASSUME SagaInit PROVE SagaTypes OBVIOUS
<1>1. TypeOK BY InitTypes DEF SagaInit
<1>2. NoRecord \in Records BY NoRecordIsGood DEF GoodRecord
<1>3. Unvoted \in [Jurors -> Sides \cup {"none"}] BY DEF Unvoted
<1>4. GoodStores BY NoRecordIsGood DEF SagaInit, GoodStores
<1>5. Holds("none", NoRecord) BY DEF Holds, NoRecord, EscalatePhases
<1>6. \A q \in Requests : GoodCall(q) BY <1>5, NoRecordIsGood DEF SagaInit, Init, GoodCall
<1>7. /\ sagas \in [Sagas -> Records] /\ current \in [Rows -> Sagas \cup {NoSaga}]
      /\ localSagas \in [Instances -> [Sagas -> Records]]
      /\ localCurrent \in [Instances -> [Rows -> Sagas \cup {NoSaga}]]
      /\ held \in [Requests -> Records]
  BY <1>2 DEF SagaInit
<1>8. told \in [Sagas -> [Jurors -> Sides \cup {"none"}]] BY <1>3 DEF SagaInit
<1>9. /\ doing \in [Requests -> {"none"} \cup EscalatePhases \cup SagaPhases]
      /\ sid \in [Requests -> Sagas \cup {NoSaga}]
      /\ \A q \in Requests : doing[q] = "none"
  BY DEF SagaInit
<1>f. failures \in 0..MaxFailures /\ review \subseteq Rows /\ degraded \subseteq Rows BY DEF SagaInit
<1>c. crashed \in BOOLEAN BY DEF SagaInit
<1>10. SagaTypeOK BY <1>1, <1>7, <1>8, <1>9, <1>f, <1>c DEF SagaTypeOK
<1>q. QED BY <1>4, <1>6, <1>10 DEF SagaTypes

LEMMA EscrowMoveTypes ==
  ASSUME SagaTypes, NEW q \in Requests, EscrowReads(q) \/ EscrowGoesOn(q) \/ Refused(q)
  PROVE  SagaTypes'
<1>t. TypeOK /\ SagaTypeOK /\ GoodCall(q) BY DEF SagaTypes, SagaTypeOK
<1>k. ASSUME TypeOK', UNCHANGED <<storeVars, sid, held, told, degraded, crashed>>,
             failures' \in 0..MaxFailures, review' \subseteq Rows,
             \/ UNCHANGED doing
             \/ \E to : Leads(doing[q], to) /\ doing' = [doing EXCEPT ![q] = to],
             \A p \in Requests \ {q} : step'[p] = step[p] /\ op'[p] = op[p] /\ row'[p] = row[p],
             step'[q] = "idle" => row'[q] = NoRow,
             step'[q] # "idle" => Calls(doing'[q], op'[q], held[q]) /\ (doing'[q] # "none" => row'[q] = held[q].row)
      PROVE  SagaTypes'
  <2>1. /\ \A p \in Requests : GoodCall(p)'
        /\ doing' \in [Requests -> {"none"} \cup EscalatePhases \cup SagaPhases]
        /\ \A p \in Requests : doing'[p] # "none" => sid'[p] \in Sagas /\ held'[p].row \in Rows
    BY <1>k, CallsGoOn
  <2>2. GoodStores' BY <1>k DEF SagaTypes, GoodStores, storeVars
  <2>3. SagaTypeOK' BY <1>t, <1>k, <2>1 DEF SagaTypeOK, storeVars
  <2>q. QED BY <2>1, <2>2, <2>3 DEF SagaTypes
<1>1. CASE EscrowReads(q)
  <2>1. /\ UNCHANGED <<storeVars, sid, held, told, degraded, crashed, doing, failures, review>>
        /\ begun' \in 0..MaxRequests
    BY <1>1, EscrowCallStarts DEF callVars, pastVars
  <2>2. PICK r \in Rows, o \in Ops \ {"none"}, e \in Escrows, d \in BOOLEAN :
           /\ Take(q, o, r, e, d)
           /\ Calls(doing[q], o, held[q]) /\ (doing[q] # "none" => r = held[q].row)
    BY <1>1, EscrowCallStarts
  <2>3. TypeOK' BY <1>t, <2>1, <2>2, TakeTypes
  <2>4. /\ step'[q] = "write" /\ op'[q] = o /\ row'[q] = r
        /\ \A p \in Requests \ {q} : step'[p] = step[p] /\ op'[p] = op[p] /\ row'[p] = row[p]
    BY <1>t, <2>2 DEF Take, TypeOK
  <2>5. failures' \in 0..MaxFailures /\ review' \subseteq Rows BY <1>t, <2>1 DEF SagaTypeOK
  <2>q. QED BY <1>k, <2>1, <2>2, <2>3, <2>4, <2>5
<1>2. CASE EscrowGoesOn(q)
  <2>1. /\ Write(q) /\ UNCHANGED <<storeVars, sid, held, told, degraded, crashed>>
        /\ failures' \in 0..MaxFailures /\ Flagged(q)
        /\ \/ step'[q] = "idle" /\ row'[q] = NoRow
              /\ \E to : Leads(doing[q], to) /\ doing' = [doing EXCEPT ![q] = to]
           \/ Fallback(q) /\ UNCHANGED doing
    BY <1>2, EscrowCallGoesOn
  <2>2. TypeOK' BY <1>t, <2>1, WriteTypes
  <2>3. \A p \in Requests \ {q} : step'[p] = step[p] /\ op'[p] = op[p] /\ row'[p] = row[p]
    BY <1>t, <2>1, WriteLeaves
  <2>4. review' \subseteq Rows
    <3>1. row[q] \in Rows BY <1>t, <2>1, WriteLeaves DEF TypeOK
    <3>q. QED BY <1>t, <2>1, <3>1 DEF Flagged, SagaTypeOK
  <2>5. CASE step'[q] = "idle" /\ row'[q] = NoRow
             /\ \E to : Leads(doing[q], to) /\ doing' = [doing EXCEPT ![q] = to]
    BY <1>k, <2>1, <2>2, <2>3, <2>4, <2>5
  <2>6. CASE Fallback(q) /\ UNCHANGED doing
    <3>1. step[q] # "idle" /\ step'[q] = "append" /\ op'[q] = op[q] /\ row'[q] = row[q]
      BY <1>t, <2>6 DEF Fallback, TypeOK
    <3>q. QED BY <1>t, <1>k, <2>1, <2>2, <2>3, <2>4, <2>6, <3>1 DEF GoodCall
  <2>q. QED BY <2>1, <2>5, <2>6
<1>3. CASE Refused(q)
  <2>1. /\ UNCHANGED <<vars, storeVars, pastVars, sid, held>> /\ step[q] = "idle"
        /\ \E to : Leads(doing[q], to) /\ doing' = [doing EXCEPT ![q] = to]
    BY <1>3, RefusedGoesOn
  <2>2. UNCHANGED <<step, op, row, told, degraded, crashed, failures, review>>
    BY <2>1 DEF vars, reqVars, pastVars
  <2>3. TypeOK' BY <1>t, <2>1 DEF vars, dbVars, reqVars, TypeOK
  <2>4. row[q] = NoRow BY <1>t, <2>1 DEF GoodCall
  <2>5. failures' \in 0..MaxFailures /\ review' \subseteq Rows BY <1>t, <2>2 DEF SagaTypeOK
  <2>q. QED BY <1>k, <2>1, <2>2, <2>3, <2>4, <2>5
<1>q. QED BY <1>1, <1>2, <1>3

LEMMA BeginMoveTypes ==
  ASSUME SagaTypes, NEW q \in Requests, Escalates(q) \/ Works(q)
  PROVE  SagaTypes'
<1>t. TypeOK /\ SagaTypeOK BY DEF SagaTypes, SagaTypeOK
<1>1. PICK phase, rec : \E s \in Sagas, d \in BOOLEAN :
        /\ phase \in EscalatePhases \cup SagaPhases
        /\ GoodRecord(rec) /\ rec.row \in Rows /\ Holds(phase, rec)
        /\ Idle(q) /\ Reading(rec.row, d) /\ Enter(q, phase, s, rec)
        /\ UNCHANGED <<vars, storeVars, told, review, crashed>>
  <2>1. CASE Escalates(q)
    <3>1. PICK rec : \E s \in Sagas, d \in BOOLEAN : BeginsSaga(q, s, d, rec) BY <2>1, CallEscalates
    <3>2. rec.step = "escalation" => Holds("open", rec) BY DEF Holds, EscalatePhases
    <3>q. QED BY <3>1, <3>2 DEF BeginsSaga, EscalatePhases
  <2>2. CASE Works(q)
    <3>1. PICK phase, rec : \E s \in Sagas, d \in BOOLEAN : BeginsWork(q, phase, s, d, rec)
      BY <2>2, CallWorks
    <3>q. QED BY <3>1 DEF BeginsWork, Work, SagaPhases
  <2>q. QED BY <2>1, <2>2
<1>2. PICK s \in Sagas, d \in BOOLEAN :
        /\ phase \in EscalatePhases \cup SagaPhases
        /\ GoodRecord(rec) /\ rec.row \in Rows /\ Holds(phase, rec)
        /\ Idle(q) /\ Reading(rec.row, d) /\ Enter(q, phase, s, rec)
        /\ UNCHANGED <<vars, storeVars, told, review, crashed>>
  BY <1>1
<1>3. UNCHANGED <<step, op, row>> BY <1>2 DEF vars, reqVars
<1>4. /\ \A p \in Requests : GoodCall(p)'
      /\ doing' \in [Requests -> {"none"} \cup EscalatePhases \cup SagaPhases]
      /\ sid' \in [Requests -> Sagas \cup {NoSaga}] /\ held' \in [Requests -> Records]
      /\ \A p \in Requests : doing'[p] # "none" => sid'[p] \in Sagas /\ held'[p].row \in Rows
  BY <1>2, <1>3, EnterKeepsCalls DEF Idle
<1>5. TypeOK' BY <1>t, <1>2 DEF vars, dbVars, reqVars, TypeOK
<1>6. degraded' \subseteq Rows /\ failures' \in 0..MaxFailures
  BY <1>t, <1>2 DEF Reading, Fails, SagaTypeOK
<1>7. GoodStores' BY <1>2 DEF SagaTypes, GoodStores, storeVars
<1>8. SagaTypeOK' BY <1>t, <1>2, <1>4, <1>5, <1>6 DEF SagaTypeOK, storeVars
<1>q. QED BY <1>4, <1>7, <1>8 DEF SagaTypes

LEMMA SaveMoveTypes ==
  ASSUME SagaTypes, NEW q \in Requests, Saves(q)
  PROVE  SagaTypes'
<1> DEFINE rec == Saved(doing[q], held[q])
<1>t. TypeOK /\ SagaTypeOK /\ GoodCall(q) /\ failures \in 0..MaxFailures /\ Host[q] \in Instances
  BY DEF SagaTypes, SagaTypeOK
<1>1. /\ doing[q] \in SavingPhases /\ UNCHANGED <<vars, review, crashed>>
      /\ Stored(q, rec) /\ Continues(q, rec) /\ Told(q)
  BY <1>t, CallSaves
<1>2. /\ GoodRecord(rec) /\ rec.row = held[q].row /\ rec.row \in Rows
      /\ doing[q] \in {"complete", "archive"} => rec.step = "completed"
      /\ rec.verdict = held[q].verdict
  BY <1>t, <1>1, SavedIsGood DEF GoodCall
<1> HIDE DEF rec
<1>3. sid[q] \in Sagas /\ step[q] = "idle"
  <2>1. doing[q] # "none" BY <1>1 DEF SavingPhases
  <2>2. ~Calls(doing[q], op[q], held[q]) BY <1>1 DEF SavingPhases, Calls
  <2>q. QED BY <1>t, <2>1, <2>2 DEF SagaTypeOK, GoodCall
<1>4. UNCHANGED <<step, op, row>> BY <1>1 DEF vars, reqVars
<1>5. /\ \A p \in Requests : GoodCall(p)'
      /\ doing' \in [Requests -> {"none"} \cup EscalatePhases \cup SagaPhases]
      /\ sid' \in [Requests -> Sagas \cup {NoSaga}] /\ held' \in [Requests -> Records]
      /\ \A p \in Requests : doing'[p] # "none" => sid'[p] \in Sagas /\ held'[p].row \in Rows
  <2>1. CASE doing[q] = "complete" /\ Enter(q, "archive", sid[q], rec)
    <3>1. Holds("archive", rec)
      <4>1. held[q].verdict # "none" BY <1>t, <2>1 DEF GoodCall, Holds
      <4>q. QED BY <1>2, <2>1, <4>1 DEF Holds, EscalatePhases
    <3>2. "archive" \in EscalatePhases \cup SagaPhases BY DEF SagaPhases
    <3>q. QED BY <1>2, <1>3, <1>4, <2>1, <3>1, <3>2, EnterKeepsCalls
  <2>2. CASE Leave(q) BY <1>3, <1>4, <2>2, LeaveKeepsCalls
  <2>3. CASE doing[q] = "open" /\ doing' \in {[doing EXCEPT ![q] = "advance"], [doing EXCEPT ![q] = "freeze"]}
             /\ UNCHANGED <<sid, held>>
    <3>1. PICK phase \in {"advance", "freeze"} : Enter(q, phase, sid[q], held[q])
      BY <1>t, <2>3 DEF Enter, SagaTypeOK
    <3>2. Holds(phase, held[q]) BY <1>t, <2>3 DEF GoodCall, Holds, EscalatePhases
    <3>3. phase \in EscalatePhases \cup SagaPhases BY DEF EscalatePhases
    <3>4. GoodRecord(held[q]) BY <1>t DEF GoodCall
    <3>q. QED BY <1>2, <1>3, <1>4, <3>1, <3>2, <3>3, <3>4, EnterKeepsCalls
  <2>q. QED BY <1>1, <2>1, <2>2, <2>3 DEF Continues
<1>6. TypeOK' BY <1>t, <1>1 DEF vars, dbVars, reqVars, TypeOK
<1>7. rec \in Records BY <1>2 DEF GoodRecord
<1>s. /\ sagas' \in {sagas, [sagas EXCEPT ![sid[q]] = rec]}
      /\ localSagas' \in {localSagas, [localSagas EXCEPT ![Host[q]][sid[q]] = rec]}
      /\ current' \in {current, [current EXCEPT ![rec.row] = sid[q]]}
      /\ localCurrent' \in {localCurrent, [localCurrent EXCEPT ![Host[q]][rec.row] = sid[q]]}
      /\ degraded' \in {degraded, degraded \cup {rec.row}} /\ failures' \in 0..MaxFailures
  BY <1>1 DEF Stored
<1>8. /\ sagas' \in [Sagas -> Records] /\ \A s \in Sagas : sagas'[s] \in {sagas[s], rec}
      /\ localSagas' \in [Instances -> [Sagas -> Records]]
      /\ \A i \in Instances, s \in Sagas : localSagas'[i][s] \in {localSagas[i][s], rec}
  <2>1. sagas \in [Sagas -> Records] /\ localSagas \in [Instances -> [Sagas -> Records]]
    BY <1>t DEF SagaTypeOK
  <2>2. sagas' \in [Sagas -> Records] /\ \A s \in Sagas : sagas'[s] \in {sagas[s], rec}
    BY <1>s, <1>3, <1>7, <2>1
  <2>3. CASE localSagas' = [localSagas EXCEPT ![Host[q]][sid[q]] = rec]
    <3>1. [localSagas[Host[q]] EXCEPT ![sid[q]] = rec] \in [Sagas -> Records] BY <1>t, <1>3, <1>7, <2>1
    <3>q. QED BY <1>t, <1>3, <1>7, <2>1, <2>2, <2>3, <3>1
  <2>q. QED BY <1>s, <2>1, <2>2, <2>3
<1>9. /\ current' \in [Rows -> Sagas \cup {NoSaga}]
      /\ localCurrent' \in [Instances -> [Rows -> Sagas \cup {NoSaga}]]
      /\ degraded' \subseteq Rows /\ failures' \in 0..MaxFailures
  <2>1. /\ current \in [Rows -> Sagas \cup {NoSaga}] /\ degraded \subseteq Rows
        /\ localCurrent \in [Instances -> [Rows -> Sagas \cup {NoSaga}]]
    BY <1>t DEF SagaTypeOK
  <2>2. localCurrent' \in [Instances -> [Rows -> Sagas \cup {NoSaga}]]
    <3>1. [localCurrent[Host[q]] EXCEPT ![rec.row] = sid[q]] \in [Rows -> Sagas \cup {NoSaga}]
      BY <1>t, <1>2, <1>3, <2>1
    <3>q. QED BY <1>s, <1>t, <2>1, <3>1
  <2>q. QED BY <1>s, <1>2, <1>3, <2>1, <2>2
<1>10. told' \in [Sagas -> [Jurors -> Sides \cup {"none"}]]
  <2>1. held[q].votes \in [Jurors -> Sides \cup {"none"}] BY <1>t DEF GoodCall, GoodRecord, Records
  <2>2. told \in [Sagas -> [Jurors -> Sides \cup {"none"}]] BY <1>t DEF SagaTypeOK
  <2>3. [j \in Jurors |-> IF held[q].votes[j] # "none" THEN held[q].votes[j] ELSE told[sid[q]][j]]
          \in [Jurors -> Sides \cup {"none"}]
    BY <1>3, <2>1, <2>2
  <2>q. QED BY <1>1, <1>3, <2>2, <2>3 DEF Told
<1>11. GoodStores' BY <1>2, <1>8 DEF SagaTypes, GoodStores
<1>12. SagaTypeOK' BY <1>t, <1>1, <1>5, <1>6, <1>8, <1>9, <1>10 DEF SagaTypeOK
<1>q. QED BY <1>5, <1>11, <1>12 DEF SagaTypes

LEMMA CrashMoveTypes ==
  ASSUME SagaTypes, NEW i \in Instances, Crash(i)
  PROVE  SagaTypes'
<1>t. TypeOK /\ SagaTypeOK /\ \A q \in Requests : GoodCall(q) BY DEF SagaTypes, SagaTypeOK
<1>1. TypeOK' BY <1>t, NextTypes DEF Crash, Next
<1>2. NoRecord \in Records BY NoRecordIsGood DEF GoodRecord
<1>3. /\ sagas' = sagas /\ current' = current
      /\ localSagas' \in [Instances -> [Sagas -> Records]]
      /\ \A j \in Instances, s \in Sagas : localSagas'[j][s] \in {localSagas[j][s], NoRecord}
      /\ localCurrent' \in [Instances -> [Rows -> Sagas \cup {NoSaga}]]
  BY <1>t, <1>2 DEF Crash, SagaTypeOK
<1>4. GoodStores' BY <1>3, NoRecordIsGood DEF SagaTypes, GoodStores
<1>5. \A q \in Requests :
        \/ /\ doing'[q] = "none" /\ sid'[q] = NoSaga /\ held'[q] = NoRecord
           /\ step'[q] = "idle" /\ row'[q] = NoRow
        \/ /\ doing'[q] = doing[q] /\ sid'[q] = sid[q] /\ held'[q] = held[q]
           /\ step'[q] = step[q] /\ row'[q] = row[q] /\ op'[q] = op[q]
  BY DEF Crash, Restart
<1>6. Holds("none", NoRecord) BY DEF Holds, NoRecord, EscalatePhases
<1>7. \A q \in Requests : GoodCall(q)' BY <1>t, <1>5, <1>6, NoRecordIsGood DEF GoodCall
<1>8. /\ doing' \in [Requests -> {"none"} \cup EscalatePhases \cup SagaPhases]
      /\ sid' \in [Requests -> Sagas \cup {NoSaga}] /\ held' \in [Requests -> Records]
  BY <1>t, <1>2 DEF Crash, SagaTypeOK
<1>9. \A q \in Requests : doing'[q] # "none" => sid'[q] \in Sagas /\ held'[q].row \in Rows
  BY <1>t, <1>5 DEF SagaTypeOK
<1>10. failures' \in 0..MaxFailures /\ crashed' \in BOOLEAN /\ UNCHANGED <<told, review, degraded>>
  BY <1>t DEF Crash, Fails, SagaTypeOK
<1>11. SagaTypeOK' BY <1>t, <1>1, <1>3, <1>8, <1>9, <1>10 DEF SagaTypeOK
<1>q. QED BY <1>4, <1>7, <1>11 DEF SagaTypes

LEMMA NextSagaTypes == SagaTypes /\ [SagaNext]_allVars => SagaTypes'
<1> SUFFICES ASSUME SagaTypes, [SagaNext]_allVars PROVE SagaTypes' OBVIOUS
<1>1. CASE SagaNext
  BY <1>1, EveryMove, EscrowMoveTypes, BeginMoveTypes, SaveMoveTypes, CrashMoveTypes DEF SagaMoves
<1>2. CASE UNCHANGED allVars
  BY <1>2 DEF allVars, vars, dbVars, reqVars, storeVars, callVars, pastVars,
              SagaTypes, SagaTypeOK, TypeOK, GoodStores, GoodCall
<1>q. QED BY <1>1, <1>2

\* The sagas, their pointers and the calls in progress keep their types: no call goes on
\* with a record that is missing or at another step than its phase demands, and every
\* payout is of a verdict. (DisputeSagaService with its guards, and the maps it falls
\* back to.)
THEOREM SagaTypeCorrect == SagaSpec => []SagaTypeOK
<1>1. SagaInit => SagaTypes BY InitSagaTypes
<1>2. SagaTypes /\ [SagaNext]_allVars => SagaTypes' BY NextSagaTypes
<1>3. SagaTypes => SagaTypeOK BY DEF SagaTypes
<1>q. QED BY <1>1, <1>2, <1>3, PTL DEF SagaSpec

----------------------------------------------------------------------------
(* What each kind of move changes, point by point. *)

LEMMA EscrowMoveLeaves ==
  ASSUME SagaTypes, NEW q \in Requests, EscrowReads(q) \/ EscrowGoesOn(q) \/ Refused(q)
  PROVE  /\ UNCHANGED <<storeVars, sagas, current, localSagas, sid, held, told, degraded, crashed>>
         /\ \A p \in Requests \ {q} : doing'[p] = doing[p]
         /\ doing'[q] = doing[q] \/ Leads(doing[q], doing'[q])
<1>t. doing \in [Requests -> {"none"} \cup EscalatePhases \cup SagaPhases] BY DEF SagaTypes, SagaTypeOK
<1>1. CASE EscrowReads(q) BY <1>1, EscrowCallStarts DEF callVars, pastVars, storeVars
<1>2. CASE EscrowGoesOn(q) BY <1>t, <1>2, EscrowCallGoesOn DEF storeVars
<1>3. CASE Refused(q) BY <1>t, <1>3, RefusedGoesOn DEF storeVars, pastVars
<1>q. QED BY <1>1, <1>2, <1>3

LEMMA EnterChanges ==
  ASSUME SagaTypes, NEW q \in Requests, NEW phase, NEW s, NEW rec, Enter(q, phase, s, rec)
  PROVE  /\ doing'[q] = phase /\ sid'[q] = s /\ held'[q] = rec
         /\ \A p \in Requests \ {q} : doing'[p] = doing[p] /\ sid'[p] = sid[p] /\ held'[p] = held[p]
BY DEF Enter, SagaTypes, SagaTypeOK

LEMMA SaveChanges ==
  ASSUME SagaTypes, NEW q \in Requests, Saves(q)
  PROVE  LET rec == Saved(doing[q], held[q])  s == sid[q] IN
         /\ s \in Sagas /\ s # NoSaga /\ rec.row = held[q].row /\ rec.row \in Rows
         /\ \A z \in Sagas \ {s} : sagas'[z] = sagas[z]
         /\ sagas'[s] \in {sagas[s], rec}
         /\ sagas'[s] = rec \/ rec.row \in degraded' \/ (doing[q] = "archive" /\ UNCHANGED sagas)
         /\ \A z \in Sagas \ {s}, i \in Instances : localSagas'[i][z] = localSagas[i][z]
         /\ \A i \in Instances : localSagas'[i][s] \in {localSagas[i][s], rec}
         /\ \A i \in Instances : localSagas'[i][s] = localSagas[i][s] \/ rec.row \in degraded'
         /\ degraded \subseteq degraded' /\ degraded' \subseteq degraded \cup {rec.row}
         /\ \A r \in Rows \ {rec.row} : current'[r] = current[r]
         /\ current'[rec.row] \in {current[rec.row], s}
         /\ doing[q] = "open" => current'[rec.row] = s \/ rec.row \in degraded'
         /\ doing[q] # "open" => UNCHANGED current
<1> DEFINE rec == Saved(doing[q], held[q])
<1>t. /\ SagaTypeOK /\ GoodCall(q) /\ failures \in 0..MaxFailures
      /\ sagas \in [Sagas -> Records] /\ current \in [Rows -> Sagas \cup {NoSaga}]
      /\ localSagas \in [Instances -> [Sagas -> Records]]
  BY DEF SagaTypes, SagaTypeOK
<1>1. doing[q] \in SavingPhases /\ Stored(q, rec) BY <1>t, CallSaves
<1>2. rec.row = held[q].row /\ rec.row \in Rows BY <1>t, <1>1, SavedIsGood DEF GoodCall
<1>3. sid[q] \in Sagas /\ sid[q] # NoSaga
  <2>1. doing[q] # "none" BY <1>1 DEF SavingPhases
  <2>q. QED BY <1>t, <2>1 DEF SagaTypeOK
<1> HIDE DEF rec
<1>4. /\ \A z \in Sagas \ {sid[q]} : sagas'[z] = sagas[z]
      /\ sagas'[sid[q]] \in {sagas[sid[q]], rec}
      /\ sagas'[sid[q]] = rec \/ rec.row \in degraded' \/ (doing[q] = "archive" /\ UNCHANGED sagas)
  BY <1>t, <1>1, <1>3 DEF Stored
<1>5. /\ \A z \in Sagas \ {sid[q]}, i \in Instances : localSagas'[i][z] = localSagas[i][z]
      /\ \A i \in Instances : localSagas'[i][sid[q]] \in {localSagas[i][sid[q]], rec}
      /\ \A i \in Instances : localSagas'[i][sid[q]] = localSagas[i][sid[q]] \/ rec.row \in degraded'
  <2>1. /\ localSagas' \in {localSagas, [localSagas EXCEPT ![Host[q]][sid[q]] = rec]}
        /\ UNCHANGED localSagas \/ rec.row \in degraded'
    BY <1>1 DEF Stored
  <2>2. CASE UNCHANGED localSagas BY <2>2
  <2>3. CASE localSagas' = [localSagas EXCEPT ![Host[q]][sid[q]] = rec] /\ rec.row \in degraded'
    <3>1. localSagas \in [Instances -> [Sagas -> Records]] BY <1>t
    <3>2. \A i \in Instances : localSagas'[i] =
            IF i = Host[q] THEN [localSagas[i] EXCEPT ![sid[q]] = rec] ELSE localSagas[i]
      BY <2>3, <3>1
    <3>3. \A i \in Instances, z \in Sagas : localSagas'[i][z] =
            IF i = Host[q] /\ z = sid[q] THEN rec ELSE localSagas[i][z]
      BY <1>3, <3>1, <3>2
    <3>q. QED BY <1>3, <2>3, <3>3
  <2>q. QED BY <2>1, <2>2, <2>3
<1>6. degraded \subseteq degraded' /\ degraded' \subseteq degraded \cup {rec.row} BY <1>1 DEF Stored
<1>7. /\ \A r \in Rows \ {rec.row} : current'[r] = current[r]
      /\ current'[rec.row] \in {current[rec.row], sid[q]}
      /\ doing[q] = "open" => current'[rec.row] = sid[q] \/ rec.row \in degraded'
      /\ doing[q] # "open" => UNCHANGED current
  BY <1>t, <1>1, <1>2 DEF Stored
<1>q. QED BY <1>2, <1>3, <1>4, <1>5, <1>6, <1>7 DEF rec

LEMMA SaveContinues ==
  ASSUME SagaTypes, NEW q \in Requests, Saves(q)
  PROVE  /\ \A p \in Requests \ {q} : doing'[p] = doing[p] /\ sid'[p] = sid[p] /\ held'[p] = held[p]
         /\ \/ /\ doing[q] = "open" /\ doing'[q] \in {"advance", "freeze"}
               /\ sid'[q] = sid[q] /\ held'[q] = held[q]
            \/ /\ doing[q] = "complete" /\ doing'[q] = "archive"
               /\ sid'[q] = sid[q] /\ held'[q] = Saved(doing[q], held[q])
            \/ doing[q] # "open" /\ doing'[q] = "none" /\ sid'[q] = NoSaga /\ held'[q] = NoRecord
<1> DEFINE rec == Saved(doing[q], held[q])
<1>t. doing \in [Requests -> {"none"} \cup EscalatePhases \cup SagaPhases] /\ failures \in 0..MaxFailures
  BY DEF SagaTypes, SagaTypeOK
<1>1. Continues(q, rec) BY <1>t, CallSaves
<1> HIDE DEF rec
<1>2. CASE doing[q] = "open" /\ doing' \in {[doing EXCEPT ![q] = "advance"], [doing EXCEPT ![q] = "freeze"]}
           /\ UNCHANGED <<sid, held>>
  BY <1>t, <1>2
<1>3. CASE doing[q] = "complete" /\ Enter(q, "archive", sid[q], rec) BY <1>3, EnterChanges DEF rec
<1>4. CASE doing[q] \notin {"open", "complete"} /\ Leave(q) BY <1>4, EnterChanges DEF Leave
<1>q. QED BY <1>1, <1>2, <1>3, <1>4 DEF Continues

LEMMA CrashChanges ==
  ASSUME SagaTypes, NEW i \in Instances, Crash(i)
  PROVE  /\ UNCHANGED <<sagas, current, degraded, told, review>> /\ crashed'
         /\ \A j \in Instances, s \in Sagas : localSagas'[j][s] \in {localSagas[j][s], NoRecord}
         /\ \A q \in Requests :
              \/ doing'[q] = "none" /\ sid'[q] = NoSaga /\ held'[q] = NoRecord
                 /\ step'[q] = "idle" /\ row'[q] = NoRow
              \/ doing'[q] = doing[q] /\ sid'[q] = sid[q] /\ held'[q] = held[q]
                 /\ step'[q] = step[q] /\ row'[q] = row[q] /\ op'[q] = op[q]
                 /\ copy'[q] = copy[q] /\ stored'[q] = stored[q]
<1>1. UNCHANGED <<sagas, current, degraded, told, review>> BY DEF Crash
<1>2. crashed' BY DEF Crash
<1>3. \A j \in Instances, s \in Sagas : localSagas'[j][s] \in {localSagas[j][s], NoRecord}
  BY DEF Crash, SagaTypes, SagaTypeOK
<1>4. \A q \in Requests :
        \/ doing'[q] = "none" /\ sid'[q] = NoSaga /\ held'[q] = NoRecord
           /\ step'[q] = "idle" /\ row'[q] = NoRow
        \/ doing'[q] = doing[q] /\ sid'[q] = sid[q] /\ held'[q] = held[q]
           /\ step'[q] = step[q] /\ row'[q] = row[q] /\ op'[q] = op[q]
           /\ copy'[q] = copy[q] /\ stored'[q] = stored[q]
  BY DEF Crash, Restart
<1>q. QED BY <1>1, <1>2, <1>3, <1>4

----------------------------------------------------------------------------
(* All copies of a saga name the same escrow, and one that is in a fallback map went
   through it. What is known of a record's escrow then holds of the copy as well. *)

RowIs(s, r) ==
  /\ sagas[s].row \in {r, NoRow}
  /\ \A i \in Instances : localSagas[i][s].row \in {r, NoRow}
  /\ \A q \in Requests : sid[q] = s => held[q].row \in {r, NoRow}

RowsInv ==
  /\ \A s \in Sagas : \E r \in Rows \cup {NoRow} : RowIs(s, r)
  /\ \A s \in Sagas, i \in Instances : localSagas[i][s].row \in degraded \cup {NoRow}

LEMMA NoRecordRow == NoRecord.row = NoRow /\ NoRecord.step = "none" /\ NoRecord.votes = Unvoted
                     /\ NoRecord.verdict = "none"
BY DEF NoRecord

LEMMA InitRows == SagaInit => RowsInv
<1> SUFFICES ASSUME SagaInit PROVE RowsInv OBVIOUS
<1>1. /\ \A s \in Sagas : sagas[s] = NoRecord
      /\ \A i \in Instances, s \in Sagas : localSagas[i][s] = NoRecord
      /\ \A q \in Requests : held[q] = NoRecord
  BY DEF SagaInit
<1>2. \A s \in Sagas : RowIs(s, NoRow) BY <1>1, NoRecordRow DEF RowIs
<1>q. QED BY <1>1, <1>2, NoRecordRow DEF RowsInv

LEMMA NextRows == SagaTypes /\ RowsInv /\ [SagaNext]_allVars => RowsInv'
<1> SUFFICES ASSUME SagaTypes, RowsInv, [SagaNext]_allVars PROVE RowsInv' OBVIOUS
<1>k. ASSUME UNCHANGED <<sagas, localSagas, sid, held, degraded>> PROVE RowsInv'
  BY <1>k DEF RowsInv, RowIs
<1>1. ASSUME NEW q \in Requests, EscrowReads(q) \/ EscrowGoesOn(q) \/ Refused(q) PROVE RowsInv'
  BY <1>k, <1>1, EscrowMoveLeaves
<1>2. ASSUME NEW q \in Requests, Escalates(q) PROVE RowsInv'
  <2>1. PICK rec : \E s \in Sagas, d \in BOOLEAN : BeginsSaga(q, s, d, rec) BY <1>2, CallEscalates
  <2>2. PICK s \in Sagas, d \in BOOLEAN : BeginsSaga(q, s, d, rec) BY <2>1
  <2>3. /\ rec.row \in Rows /\ NewSaga(s) /\ Reading(rec.row, d) /\ Enter(q, "open", s, rec)
        /\ UNCHANGED <<sagas, localSagas>>
    BY <2>2 DEF BeginsSaga, storeVars
  <2>4. /\ sid'[q] = s /\ held'[q] = rec
        /\ \A p \in Requests \ {q} : sid'[p] = sid[p] /\ held'[p] = held[p]
    BY <2>3, EnterChanges
  <2>5. RowIs(s, rec.row)' BY <2>3, <2>4, NoRecordRow DEF NewSaga, RowIs
  <2>6. ASSUME NEW z \in Sagas \ {s}, NEW r \in Rows \cup {NoRow}, RowIs(z, r) PROVE RowIs(z, r)'
    BY <2>3, <2>4, <2>6 DEF RowIs
  <2>7. \A z \in Sagas : \E r \in Rows \cup {NoRow} : RowIs(z, r)'
    BY <2>3, <2>5, <2>6 DEF RowsInv
  <2>8. degraded \subseteq degraded' BY <2>3 DEF Reading
  <2>q. QED BY <2>3, <2>7, <2>8 DEF RowsInv
<1>3. ASSUME NEW q \in Requests, Works(q) PROVE RowsInv'
  <2>1. PICK phase, rec : \E s \in Sagas, d \in BOOLEAN : BeginsWork(q, phase, s, d, rec)
    BY <1>3, CallWorks
  <2>2. PICK s \in Sagas, d \in BOOLEAN : BeginsWork(q, phase, s, d, rec) BY <2>1
  <2>3. /\ SagaFound(q, s, d).row = rec.row /\ Reading(rec.row, d) /\ Enter(q, phase, s, rec)
        /\ UNCHANGED <<sagas, localSagas>>
    BY <2>2 DEF BeginsWork, Work, storeVars
  <2>4. /\ sid'[q] = s /\ held'[q] = rec
        /\ \A p \in Requests \ {q} : sid'[p] = sid[p] /\ held'[p] = held[p]
    BY <2>3, EnterChanges
  <2>5. Host[q] \in Instances OBVIOUS
  <2>6. ASSUME NEW z \in Sagas, NEW r \in Rows \cup {NoRow}, RowIs(z, r) PROVE RowIs(z, r)'
    <3>1. z = s => rec.row \in {r, NoRow} BY <2>3, <2>5, <2>6 DEF RowIs, SagaFound
    <3>q. QED BY <2>3, <2>4, <2>6, <3>1 DEF RowIs
  <2>7. degraded \subseteq degraded' BY <2>3 DEF Reading
  <2>q. QED BY <2>3, <2>6, <2>7 DEF RowsInv
<1>4. ASSUME NEW q \in Requests, Saves(q) PROVE RowsInv'
  <2> DEFINE rec == Saved(doing[q], held[q])
  <2>1. /\ sid[q] \in Sagas /\ sid[q] # NoSaga /\ rec.row = held[q].row
        /\ \A z \in Sagas \ {sid[q]} : sagas'[z] = sagas[z]
        /\ sagas'[sid[q]] \in {sagas[sid[q]], rec}
        /\ \A z \in Sagas \ {sid[q]}, i \in Instances : localSagas'[i][z] = localSagas[i][z]
        /\ \A i \in Instances : localSagas'[i][sid[q]] \in {localSagas[i][sid[q]], rec}
        /\ \A i \in Instances : localSagas'[i][sid[q]] = localSagas[i][sid[q]] \/ rec.row \in degraded'
        /\ degraded \subseteq degraded'
    BY <1>4, SaveChanges
  <2>2. /\ \A p \in Requests \ {q} : sid'[p] = sid[p] /\ held'[p] = held[p]
        /\ \/ sid'[q] = sid[q] /\ held'[q] \in {held[q], rec}
           \/ sid'[q] = NoSaga
    BY <1>4, SaveContinues
  <2> HIDE DEF rec
  <2>3. ASSUME NEW z \in Sagas, NEW r \in Rows \cup {NoRow}, RowIs(z, r) PROVE RowIs(z, r)'
    <3>1. z = sid[q] => rec.row \in {r, NoRow} BY <2>1, <2>3 DEF RowIs
    <3>2. sagas'[z].row \in {r, NoRow} BY <2>1, <2>3, <3>1 DEF RowIs
    <3>3. \A i \in Instances : localSagas'[i][z].row \in {r, NoRow} BY <2>1, <2>3, <3>1 DEF RowIs
    <3>4. \A p \in Requests : sid'[p] = z => held'[p].row \in {r, NoRow}
      BY <2>1, <2>2, <2>3, <3>1 DEF RowIs
    <3>q. QED BY <3>2, <3>3, <3>4 DEF RowIs
  <2>4. \A z \in Sagas, i \in Instances : localSagas'[i][z].row \in degraded' \cup {NoRow}
    BY <2>1 DEF RowsInv
  <2>q. QED BY <2>3, <2>4 DEF RowsInv
<1>5. ASSUME NEW i \in Instances, Crash(i) PROVE RowsInv'
  <2>1. /\ UNCHANGED <<sagas, degraded>>
        /\ \A j \in Instances, s \in Sagas : localSagas'[j][s] \in {localSagas[j][s], NoRecord}
        /\ \A q \in Requests : sid'[q] = NoSaga \/ (sid'[q] = sid[q] /\ held'[q] = held[q])
    BY <1>5, CrashChanges
  <2>2. ASSUME NEW z \in Sagas, NEW r \in Rows \cup {NoRow}, RowIs(z, r) PROVE RowIs(z, r)'
    BY <2>1, <2>2, NoRecordRow DEF RowIs
  <2>q. QED BY <2>1, <2>2, NoRecordRow DEF RowsInv
<1>6. CASE UNCHANGED allVars BY <1>k, <1>6 DEF allVars, storeVars, callVars, pastVars
<1>q. QED BY <1>1, <1>2, <1>3, <1>4, <1>5, <1>6, EveryMove DEF SagaMoves

----------------------------------------------------------------------------
(* No dispute without a saga. The escrow is written by a call that may be far behind
   the saga's own state; but a call only gets to its escrow when the pointer is there,
   and a pointer never goes. *)

Recorded == {r \in Rows : current[r] # NoSaga \/ r \in degraded}

PointerInv ==
  /\ \A s \in Sagas : sagas[s].row \in Rows => sagas[s].row \in Recorded
  /\ \A q \in Requests : doing[q] \notin {"none", "open"} => held[q].row \in Recorded
  /\ \A q \in Requests : step[q] # "idle" /\ copy[q].status = "disputed" => row[q] \in Recorded
  /\ \A r \in Rows : db[r].status = "disputed" => r \in Recorded

LEMMA RowWritten ==
  ASSUME TypeOK, NEW q \in Requests, Write(q)
  PROVE  /\ row[q] \in Rows /\ db'[row[q]] \in {db[row[q]], copy[q]}
         /\ step'[q] = "idle" \/ copy' = copy
BY DEF Write, Commit, Partial, WriteInPart, Fallback, AppendEvent, AppendThrows, WriteRow, Finish, TypeOK

LEMMA InitPointer == SagaInit => PointerInv
<1> SUFFICES ASSUME SagaInit PROVE PointerInv OBVIOUS
<1>1. \A r \in Rows : db[r].status # "disputed" BY DEF SagaInit, Init, Active, Absent
<1>2. \A s \in Sagas : sagas[s].row \notin Rows BY NoRecordRow DEF SagaInit
<1>q. QED BY <1>1, <1>2 DEF PointerInv, SagaInit, Init

LEMMA NextPointer == SagaTypes /\ RowsInv /\ PointerInv /\ [SagaNext]_allVars => PointerInv'
<1> SUFFICES ASSUME SagaTypes, RowsInv, PointerInv, [SagaNext]_allVars PROVE PointerInv' OBVIOUS
<1>t. /\ TypeOK /\ SagaTypeOK /\ \A q \in Requests : GoodCall(q)
      /\ \A s \in Sagas : GoodRecord(sagas[s])
  BY DEF SagaTypes, SagaTypeOK, GoodStores
<1>v. ASSUME UNCHANGED vars, Recorded \subseteq Recorded'
      PROVE  /\ \A q \in Requests : step'[q] # "idle" /\ copy'[q].status = "disputed" => row'[q] \in Recorded'
             /\ \A r \in Rows : db'[r].status = "disputed" => r \in Recorded'
             /\ UNCHANGED row
  <2>1. UNCHANGED <<db, step, row, copy>> BY <1>v DEF vars, dbVars, reqVars
  <2>2. \A q \in Requests : step[q] # "idle" => row[q] \in Rows BY <1>t DEF TypeOK
  <2>q. QED BY <1>v, <2>1, <2>2 DEF PointerInv
<1>c. ASSUME NEW q \in Requests, EscrowReads(q) \/ EscrowGoesOn(q) \/ Refused(q)
      PROVE  /\ Recorded' = Recorded
             /\ \A s \in Sagas : sagas'[s].row \in Rows => sagas'[s].row \in Recorded'
             /\ \A p \in Requests : doing'[p] \notin {"none", "open"} => held'[p].row \in Recorded'
  <2>1. /\ UNCHANGED <<sagas, current, held, degraded>>
        /\ \A p \in Requests \ {q} : doing'[p] = doing[p]
        /\ doing'[q] = doing[q] \/ Leads(doing[q], doing'[q])
    BY <1>c, EscrowMoveLeaves
  <2>2. doing'[q] \notin {"none", "open"} => doing[q] \notin {"none", "open"} BY <2>1 DEF Leads
  <2>q. QED BY <2>1, <2>2 DEF Recorded, PointerInv
<1>1. ASSUME NEW q \in Requests, EscrowReads(q) PROVE PointerInv'
  <2>1. PICK r \in Rows, o \in Ops \ {"none"}, e \in Escrows, d \in BOOLEAN :
          /\ Take(q, o, r, e, d)
          /\ Calls(doing[q], o, held[q]) /\ (doing[q] # "none" => r = held[q].row)
          /\ o \in Transitions => e.status = Target[o]
          /\ o \in Transitions \cup {"correct"}
    BY <1>1, EscrowCallStarts
  <2>2. e.status = "disputed" => doing[q] \in {"freeze", "undo"}
    <3>1. held[q].verdict # "none" => Settlement[held[q].verdict] \in {"release", "cancel", "split"}
      BY <1>t, Settlements DEF GoodCall, GoodRecord, Records
    <3>2. \A x \in {"fund", "release", "cancel", "split"} : Target[x] # "disputed" BY DEF Target
    <3>3. {"fund", "release", "cancel", "split"} \subseteq Transitions BY DEF Transitions
    <3>q. QED BY <2>1, <3>1, <3>2, <3>3 DEF Calls
  <2>3. e.status = "disputed" => r \in Recorded BY <2>1, <2>2 DEF PointerInv
  <2>4. /\ step'[q] = "write" /\ row'[q] = r /\ copy'[q] = e /\ UNCHANGED db
        /\ \A p \in Requests \ {q} : step'[p] = step[p] /\ row'[p] = row[p] /\ copy'[p] = copy[p]
    BY <1>t, <2>1 DEF Take, TypeOK
  <2>5. \A p \in Requests : step'[p] # "idle" /\ copy'[p].status = "disputed" => row'[p] \in Recorded
    BY <2>3, <2>4 DEF PointerInv
  <2>6. \A p \in Requests : step'[p] # "idle" /\ copy'[p].status = "disputed" => row'[p] \in Recorded'
    BY <1>1, <1>c, <2>5 DEF Recorded
  <2>7. \A x \in Rows : db'[x].status = "disputed" => x \in Recorded' BY <1>1, <1>c, <2>4 DEF PointerInv
  <2>q. QED BY <1>1, <1>c, <2>6, <2>7 DEF PointerInv
<1>2. ASSUME NEW q \in Requests, EscrowGoesOn(q) PROVE PointerInv'
  <2>1. Write(q) BY <1>2, EscrowCallGoesOn
  <2>2. /\ step[q] # "idle" /\ row[q] \in Rows /\ db'[row[q]] \in {db[row[q]], copy[q]}
        /\ step'[q] = "idle" \/ copy' = copy
        /\ \A r \in Rows : r # row[q] => db'[r] = db[r]
        /\ \A p \in Requests \ {q} : step'[p] = step[p] /\ row'[p] = row[p] /\ copy'[p] = copy[p]
        /\ step'[q] = "idle" \/ row'[q] = row[q]
    BY <1>t, <2>1, RowWritten, WriteLeaves
  <2>3. \A r \in Rows : db'[r].status = "disputed" => r \in Recorded BY <2>2 DEF PointerInv
  <2>4. \A p \in Requests : step'[p] # "idle" /\ copy'[p].status = "disputed" => row'[p] \in Recorded
    BY <2>2 DEF PointerInv
  <2>5. \A p \in Requests : step'[p] # "idle" /\ copy'[p].status = "disputed" => row'[p] \in Recorded'
    BY <1>2, <1>c, <2>4 DEF Recorded
  <2>q. QED BY <1>2, <1>c, <2>3, <2>5 DEF PointerInv
<1>3. ASSUME NEW q \in Requests, Refused(q) PROVE PointerInv'
  <2>1. UNCHANGED vars BY <1>3, RefusedGoesOn
  <2>q. QED BY <1>3, <1>c, <1>v, <2>1 DEF PointerInv
<1>4. ASSUME NEW q \in Requests, Escalates(q) PROVE PointerInv'
  <2>1. PICK rec : \E s \in Sagas, d \in BOOLEAN : BeginsSaga(q, s, d, rec) BY <1>4, CallEscalates
  <2>2. PICK s \in Sagas, d \in BOOLEAN : BeginsSaga(q, s, d, rec) BY <2>1
  <2>3. /\ UNCHANGED vars /\ UNCHANGED <<sagas, current>> /\ degraded \subseteq degraded'
        /\ Enter(q, "open", s, rec)
    BY <2>2 DEF BeginsSaga, storeVars, Reading
  <2>4. /\ doing'[q] = "open"
        /\ \A p \in Requests \ {q} : doing'[p] = doing[p] /\ held'[p] = held[p]
    BY <2>3, EnterChanges
  <2>5. Recorded \subseteq Recorded' BY <2>3 DEF Recorded
  <2>q. QED BY <1>v, <2>3, <2>4, <2>5 DEF PointerInv
<1>5. ASSUME NEW q \in Requests, Works(q) PROVE PointerInv'
  <2>1. PICK phase, rec : \E s \in Sagas, d \in BOOLEAN : BeginsWork(q, phase, s, d, rec)
    BY <1>5, CallWorks
  <2>2. PICK s \in Sagas, d \in BOOLEAN : BeginsWork(q, phase, s, d, rec) BY <2>1
  <2>3. /\ UNCHANGED vars /\ UNCHANGED <<sagas, current>> /\ degraded \subseteq degraded'
        /\ Enter(q, phase, s, rec) /\ Reading(rec.row, d) /\ SagaFound(q, s, d).row = rec.row
        /\ rec.row \in Rows
    BY <2>2 DEF BeginsWork, Work, storeVars, Reading
  <2>4. /\ held'[q] = rec
        /\ \A p \in Requests \ {q} : doing'[p] = doing[p] /\ held'[p] = held[p]
    BY <2>3, EnterChanges
  <2>5. Recorded \subseteq Recorded' BY <2>3 DEF Recorded
  <2>6. rec.row \in Recorded'
    <3>1. CASE d BY <2>3, <3>1 DEF Reading, Recorded
    <3>2. CASE ~d BY <2>3, <2>5, <3>2 DEF SagaFound, PointerInv
    <3>q. QED BY <3>1, <3>2
  <2>q. QED BY <1>v, <2>3, <2>4, <2>5, <2>6 DEF PointerInv
<1>6. ASSUME NEW q \in Requests, Saves(q) PROVE PointerInv'
  <2> DEFINE rec == Saved(doing[q], held[q])
  <2>1. UNCHANGED vars /\ doing[q] # "none"
    BY <1>t, <1>6, CallSaves DEF SagaTypeOK, SavingPhases
  <2>2. /\ sid[q] # NoSaga /\ rec.row = held[q].row /\ rec.row \in Rows
        /\ \A z \in Sagas : sagas'[z] \in {sagas[z], rec}
        /\ degraded \subseteq degraded'
        /\ \A r \in Rows \ {rec.row} : current'[r] = current[r]
        /\ current'[rec.row] \in {current[rec.row], sid[q]}
        /\ doing[q] = "open" => current'[rec.row] = sid[q] \/ rec.row \in degraded'
    BY <1>6, SaveChanges
  <2>3. /\ \A p \in Requests \ {q} : doing'[p] = doing[p] /\ held'[p] = held[p]
        /\ doing'[q] = "none" \/ held'[q] \in {held[q], rec}
    BY <1>6, SaveContinues
  <2> HIDE DEF rec
  <2>4. Recorded \subseteq Recorded' BY <2>2 DEF Recorded
  <2>5. rec.row \in Recorded' BY <2>1, <2>2, <2>4 DEF PointerInv, Recorded
  <2>6. \A s \in Sagas : sagas'[s].row \in Rows => sagas'[s].row \in Recorded'
    BY <2>2, <2>4, <2>5 DEF PointerInv
  <2>7. \A p \in Requests : doing'[p] \notin {"none", "open"} => held'[p].row \in Recorded'
    <3>1. \A p \in Requests : doing[p] # "none" => held[p].row \in Rows BY <1>t DEF SagaTypeOK
    <3>q. QED BY <2>2, <2>3, <2>4, <2>5, <3>1 DEF PointerInv
  <2>q. QED BY <1>v, <2>1, <2>4, <2>6, <2>7 DEF PointerInv
<1>7. ASSUME NEW i \in Instances, Crash(i) PROVE PointerInv'
  <2>1. /\ UNCHANGED <<sagas, current, degraded>>
        /\ \A q \in Requests :
              \/ doing'[q] = "none" /\ step'[q] = "idle"
              \/ doing'[q] = doing[q] /\ held'[q] = held[q]
                 /\ step'[q] = step[q] /\ row'[q] = row[q] /\ copy'[q] = copy[q]
    BY <1>7, CrashChanges
  <2>2. UNCHANGED db BY <1>7 DEF Crash, Restart
  <2>3. Recorded' = Recorded BY <2>1 DEF Recorded
  <2>4. \A q \in Requests : step'[q] # "idle" /\ copy'[q].status = "disputed" => row'[q] \in Recorded
    BY <2>1 DEF PointerInv
  <2>5. \A q \in Requests : step'[q] # "idle" /\ copy'[q].status = "disputed" => row'[q] \in Recorded'
    BY <2>1, <2>4 DEF Recorded
  <2>q. QED BY <2>1, <2>2, <2>3, <2>5 DEF PointerInv
<1>8. CASE UNCHANGED allVars
  <2>1. UNCHANGED <<db, step, row, copy, sagas, current, doing, held, degraded>>
    BY <1>8 DEF allVars, vars, dbVars, reqVars, storeVars, callVars, pastVars
  <2>q. QED BY <2>1 DEF PointerInv, Recorded
<1>q. QED BY <1>1, <1>2, <1>3, <1>4, <1>5, <1>6, <1>7, <1>8, EveryMove DEF SagaMoves

\* What holds in every state, as far as the later proofs build on it.
LEMMA SagaBasics == SagaSpec => [](SagaTypes /\ RowsInv)
<1>1. SagaInit => SagaTypes /\ RowsInv BY InitSagaTypes, InitRows
<1>2. SagaTypes /\ RowsInv /\ [SagaNext]_allVars => (SagaTypes /\ RowsInv)' BY NextSagaTypes, NextRows
<1>q. QED BY <1>1, <1>2, PTL DEF SagaSpec

\* No escrow is ever disputed without a saga recorded for it, whenever an instance dies:
\* escalate writes the saga and its pointer before it freezes the escrow, and what the
\* slowest call still has to write belongs to a saga whose pointer is there.
THEOREM DisputesAreRecorded == SagaSpec => []DisputeIsRecorded
<1>1. SagaInit => PointerInv BY InitPointer
<1>2. SagaTypes /\ RowsInv /\ PointerInv /\ [SagaNext]_allVars => PointerInv' BY NextPointer
<1>3. PointerInv => DisputeIsRecorded BY DEF PointerInv, Recorded, DisputeIsRecorded
<1>q. QED BY <1>1, <1>2, <1>3, SagaBasics, PTL DEF SagaSpec

----------------------------------------------------------------------------
(* A saga at its first step has somebody at work on it: the call that opened it, until
   that call has advanced or retired it, and such a call ends in a write. *)

AtWork(s) == \E q \in Requests : sid[q] = s /\ doing[q] \in {"freeze", "advance", "retire"}

StuckInv ==
  \A s \in Sagas : sagas[s].step = "escalation" => crashed \/ sagas[s].row \in degraded \/ AtWork(s)

LEMMA NextStuck == SagaTypes /\ RowsInv /\ StuckInv /\ [SagaNext]_allVars => StuckInv'
<1> SUFFICES ASSUME SagaTypes, RowsInv, StuckInv, [SagaNext]_allVars PROVE StuckInv' OBVIOUS
<1>t. /\ \A q \in Requests : GoodCall(q)
      /\ \A s \in Sagas : GoodRecord(sagas[s])
  BY DEF SagaTypes, GoodStores
<1>k. ASSUME UNCHANGED <<sagas, crashed>>, degraded \subseteq degraded',
             \A s \in Sagas : AtWork(s) => AtWork(s)'
      PROVE  StuckInv'
  <2>1. \A s \in Sagas : sagas[s].step = "escalation" => crashed' \/ sagas[s].row \in degraded' \/ AtWork(s)'
    BY <1>k DEF StuckInv
  <2>q. QED BY <1>k, <2>1 DEF StuckInv
<1>1. ASSUME NEW q \in Requests, EscrowReads(q) \/ EscrowGoesOn(q) \/ Refused(q) PROVE StuckInv'
  <2>1. /\ UNCHANGED <<sagas, sid, degraded, crashed>>
        /\ \A p \in Requests \ {q} : doing'[p] = doing[p]
        /\ doing'[q] = doing[q] \/ Leads(doing[q], doing'[q])
    BY <1>1, EscrowMoveLeaves
  <2>2. \A s \in Sagas : AtWork(s) => AtWork(s)' BY <2>1 DEF AtWork, Leads
  <2>q. QED BY <1>k, <2>1, <2>2
<1>2. ASSUME NEW q \in Requests, NEW phase, NEW s \in Sagas, NEW rec, NEW d,
             Idle(q), Reading(rec.row, d), Enter(q, phase, s, rec), UNCHANGED <<storeVars, crashed>>
      PROVE  StuckInv'
  <2>1. \A p \in Requests \ {q} : doing'[p] = doing[p] /\ sid'[p] = sid[p] BY <1>2, EnterChanges
  <2>2. doing[q] = "none" BY <1>2 DEF Idle
  <2>3. \A z \in Sagas : AtWork(z) => AtWork(z)' BY <2>1, <2>2 DEF AtWork
  <2>q. QED BY <1>2, <1>k, <2>3 DEF Reading, storeVars
<1>3. ASSUME NEW q \in Requests, Escalates(q) PROVE StuckInv'
  <2>1. PICK rec : \E s \in Sagas, d \in BOOLEAN : BeginsSaga(q, s, d, rec) BY <1>3, CallEscalates
  <2>q. QED BY <1>2, <2>1 DEF BeginsSaga
<1>4. ASSUME NEW q \in Requests, Works(q) PROVE StuckInv'
  <2>1. PICK phase, rec : \E s \in Sagas, d \in BOOLEAN : BeginsWork(q, phase, s, d, rec)
    BY <1>4, CallWorks
  <2>q. QED BY <1>2, <2>1 DEF BeginsWork, Work
<1>5. ASSUME NEW q \in Requests, Saves(q) PROVE StuckInv'
  <2> DEFINE rec == Saved(doing[q], held[q])
  <2>1. UNCHANGED crashed /\ doing[q] \in SavingPhases
    BY <1>5, CallSaves DEF SagaTypes, SagaTypeOK
  <2>2. rec.step = "escalation" => doing[q] = "open" BY <1>t, <2>1, SavedIsGood DEF GoodCall
  <2>3. /\ sid[q] \in Sagas /\ rec.row = held[q].row /\ rec.row \in Rows
        /\ \A z \in Sagas \ {sid[q]} : sagas'[z] = sagas[z]
        /\ sagas'[sid[q]] \in {sagas[sid[q]], rec}
        /\ sagas'[sid[q]] = rec \/ rec.row \in degraded' \/ (doing[q] = "archive" /\ UNCHANGED sagas)
        /\ degraded \subseteq degraded'
    BY <1>5, SaveChanges
  <2>4. /\ \A p \in Requests \ {q} : doing'[p] = doing[p] /\ sid'[p] = sid[p]
        /\ doing[q] = "open" => doing'[q] \in {"advance", "freeze"} /\ sid'[q] = sid[q]
    BY <1>5, SaveContinues
  <2> HIDE DEF rec
  <2>5. ASSUME NEW s \in Sagas, sagas'[s].step = "escalation"
        PROVE  crashed' \/ sagas'[s].row \in degraded' \/ AtWork(s)'
    <3>1. CASE s # sid[q]
      <4>1. AtWork(s) => AtWork(s)' BY <2>4, <3>1 DEF AtWork
      <4>2. crashed \/ sagas[s].row \in degraded \/ AtWork(s) BY <2>3, <2>5, <3>1 DEF StuckInv
      <4>q. QED BY <2>1, <2>3, <3>1, <4>1, <4>2
    <3>2. CASE s = sid[q] /\ sagas'[s] = rec
      <4>1. doing[q] = "open" BY <2>2, <2>5, <3>2
      <4>q. QED BY <2>4, <3>2, <4>1 DEF AtWork
    <3>3. CASE s = sid[q] /\ sagas'[s] = sagas[s] /\ rec.row \in degraded'
      <4>1. sagas[s].row \in Rows BY <1>t, <2>5, <3>3 DEF GoodRecord
      <4>2. sagas[s].row = held[q].row BY <2>3, <3>3, <4>1 DEF RowsInv, RowIs
      <4>q. QED BY <2>3, <3>3, <4>2
    <3>4. CASE s = sid[q] /\ sagas'[s] = sagas[s] /\ doing[q] = "archive"
      <4>1. AtWork(s) => AtWork(s)' BY <2>4, <3>4 DEF AtWork
      <4>2. crashed \/ sagas[s].row \in degraded \/ AtWork(s) BY <2>5, <3>4 DEF StuckInv
      <4>q. QED BY <2>1, <2>3, <3>4, <4>1, <4>2
    <3>q. QED BY <2>3, <3>1, <3>2, <3>3, <3>4
  <2>q. QED BY <2>5 DEF StuckInv
<1>6. ASSUME NEW i \in Instances, Crash(i) PROVE StuckInv'
  BY <1>6, CrashChanges DEF StuckInv
<1>7. CASE UNCHANGED allVars
  BY <1>7 DEF allVars, storeVars, callVars, pastVars, StuckInv, AtWork
<1>q. QED BY <1>1, <1>3, <1>4, <1>5, <1>6, <1>7, EveryMove DEF SagaMoves

\* Whatever the order of the calls, a saga is left behind at its first step only by a
\* crash or by a write that failed: every call that opens a saga goes on to advance it or
\* to mark it failed, and neither is refused.
THEOREM NobodyLeavesASagaStuck == SagaSpec => []StuckOnlyByFailure
<1>1. SagaInit => StuckInv BY NoRecordRow DEF SagaInit, StuckInv
<1>2. SagaTypes /\ RowsInv /\ StuckInv /\ [SagaNext]_allVars => StuckInv' BY NextStuck
<1>3. StuckInv => StuckOnlyByFailure BY DEF StuckInv, AtWork, StuckOnlyByFailure
<1>q. QED BY <1>1, <1>2, <1>3, SagaBasics, PTL DEF SagaSpec

----------------------------------------------------------------------------
(* Settled twice, and flagged for it. As for the escrow alone, a guard is worth something
   only while one call has the row in hand; here a correction may follow, and it always
   changes the row, so that it is flagged. *)

\* What the call that has r in hand knows of it is still so.
StillKnown(q, r) ==
  /\ step[q] = "write"
  /\ op[q] \in Transitions => db[r].status \in Allowed[op[q]] /\ copy[q].status = Target[op[q]]
  /\ op[q] = "correct" => copy[q] # db[r]

Settlings(r) == events[r]["release"] + events[r]["split"] + events[r]["cancel"]

SettledRow(r) ==
  /\ \A p, q \in InHand(r) : p = q
  /\ \A q \in InHand(r) : StillKnown(q, r)
  /\ Settlings(r) <= 1
  /\ Settlings(r) > 0 => db[r].status \in {"released", "cancelled"}

FlagInv == \A r \in Rows \ (raced \cup review) : SettledRow(r)

LEMMA InitFlag == SagaInit => FlagInv
<1> SUFFICES ASSUME SagaInit, NEW r \in Rows PROVE SettledRow(r) BY DEF FlagInv
<1>1. Init BY DEF SagaInit
<1>2. InHand(r) = {} BY <1>1 DEF Init, InHand
<1>3. \A t \in {"release", "split", "cancel"} : events[r][t] = 0
  BY <1>1 DEF Init, EventTypes, Transitions
<1>q. QED BY <1>2, <1>3 DEF SettledRow, Settlings

\* A row that a step leaves alone, and that no further call takes in hand.
LEMMA SettledRowKept ==
  ASSUME NEW r, SettledRow(r), db'[r] = db[r], events'[r] = events[r],
         InHand(r)' \subseteq InHand(r),
         \A p \in InHand(r)' : step'[p] = step[p] /\ op'[p] = op[p] /\ copy'[p] = copy[p]
  PROVE  SettledRow(r)'
<1>1. \A p \in InHand(r)' : StillKnown(p, r)' BY DEF SettledRow, StillKnown
<1>2. \A p, q \in InHand(r)' : p = q BY DEF SettledRow
<1>q. QED BY <1>1, <1>2 DEF SettledRow, Settlings

LEMMA ReadFlag ==
  ASSUME SagaTypes, FlagInv, NEW q \in Requests, EscrowReads(q)
  PROVE  FlagInv'
<1>t. TypeOK /\ GoodCall(q) BY DEF SagaTypes, SagaTypeOK
<1>0. UNCHANGED review BY EscrowCallStarts DEF pastVars
<1>1. PICK r \in Rows, o \in Ops \ {"none"}, e \in Escrows, d \in BOOLEAN :
        /\ step[q] = "idle" /\ Take(q, o, r, e, d)
        /\ o \in Transitions => e.status = Target[o] /\ (~d => db[r].status \in Allowed[o])
        /\ o = "correct" => e.status = "disputed" /\ (~d => e # db[r])
  BY EscrowCallStarts
<1>2. /\ step'[q] = "write" /\ op'[q] = o /\ row'[q] = r /\ copy'[q] = e
      /\ \A p \in Requests \ {q} : /\ step'[p] = step[p] /\ op'[p] = op[p]
                                   /\ row'[p] = row[p] /\ copy'[p] = copy[p]
      /\ UNCHANGED <<db, events>>
  BY <1>t, <1>1 DEF Take, TypeOK
<1>3. raced' = IF InHand(r) # {} \/ d THEN raced \cup {r} ELSE raced BY <1>1 DEF Take
<1>4. ASSUME NEW s \in Rows \ (raced' \cup review') PROVE SettledRow(s)'
  <2>1. SettledRow(s) BY <1>0, <1>3, <1>4 DEF FlagInv
  <2>2. CASE s # r
    <3>1. /\ InHand(s)' \subseteq InHand(s)
          /\ \A p \in InHand(s)' : step'[p] = step[p] /\ op'[p] = op[p] /\ copy'[p] = copy[p]
      BY <1>2, <2>2 DEF InHand
    <3>q. QED BY <1>2, <2>1, <3>1, SettledRowKept
  <2>3. CASE s = r
    <3>1. InHand(r) = {} /\ ~d BY <1>3, <1>4, <2>3
    <3>2. InHand(r)' = {q} BY <1>2, <3>1 DEF InHand
    <3>3. StillKnown(q, r)' BY <1>1, <1>2, <3>1 DEF StillKnown
    <3>q. QED BY <1>2, <2>1, <2>3, <3>2, <3>3 DEF SettledRow, Settlings
  <2>q. QED BY <2>2, <2>3
<1>q. QED BY <1>4 DEF FlagInv

\* What a write half does to events: at most one more, of its own kind and row.
LEMMA WriteCounts ==
  ASSUME TypeOK, NEW q \in Requests, Write(q)
  PROVE  /\ events' \in {events, Count(events, q)}
         /\ \A r \in Rows, t \in EventTypes :
              events'[r][t] = events[r][t]
                \/ (op[q] \in Observed /\ row[q] = r /\ op[q] = t /\ events'[r][t] = events[r][t] + 1)
         /\ \A r \in Rows : r # row[q] => events'[r] = events[r]
<1>1. events' \in {events, Count(events, q)}
  BY DEF Write, Commit, Partial, WriteInPart, Fallback, AppendEvent, AppendThrows
<1>2. step[q] # "idle" BY WriteLeaves
<1>3. events \in [Rows -> [EventTypes -> Nat]] BY DEF TypeOK
<1>4. \A r \in Rows, t \in EventTypes :
        Count(events, q)[r][t] =
          IF op[q] \in Observed /\ row[q] = r /\ op[q] = t THEN events[r][t] + 1 ELSE events[r][t]
  BY <1>2, <1>3, CountValue
<1>5. \A r \in Rows : r # row[q] => Count(events, q)[r] = events[r] BY <1>3 DEF Count
<1>q. QED BY <1>1, <1>4, <1>5

LEMMA WriteFlag ==
  ASSUME SagaTypes, FlagInv, NEW q \in Requests, EscrowGoesOn(q)
  PROVE  FlagInv'
<1>t. TypeOK /\ GoodCall(q) BY DEF SagaTypes, SagaTypeOK
<1>1. Write(q) /\ Flagged(q) BY EscrowCallGoesOn
<1>2. step[q] # "idle" /\ row[q] \in Rows /\ raced \subseteq raced' BY <1>t, <1>1, WriteLeaves DEF TypeOK
<1>3. review \subseteq review' BY <1>1 DEF Flagged
<1>4. ASSUME NEW r \in Rows \ (raced' \cup review') PROVE SettledRow(r)'
  <2>1. SettledRow(r) BY <1>2, <1>3, <1>4 DEF FlagInv
  <2>2. CASE r # row[q]
    <3>1. db'[r] = db[r] /\ events'[r] = events[r] BY <1>t, <1>1, <2>2, WriteLeaves, WriteCounts
    <3>2. /\ InHand(r)' \subseteq InHand(r)
          /\ \A p \in InHand(r)' : step'[p] = step[p] /\ op'[p] = op[p] /\ copy'[p] = copy[p]
      BY <1>t, <1>1, <2>2, WriteLeaves DEF InHand
    <3>q. QED BY <2>1, <3>1, <3>2, SettledRowKept
  <2>3. CASE r = row[q]
    <3>1. q \in InHand(r) /\ StillKnown(q, r) BY <2>1, <2>3 DEF InHand, SettledRow
    <3>2. Commit(q) BY <1>t, <1>1, <1>4, <2>3, <3>1, WriteLeaves DEF StillKnown
    <3>3. db' = [db EXCEPT ![r] = copy[q]] /\ row'[q] = NoRow BY <1>t, <1>1, <2>3, <3>2, WriteLeaves
    <3>4. InHand(r)' = {}
      <4>1. \A p \in Requests \ {q} : row'[p] = row[p] BY <1>t, <1>1, WriteLeaves
      <4>q. QED BY <2>1, <3>1, <3>3, <4>1 DEF SettledRow, InHand
    <3>5. op[q] \in Transitions
      <4>1. op[q] = "correct" => doing[q] = "undo" BY <1>t, <1>2, CallsKinds
      <4>2. db' # db => op[q] # "correct" BY <1>1, <1>4, <2>3, <4>1 DEF Flagged
      <4>3. op[q] = "correct" => db' # db BY <1>t, <3>1, <3>3 DEF StillKnown, TypeOK
      <4>q. QED BY <1>t, <1>2, <4>2, <4>3, CallsKinds
    <3>6. db[r].status \in Allowed[op[q]] /\ db'[r].status = Target[op[q]]
      BY <1>t, <3>1, <3>3, <3>5 DEF StillKnown, TypeOK
    <3>7. \A t \in {"release", "split", "cancel"} :
            /\ events[r][t] \in Nat
            /\ events'[r][t] = events[r][t] \/ (op[q] = t /\ events'[r][t] = events[r][t] + 1)
      BY <1>t, <1>1, WriteCounts DEF TypeOK, EventTypes, Transitions
    <3>8. db[r].status \notin {"released", "cancelled"} BY <3>5, <3>6, TransitionTables DEF Unsettled
    <3>9. Settlings(r) = 0 BY <2>1, <3>7, <3>8 DEF SettledRow, Settlings
    <3>10. \A t \in {"release", "split", "cancel"} : events[r][t] = 0 BY <3>7, <3>9 DEF Settlings
    <3>11. Settlings(r)' <= 1 BY <3>7, <3>10 DEF Settlings
    <3>12. Settlings(r)' > 0 => op[q] \in {"release", "split", "cancel"}
      BY <3>7, <3>10 DEF Settlings
    <3>13. op[q] \in {"release", "split", "cancel"} => Target[op[q]] \in {"released", "cancelled"}
      BY DEF Target
    <3>q. QED BY <3>4, <3>6, <3>11, <3>12, <3>13 DEF SettledRow
  <2>q. QED BY <2>2, <2>3
<1>q. QED BY <1>4 DEF FlagInv

LEMMA NextFlag == SagaTypes /\ FlagInv /\ [SagaNext]_allVars => FlagInv'
<1> SUFFICES ASSUME SagaTypes, FlagInv, [SagaNext]_allVars PROVE FlagInv' OBVIOUS
<1>t. TypeOK /\ failures \in 0..MaxFailures BY DEF SagaTypes, SagaTypeOK
<1>k. ASSUME UNCHANGED vars, review' = review PROVE FlagInv'
  <2>1. UNCHANGED <<db, events, step, op, row, copy, raced>> BY <1>k DEF vars, dbVars, reqVars
  <2>2. \A r : InHand(r)' = InHand(r) BY <2>1 DEF InHand
  <2>q. QED BY <1>k, <2>1, <2>2, SettledRowKept DEF FlagInv
<1>1. ASSUME NEW q \in Requests, EscrowReads(q) PROVE FlagInv' BY <1>1, ReadFlag
<1>2. ASSUME NEW q \in Requests, EscrowGoesOn(q) PROVE FlagInv' BY <1>2, WriteFlag
<1>3. ASSUME NEW q \in Requests, Refused(q) PROVE FlagInv' BY <1>3, <1>k, RefusedGoesOn DEF pastVars
<1>4. ASSUME NEW q \in Requests, Escalates(q) PROVE FlagInv'
  BY <1>4, <1>k, CallEscalates DEF BeginsSaga
<1>5. ASSUME NEW q \in Requests, Works(q) PROVE FlagInv'
  BY <1>5, <1>k, CallWorks DEF BeginsWork, Work
<1>6. ASSUME NEW q \in Requests, Saves(q) PROVE FlagInv' BY <1>t, <1>6, <1>k, CallSaves
<1>7. ASSUME NEW i \in Instances, Crash(i) PROVE FlagInv'
  <2>1. /\ UNCHANGED <<db, events, raced, review>>
        /\ \A q \in Requests :
             \/ row'[q] = NoRow
             \/ /\ step'[q] = step[q] /\ row'[q] = row[q] /\ op'[q] = op[q]
                /\ copy'[q] = copy[q]
    BY <1>7, CrashChanges DEF Crash, Restart
  <2>2. ASSUME NEW r \in Rows \ (raced' \cup review') PROVE SettledRow(r)'
    <3>1. /\ InHand(r)' \subseteq InHand(r)
          /\ \A p \in InHand(r)' : step'[p] = step[p] /\ op'[p] = op[p] /\ copy'[p] = copy[p]
      BY <2>1 DEF InHand
    <3>q. QED BY <2>1, <2>2, <3>1, SettledRowKept DEF FlagInv
  <2>q. QED BY <2>2 DEF FlagInv
<1>8. CASE UNCHANGED allVars BY <1>8, <1>k DEF allVars, pastVars
<1>q. QED BY <1>1, <1>2, <1>3, <1>4, <1>5, <1>6, <1>7, <1>8, EveryMove DEF SagaMoves

\* A row that no two calls ever had in hand at once, and that no fault hit, is settled
\* once, or it is flagged for manual review: a payout that puts an escrow back in dispute
\* does so by a write that flags it, whatever releases it a second time.
THEOREM SettledTwiceIsFlagged == SagaSpec => []PaidTwiceIsFlagged
<1>1. SagaInit => FlagInv BY InitFlag
<1>2. SagaTypes /\ RowsInv /\ FlagInv /\ [SagaNext]_allVars => FlagInv' BY NextFlag
<1>3. SagaTypes /\ FlagInv => PaidTwiceIsFlagged
  <2> SUFFICES ASSUME SagaTypes, FlagInv, NEW r \in Rows \ raced,
                      events[r]["release"] + events[r]["split"] + events[r]["cancel"] > 1, r \notin review
               PROVE  FALSE
    BY DEF PaidTwiceIsFlagged
  <2>1. \A t \in {"release", "split", "cancel"} : events[r][t] \in Nat
    BY DEF SagaTypes, SagaTypeOK, TypeOK, EventTypes, Transitions
  <2>q. QED BY <2>1 DEF FlagInv, SettledRow, Settlings
<1>q. QED BY <1>1, <1>2, <1>3, SagaBasics, PTL DEF SagaSpec

----------------------------------------------------------------------------
(* A completed saga has paid. What is counted is the sagas that have their event, which
   they have from the write of the escrow on: those whose call is about to record it, and
   those whose call fell back, with the event in Redis, and is about to append it again. *)

IsPaid(rec, r, side) == rec.step = "completed" /\ rec.row = r /\ rec.verdict = side

PaysFor(q, r, side) ==
  /\ held[q].row = r /\ held[q].verdict = side
  /\ \/ doing[q] \in {"complete", "archive"}
     \/ doing[q] = "settle" /\ step[q] = "append" /\ stored[q]

HasPaid(s, r, side) ==
  \/ IsPaid(sagas[s], r, side)
  \/ \E i \in Instances : IsPaid(localSagas[i][s], r, side)
  \/ \E q \in Requests : sid[q] = s /\ PaysFor(q, r, side)

PaidSet(r, side) == {s \in Sagas : HasPaid(s, r, side)}

PaidPair(r, side) ==
  /\ IsFiniteSet(PaidSet(r, side))
  /\ Cardinality(PaidSet(r, side)) <= events[r][Settlement[side]]

PaidInv == \A r \in Rows, side \in Sides : PaidPair(r, side)

LEMMA SettlementCounted ==
  ASSUME TypeOK, NEW r \in Rows, NEW side \in Sides
  PROVE  Settlement[side] \in EventTypes /\ events[r][Settlement[side]] \in Nat
<1>1. Settlement[side] \in EventTypes BY Settlements DEF EventTypes
<1>q. QED BY <1>1 DEF TypeOK

\* Fewer sagas that have paid, or one more with an event more.
LEMMA PaidKept ==
  ASSUME TypeOK, TypeOK', NEW r \in Rows, NEW side \in Sides, PaidPair(r, side),
         events'[r][Settlement[side]] >= events[r][Settlement[side]],
         PaidSet(r, side)' \subseteq PaidSet(r, side)
  PROVE  PaidPair(r, side)'
<1>1. IsFiniteSet(PaidSet(r, side)') /\ Cardinality(PaidSet(r, side)') <= Cardinality(PaidSet(r, side))
  BY FS_Subset DEF PaidPair
<1>2. Cardinality(PaidSet(r, side)) \in Nat /\ Cardinality(PaidSet(r, side)') \in Nat
  BY <1>1, FS_CardinalityType DEF PaidPair
<1>3. events[r][Settlement[side]] \in Nat BY SettlementCounted
<1>4. events'[r][Settlement[side]] \in Nat
  <2>1. Settlement[side] \in EventTypes BY SettlementCounted
  <2>q. QED BY <2>1 DEF TypeOK
<1>q. QED BY <1>1, <1>2, <1>3, <1>4 DEF PaidPair

LEMMA PaidGrows ==
  ASSUME TypeOK, NEW r \in Rows, NEW side \in Sides, PaidPair(r, side), NEW x,
         events'[r][Settlement[side]] = events[r][Settlement[side]] + 1,
         PaidSet(r, side)' \subseteq PaidSet(r, side) \cup {x}
  PROVE  PaidPair(r, side)'
<1>1. /\ IsFiniteSet(PaidSet(r, side) \cup {x})
      /\ \/ Cardinality(PaidSet(r, side) \cup {x}) = Cardinality(PaidSet(r, side))
         \/ Cardinality(PaidSet(r, side) \cup {x}) = Cardinality(PaidSet(r, side)) + 1
  BY FS_AddElement DEF PaidPair
<1>2. /\ IsFiniteSet(PaidSet(r, side)')
      /\ Cardinality(PaidSet(r, side)') <= Cardinality(PaidSet(r, side) \cup {x})
  BY <1>1, FS_Subset
<1>3. Cardinality(PaidSet(r, side)) \in Nat /\ Cardinality(PaidSet(r, side)') \in Nat
  BY <1>2, FS_CardinalityType DEF PaidPair
<1>4. events[r][Settlement[side]] \in Nat BY SettlementCounted
<1>q. QED BY <1>1, <1>2, <1>3, <1>4 DEF PaidPair

LEMMA InitPaid == SagaInit => PaidInv
<1> SUFFICES ASSUME SagaInit, NEW r \in Rows, NEW side \in Sides PROVE PaidPair(r, side)
  BY DEF PaidInv
<1>1. PaidSet(r, side) = {}
  BY NoRecordRow DEF SagaInit, PaidSet, HasPaid, IsPaid, PaysFor
<1>2. events[r][Settlement[side]] \in Nat BY InitTypes, SettlementCounted DEF SagaInit
<1>q. QED BY <1>1, <1>2, FS_EmptySet DEF PaidPair

\* An escrow call of q goes on. It makes its saga one that has paid only by its event.
LEMMA WritePays ==
  ASSUME {"release", "cancel", "split"} \subseteq Observed, SagaTypes,
         NEW q \in Requests, EscrowGoesOn(q), NEW r \in Rows, NEW side \in Sides
  PROVE  \/ PaidSet(r, side)' \subseteq PaidSet(r, side)
         \/ /\ events'[r][Settlement[side]] = events[r][Settlement[side]] + 1
            /\ PaidSet(r, side)' \subseteq PaidSet(r, side) \cup {sid[q]}
<1>t. TypeOK /\ GoodCall(q) /\ doing \in [Requests -> {"none"} \cup EscalatePhases \cup SagaPhases]
  BY DEF SagaTypes, SagaTypeOK
<1>1. /\ Write(q) /\ UNCHANGED <<sagas, localSagas, sid, held>>
      /\ \/ step'[q] = "idle" /\ row'[q] = NoRow
            /\ \E to : Leads(doing[q], to) /\ doing' = [doing EXCEPT ![q] = to]
         \/ Fallback(q) /\ UNCHANGED doing
      /\ doing'[q] = "complete" => Commit(q) \/ AppendEvent(q)
  BY EscrowCallGoesOn DEF storeVars
<1>2. /\ \A p \in Requests \ {q} : doing'[p] = doing[p] /\ step'[p] = step[p] /\ stored'[p] = stored[p]
      /\ step[q] # "idle"
  <2>1. \A p \in Requests \ {q} : doing'[p] = doing[p] BY <1>t, <1>1
  <2>2. \A p \in Requests \ {q} : stored'[p] = stored[p]
    BY <1>t, <1>1 DEF Write, Commit, Partial, WriteInPart, Fallback, AppendEvent, AppendThrows, Finish, TypeOK
  <2>q. QED BY <1>t, <1>1, <2>1, <2>2, WriteLeaves
<1>3. ASSUME PaysFor(q, r, side)' => PaysFor(q, r, side)
      PROVE  PaidSet(r, side)' \subseteq PaidSet(r, side)
  <2>1. \A p \in Requests : PaysFor(p, r, side)' => PaysFor(p, r, side) BY <1>1, <1>2, <1>3 DEF PaysFor
  <2>2. \A s \in Sagas : HasPaid(s, r, side)' => HasPaid(s, r, side) BY <1>1, <2>1 DEF HasPaid
  <2>q. QED BY <2>2 DEF PaidSet
<1>4. PaidSet(r, side)' \subseteq PaidSet(r, side) \cup {sid[q]}
  <2>1. \A p \in Requests \ {q} : PaysFor(p, r, side)' => PaysFor(p, r, side) BY <1>1, <1>2 DEF PaysFor
  <2>2. \A s \in Sagas \ {sid[q]} : HasPaid(s, r, side)' => HasPaid(s, r, side)
    BY <1>1, <2>1 DEF HasPaid
  <2>q. QED BY <2>2 DEF PaidSet
<1>5. ASSUME PaysFor(q, r, side)', ~PaysFor(q, r, side)
      PROVE  events'[r][Settlement[side]] = events[r][Settlement[side]] + 1
  <2>1. doing[q] = "settle" /\ held[q].row = r /\ held[q].verdict = side
    BY <1>1, <1>2, <1>5, <1>t DEF PaysFor, Leads, GoodCall, Calls
  <2>2. op[q] = Settlement[side] /\ row[q] = r BY <1>t, <1>2, <2>1 DEF GoodCall, Calls
  <2>3. Settlement[side] \in Observed BY Settlements
  <2>4. Count(events, q)[r][Settlement[side]] = events[r][Settlement[side]] + 1
    <3>1. Settlement[side] \in EventTypes BY <1>t, SettlementCounted
    <3>2. events \in [Rows -> [EventTypes -> Nat]] BY <1>t DEF TypeOK
    <3>q. QED BY <1>t, <1>2, <2>2, <2>3, <3>1, <3>2, CountValue
  <2>5. events' = Count(events, q)
    <3>1. CASE Commit(q) BY <3>1 DEF Commit
    <3>2. CASE AppendEvent(q)
      <4>1. ~stored[q] BY <1>5, <2>1, <3>2 DEF PaysFor, AppendEvent
      <4>q. QED BY <3>2, <4>1 DEF AppendEvent
    <3>3. CASE Fallback(q) /\ UNCHANGED doing
      <4>1. stored'[q] BY <1>1, <1>5, <2>1, <3>3 DEF PaysFor
      <4>q. QED BY <1>t, <3>3, <4>1 DEF Fallback, TypeOK
    <3>4. doing'[q] \in {"settle", "complete", "archive"} BY <1>5 DEF PaysFor
    <3>q. QED BY <1>t, <1>1, <2>1, <3>1, <3>2, <3>3, <3>4 DEF Leads
  <2>q. QED BY <2>4, <2>5
<1>q. QED BY <1>3, <1>4, <1>5

LEMMA NextPaid ==
  {"release", "cancel", "split"} \subseteq Observed /\ SagaTypes /\ PaidInv /\ [SagaNext]_allVars => PaidInv'
<1> SUFFICES ASSUME {"release", "cancel", "split"} \subseteq Observed,
                    SagaTypes, PaidInv, [SagaNext]_allVars, NEW r \in Rows, NEW side \in Sides
             PROVE  PaidPair(r, side)'
  BY DEF PaidInv
<1>t. /\ TypeOK /\ PaidPair(r, side) /\ failures \in 0..MaxFailures
      /\ \A q \in Requests : GoodCall(q)
  BY DEF SagaTypes, SagaTypeOK, PaidInv
<1>u. TypeOK' BY NextSagaTypes DEF SagaTypes, SagaTypeOK
<1>n. events[r][Settlement[side]] \in Nat BY <1>t, SettlementCounted
<1>k. ASSUME UNCHANGED events, \A s \in Sagas : HasPaid(s, r, side)' => HasPaid(s, r, side)
      PROVE  PaidPair(r, side)'
  <2>1. PaidSet(r, side)' \subseteq PaidSet(r, side) BY <1>k DEF PaidSet
  <2>q. QED BY <1>t, <1>u, <1>n, <1>k, <2>1, PaidKept
<1>1. ASSUME NEW q \in Requests, EscrowReads(q) PROVE PaidPair(r, side)'
  <2>1. /\ UNCHANGED <<sagas, localSagas, doing, sid, held>>
        /\ \E x \in Rows, o \in Ops \ {"none"}, e \in Escrows, d \in BOOLEAN : Take(q, o, x, e, d)
    BY <1>1, EscrowCallStarts DEF storeVars, callVars
  <2>2. /\ UNCHANGED <<events, stored>> /\ step'[q] = "write"
        /\ \A p \in Requests \ {q} : step'[p] = step[p]
    BY <1>t, <2>1 DEF Take, TypeOK
  <2>3. \A p \in Requests : PaysFor(p, r, side)' => PaysFor(p, r, side) BY <2>1, <2>2 DEF PaysFor
  <2>q. QED BY <1>k, <2>1, <2>2, <2>3 DEF HasPaid
<1>2. ASSUME NEW q \in Requests, EscrowGoesOn(q) PROVE PaidPair(r, side)'
  <2>1. Write(q) BY <1>2, EscrowCallGoesOn
  <2>2. events'[r][Settlement[side]] >= events[r][Settlement[side]]
    <3>1. Settlement[side] \in EventTypes BY <1>t, SettlementCounted
    <3>q. QED BY <1>t, <1>n, <2>1, <3>1, WriteCounts
  <2>q. QED BY <1>t, <1>u, <1>2, <2>2, WritePays, PaidKept, PaidGrows
<1>3. ASSUME NEW q \in Requests, Refused(q) PROVE PaidPair(r, side)'
  <2>1. UNCHANGED <<events, step, stored, sagas, localSagas, sid, held>>
    BY <1>3, RefusedGoesOn DEF vars, dbVars, reqVars, storeVars
  <2>2. /\ \A p \in Requests \ {q} : doing'[p] = doing[p]
        /\ doing'[q] \in {"retire", "undo", "giveup"}
    BY <1>3, RefusedGoesOn DEF SagaTypes, SagaTypeOK
  <2>3. \A p \in Requests : PaysFor(p, r, side)' => PaysFor(p, r, side) BY <2>1, <2>2 DEF PaysFor
  <2>q. QED BY <1>k, <2>1, <2>3 DEF HasPaid
<1>4. ASSUME NEW q \in Requests, NEW phase \in {"open", "assign", "vote", "settle"}, NEW s, NEW rec,
             Idle(q), Enter(q, phase, s, rec), UNCHANGED <<vars, storeVars>>
      PROVE  PaidPair(r, side)'
  <2>1. UNCHANGED <<events, step, stored, sagas, localSagas>>
    BY <1>4 DEF vars, dbVars, reqVars, storeVars
  <2>2. /\ \A p \in Requests \ {q} : doing'[p] = doing[p] /\ sid'[p] = sid[p] /\ held'[p] = held[p]
        /\ doing'[q] = phase
    BY <1>4, EnterChanges
  <2>3. step[q] = "idle" BY <1>4 DEF Idle
  <2>4. ~PaysFor(q, r, side)' BY <2>1, <2>2, <2>3 DEF PaysFor
  <2>5. \A p \in Requests : PaysFor(p, r, side)' => PaysFor(p, r, side) /\ sid'[p] = sid[p]
    BY <2>1, <2>2, <2>4 DEF PaysFor
  <2>q. QED BY <1>k, <2>1, <2>5 DEF HasPaid
<1>5. ASSUME NEW q \in Requests, Escalates(q) PROVE PaidPair(r, side)'
  BY <1>4, <1>5, CallEscalates DEF BeginsSaga
<1>6. ASSUME NEW q \in Requests, Works(q) PROVE PaidPair(r, side)'
  BY <1>4, <1>6, CallWorks DEF BeginsWork, Work
<1>7. ASSUME NEW q \in Requests, Saves(q) PROVE PaidPair(r, side)'
  <2> DEFINE rec == Saved(doing[q], held[q])
  <2>1. UNCHANGED <<events, step, stored>> /\ doing[q] \in SavingPhases
    BY <1>t, <1>7, CallSaves DEF vars, dbVars, reqVars
  <2>2. /\ rec.row = held[q].row /\ rec.verdict = held[q].verdict
        /\ rec.step = "completed" => doing[q] \in {"complete", "archive"}
    BY <1>t, <2>1, SavedIsGood DEF GoodCall
  <2>3. /\ \A z \in Sagas \ {sid[q]} : sagas'[z] = sagas[z]
        /\ sagas'[sid[q]] \in {sagas[sid[q]], rec}
        /\ \A z \in Sagas \ {sid[q]}, i \in Instances : localSagas'[i][z] = localSagas[i][z]
        /\ \A i \in Instances : localSagas'[i][sid[q]] \in {localSagas[i][sid[q]], rec}
    BY <1>7, SaveChanges
  <2>4. /\ \A p \in Requests \ {q} : doing'[p] = doing[p] /\ sid'[p] = sid[p] /\ held'[p] = held[p]
        /\ \/ doing'[q] \in {"advance", "freeze", "none"}
           \/ doing[q] = "complete" /\ sid'[q] = sid[q] /\ held'[q] = rec
    BY <1>7, SaveContinues
  <2> HIDE DEF rec
  <2>5. IsPaid(rec, r, side) => PaysFor(q, r, side) BY <2>2 DEF IsPaid, PaysFor
  <2>6. \A p \in Requests : PaysFor(p, r, side)' => PaysFor(p, r, side) /\ sid'[p] = sid[p]
    BY <2>1, <2>2, <2>4 DEF PaysFor
  <2>7. ASSUME NEW s \in Sagas, HasPaid(s, r, side)' PROVE HasPaid(s, r, side)
    BY <2>3, <2>5, <2>6, <2>7 DEF HasPaid
  <2>q. QED BY <1>k, <2>1, <2>7
<1>8. ASSUME NEW i \in Instances, Crash(i) PROVE PaidPair(r, side)'
  <2>1. /\ UNCHANGED <<events, sagas>>
        /\ \A j \in Instances, s \in Sagas : localSagas'[j][s] \in {localSagas[j][s], NoRecord}
        /\ \A q \in Requests :
             \/ doing'[q] = "none"
             \/ /\ doing'[q] = doing[q] /\ sid'[q] = sid[q] /\ held'[q] = held[q]
                /\ step'[q] = step[q] /\ stored'[q] = stored[q]
    BY <1>8, CrashChanges DEF Crash, Restart
  <2>2. \A p \in Requests : PaysFor(p, r, side)' => PaysFor(p, r, side) /\ sid'[p] = sid[p]
    BY <2>1 DEF PaysFor
  <2>3. \A j \in Instances, s \in Sagas : IsPaid(localSagas'[j][s], r, side) => IsPaid(localSagas[j][s], r, side)
    BY <2>1, NoRecordRow DEF IsPaid
  <2>q. QED BY <1>k, <2>1, <2>2, <2>3 DEF HasPaid
<1>9. CASE UNCHANGED allVars
  <2>1. UNCHANGED <<events, step, stored, sagas, localSagas, doing, sid, held>>
    BY <1>9 DEF allVars, vars, dbVars, reqVars, storeVars, callVars
  <2>q. QED BY <1>k, <2>1 DEF HasPaid, PaysFor
<1>q. QED BY <1>1, <1>2, <1>3, <1>5, <1>6, <1>7, <1>8, <1>9, EveryMove DEF SagaMoves

\* Every completed saga has an event of its own in the outbox, of the kind its verdict
\* demands, whichever of its writes failed and wherever the saga went instead: nobody is
\* told that a dispute is settled while the transition that pays stays unpublished. (The
\* kinds of events that settle an escrow have to be among those counted.)
THEOREM CompletedSagasHavePaid ==
  ASSUME {"release", "cancel", "split"} \subseteq Observed
  PROVE  SagaSpec => []CompletedIsPaid
<1>1. SagaInit => PaidInv BY InitPaid
<1>2. SagaTypes /\ RowsInv /\ PaidInv /\ [SagaNext]_allVars => PaidInv' BY NextPaid
<1>3. SagaTypes /\ PaidInv => CompletedIsPaid
  <2> SUFFICES ASSUME SagaTypes, PaidInv, NEW r \in Rows, NEW side \in Sides
               PROVE  Cardinality({s \in Sagas : sagas[s].step = "completed" /\ sagas[s].row = r
                                                 /\ sagas[s].verdict = side}) <= events[r][Settlement[side]]
    BY DEF CompletedIsPaid
  <2> DEFINE completed == {s \in Sagas : sagas[s].step = "completed" /\ sagas[s].row = r
                                         /\ sagas[s].verdict = side}
  <2>1. completed \subseteq PaidSet(r, side) BY DEF PaidSet, HasPaid, IsPaid
  <2>2. IsFiniteSet(PaidSet(r, side)) /\ Cardinality(PaidSet(r, side)) <= events[r][Settlement[side]]
    BY DEF PaidInv, PaidPair
  <2>3. events[r][Settlement[side]] \in Nat BY SettlementCounted DEF SagaTypes, SagaTypeOK
  <2> HIDE DEF completed
  <2>4. IsFiniteSet(completed) /\ Cardinality(completed) <= Cardinality(PaidSet(r, side))
    BY <2>1, <2>2, FS_Subset
  <2>5. Cardinality(completed) <= events[r][Settlement[side]]
    BY <2>2, <2>3, <2>4, FS_CardinalityType
  <2>q. QED BY <2>5 DEF completed
<1>q. QED BY <1>1, <1>2, <1>3, SagaBasics, PTL DEF SagaSpec

----------------------------------------------------------------------------
(* One process. The mutexes of DisputeSagaService are those of a process, so what follows
   is about calls that one process serves; a saga that went through a fallback map is left
   out, as the properties leave it out. Then the record a call holds is still based on
   the one in Redis when the call writes it back. *)

OneProcess == \A p, q \in Requests : Host[p] = Host[q]

\* A call whose saga never went through a fallback map.
Kept(q) == doing[q] # "none" /\ held[q].row \notin degraded

CopyAgrees == \A q \in Requests : Kept(q) => Based(doing[q], sagas[sid[q]], held[q])
SagaAlone == \A p, q \in Requests : Kept(p) /\ Kept(q) /\ sid[p] = sid[q] => p = q
EscalationAlone ==
  \A p, q \in Requests :
    doing[p] \in EscalatePhases /\ doing[q] \in EscalatePhases /\ held[p].row = held[q].row => p = q

\* Nobody voted yet in a saga that is being opened, and its escrow has no open saga.
OpensAlone ==
  \A q \in Requests :
    Kept(q) /\ doing[q] = "open" =>
      /\ told[sid[q]] = Unvoted
      /\ \A s \in Sagas : Open(sagas[s]) => sagas[s].row # held[q].row

VotesTold == \A s \in Sagas : sagas[s].row \in Rows \ degraded => sagas[s].votes = told[s]

CopyInv == CopyAgrees /\ SagaAlone /\ EscalationAlone /\ OpensAlone /\ VotesTold /\ OneOpenSaga

LEMMA InitCopy == SagaInit => CopyInv
<1> SUFFICES ASSUME SagaInit PROVE CopyInv OBVIOUS
<1>1. /\ \A q \in Requests : doing[q] = "none"
      /\ \A s \in Sagas : sagas[s] = NoRecord /\ told[s] = Unvoted
  BY DEF SagaInit
<1>2. "none" \notin EscalatePhases BY DEF EscalatePhases
<1>q. QED
  BY <1>1, <1>2, NoRecordRow
  DEF CopyInv, Kept, CopyAgrees, SagaAlone, EscalationAlone, OpensAlone, VotesTold, OneOpenSaga, Open

\* Moves that leave the stores alone: a call goes on, or it is gone.
LEMMA CopyKept ==
  ASSUME CopyInv, UNCHANGED <<sagas, current, told>>, degraded \subseteq degraded',
         \A q \in Requests :
           \/ doing'[q] = "none"
           \/ sid'[q] = sid[q] /\ held'[q] = held[q] /\ (doing'[q] = doing[q] \/ Leads(doing[q], doing'[q]))
  PROVE  CopyInv'
<1>1. ASSUME NEW q \in Requests, Kept(q)'
      PROVE  /\ Kept(q) /\ sid'[q] = sid[q] /\ held'[q] = held[q]
             /\ doing'[q] = doing[q] \/ Leads(doing[q], doing'[q])
  BY <1>1 DEF Kept, Leads
<1>2. CopyAgrees' BY <1>1 DEF CopyInv, CopyAgrees, Based, Leads
<1>3. SagaAlone' BY <1>1 DEF CopyInv, SagaAlone
<1>4. EscalationAlone'
  <2>1. \A q \in Requests : doing'[q] \in EscalatePhases => doing[q] \in EscalatePhases /\ held'[q] = held[q]
    BY DEF EscalatePhases, Leads
  <2>q. QED BY <2>1 DEF CopyInv, EscalationAlone
<1>5. OpensAlone' BY <1>1 DEF CopyInv, OpensAlone, Leads
<1>6. VotesTold' /\ OneOpenSaga' BY DEF CopyInv, VotesTold, OneOpenSaga
<1>q. QED BY <1>2, <1>3, <1>4, <1>5, <1>6 DEF CopyInv

\* A call begins, with the mutex of its saga or of its escrow.
LEMMA CopyBegins ==
  ASSUME OneProcess, SagaTypes, RowsInv, CopyInv, NEW q \in Requests, Escalates(q) \/ Works(q)
  PROVE  CopyInv'
<1>t. /\ \A p \in Requests : GoodCall(p) /\ GoodRecord(held[p])
      /\ \A p \in Requests : doing[p] # "none" => sid[p] \in Sagas /\ held[p].row \in Rows
      /\ doing \in [Requests -> {"none"} \cup EscalatePhases \cup SagaPhases]
  BY DEF SagaTypes, SagaTypeOK, GoodCall
<1>k. ASSUME NEW phase, NEW s \in Sagas, NEW rec, NEW d \in BOOLEAN,
             Idle(q), Reading(rec.row, d), Enter(q, phase, s, rec), UNCHANGED <<storeVars, told>>,
             ~d => Based(phase, sagas[s], rec),
             \A p \in Requests : Kept(p) /\ sid[p] = s => d \/ rec.row \in degraded,
             phase \in EscalatePhases => EscalationFree(Host[q], rec.row),
             phase = "open" /\ ~d => /\ told[s] = Unvoted
                                     /\ \A z \in Sagas : Open(sagas[z]) /\ rec.row \notin degraded => sagas[z].row # rec.row
      PROVE  CopyInv'
  <2>1. /\ doing'[q] = phase /\ sid'[q] = s /\ held'[q] = rec
        /\ \A p \in Requests \ {q} : doing'[p] = doing[p] /\ sid'[p] = sid[p] /\ held'[p] = held[p]
        /\ UNCHANGED <<sagas, current, told>>
    BY <1>k, EnterChanges DEF storeVars
  <2>2. degraded \subseteq degraded' /\ (d => rec.row \in degraded') BY <1>k DEF Reading
  <2>3. \A p \in Requests \ {q} : Kept(p)' => Kept(p) BY <2>1, <2>2 DEF Kept
  <2>4. Kept(q)' => ~d /\ rec.row \notin degraded BY <2>1, <2>2 DEF Kept
  <2>5. CopyAgrees' BY <1>k, <2>1, <2>3, <2>4 DEF CopyInv, CopyAgrees
  <2>6. \A p \in Requests \ {q} : Kept(p)' /\ Kept(q)' => sid'[p] # s BY <1>k, <2>1, <2>3, <2>4
  <2>7. SagaAlone' BY <2>1, <2>3, <2>6 DEF CopyInv, SagaAlone
  <2>8. EscalationAlone'
    <3>1. phase \in EscalatePhases => \A p \in Requests : doing[p] \in EscalatePhases => held[p].row # rec.row
      BY <1>k DEF EscalationFree, OneProcess
    <3>q. QED BY <2>1, <3>1 DEF CopyInv, EscalationAlone
  <2>9. OpensAlone' BY <1>k, <2>1, <2>3, <2>4 DEF CopyInv, OpensAlone
  <2>10. VotesTold' /\ OneOpenSaga' BY <2>1, <2>2 DEF CopyInv, VotesTold, OneOpenSaga
  <2>q. QED BY <2>5, <2>7, <2>8, <2>9, <2>10 DEF CopyInv
<1>1. CASE Escalates(q)
  <2>1. PICK rec : \E s \in Sagas, d \in BOOLEAN : BeginsSaga(q, s, d, rec) BY <1>1, CallEscalates
  <2>2. PICK s \in Sagas, d \in BOOLEAN : BeginsSaga(q, s, d, rec) BY <2>1
  <2>3. /\ rec.row \in Rows /\ Idle(q) /\ EscalationFree(Host[q], rec.row) /\ NewSaga(s)
        /\ Reading(rec.row, d) /\ ~Open(CurrentSaga(q, rec.row, d)) /\ Enter(q, "open", s, rec)
        /\ UNCHANGED <<storeVars, told>>
    BY <2>2 DEF BeginsSaga
  <2>4. Based("open", sagas[s], rec) BY <2>3 DEF NewSaga, Based
  <2>5. ASSUME ~d, NEW z \in Sagas, Open(sagas[z]), rec.row \notin degraded PROVE sagas[z].row # rec.row
    <3>1. sagas[z].row = rec.row => current[rec.row] = z BY <2>5 DEF CopyInv, OneOpenSaga
    <3>2. current[rec.row] = z => CurrentSaga(q, rec.row, d) = sagas[z]
      BY <2>5 DEF CurrentSaga, SagaFound
    <3>q. QED BY <2>3, <2>5, <3>1, <3>2
  <2>6. told[s] = Unvoted /\ \A p \in Requests : sid[p] # s BY <2>3 DEF NewSaga
  <2>q. QED BY <1>k, <2>3, <2>4, <2>5, <2>6
<1>2. CASE Works(q)
  <2>1. PICK phase, rec : \E s \in Sagas, d \in BOOLEAN : BeginsWork(q, phase, s, d, rec)
    BY <1>2, CallWorks
  <2>2. PICK s \in Sagas, d \in BOOLEAN : BeginsWork(q, phase, s, d, rec) BY <2>1
  <2>3. /\ phase \in {"assign", "vote", "settle"} /\ Based(phase, SagaFound(q, s, d), rec)
        /\ SagaFound(q, s, d).row = rec.row /\ rec.row \in Rows
        /\ SagaFound(q, s, d).step \in {"assignment", "voting", "payout"}
        /\ Idle(q) /\ SagaFree(Host[q], s) /\ Reading(rec.row, d) /\ Enter(q, phase, s, rec)
        /\ UNCHANGED <<storeVars, told>>
    BY <2>2 DEF BeginsWork, Work
  <2>4. ~d => SagaFound(q, s, d) = sagas[s] BY DEF SagaFound
  <2>5. phase \notin EscalatePhases BY <2>3 DEF EscalatePhases
  <2>6. ASSUME NEW p \in Requests, Kept(p), sid[p] = s, ~d, rec.row \notin degraded PROVE FALSE
    <3>1. doing[p] \in EscalatePhases BY <1>t, <2>3, <2>6 DEF Kept, SagaFree, OneProcess
    <3>2. Based(doing[p], sagas[s], held[p]) BY <2>6 DEF CopyInv, CopyAgrees
    <3>3. held[p].step = "escalation" BY <1>t, <3>1 DEF GoodCall, Holds
    <3>4. sagas[s].step \in {"none", "escalation"}
      BY <3>1, <3>2, <3>3, NoRecordRow DEF Based, EscalatePhases
    <3>q. QED BY <2>3, <2>4, <2>6, <3>4
  <2>q. QED BY <1>k, <2>3, <2>4, <2>5, <2>6
<1>q. QED BY <1>1, <1>2

\* A call writes its record back over the one it is based on.
LEMMA SavesOnward ==
  ASSUME SagaTypes, RowsInv, CopyAgrees, NEW q \in Requests, Saves(q), Kept(q)
  PROVE  LET rec == Saved(doing[q], held[q])  old == sagas[sid[q]] IN
         /\ Onward(old, rec) /\ GoodRecord(rec)
         /\ doing[q] = "open" => old = NoRecord
         /\ doing[q] # "open" => old.row = rec.row /\ old.votes \in [Jurors -> Sides \cup {"none"}]
         /\ Open(rec) => doing[q] = "open" \/ Open(old)
<1> DEFINE rec == Saved(doing[q], held[q])
           old == sagas[sid[q]]
<1>t. GoodCall(q) /\ GoodRecord(held[q]) /\ doing[q] \in SavingPhases /\ sid[q] \in Sagas
  <2>1. doing[q] \in SavingPhases BY CallSaves DEF SagaTypes, SagaTypeOK
  <2>q. QED BY <2>1, SaveChanges DEF SagaTypes, GoodCall
<1>1. Based(doing[q], old, held[q]) BY DEF CopyAgrees
<1>2. /\ GoodRecord(rec) /\ Onward(held[q], rec) /\ rec.row = held[q].row
      /\ doing[q] \in {"open", "assign", "vote", "archive"} => rec = held[q]
      /\ doing[q] \in {"retire", "giveup", "complete"} => rec.step \in Ended
  <2>1. doing[q] \in {"open", "assign", "vote", "archive"} => rec = held[q] BY DEF Saved
  <2>2. /\ GoodRecord(rec) /\ Onward(held[q], rec) /\ rec.row = held[q].row
        /\ doing[q] = "complete" => rec.step = "completed"
    BY <1>t, SavedIsGood DEF GoodCall
  <2>3. doing[q] \in {"retire", "giveup"} => rec.step = "failed"
    <3>1. doing[q] \in {"retire", "giveup"} => rec = [held[q] EXCEPT !.step = "failed"] BY DEF Saved
    <3>2. held[q] \in Records BY <1>t DEF GoodRecord
    <3>q. QED BY <3>1, <3>2 DEF Records
  <2>q. QED BY <2>1, <2>2, <2>3 DEF Ended
<1>3. old \in Records /\ held[q] \in Records BY <1>t DEF SagaTypes, SagaTypeOK, GoodRecord
<1> HIDE DEF rec, old
<1>4. CASE doing[q] = "open"
  <2>1. old = NoRecord BY <1>1, <1>4 DEF Based
  <2>2. rec.step \in Steps /\ rec.verdict \in Sides \cup {"none"} BY <1>2 DEF GoodRecord, Records
  <2>3. Rank[rec.step] \in Nat /\ Rank["none"] = 0 BY <2>2 DEF Rank, Steps
  <2>4. Onward(old, rec) BY <2>1, <2>3, NoRecordRow DEF Onward, Ended, Unvoted
  <2>q. QED BY <1>2, <1>4, <2>1, <2>4 DEF rec, old
<1>5. CASE doing[q] \in {"assign", "vote"}
  <2>1. /\ old.row = held[q].row /\ old.step \in {"assignment", "voting"} /\ Onward(old, held[q])
        /\ rec = held[q]
    BY <1>1, <1>2, <1>5 DEF Based
  <2>2. Open(old) BY <2>1 DEF Open, Ended
  <2>q. QED BY <1>2, <1>3, <1>5, <2>1, <2>2 DEF rec, old, Records
<1>6. CASE doing[q] \in {"advance", "retire", "giveup", "complete", "archive"}
  <2>1. old = held[q] BY <1>1, <1>6 DEF Based
  <2>2. Open(rec) => Open(old)
    <3>1. CASE doing[q] = "advance"
      <4>1. held[q].step = "escalation" BY <1>t, <3>1 DEF GoodCall, Holds, EscalatePhases
      <4>q. QED BY <2>1, <4>1 DEF Open, Ended
    <3>2. CASE doing[q] # "advance" BY <1>2, <1>6, <2>1, <3>2 DEF Open
    <3>q. QED BY <3>1, <3>2
  <2>q. QED BY <1>2, <1>3, <1>6, <2>1, <2>2 DEF rec, old, Records
<1>q. QED BY <1>t, <1>4, <1>5, <1>6 DEF SavingPhases

LEMMA CopySaves ==
  ASSUME SagaTypes, RowsInv, CopyInv, NEW q \in Requests, Saves(q)
  PROVE  CopyInv'
<1> DEFINE rec == Saved(doing[q], held[q])
           s == sid[q]
<1>t. /\ \A p \in Requests : GoodCall(p)
      /\ \A p \in Requests : doing[p] # "none" => sid[p] \in Sagas /\ held[p].row \in Rows
      /\ \A z \in Sagas : GoodRecord(sagas[z])
      /\ told \in [Sagas -> [Jurors -> Sides \cup {"none"}]]
      /\ NoSaga \notin Sagas
  BY DEF SagaTypes, SagaTypeOK, GoodStores
<1>1. doing[q] \in SavingPhases /\ doing[q] # "none" /\ Told(q)
  BY CallSaves DEF SagaTypes, SagaTypeOK, SavingPhases
<1>2. /\ s \in Sagas /\ rec.row = held[q].row /\ rec.row \in Rows
      /\ \A z \in Sagas \ {s} : sagas'[z] = sagas[z]
      /\ sagas'[s] \in {sagas[s], rec}
      /\ sagas'[s] = rec \/ rec.row \in degraded' \/ (doing[q] = "archive" /\ UNCHANGED sagas)
      /\ degraded \subseteq degraded'
      /\ \A r \in Rows \ {rec.row} : current'[r] = current[r]
      /\ current'[rec.row] \in {current[rec.row], s}
      /\ doing[q] = "open" => current'[rec.row] = s \/ rec.row \in degraded'
      /\ doing[q] # "open" => UNCHANGED current
  BY SaveChanges
<1>3. /\ \A p \in Requests \ {q} : doing'[p] = doing[p] /\ sid'[p] = sid[p] /\ held'[p] = held[p]
      /\ \/ doing'[q] = "none"
         \/ /\ doing[q] = "open" /\ doing'[q] \in {"advance", "freeze"}
            /\ sid'[q] = s /\ held'[q] = held[q]
         \/ doing[q] = "complete" /\ doing'[q] = "archive" /\ sid'[q] = s /\ held'[q] = rec
  BY SaveContinues
<1>4. doing[q] = "open" => rec = held[q] BY DEF Saved
<1>5. /\ rec.votes = held[q].votes /\ held[q].votes \in [Jurors -> Sides \cup {"none"}]
      /\ doing[q] = "open" => rec.votes = Unvoted
  <2>1. GoodRecord(held[q]) /\ Holds(doing[q], held[q]) BY <1>t DEF GoodCall
  <2>2. doing[q] = "open" => held[q].votes = Unvoted BY <2>1 DEF Holds, EscalatePhases, GoodRecord
  <2>q. QED BY <1>1, <2>1, <2>2, SavedIsGood DEF GoodRecord, Records
<1>6. ASSUME rec.row \notin degraded
      PROVE  /\ Kept(q) /\ Onward(sagas[s], rec)
             /\ doing[q] = "open" => sagas[s] = NoRecord
             /\ doing[q] # "open" => sagas[s].row = rec.row /\ sagas[s].votes \in [Jurors -> Sides \cup {"none"}]
             /\ Open(rec) => doing[q] = "open" \/ Open(sagas[s])
             /\ \A p \in Requests \ {q} : Kept(p) => sid[p] # s
  <2>1. Kept(q) BY <1>1, <1>2, <1>6 DEF Kept
  <2>q. QED BY <2>1, SavesOnward DEF CopyInv, SagaAlone
<1>7. \A z \in Sagas \ {s} : told'[z] = told[z] BY <1>t, <1>1, <1>2 DEF Told
<1> HIDE DEF rec, s
<1>8. ASSUME NEW p \in Requests, p # q, Kept(p)' PROVE Kept(p) /\ sid[p] \in Sagas /\ sid[p] # s
  <2>1. Kept(p) BY <1>2, <1>3, <1>8 DEF Kept
  <2>2. held[p].row \in Rows /\ sid[p] \in Sagas BY <1>t, <2>1 DEF Kept
  <2>3. sid[p] = s => held[p].row = rec.row BY <1>1, <1>2, <1>t, <2>2 DEF RowsInv, RowIs, s
  <2>4. sid[p] = s => rec.row \notin degraded BY <2>1, <2>3 DEF Kept
  <2>q. QED BY <1>6, <1>8, <2>1, <2>2, <2>4
<1>9. ASSUME Kept(q)'
      PROVE  /\ sagas'[s] = rec /\ sid'[q] = s
             /\ \/ doing'[q] \in {"advance", "freeze"} /\ held'[q] = rec
                \/ doing'[q] = "archive" /\ held'[q] = rec
  <2>1. held'[q] = rec /\ doing'[q] # "none" BY <1>3, <1>4, <1>9 DEF Kept
  <2>2. rec.row \notin degraded' BY <1>9, <2>1 DEF Kept
  <2>q. QED BY <1>2, <1>3, <2>1, <2>2
<1>10. CopyAgrees'
  <2>1. \A p \in Requests \ {q} : Kept(p)' => Based(doing'[p], sagas'[sid'[p]], held'[p])
    BY <1>2, <1>3, <1>8 DEF CopyInv, CopyAgrees
  <2>2. Kept(q)' => Based(doing'[q], sagas'[sid'[q]], held'[q]) BY <1>9 DEF Based
  <2>q. QED BY <2>1, <2>2 DEF CopyAgrees
<1>11. SagaAlone'
  <2>1. \A p \in Requests \ {q} : Kept(p)' => Kept(p) /\ sid'[p] = sid[p] /\ sid[p] # s BY <1>3, <1>8
  <2>2. Kept(q)' => sid'[q] = s BY <1>9
  <2>q. QED BY <2>1, <2>2 DEF CopyInv, SagaAlone
<1>12. EscalationAlone'
  <2>1. \A p \in Requests : doing'[p] \in EscalatePhases =>
          doing[p] \in EscalatePhases /\ held'[p].row = held[p].row
    BY <1>2, <1>3 DEF EscalatePhases
  <2>q. QED BY <2>1 DEF CopyInv, EscalationAlone
<1>o. ASSUME NEW z \in Sagas, Open(sagas'[z]), sagas'[z].row \in Rows \ degraded'
      PROVE  \/ Open(sagas[z]) /\ sagas[z].row = sagas'[z].row
             \/ z = s /\ doing[q] = "open" /\ sagas'[z].row = rec.row
  <2>1. CASE sagas'[z] = sagas[z] BY <1>o, <2>1
  <2>2. CASE sagas'[z] # sagas[z]
    <3>1. z = s /\ sagas'[z] = rec BY <1>2, <2>2
    <3>2. rec.row \notin degraded BY <1>2, <1>o, <3>1
    <3>q. QED BY <1>6, <1>o, <3>1, <3>2
  <2>q. QED BY <2>1, <2>2
<1>13. OpensAlone'
  <2> SUFFICES ASSUME NEW p \in Requests, Kept(p)', doing'[p] = "open"
               PROVE  /\ told'[sid'[p]] = Unvoted
                      /\ \A z \in Sagas : Open(sagas'[z]) => sagas'[z].row # held'[p].row
    BY DEF OpensAlone
  <2>1. p # q BY <1>3
  <2>2. /\ Kept(p) /\ doing[p] = "open" /\ sid'[p] = sid[p] /\ held'[p] = held[p]
        /\ sid[p] \in Sagas \ {s}
    BY <1>3, <1>8, <2>1
  <2>3. told'[sid'[p]] = Unvoted BY <1>7, <2>2 DEF CopyInv, OpensAlone
  <2>4. ASSUME NEW z \in Sagas, Open(sagas'[z]), sagas'[z].row = held[p].row PROVE FALSE
    <3>1. held[p].row \in Rows \ degraded' BY <1>t, <2>2 DEF Kept
    <3>2. CASE Open(sagas[z]) /\ sagas[z].row = sagas'[z].row
      BY <2>2, <2>4, <3>2 DEF CopyInv, OpensAlone
    <3>3. CASE doing[q] = "open" /\ sagas'[z].row = rec.row
      BY <1>2, <2>1, <2>2, <2>4, <3>3 DEF CopyInv, EscalationAlone, EscalatePhases
    <3>q. QED BY <1>o, <2>4, <3>1, <3>2, <3>3
  <2>q. QED BY <2>2, <2>3, <2>4
<1>14. VotesTold'
  <2> SUFFICES ASSUME NEW z \in Sagas, sagas'[z].row \in Rows \ degraded'
               PROVE  sagas'[z].votes = told'[z]
    BY DEF VotesTold
  <2>1. CASE z # s BY <1>2, <1>7, <2>1 DEF CopyInv, VotesTold
  <2>2. CASE z = s /\ doing[q] = "archive" /\ UNCHANGED sagas
    <3>1. told'[s] = told[s] BY <1>1, <2>2 DEF Told
    <3>q. QED BY <1>2, <2>2, <3>1 DEF CopyInv, VotesTold
  <2>3. CASE z = s /\ sagas'[s] = rec
    <3>1. rec.row \in Rows \ degraded /\ rec.row \notin degraded' BY <1>2, <2>3
    <3>2. CASE doing[q] = "open"
      <4>1. told'[s] = told[s] BY <1>1, <3>2 DEF Told
      <4>2. told[s] = Unvoted BY <1>6, <3>1, <3>2 DEF CopyInv, OpensAlone, s
      <4>q. QED BY <1>5, <2>3, <3>2, <4>1, <4>2
    <3>3. CASE doing[q] # "open"
      <4>1. sagas[s].row = rec.row /\ Onward(sagas[s], rec)
            /\ sagas[s].votes \in [Jurors -> Sides \cup {"none"}]
        BY <1>6, <3>1, <3>3
      <4>2. sagas[s].votes = told[s] BY <1>2, <3>1, <4>1 DEF CopyInv, VotesTold
      <4>3. \A j \in Jurors : told[s][j] \in {"none", held[q].votes[j]} BY <1>5, <4>1, <4>2 DEF Onward
      <4>4. CASE doing[q] \in {"assign", "vote"}
        <5>1. told'[s] = [j \in Jurors |-> IF held[q].votes[j] # "none" THEN held[q].votes[j] ELSE told[s][j]]
          BY <1>t, <1>1, <1>2, <4>4 DEF Told, s
        <5>2. \A j \in Jurors : told'[s][j] = held[q].votes[j] BY <4>3, <5>1
        <5>3. told'[s] = held[q].votes BY <1>5, <5>1, <5>2
        <5>q. QED BY <1>5, <2>3, <5>3
      <4>5. CASE doing[q] \notin {"open", "assign", "vote"}
        <5>1. told'[s] = told[s] BY <1>1, <4>5 DEF Told
        <5>2. sagas[s] = held[q]
          <6>1. Kept(q) BY <1>6, <3>1
          <6>q. QED BY <1>1, <4>5, <6>1 DEF CopyInv, CopyAgrees, Based, s
        <5>q. QED BY <1>5, <2>3, <4>2, <5>1, <5>2
      <4>q. QED BY <3>3, <4>4, <4>5
    <3>q. QED BY <3>2, <3>3
  <2>4. CASE z = s /\ sagas'[s] = sagas[s] /\ rec.row \in degraded'
    <3>1. sagas[s].row \in Rows BY <2>4
    <3>2. sagas[s].row = rec.row BY <1>1, <1>2, <1>t, <3>1 DEF RowsInv, RowIs, s
    <3>q. QED BY <2>4, <3>2
  <2>q. QED BY <1>2, <2>1, <2>2, <2>3, <2>4
<1>15. OneOpenSaga'
  <2> SUFFICES ASSUME NEW z \in Sagas, Open(sagas'[z]), sagas'[z].row \notin degraded'
               PROVE  current'[sagas'[z].row] = z
    BY DEF OneOpenSaga
  <2>1. sagas'[z].row \in Rows
    <3>1. GoodRecord(sagas'[z])
      <4>1. GoodRecord(rec) BY <1>1, <1>t, SavedIsGood DEF GoodCall, rec
      <4>q. QED BY <1>2, <1>t, <4>1
    <3>q. QED BY <3>1 DEF GoodRecord, Open
  <2>2. CASE Open(sagas[z]) /\ sagas[z].row = sagas'[z].row
    <3>1. current[sagas[z].row] = z BY <1>2, <2>2 DEF CopyInv, OneOpenSaga
    <3>2. CASE doing[q] # "open" BY <1>2, <2>2, <3>1, <3>2
    <3>3. CASE doing[q] = "open" /\ rec.row # sagas[z].row BY <1>2, <2>1, <2>2, <3>1, <3>3
    <3>4. CASE doing[q] = "open" /\ rec.row = sagas[z].row
      <4>1. Kept(q) BY <1>2, <1>6, <2>2, <3>4
      <4>2. sagas[z].row # held[q].row BY <2>2, <3>4, <4>1 DEF CopyInv, OpensAlone
      <4>3. rec.row = held[q].row BY <1>2
      <4>q. QED BY <3>4, <4>2, <4>3
    <3>q. QED BY <3>2, <3>3, <3>4
  <2>3. CASE z = s /\ doing[q] = "open" /\ sagas'[z].row = rec.row BY <1>2, <2>3
  <2>q. QED BY <1>o, <2>1, <2>2, <2>3
<1>q. QED BY <1>10, <1>11, <1>12, <1>13, <1>14, <1>15 DEF CopyInv

LEMMA NextCopy == OneProcess /\ SagaTypes /\ RowsInv /\ CopyInv /\ [SagaNext]_allVars => CopyInv'
<1> SUFFICES ASSUME OneProcess, SagaTypes, RowsInv, CopyInv, [SagaNext]_allVars PROVE CopyInv' OBVIOUS
<1>1. ASSUME NEW q \in Requests, EscrowReads(q) \/ EscrowGoesOn(q) \/ Refused(q) PROVE CopyInv'
  <2>1. /\ UNCHANGED <<sagas, current, told, sid, held, degraded>>
        /\ \A p \in Requests \ {q} : doing'[p] = doing[p]
        /\ doing'[q] = doing[q] \/ Leads(doing[q], doing'[q])
    BY <1>1, EscrowMoveLeaves
  <2>q. QED BY <2>1, CopyKept
<1>2. ASSUME NEW q \in Requests, Escalates(q) \/ Works(q) PROVE CopyInv' BY <1>2, CopyBegins
<1>3. ASSUME NEW q \in Requests, Saves(q) PROVE CopyInv' BY <1>3, CopySaves
<1>4. ASSUME NEW i \in Instances, Crash(i) PROVE CopyInv' BY <1>4, CrashChanges, CopyKept
<1>5. CASE UNCHANGED allVars
  <2>1. UNCHANGED <<sagas, current, told, sid, held, degraded, doing>>
    BY <1>5 DEF allVars, storeVars, callVars, pastVars
  <2>q. QED BY <2>1, CopyKept
<1>q. QED BY <1>1, <1>2, <1>3, <1>4, <1>5, EveryMove DEF SagaMoves

LEMMA CopiesHold == ASSUME OneProcess PROVE SagaSpec => [](SagaTypes /\ RowsInv /\ CopyInv)
<1>1. SagaInit => CopyInv BY InitCopy
<1>2. SagaTypes /\ RowsInv /\ CopyInv /\ [SagaNext]_allVars => CopyInv' BY NextCopy
<1>q. QED BY <1>1, <1>2, SagaBasics, PTL DEF SagaSpec

\* An escrow has one open saga at a time and its pointer leads to it: the mutex of an
\* escalation is held from the look at the pointer until the escrow is frozen or adopted.
THEOREM OneSagaPerEscrow ==
  ASSUME OneProcess
  PROVE  SagaSpec => []OneOpenSaga
<1>1. CopyInv => OneOpenSaga BY DEF CopyInv
<1>q. QED BY <1>1, CopiesHold, PTL

\* The sets of votes VotesCount counts are those the verdict was computed from: only an
\* assigned juror has a vote.
LEMMA TallyOfAssigned ==
  ASSUME NEW rec, GoodRecord(rec), NEW side \in Sides
  PROVE  /\ Cardinality({j \in rec.jurors : rec.votes[j] = side}) = Tally(rec.votes, side)
         /\ Tally(rec.votes, side) \in Nat
<1>1. rec.jurors \subseteq Jurors BY DEF GoodRecord, Records
<1>2. side # "none" BY DEF Sides
<1>3. {j \in rec.jurors : rec.votes[j] = side} = {j \in Jurors : rec.votes[j] = side}
  BY <1>1, <1>2 DEF GoodRecord
<1>4. {j \in Jurors : rec.votes[j] = side} \in SUBSET Jurors OBVIOUS
<1>5. IsFiniteSet({j \in Jurors : rec.votes[j] = side}) BY <1>4, FS_Subset
<1>q. QED BY <1>3, <1>5, FS_CardinalityType DEF Tally

\* No vote whose caller was told of success is lost or changed, and a verdict is what the
\* votes of all its jurors add up to, however votes interleave and wherever instances die.
THEOREM VotesAreCounted ==
  ASSUME OneProcess
  PROVE  SagaSpec => []VotesCount
<1>1. SagaTypes /\ CopyInv => VotesCount
  <2> SUFFICES ASSUME SagaTypes, CopyInv, NEW s \in Sagas
               PROVE  LET rec == sagas[s]
                          For(side) == {j \in rec.jurors : rec.votes[j] = side}
                          Most(side) == \A other \in Sides \ {side} : Cardinality(For(side)) > Cardinality(For(other))
                      IN  /\ rec.row \in Rows \ degraded => rec.votes = told[s]
                          /\ rec.verdict # "none" =>
                               /\ \A j \in rec.jurors : rec.votes[j] # "none"
                               /\ \A side \in {"depositor", "beneficiary"} : (rec.verdict = side) <=> Most(side)
    BY DEF VotesCount
  <2> DEFINE rec == sagas[s]
             For(side) == {j \in rec.jurors : rec.votes[j] = side}
             Most(side) == \A other \in Sides \ {side} : Cardinality(For(side)) > Cardinality(For(other))
  <2>1. GoodRecord(rec) BY DEF SagaTypes, GoodStores
  <2>2. rec.row \in Rows \ degraded => rec.votes = told[s] BY DEF CopyInv, VotesTold
  <2>3. rec.verdict # "none" => /\ \A j \in rec.jurors : rec.votes[j] # "none"
                                /\ rec.verdict = ComputeVerdict(rec.votes)
    BY <2>1 DEF GoodRecord
  <2>4. \A side \in Sides : Cardinality(For(side)) = Tally(rec.votes, side) /\ Tally(rec.votes, side) \in Nat
    <3> SUFFICES ASSUME NEW side \in Sides
                 PROVE  Cardinality(For(side)) = Tally(rec.votes, side) /\ Tally(rec.votes, side) \in Nat
      OBVIOUS
    <3> HIDE DEF rec
    <3>q. QED BY <2>1, TallyOfAssigned
  <2>5. \A side \in Sides : Most(side) <=> Wins(rec.votes, side) BY <2>4 DEF Wins
  <2>6. ~(Wins(rec.votes, "depositor") /\ Wins(rec.votes, "beneficiary")) BY <2>4 DEF Wins, Sides
  <2>7. \A side \in {"depositor", "beneficiary"} :
          (ComputeVerdict(rec.votes) = side) <=> Wins(rec.votes, side)
    BY <2>6 DEF ComputeVerdict
  <2>8. rec.verdict # "none" => \A side \in {"depositor", "beneficiary"} : (rec.verdict = side) <=> Most(side)
    BY <2>3, <2>5, <2>7 DEF Sides
  <2>q. QED BY <2>2, <2>3, <2>8
<1>q. QED BY <1>1, CopiesHold, PTL

\* A saga never goes back, neither in its step nor in its votes nor in its verdict, and an
\* ended one stays as it is: what a call writes back is based on what is there.
THEOREM SagasGoOnward ==
  ASSUME OneProcess
  PROVE  SagaSpec => SagaOnward
<1> DEFINE GoesOn == \A s \in Sagas : sagas[s].row \notin degraded' => Onward(sagas[s], sagas'[s])
<1>1. SagaTypes /\ RowsInv /\ CopyInv /\ [SagaNext]_allVars => GoesOn
  <2> SUFFICES ASSUME SagaTypes, RowsInv, CopyInv, [SagaNext]_allVars, NEW s \in Sagas,
                      sagas[s].row \notin degraded'
               PROVE  Onward(sagas[s], sagas'[s])
    OBVIOUS
  <2>1. GoodRecord(sagas[s]) BY DEF SagaTypes, GoodStores
  <2>2. CASE sagas'[s] = sagas[s] BY <2>1, <2>2, OnwardReflexive
  <2>3. ASSUME NEW q \in Requests, Saves(q) PROVE Onward(sagas[s], sagas'[s])
    <3> DEFINE rec == Saved(doing[q], held[q])
    <3>1. CASE sagas'[s] # sagas[s]
      <4>1. /\ s = sid[q] /\ sagas'[s] = rec /\ rec.row = held[q].row
            /\ degraded \subseteq degraded'
        BY <2>3, <3>1, SaveChanges
      <4>2. doing[q] \in SavingPhases /\ GoodCall(q)
        BY <2>3, CallSaves DEF SagaTypes, SagaTypeOK
      <4>3. CASE held[q].row \notin degraded
        <5>1. Kept(q) BY <4>2, <4>3 DEF Kept, SavingPhases
        <5>q. QED BY <2>3, <4>1, <5>1, SavesOnward DEF CopyInv
      <4>4. CASE held[q].row \in degraded
        <5>1. sagas[s].row # held[q].row BY <4>1, <4>4
        <5>2. held[q].row \in Rows BY <4>2, SavedIsGood DEF GoodCall
        <5>3. sagas[s].row \notin Rows BY <4>1, <5>1, <5>2 DEF RowsInv, RowIs
        <5>4. sagas[s] = NoRecord BY <2>1, <5>3 DEF GoodRecord
        <5>5. GoodRecord(rec) BY <4>2, SavedIsGood DEF GoodCall
        <5> HIDE DEF rec
        <5>6. rec.step \in Steps BY <5>5 DEF GoodRecord, Records
        <5>7. Rank[rec.step] \in Nat /\ Rank["none"] = 0 BY <5>6 DEF Rank, Steps
        <5>q. QED BY <4>1, <5>4, <5>7, NoRecordRow DEF Onward, Ended, Unvoted
      <4>q. QED BY <4>3, <4>4
    <3>q. QED BY <2>2, <3>1
  <2>4. ASSUME NEW q \in Requests, Escalates(q) PROVE UNCHANGED sagas
    BY <2>4, CallEscalates DEF BeginsSaga, storeVars
  <2>5. ASSUME NEW q \in Requests, Works(q) PROVE UNCHANGED sagas
    BY <2>5, CallWorks DEF BeginsWork, Work, storeVars
  <2>6. ASSUME NEW q \in Requests, EscrowReads(q) \/ EscrowGoesOn(q) \/ Refused(q) PROVE UNCHANGED sagas
    BY <2>6, EscrowMoveLeaves
  <2>7. ASSUME NEW i \in Instances, Crash(i) PROVE UNCHANGED sagas BY <2>7, CrashChanges
  <2>8. CASE UNCHANGED allVars BY <2>2, <2>8 DEF allVars, storeVars
  <2>q. QED BY <2>2, <2>3, <2>4, <2>5, <2>6, <2>7, <2>8, EveryMove DEF SagaMoves
<1>2. (SagaTypes /\ RowsInv /\ CopyInv) /\ [SagaNext]_allVars => [GoesOn]_allVars BY <1>1
<1>q. QED BY <1>2, CopiesHold, PTL DEF SagaSpec, SagaOnward
=============================================================================

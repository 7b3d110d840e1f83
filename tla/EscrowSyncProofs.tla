-------------------------- MODULE EscrowSyncProofs --------------------------
(* Theorems of EscrowSync, for any rows, callers, sweeps, instances and faults. *)
EXTENDS EscrowSync, EscrowProofs

USE EscrowAssumption, EscrowSyncAssumption

----------------------------------------------------------------------------
(* The type invariant. A sweep writes the status it read from the chain: by the time
   it compares rows, it has read one. *)

PhaseInv ==
  \A s \in Sweepers :
    /\ phase[s] \in {"diff", "repair"} => seen[s] \in Statuses
    /\ phase[s] = "idle" => todo[s] = {}

\* What a read half makes of the row it found.
Succeeds(e, found) ==
  \/ e.version = found.version + 1
  \/ found = Absent /\ e.version = 0

\* Every read half of a caller or of a sweep takes a successor of the row in hand.
LEMMA ReadHalves ==
  ASSUME TypeOK, NEW q \in Requests, NEW r \in Rows,
         \/ \E s \in Statuses : Seed(q, r, s)
         \/ \E o \in Transitions : Transition(q, o, r)
         \/ \E s \in Statuses : Correct(q, r, s)
         \/ \E s \in Statuses : \E v : Apply(q, r, s, v)
  PROVE  \E o \in Ops \ {"none"}, e \in Escrows, d \in BOOLEAN :
           /\ step[q] = "idle"
           /\ Take(q, o, r, e, d)
           /\ ~d => Succeeds(e, db[r])
<1>a. {"seed", "correct", "apply"} \cup Transitions \subseteq Ops \ {"none"}
  BY DEF Ops, EventTypes, Transitions
<1>b. ASSUME NEW d \in Degraded, Exists(Found(q, r, d)), NEW s \in Statuses
      PROVE  /\ Bumped(Found(q, r, d), s) \in Escrows
             /\ d \in BOOLEAN
             /\ ~d => Succeeds(Bumped(Found(q, r, d), s), db[r])
  <2>1. Bumped(Found(q, r, d), s) \in Escrows BY <1>b, FoundIsTyped, CopiesAreEscrows
  <2>2. ~d => Succeeds(Bumped(Found(q, r, d), s), db[r]) BY DEF Found, Bumped, Succeeds
  <2>q. QED BY <2>1, <2>2, DegradedIsBoolean
<1>1. CASE \E s \in Statuses : Seed(q, r, s)
  <2>1. PICK s \in Statuses :
          step[q] = "idle" /\ Fresh(r)
          /\ Take(q, "seed", r, [Absent EXCEPT !.status = s, !.linked = TRUE], FALSE)
    BY <1>1 DEF Seed
  <2>2. /\ [Absent EXCEPT !.status = s, !.linked = TRUE] \in Escrows
        /\ [Absent EXCEPT !.status = s, !.linked = TRUE].version = 0
    BY DEF Absent, Escrows
  <2>q. QED BY <1>a, <2>1, <2>2 DEF Fresh, Succeeds
<1>2. CASE \E o \in Transitions : Transition(q, o, r)
  <2>1. PICK o \in Transitions, d \in Degraded :
          /\ step[q] = "idle"
          /\ Found(q, r, d).status \in Allowed[o]
          /\ Take(q, o, r, Bumped(Found(q, r, d), Target[o]), d)
    BY <1>2 DEF Transition
  <2>2. Target[o] \in Statuses /\ Found(q, r, d).status \in Statuses BY <2>1, TransitionTables
  <2>3. Exists(Found(q, r, d)) BY <2>2 DEF Exists, Statuses
  <2>q. QED BY <1>a, <1>b, <2>1, <2>2, <2>3
<1>3. CASE \E s \in Statuses : Correct(q, r, s)
  <2>1. PICK s \in Statuses, d \in Degraded :
          step[q] = "idle" /\ Exists(Found(q, r, d)) /\ Take(q, "correct", r, Bumped(Found(q, r, d), s), d)
    BY <1>3 DEF Correct
  <2>q. QED BY <1>a, <1>b, <2>1
<1>4. CASE \E s \in Statuses : \E v : Apply(q, r, s, v)
  <2>1. PICK s \in Statuses, d \in Degraded :
          step[q] = "idle" /\ Exists(Found(q, r, d)) /\ Take(q, "apply", r, Bumped(Found(q, r, d), s), d)
    BY <1>4 DEF Apply
  <2>q. QED BY <1>a, <1>b, <2>1
<1>q. QED BY <1>1, <1>2, <1>3, <1>4

LEMMA CallTakes ==
  ASSUME SyncTypeOK, NEW q \in Callers, Call(q)
  PROVE  \E r \in Rows, o \in Ops \ {"none"}, e \in Escrows, d \in BOOLEAN :
           /\ step[q] = "idle"
           /\ Take(q, o, r, e, d)
           /\ ~d => Succeeds(e, db[r])
<1>1. TypeOK /\ q \in Requests /\ (chain # "none" => chain \in Statuses)
  BY DEF SyncTypeOK, Callers
<1>2. "pending" \in Statuses /\ {"active", "disputed"} \subseteq Statuses BY DEF Statuses
<1>3. "fund" \in Transitions BY DEF Transitions
<1>4. PICK r \in Rows :
       \/ chain # "none" /\ index = NoRow /\ Seed(q, r, "pending")
       \/ chain \notin {"none", "pending"} /\ index = r /\ Transition(q, "fund", r)
       \/ \E o \in Transitions \ {"fund"} : Transition(q, o, r)
       \/ \E s \in {"active", "disputed"} : Correct(q, r, s)
       \/ chain # "none" /\ Apply(q, r, chain, 0)
  BY DEF Call
<1>5. \/ \E s \in Statuses : Seed(q, r, s)
      \/ \E o \in Transitions : Transition(q, o, r)
      \/ \E s \in Statuses : Correct(q, r, s)
      \/ \E s \in Statuses : \E v : Apply(q, r, s, v)
  BY <1>1, <1>2, <1>3, <1>4
<1>q. QED BY <1>1, <1>5, ReadHalves

\* A sweep that takes a row in hand: a repair or a backfill.
Takes(s, r) ==
  \/ phase[s] = "diff" /\ r \in todo[s] /\ Apply(s, r, seen[s], snap[s][r].version)
     /\ todo' = [todo EXCEPT ![s] = @ \ {r}]
  \/ phase[s] = "diff" /\ Linked(snap[s]) = {} /\ Seed(s, r, seen[s]) /\ UNCHANGED todo

LEMMA SweepTakes ==
  ASSUME SyncTypeOK, PhaseInv, NEW s \in Sweepers, NEW r \in Rows, Takes(s, r)
  PROVE  \E o \in Ops \ {"none"}, e \in Escrows, d \in BOOLEAN :
           /\ step[s] = "idle"
           /\ Take(s, o, r, e, d)
           /\ ~d => Succeeds(e, db[r])
<1>1. TypeOK /\ s \in Requests BY DEF SyncTypeOK
<1>2. seen[s] \in Statuses BY DEF Takes, PhaseInv
<1>3. (\E c \in Statuses : Seed(s, r, c)) \/ (\E c \in Statuses : \E v : Apply(s, r, c, v))
  BY <1>2 DEF Takes
<1>q. QED BY <1>1, <1>3, ReadHalves

\* The steps of a sweep: it takes a row in hand, or it only moves on by itself.
LEMMA SweepSteps ==
  ASSUME SyncTypeOK, NEW s \in Sweepers, Sweep(s)
  PROVE  /\ UNCHANGED <<begun, chain>>
         /\ \/ UNCHANGED vars /\ phase[s] = "idle" /\ step[s] = "idle"
               /\ phase' = [phase EXCEPT ![s] = "read"] /\ snap' = [snap EXCEPT ![s] = db]
               /\ UNCHANGED <<seen, todo>>
            \/ UNCHANGED vars /\ Over(s)
               /\ (phase[s] \in {"read", "diff"} \/ (phase[s] = "repair" /\ step[s] = "idle"))
            \/ UNCHANGED <<vars, snap>> /\ phase[s] = "read" /\ chain # "none"
               /\ phase' = [phase EXCEPT ![s] = "diff"] /\ seen' = [seen EXCEPT ![s] = chain]
               /\ todo' = [todo EXCEPT ![s] = Linked(snap[s])]
            \/ UNCHANGED <<vars, snap, seen>> /\ phase' = [phase EXCEPT ![s] = "diff"]
               /\ (phase[s] = "diff" \/ (phase[s] = "repair" /\ step[s] = "idle"))
               /\ (UNCHANGED todo \/ \E r \in Rows : todo' = [todo EXCEPT ![s] = @ \ {r}])
            \/ UNCHANGED <<snap, seen>> /\ phase' = [phase EXCEPT ![s] = "repair"]
               /\ \E r \in Rows : Takes(s, r)
<1>1. CASE SweepStarts(s) BY <1>1 DEF SweepStarts, vars
<1>2. CASE ChainRead(s) BY <1>2 DEF ChainRead, vars
<1>3. CASE Answered(s) BY <1>3 DEF Answered, vars
<1>4. CASE SweepEnds(s) BY <1>4 DEF SweepEnds, vars
<1>5. ASSUME NEW r \in Rows, Repair(s, r) PROVE
       \/ Skip(s, r) /\ phase[s] = "diff"
       \/ /\ UNCHANGED <<begun, chain, snap, seen>> /\ phase' = [phase EXCEPT ![s] = "repair"]
          /\ Takes(s, r)
  BY <1>5 DEF Repair, Takes
<1>6. ASSUME NEW r \in Rows, Backfill(s, r) PROVE
       /\ UNCHANGED <<begun, chain, snap, seen>> /\ phase' = [phase EXCEPT ![s] = "repair"]
       /\ Takes(s, r)
  BY <1>6 DEF Backfill, Takes
<1>7. ASSUME NEW r \in Rows, Skip(s, r), phase[s] = "diff" PROVE
       /\ UNCHANGED <<begun, chain>> /\ UNCHANGED <<vars, snap, seen>>
       /\ phase' = [phase EXCEPT ![s] = "diff"]
       /\ todo' = [todo EXCEPT ![s] = @ \ {r}]
  BY <1>7 DEF Skip, vars
<1>q. QED BY <1>1, <1>2, <1>3, <1>4, <1>5, <1>6, <1>7 DEF Sweep

SyncTypes == SyncTypeOK /\ PhaseInv

LEMMA InitSyncTypes == SyncInit => SyncTypes
<1> SUFFICES ASSUME SyncInit PROVE SyncTypes OBVIOUS
<1>1. TypeOK BY InitTypes DEF SyncInit
<1>2. NoRows \in [Rows -> Escrows \cup {Absent}] BY DEF NoRows
<1>q. QED BY <1>1, <1>2 DEF SyncInit, SyncTypes, SyncTypeOK, PhaseInv

LEMMA SweepTypes == ASSUME SyncTypes, NEW s \in Sweepers, Sweep(s) PROVE SyncTypes'
<1>t. /\ TypeOK /\ SyncTypeOK /\ PhaseInv
      /\ chain \in Statuses \cup {"none"}
      /\ phase \in [Sweepers -> {"idle", "read", "diff", "repair"}]
      /\ snap \in [Sweepers -> [Rows -> Escrows \cup {Absent}]]
      /\ seen \in [Sweepers -> Statuses \cup {"none"}]
      /\ todo \in [Sweepers -> SUBSET Rows]
      /\ \A p \in Sweepers : todo[p] \subseteq Linked(snap[p])
  BY DEF SyncTypes, SyncTypeOK
<1>c. UNCHANGED <<begun, chain>> BY <1>t, SweepSteps
<1>v. ASSUME UNCHANGED vars PROVE TypeOK' BY <1>t, <1>v DEF vars, dbVars, reqVars, TypeOK
<1>k. ASSUME UNCHANGED snap,
             UNCHANGED todo \/ \E r \in Rows : todo' = [todo EXCEPT ![s] = @ \ {r}]
      PROVE  /\ todo' \in [Sweepers -> SUBSET Rows]
             /\ \A p \in Sweepers : todo'[p] \subseteq Linked(snap'[p])
  <2>1. /\ todo' \in [Sweepers -> SUBSET Rows]
        /\ \A p \in Sweepers : todo'[p] \subseteq todo[p]
    BY <1>t, <1>k
  <2>q. QED BY <1>t, <1>k, <2>1
<1>1. CASE /\ UNCHANGED vars /\ phase[s] = "idle"
           /\ phase' = [phase EXCEPT ![s] = "read"] /\ snap' = [snap EXCEPT ![s] = db]
           /\ UNCHANGED <<seen, todo>>
  <2>1. db \in [Rows -> Escrows \cup {Absent}] BY <1>t DEF TypeOK
  <2>2. snap' \in [Sweepers -> [Rows -> Escrows \cup {Absent}]] BY <1>t, <1>1, <2>1
  <2>3. todo[s] = {} BY <1>t, <1>1 DEF PhaseInv
  <2>4. \A p \in Sweepers : todo'[p] \subseteq Linked(snap'[p]) BY <1>t, <1>1, <2>3
  <2>q. QED BY <1>t, <1>c, <1>v, <1>1, <2>2, <2>4 DEF SyncTypes, SyncTypeOK, PhaseInv
<1>2. CASE UNCHANGED vars /\ Over(s)
  <2>1. NoRows \in [Rows -> Escrows \cup {Absent}] BY DEF NoRows
  <2>2. \A p \in Sweepers : p # s => todo'[p] = todo[p] /\ snap'[p] = snap[p]
    BY <1>t, <1>2 DEF Over
  <2>3. todo'[s] = {} BY <1>t, <1>2 DEF Over
  <2>4. \A p \in Sweepers : todo'[p] \subseteq Linked(snap'[p]) BY <1>t, <2>2, <2>3
  <2>q. QED BY <1>t, <1>c, <1>v, <1>2, <2>1, <2>4 DEF Over, SyncTypes, SyncTypeOK, PhaseInv
<1>3. CASE /\ UNCHANGED <<vars, snap>> /\ chain # "none"
           /\ phase' = [phase EXCEPT ![s] = "diff"] /\ seen' = [seen EXCEPT ![s] = chain]
           /\ todo' = [todo EXCEPT ![s] = Linked(snap[s])]
  <2>1. todo' \in [Sweepers -> SUBSET Rows] /\ \A p \in Sweepers : todo'[p] \subseteq Linked(snap'[p])
    BY <1>t, <1>3 DEF Linked
  <2>q. QED BY <1>t, <1>c, <1>v, <1>3, <2>1 DEF SyncTypes, SyncTypeOK, PhaseInv
<1>4. CASE /\ UNCHANGED <<vars, snap, seen>> /\ phase' = [phase EXCEPT ![s] = "diff"]
           /\ phase[s] \in {"diff", "repair"}
           /\ (UNCHANGED todo \/ \E r \in Rows : todo' = [todo EXCEPT ![s] = @ \ {r}])
  BY <1>t, <1>c, <1>v, <1>k, <1>4 DEF SyncTypes, SyncTypeOK, PhaseInv
<1>5. CASE /\ UNCHANGED <<snap, seen>> /\ phase' = [phase EXCEPT ![s] = "repair"]
           /\ \E r \in Rows : Takes(s, r)
  <2>1. PICK r \in Rows : Takes(s, r) BY <1>5
  <2>2. TypeOK' BY <1>t, <1>c, <2>1, SweepTakes, TakeTypes DEF TypeOK
  <2>3. seen[s] \in Statuses BY <1>t, <2>1 DEF Takes, PhaseInv
  <2>4. UNCHANGED todo \/ \E p \in Rows : todo' = [todo EXCEPT ![s] = @ \ {p}]
    BY <2>1 DEF Takes
  <2>q. QED BY <1>t, <1>c, <1>k, <1>5, <2>2, <2>3, <2>4 DEF SyncTypes, SyncTypeOK, PhaseInv
<1>q. QED BY <1>t, <1>1, <1>2, <1>3, <1>4, <1>5, SweepSteps

LEMMA NextSyncTypes == SyncTypes /\ [SyncNext]_allVars => SyncTypes'
<1> SUFFICES ASSUME SyncTypes, [SyncNext]_allVars PROVE SyncTypes' OBVIOUS
<1>t. TypeOK /\ SyncTypeOK /\ PhaseInv BY DEF SyncTypes, SyncTypeOK
<1>s. TypeOK' /\ UNCHANGED syncVars => SyncTypes'
  BY <1>t DEF SyncTypes, SyncTypeOK, PhaseInv, syncVars, Linked
<1>1. CASE ChainMoves
  <2>1. chain' \in Statuses
    <3>1. /\ Onward["none"] \subseteq Statuses /\ Onward["pending"] \subseteq Statuses
          /\ Onward["active"] \subseteq Statuses /\ Onward["disputed"] \subseteq Statuses
          /\ Onward["released"] \subseteq Statuses /\ Onward["cancelled"] \subseteq Statuses
      BY DEF Onward, Statuses
    <3>q. QED BY <1>t, <1>1, <3>1 DEF ChainMoves, SyncTypeOK, Statuses
  <2>2. TypeOK' BY <1>t, <1>1 DEF ChainMoves, vars, dbVars, reqVars, TypeOK
  <2>q. QED BY <1>t, <1>1, <2>1, <2>2 DEF ChainMoves, SyncTypes, SyncTypeOK, PhaseInv, Linked
<1>2. ASSUME NEW q \in Callers, Call(q) PROVE SyncTypes'
  <2>1. begun' \in 0..MaxRequests BY <1>t, <1>2 DEF Call, TypeOK
  <2>2. q \in Requests BY DEF Callers
  <2>3. TypeOK' BY <1>t, <1>2, <2>1, <2>2, CallTakes, TakeTypes
  <2>q. QED BY <1>s, <1>2, <2>3 DEF Call
<1>3. ASSUME NEW q \in Requests, Write(q), UNCHANGED syncVars PROVE SyncTypes'
  BY <1>t, <1>s, <1>3, WriteTypes
<1>4. ASSUME NEW s \in Sweepers, Sweep(s) PROVE SyncTypes' BY <1>4, SweepTypes
<1>5. CASE UNCHANGED allVars
  <2>1. TypeOK' BY <1>t, <1>5 DEF allVars, vars, dbVars, reqVars, TypeOK
  <2>q. QED BY <1>s, <1>5, <2>1 DEF allVars
<1>q. QED BY <1>1, <1>2, <1>3, <1>4, <1>5 DEF SyncNext

\* The rows, the contract and the sweeps keep their types: no sweep writes a status it has
\* not read, and what it still has to look at are linked rows of its own snapshot.
\* (reconcile and its calls of applyChainState and createFromChainState.)
THEOREM SyncTypeCorrect == SyncSpec => []SyncTypeOK
<1>1. SyncInit => SyncTypes BY InitSyncTypes
<1>2. SyncTypes /\ [SyncNext]_allVars => SyncTypes' BY NextSyncTypes
<1>3. SyncTypes => SyncTypeOK BY DEF SyncTypes
<1>q. QED BY <1>1, <1>2, <1>3, PTL DEF SyncSpec

----------------------------------------------------------------------------
(* What the version of the optimistic lock is worth. The version only tells two states
   of a row apart while every write of the row raises it. That is so for a row that is
   not raced: one request at a time has it in hand, and what it writes succeeds what it
   read. Then an equal version means an unchanged row, from the snapshot to the check
   and from the check to the write. *)

\* The request that has r in hand writes a successor of what Redis still holds.
HandSucceeds(r) ==
  /\ \A p, q \in InHand(r) : p = q
  /\ \A q \in InHand(r) : step[q] = "write" /\ Succeeds(copy[q], db[r])

\* A row is never older than a snapshot of it, and the same if it has the same version.
SnapAgrees(s, r) ==
  snap[s][r].version # 0 =>
    /\ db[r].version >= snap[s][r].version
    /\ db[r].version = snap[s][r].version => db[r] = snap[s][r]

\* A repair on its way found the row as the sweep had read it.
RepairsSnap(s, r) ==
  op[s] = "apply" /\ row[s] = r /\ snap[s][r].version # 0 => db[r] = snap[s][r]

RepairInv ==
  /\ \A q \in Requests : step[q] = "idle" => row[q] = NoRow
  /\ \A s \in Sweepers : phase[s] # "repair" => step[s] = "idle"
  /\ \A r \in Rows \ raced : /\ HandSucceeds(r)
                           /\ \A s \in Sweepers : SnapAgrees(s, r) /\ RepairsSnap(s, r)

LEMMA InitRepair == SyncInit => RepairInv
<1> SUFFICES ASSUME SyncInit PROVE RepairInv OBVIOUS
<1>1. \A r \in Rows : InHand(r) = {} BY DEF SyncInit, Init, InHand
<1>2. \A s \in Sweepers, r \in Rows : snap[s][r].version = 0
  BY DEF SyncInit, NoRows, Absent
<1>q. QED BY <1>1, <1>2 DEF SyncInit, Init, RepairInv, HandSucceeds, SnapAgrees, RepairsSnap

\* What a step leaves alone: the row and those who have it in hand, and its snapshot.
LEMMA HandKept ==
  ASSUME NEW r, HandSucceeds(r), db'[r] = db[r], InHand(r)' \subseteq InHand(r),
         \A p \in InHand(r)' : step'[p] = step[p] /\ copy'[p] = copy[p]
  PROVE  HandSucceeds(r)'
BY DEF HandSucceeds, Succeeds

LEMMA SnapKept ==
  ASSUME NEW r, NEW s \in Sweepers, SnapAgrees(s, r), RepairsSnap(s, r),
         db'[r] = db[r], snap'[s][r] = snap[s][r],
         (op'[s] = op[s] /\ row'[s] = row[s]) \/ op'[s] # "apply" \/ row'[s] # r
  PROVE  SnapAgrees(s, r)' /\ RepairsSnap(s, r)'
BY DEF SnapAgrees, RepairsSnap

\* A request q, which may be a sweep's, takes a row in hand.
LEMMA TakeRepair ==
  ASSUME TypeOK, RepairInv, UNCHANGED snap,
         NEW q \in Requests, NEW r \in Rows, NEW o, NEW e, NEW d \in BOOLEAN,
         step[q] = "idle", Take(q, o, r, e, d), ~d => Succeeds(e, db[r]),
         q \in Sweepers => phase'[q] = "repair",
         \A s \in Sweepers : s # q => phase'[s] = phase[s],
         q \in Sweepers /\ o = "apply" /\ r \notin raced' /\ snap[q][r].version # 0
           => db[r] = snap[q][r]
  PROVE  RepairInv'
<1>1. /\ step'[q] = "write" /\ op'[q] = o /\ row'[q] = r /\ copy'[q] = e
      /\ \A p \in Requests \ {q} : /\ step'[p] = step[p] /\ op'[p] = op[p]
                                   /\ row'[p] = row[p] /\ copy'[p] = copy[p]
      /\ db' = db /\ raced \subseteq raced'
  BY DEF Take, TypeOK
<1>2. row[q] = NoRow BY DEF RepairInv
<1>3. \A p \in Requests : step'[p] = "idle" => row'[p] = NoRow BY <1>1 DEF RepairInv
<1>4. \A s \in Sweepers : phase'[s] # "repair" => step'[s] = "idle" BY <1>1 DEF RepairInv
<1>5. ASSUME NEW p \in Rows \ raced' PROVE HandSucceeds(p)'
  <2>1. HandSucceeds(p) BY <1>1, <1>5 DEF RepairInv
  <2>2. CASE p # r
    <3>1. InHand(p)' \subseteq InHand(p) /\ q \notin InHand(p)'
      BY <1>1, <2>2 DEF InHand
    <3>2. \A x \in InHand(p)' : step'[x] = step[x] /\ copy'[x] = copy[x]
      BY <1>1, <3>1 DEF InHand
    <3>q. QED BY <1>1, <2>1, <3>1, <3>2, HandKept
  <2>3. CASE p = r
    <3>1. InHand(r) = {} /\ ~d BY <1>5, <2>3 DEF Take
    <3>2. InHand(r)' = {q} BY <1>1, <3>1 DEF InHand
    <3>3. Succeeds(e, db'[r]) BY <1>1, <3>1
    <3>q. QED BY <1>1, <2>3, <3>2, <3>3 DEF HandSucceeds, Succeeds
  <2>q. QED BY <2>2, <2>3
<1>6. ASSUME NEW p \in Rows \ raced', NEW s \in Sweepers PROVE SnapAgrees(s, p)' /\ RepairsSnap(s, p)'
  <2>1. SnapAgrees(s, p) /\ RepairsSnap(s, p) /\ snap'[s][p] = snap[s][p]
    BY <1>1, <1>6 DEF RepairInv
  <2>2. CASE s = q /\ p = r
    BY <1>1, <1>6, <2>1, <2>2 DEF SnapAgrees, RepairsSnap
  <2>3. CASE s # q \/ p # r
    <3>1. (op'[s] = op[s] /\ row'[s] = row[s]) \/ op'[s] # "apply" \/ row'[s] # p
      BY <1>1, <2>3
    <3>q. QED BY <1>1, <2>1, <3>1, SnapKept
  <2>q. QED BY <2>2, <2>3
<1>q. QED BY <1>3, <1>4, <1>5, <1>6 DEF RepairInv

LEMMA WriteRepair ==
  ASSUME SyncTypeOK, RepairInv, NEW q \in Requests, Write(q), UNCHANGED syncVars
  PROVE  RepairInv'
<1>t. TypeOK BY DEF SyncTypeOK
<1> USE <1>t
<1>1. UNCHANGED <<phase, snap>> BY DEF syncVars
<1>2. \A p \in Requests : step'[p] = "idle" => row'[p] = NoRow BY WriteLeaves DEF RepairInv
<1>3. \A s \in Sweepers : phase'[s] # "repair" => step'[s] = "idle"
  BY <1>1, WriteLeaves DEF RepairInv
<1>4. ASSUME NEW r \in Rows \ raced', r # row[q]
      PROVE  HandSucceeds(r)' /\ \A s \in Sweepers : SnapAgrees(s, r)' /\ RepairsSnap(s, r)'
  <2>1. /\ HandSucceeds(r) /\ \A s \in Sweepers : SnapAgrees(s, r) /\ RepairsSnap(s, r)
        /\ db'[r] = db[r] /\ r # NoRow
    BY <1>4, WriteLeaves DEF RepairInv
  <2>2. InHand(r)' \subseteq InHand(r) \ {q} BY <1>4, <2>1, WriteLeaves DEF InHand
  <2>3. \A p \in InHand(r)' : step'[p] = step[p] /\ copy'[p] = copy[p]
    BY <2>2, WriteLeaves DEF InHand
  <2>4. HandSucceeds(r)' BY <2>1, <2>2, <2>3, HandKept
  <2>5. ASSUME NEW s \in Sweepers PROVE SnapAgrees(s, r)' /\ RepairsSnap(s, r)'
    <3>1. (op'[s] = op[s] /\ row'[s] = row[s]) \/ op'[s] # "apply" \/ row'[s] # r
      BY WriteLeaves
    <3>q. QED BY <1>1, <2>1, <3>1, SnapKept
  <2>q. QED BY <2>4, <2>5
<1>5. ASSUME NEW r \in Rows \ raced', r = row[q]
      PROVE  HandSucceeds(r)' /\ \A s \in Sweepers : SnapAgrees(s, r)' /\ RepairsSnap(s, r)'
  <2>1. /\ HandSucceeds(r) /\ q \in InHand(r) /\ r # NoRow
        /\ \A s \in Sweepers : SnapAgrees(s, r)
    BY <1>5, WriteLeaves DEF RepairInv, InHand
  <2>2. step[q] = "write" /\ Succeeds(copy[q], db[r]) BY <2>1 DEF HandSucceeds
  <2>3. Commit(q) BY <1>5, <2>2, WriteLeaves
  <2>4. db'[r] = copy[q] BY <1>5, <2>3, WriteLeaves DEF TypeOK
  <2>5. InHand(r)' = {} BY <2>1, <2>3, WriteLeaves DEF InHand, HandSucceeds
  <2>6. HandSucceeds(r)' BY <2>5 DEF HandSucceeds
  <2>7. \A s \in Sweepers : RepairsSnap(s, r)' BY <2>5 DEF InHand, RepairsSnap
  <2>8. ASSUME NEW s \in Sweepers PROVE SnapAgrees(s, r)'
    <3>1. db[r].version \in Nat /\ (db[r] = Absent => db[r].version = 0)
      BY <1>5 DEF TypeOK, Escrows, Absent
    <3>2. snap[s][r].version \in Nat BY DEF SyncTypeOK, Escrows, Absent
    <3>q. QED BY <1>1, <2>1, <2>2, <2>4, <3>1, <3>2 DEF SnapAgrees, Succeeds
  <2>q. QED BY <2>6, <2>7, <2>8
<1>6. \A r \in Rows \ raced' :
        HandSucceeds(r)' /\ \A s \in Sweepers : SnapAgrees(s, r)' /\ RepairsSnap(s, r)'
  BY <1>4, <1>5
<1>q. QED BY <1>2, <1>3, <1>6 DEF RepairInv

LEMMA SweepRepair ==
  ASSUME SyncTypes, RepairInv, NEW s \in Sweepers, Sweep(s)
  PROVE  RepairInv'
<1>t. TypeOK /\ SyncTypeOK /\ PhaseInv BY DEF SyncTypes, SyncTypeOK
<1>k. ASSUME UNCHANGED vars, step[s] = "idle" \/ UNCHANGED snap,
             \A p \in Sweepers : p # s => phase'[p] = phase[p] /\ snap'[p] = snap[p],
             \A r \in Rows : snap'[s][r] \in {snap[s][r], db[r], Absent},
             phase'[s] # "repair" => step[s] = "idle"
      PROVE  RepairInv'
  <2>1. UNCHANGED <<db, step, op, row, copy, raced>> BY <1>k DEF vars, dbVars, reqVars
  <2>2. \A r \in Rows \ raced' : HandSucceeds(r)'
    BY <2>1 DEF RepairInv, HandSucceeds, InHand, Succeeds
  <2>3. ASSUME NEW r \in Rows \ raced', NEW p \in Sweepers
        PROVE  SnapAgrees(p, r)' /\ RepairsSnap(p, r)'
    <3>1. SnapAgrees(p, r) /\ RepairsSnap(p, r) BY <2>1 DEF RepairInv
    <3>2. CASE snap'[p][r] = snap[p][r] BY <2>1, <3>1, <3>2, SnapKept
    <3>3. CASE p = s /\ step[s] = "idle" /\ snap'[s][r] \in {db[r], Absent}
      <4>1. row'[s] # r BY <2>1, <3>3 DEF RepairInv
      <4>2. db[r].version \in Nat /\ Absent.version = 0 BY <1>t DEF TypeOK, Escrows, Absent
      <4>q. QED BY <2>1, <3>3, <4>1, <4>2 DEF SnapAgrees, RepairsSnap
    <3>q. QED BY <1>k, <3>2, <3>3
  <2>q. QED BY <1>k, <2>1, <2>2, <2>3 DEF RepairInv
<1>1. CASE /\ UNCHANGED vars /\ phase[s] = "idle" /\ step[s] = "idle"
           /\ phase' = [phase EXCEPT ![s] = "read"] /\ snap' = [snap EXCEPT ![s] = db]
  BY <1>t, <1>k, <1>1 DEF SyncTypeOK
<1>2. CASE UNCHANGED vars /\ Over(s)
           /\ (phase[s] \in {"read", "diff"} \/ (phase[s] = "repair" /\ step[s] = "idle"))
  <2>1. step[s] = "idle" BY <1>2 DEF RepairInv
  <2>q. QED BY <1>t, <1>k, <1>2, <2>1 DEF SyncTypeOK, Over, NoRows
<1>3. CASE /\ UNCHANGED <<vars, snap>> /\ phase' = [phase EXCEPT ![s] = "diff"]
           /\ (phase[s] \in {"read", "diff"} \/ (phase[s] = "repair" /\ step[s] = "idle"))
  <2>1. step[s] = "idle" BY <1>3 DEF RepairInv
  <2>q. QED BY <1>t, <1>k, <1>3, <2>1 DEF SyncTypeOK
<1>4. CASE /\ UNCHANGED <<snap, seen>> /\ phase' = [phase EXCEPT ![s] = "repair"]
           /\ \E r \in Rows : Takes(s, r)
  <2>1. PICK r \in Rows : Takes(s, r) BY <1>4
  <2>2. PICK o \in Ops \ {"none"}, e \in Escrows, d \in BOOLEAN :
          step[s] = "idle" /\ Take(s, o, r, e, d) /\ (~d => Succeeds(e, db[r]))
    BY <1>t, <2>1, SweepTakes
  <2>3. o = "apply" /\ r \notin raced' /\ snap[s][r].version # 0 => db[r] = snap[s][r]
    <3>1. SUFFICES ASSUME o = "apply", r \notin raced', snap[s][r].version # 0
                   PROVE  db[r] = snap[s][r]
      OBVIOUS
    <3>2. op'[s] = "apply" BY <1>t, <2>2, <3>1 DEF Take, TypeOK
    <3>3. Apply(s, r, seen[s], snap[s][r].version)
      BY <1>t, <2>1, <3>2 DEF Takes, Seed, Take, TypeOK
    <3>4. db[r].version = snap[s][r].version /\ r \notin raced
      BY <3>1, <3>3 DEF Apply, Take, Found, VersionMatches
    <3>q. QED BY <3>1, <3>4 DEF RepairInv, SnapAgrees
  <2>4. phase'[s] = "repair" /\ \A p \in Sweepers : p # s => phase'[p] = phase[p]
    BY <1>t, <1>4 DEF SyncTypeOK
  <2>q. QED BY <1>t, <1>4, <2>2, <2>3, <2>4, TakeRepair
<1>q. QED BY <1>t, <1>1, <1>2, <1>3, <1>4, SweepSteps

RepairInvs == SyncTypes /\ RepairInv

LEMMA NextRepair == RepairInvs /\ [SyncNext]_allVars => RepairInvs'
<1> SUFFICES ASSUME SyncTypes, RepairInv, [SyncNext]_allVars PROVE RepairInv'
  BY NextSyncTypes DEF RepairInvs
<1>t. TypeOK /\ SyncTypeOK BY DEF SyncTypes, SyncTypeOK
<1>s. UNCHANGED <<vars, phase, snap>> => RepairInv'
  <2>1. UNCHANGED <<vars, phase, snap>> => UNCHANGED <<db, step, op, row, copy, raced>>
    BY DEF vars, dbVars, reqVars
  <2>q. QED BY <2>1 DEF RepairInv, HandSucceeds, InHand, Succeeds, SnapAgrees, RepairsSnap
<1>1. CASE ChainMoves BY <1>s, <1>1 DEF ChainMoves
<1>2. ASSUME NEW q \in Callers, Call(q) PROVE RepairInv'
  <2>1. PICK r \in Rows, o \in Ops \ {"none"}, e \in Escrows, d \in BOOLEAN :
          step[q] = "idle" /\ Take(q, o, r, e, d) /\ (~d => Succeeds(e, db[r]))
    BY <1>t, <1>2, CallTakes
  <2>2. q \in Requests /\ q \notin Sweepers /\ UNCHANGED <<phase, snap>>
    BY <1>2 DEF Callers, Call, syncVars
  <2>q. QED BY <1>t, <2>1, <2>2, TakeRepair
<1>3. ASSUME NEW q \in Requests, Write(q), UNCHANGED syncVars PROVE RepairInv'
  BY <1>t, <1>3, WriteRepair
<1>4. ASSUME NEW s \in Sweepers, Sweep(s) PROVE RepairInv' BY <1>4, SweepRepair
<1>5. CASE UNCHANGED allVars BY <1>s, <1>5 DEF allVars, syncVars
<1>q. QED BY <1>1, <1>2, <1>3, <1>4, <1>5 DEF SyncNext

\* For any number of sweeps and callers: as long as no two requests have a row in hand at
\* once and no fault hits it, a repair with a version overwrites nothing the sweep did not
\* see, however long ago it took its snapshot. (applyChainState's expectedVersion, and
\* the version every write of a row raises.)
THEOREM RepairsLoseNothing == SyncSpec => RepairLosesNothing
<1>1. SyncInit => RepairInvs BY InitSyncTypes, InitRepair DEF RepairInvs
<1>2. RepairInvs /\ [SyncNext]_allVars => RepairInvs' BY NextRepair
<1>3. RepairInvs => [\A s \in Sweepers, r \in Rows :
         Repairs(s, r) /\ r \notin raced /\ snap[s][r].version # 0 => db[r] = snap[s][r]]_allVars
  BY DEF RepairInvs, RepairInv, RepairsSnap, Repairs
<1>q. QED BY <1>1, <1>2, <1>3, PTL DEF SyncSpec, RepairLosesNothing
=============================================================================

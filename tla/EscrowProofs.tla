---------------------------- MODULE EscrowProofs ----------------------------
(* Theorems of Escrow, for any rows, requests, instances and faults. *)
EXTENDS Escrow, FiniteSetTheorems, TLAPS

USE EscrowAssumption

----------------------------------------------------------------------------
(* The type invariant. *)

\* What the tables of the guarded operations hold.
LEMMA TransitionTables ==
  ASSUME NEW o \in Transitions
  PROVE  /\ o \in Ops \ {"none", "seed", "link", "correct", "apply", "create"}
         /\ o \in EventTypes
         /\ Target[o] \in Statuses
         /\ Allowed[o] \subseteq Statuses
         /\ Allowed[o] \subseteq Unsettled
<1>1. CASE o = "fund"    BY <1>1 DEF Transitions, Ops, EventTypes, Target, Allowed, Statuses, Unsettled
<1>2. CASE o = "release" BY <1>2 DEF Transitions, Ops, EventTypes, Target, Allowed, Statuses, Unsettled
<1>3. CASE o = "cancel"  BY <1>3 DEF Transitions, Ops, EventTypes, Target, Allowed, Statuses, Unsettled
<1>4. CASE o = "split"   BY <1>4 DEF Transitions, Ops, EventTypes, Target, Allowed, Statuses, Unsettled
<1>5. CASE o = "dispute" BY <1>5 DEF Transitions, Ops, EventTypes, Target, Allowed, Statuses, Unsettled
<1>q. QED BY <1>1, <1>2, <1>3, <1>4, <1>5 DEF Transitions

\* A copy is an escrow as soon as the row it was read from exists.
LEMMA CopiesAreEscrows ==
  ASSUME NEW e \in Escrows \cup {Absent}, Exists(e)
  PROVE  /\ [e EXCEPT !.linked = TRUE] \in Escrows
         /\ [e EXCEPT !.linked = TRUE].status = e.status
         /\ \A s \in Statuses : Bumped(e, s) \in Escrows /\ Bumped(e, s).status = s
<1>1. e \in Escrows BY DEF Exists, Absent
<1>2. [e EXCEPT !.linked = TRUE] \in Escrows /\ [e EXCEPT !.linked = TRUE].status = e.status
  BY <1>1 DEF Escrows
<1>3. \A s \in Statuses : Bumped(e, s) \in Escrows /\ Bumped(e, s).status = s
  BY <1>1 DEF Escrows, Bumped
<1>q. QED BY <1>2, <1>3

LEMMA FoundIsTyped ==
  ASSUME TypeOK, NEW q \in Requests, NEW r \in Rows, NEW d
  PROVE  Found(q, r, d) \in Escrows \cup {Absent}
BY DEF TypeOK, Found

\* Every read half ends in Take, of an operation and an escrow.
LEMMA TakeTypes ==
  ASSUME TypeOK, NEW q \in Requests, NEW r \in Rows, NEW o \in Ops, o # "none",
         NEW e \in Escrows, NEW d \in BOOLEAN, Take(q, o, r, e, d),
         begun' \in 0..MaxRequests
  PROVE  TypeOK'
<1>2. memory' \in [Instances -> [Rows -> Escrows \cup {Absent}]] BY DEF TypeOK, Take
<1>3. raced' \subseteq Rows /\ corrected' \subseteq Rows BY DEF TypeOK, Take
<1>4. /\ step' \in [Requests -> {"idle", "write", "append"}]
      /\ op' \in [Requests -> Ops]
      /\ row' \in [Requests -> Rows \cup {NoRow}]
      /\ copy' \in [Requests -> Escrows \cup {Absent}]
  BY DEF TypeOK, Take
<1>5. \A p \in Requests : step'[p] # "idle" =>
        op'[p] # "none" /\ row'[p] \in Rows /\ copy'[p] \in Escrows
  BY DEF TypeOK, Take
<1>q. QED BY <1>2, <1>3, <1>4, <1>5 DEF TypeOK, Take

LEMMA DegradedIsBoolean == Degraded \subseteq BOOLEAN
BY DEF Degraded

\* Which copies the read halves take in hand.
LEMMA BeginTakes ==
  ASSUME TypeOK, NEW q \in Requests, Begin(q)
  PROVE  \E r \in Rows, o \in Ops \ {"none"}, e \in Escrows, d \in BOOLEAN :
           /\ step[q] = "idle"
           /\ Take(q, o, r, e, d)
           /\ o = "create" => db[r] = Absent /\ InHand(r) = {} /\ e.status = "pending"
                              /\ (\A t \in EventTypes : events[r][t] = 0) /\ ~d
           /\ o \in Transitions /\ ~d => db[r].status \in Allowed[o] /\ e.status = Target[o]
           /\ o = "link" /\ ~d => Exists(db[r]) /\ e.status = db[r].status
<1> PICK r \in Rows :
       \/ Create(q, r) \/ Link(q, r)
       \/ \E o \in Transitions : Transition(q, o, r)
       \/ \E s \in Statuses : Seed(q, r, s)
       \/ \E s \in Statuses : Correct(q, r, s)
       \/ \E s \in Statuses, v \in 0..MaxRequests : Apply(q, r, s, v)
  BY DEF Begin
<1>a. \A o \in {"create", "link", "seed", "correct", "apply"} : o \in Ops \ {"none"} /\ o \notin Transitions
  BY DEF Ops, EventTypes, Transitions
<1>1. CASE Create(q, r)
  <2>1. [Absent EXCEPT !.status = "pending"] \in Escrows /\ [Absent EXCEPT !.status = "pending"].status = "pending"
    BY DEF Absent, Escrows, Statuses
  <2>q. QED BY <1>1, <1>a, <2>1 DEF Create, Fresh
<1>2. CASE Link(q, r)
  <2>1. PICK d \in Degraded :
          Exists(Found(q, r, d)) /\ Take(q, "link", r, [Found(q, r, d) EXCEPT !.linked = TRUE], d)
    BY <1>2 DEF Link
  <2>2. Found(q, r, d) \in Escrows \cup {Absent} BY FoundIsTyped
  <2>3. PICK e \in Escrows : Take(q, "link", r, e, d) /\ e.status = Found(q, r, d).status
    BY <2>1, <2>2, CopiesAreEscrows
  <2>4. d \in BOOLEAN BY DegradedIsBoolean
  <2>5. step[q] = "idle" BY <1>2 DEF Link
  <2>6. ~d => Exists(db[r]) /\ e.status = db[r].status BY <2>1, <2>3 DEF Found
  <2>q. QED BY <1>a, <2>3, <2>4, <2>5, <2>6
<1>3. CASE \E o \in Transitions : Transition(q, o, r)
  <2>1. PICK o \in Transitions, d \in Degraded :
          /\ step[q] = "idle"
          /\ Found(q, r, d).status \in Allowed[o]
          /\ Take(q, o, r, Bumped(Found(q, r, d), Target[o]), d)
    BY <1>3 DEF Transition
  <2>2. Found(q, r, d) \in Escrows \cup {Absent} BY FoundIsTyped
  <2>3. /\ Bumped(Found(q, r, d), Target[o]) \in Escrows
        /\ Bumped(Found(q, r, d), Target[o]).status = Target[o]
    <3>1. Target[o] \in Statuses /\ Found(q, r, d).status \in Statuses BY <2>1, TransitionTables
    <3>2. Exists(Found(q, r, d)) BY <3>1 DEF Exists, Statuses
    <3>q. QED BY <2>2, <3>1, <3>2, CopiesAreEscrows
  <2>4. d \in BOOLEAN BY DegradedIsBoolean
  <2>5. o \in Ops \ {"none"} /\ o # "create" /\ o # "link" BY TransitionTables
  <2>6. ~d => Found(q, r, d) = db[r] BY DEF Found
  <2>q. QED BY <2>1, <2>3, <2>4, <2>5, <2>6
<1>4. CASE \E s \in Statuses : Seed(q, r, s)
  <2>1. \A s \in Statuses : [Absent EXCEPT !.status = s, !.linked = TRUE] \in Escrows
    BY DEF Absent, Escrows
  <2>q. QED BY <1>4, <1>a, <2>1 DEF Seed
<1>5. CASE \E s \in Statuses : Correct(q, r, s)
  <2>1. PICK s \in Statuses, d \in Degraded :
          step[q] = "idle" /\ Exists(Found(q, r, d)) /\ Take(q, "correct", r, Bumped(Found(q, r, d), s), d)
    BY <1>5 DEF Correct
  <2>2. Bumped(Found(q, r, d), s) \in Escrows BY <2>1, FoundIsTyped, CopiesAreEscrows
  <2>q. QED BY <1>a, <2>1, <2>2, DegradedIsBoolean
<1>6. CASE \E s \in Statuses, v \in 0..MaxRequests : Apply(q, r, s, v)
  <2>1. PICK s \in Statuses, d \in Degraded :
          step[q] = "idle" /\ Exists(Found(q, r, d)) /\ Take(q, "apply", r, Bumped(Found(q, r, d), s), d)
    BY <1>6 DEF Apply
  <2>2. Bumped(Found(q, r, d), s) \in Escrows BY <2>1, FoundIsTyped, CopiesAreEscrows
  <2>q. QED BY <1>a, <2>1, <2>2, DegradedIsBoolean
<1>q. QED BY <1>1, <1>2, <1>3, <1>4, <1>5, <1>6

LEMMA CountTypes ==
  ASSUME TypeOK, NEW q \in Requests, step[q] # "idle", NEW f \in [Rows -> [EventTypes -> Nat]]
  PROVE  Count(f, q) \in [Rows -> [EventTypes -> Nat]]
<1>1. row[q] \in Rows BY DEF TypeOK
<1>2. CASE op[q] \in Observed
  <2>1. op[q] \in EventTypes /\ f[row[q]] \in [EventTypes -> Nat] BY <1>1, <1>2
  <2>2. f[row[q]][op[q]] + 1 \in Nat BY <2>1
  <2>q. QED BY <1>1, <1>2, <2>1, <2>2 DEF Count
<1>q. QED BY <1>2 DEF Count

LEMMA FinishTypes ==
  ASSUME TypeOK, NEW q \in Requests, Finish(q)
  PROVE  /\ step' \in [Requests -> {"idle", "write", "append"}]
         /\ op' \in [Requests -> Ops]
         /\ row' \in [Requests -> Rows \cup {NoRow}]
         /\ copy' \in [Requests -> Escrows \cup {Absent}]
         /\ stored' \in [Requests -> BOOLEAN]
         /\ \A p \in Requests : step'[p] # "idle" =>
              op'[p] # "none" /\ row'[p] \in Rows /\ copy'[p] \in Escrows
BY DEF TypeOK, Finish, Ops

LEMMA WriteRowTypes ==
  ASSUME TypeOK, NEW q \in Requests, step[q] # "idle", WriteRow(q)
  PROVE  db' \in [Rows -> Escrows \cup {Absent}] /\ index' \in Rows \cup {NoRow}
BY DEF TypeOK, WriteRow

LEMMA InitTypes == Init => TypeOK
<1> SUFFICES ASSUME Init PROVE TypeOK OBVIOUS
<1>1. Active \in Escrows BY DEF Active, Escrows, Statuses
<1>2. db \in [Rows -> Escrows \cup {Absent}] /\ events \in [Rows -> [EventTypes -> Nat]]
  BY <1>1 DEF Init
<1>3. acked \in [Rows -> [EventTypes -> Nat]] BY DEF Init
<1>q. QED BY <1>2, <1>3 DEF Init, TypeOK, Ops

LEMMA NextTypes == TypeOK /\ [Next]_vars => TypeOK'
<1> SUFFICES ASSUME TypeOK, [Next]_vars PROVE TypeOK' OBVIOUS
<1>1. ASSUME NEW q \in Requests, Begin(q) PROVE TypeOK'
  <2>1. begun' \in 0..MaxRequests BY <1>1 DEF Begin, TypeOK
  <2>2. PICK r \in Rows, o \in Ops \ {"none"}, e \in Escrows, d \in BOOLEAN : Take(q, o, r, e, d)
    BY <1>1, BeginTakes
  <2>q. QED BY <2>1, <2>2, TakeTypes
<1>2. ASSUME NEW q \in Requests, Commit(q) PROVE TypeOK'
  <2>1. step[q] # "idle" BY <1>2 DEF Commit
  <2>2. events' \in [Rows -> [EventTypes -> Nat]] /\ acked' \in [Rows -> [EventTypes -> Nat]]
    BY <1>2, <2>1, CountTypes DEF Commit, TypeOK
  <2>3. db' \in [Rows -> Escrows \cup {Absent}] /\ index' \in Rows \cup {NoRow}
    BY <1>2, <2>1, WriteRowTypes DEF Commit
  <2>q. QED BY <1>2, <2>2, <2>3, FinishTypes DEF Commit, TypeOK
<1>3. ASSUME NEW q \in Requests, Partial(q) PROVE TypeOK'
  <2>1. step[q] # "idle" /\ row[q] \in Rows BY <1>3 DEF Partial, TypeOK
  <2>2. events' \in [Rows -> [EventTypes -> Nat]]
    <3>1. events' = events \/ events' = Count(events, q) BY <1>3 DEF Partial, WriteInPart
    <3>2. events \in [Rows -> [EventTypes -> Nat]] BY DEF TypeOK
    <3>q. QED BY <2>1, <3>1, <3>2, CountTypes
  <2>3. db' \in [Rows -> Escrows \cup {Absent}] /\ index' \in Rows \cup {NoRow}
    BY <1>3, <2>1 DEF Partial, WriteInPart, TypeOK
  <2>q. QED BY <1>3, <2>1, <2>2, <2>3, FinishTypes DEF Partial, TypeOK
<1>4. ASSUME NEW q \in Requests, Fallback(q) PROVE TypeOK'
  <2>1. /\ step[q] # "idle" /\ row[q] \in Rows /\ copy[q] \in Escrows
        /\ op[q] # "none" /\ Host[q] \in Instances
    BY <1>4 DEF Fallback, TypeOK
  <2>2. PICK applied \in BOOLEAN :
       /\ IF applied THEN WriteRow(q) ELSE UNCHANGED <<db, index>>
       /\ events' = IF applied THEN Count(events, q) ELSE events
       /\ stored' = [stored EXCEPT ![q] = applied /\ HasEvent(q)]
    BY <1>4 DEF Fallback
  <2>3. events' \in [Rows -> [EventTypes -> Nat]] BY <2>1, <2>2, CountTypes DEF TypeOK
  <2>4. db' \in [Rows -> Escrows \cup {Absent}] /\ index' \in Rows \cup {NoRow}
    BY <2>1, <2>2, WriteRowTypes DEF TypeOK
  <2>5. stored' \in [Requests -> BOOLEAN]
    <3>1. (applied /\ HasEvent(q)) \in BOOLEAN BY DEF HasEvent
    <3>2. stored \in [Requests -> BOOLEAN] BY DEF TypeOK
    <3>q. QED BY <2>2, <3>1, <3>2
  <2>6. memory' \in [Instances -> [Rows -> Escrows \cup {Absent}]]
    BY <1>4, <2>1 DEF Fallback, TypeOK
  <2>7. /\ step' \in [Requests -> {"idle", "write", "append"}]
        /\ UNCHANGED <<op, row, copy, acked, begun, corrected>>
        /\ raced' \subseteq Rows
        /\ \A p \in Requests : step'[p] # "idle" => p = q \/ step[p] # "idle"
    BY <1>4, <2>1 DEF Fallback, TypeOK
  <2>8. \A p \in Requests : step'[p] # "idle" =>
          op'[p] # "none" /\ row'[p] \in Rows /\ copy'[p] \in Escrows
    BY <2>1, <2>7 DEF TypeOK
  <2>q. QED BY <2>3, <2>4, <2>5, <2>6, <2>7, <2>8 DEF TypeOK
<1>5. ASSUME NEW q \in Requests, AppendEvent(q) PROVE TypeOK'
  <2>1. step[q] # "idle" BY <1>5 DEF AppendEvent
  <2>2. events' \in [Rows -> [EventTypes -> Nat]] /\ acked' \in [Rows -> [EventTypes -> Nat]]
    BY <1>5, <2>1, CountTypes DEF AppendEvent, TypeOK
  <2>q. QED BY <1>5, <2>2, FinishTypes DEF AppendEvent, TypeOK
<1>6. ASSUME NEW q \in Requests, AppendThrows(q) PROVE TypeOK'
  <2>1. step[q] # "idle" BY <1>6 DEF AppendThrows
  <2>2. events' \in [Rows -> [EventTypes -> Nat]]
    <3>1. events' = events \/ events' = Count(events, q) BY <1>6 DEF AppendThrows
    <3>2. events \in [Rows -> [EventTypes -> Nat]] BY DEF TypeOK
    <3>q. QED BY <2>1, <3>1, <3>2, CountTypes
  <2>q. QED BY <1>6, <2>2, FinishTypes DEF AppendThrows, TypeOK
<1>7. ASSUME NEW i \in Instances, Restart(i) PROVE TypeOK'
  <2>1. memory' \in [Instances -> [Rows -> Escrows \cup {Absent}]] BY <1>7 DEF Restart, TypeOK
  <2>2. stored' \in [Requests -> BOOLEAN] BY <1>7 DEF Restart, TypeOK
  <2>3. op' \in [Requests -> Ops] BY <1>7 DEF Restart, TypeOK, Ops
  <2>q. QED BY <1>7, <2>1, <2>2, <2>3 DEF Restart, TypeOK
<1>8. CASE UNCHANGED vars BY <1>8 DEF vars, dbVars, reqVars, TypeOK
<1>q. QED BY <1>1, <1>2, <1>3, <1>4, <1>5, <1>6, <1>7, <1>8 DEF Next, Write

LEMMA WriteTypes == ASSUME TypeOK, NEW q \in Requests, Write(q) PROVE TypeOK'
BY NextTypes DEF Next

\* What a write half leaves alone.
LEMMA WriteLeaves ==
  ASSUME TypeOK, NEW q \in Requests, Write(q)
  PROVE  /\ step[q] # "idle" /\ raced \subseteq raced'
         /\ \A r \in Rows : r # row[q] => db'[r] = db[r]
         /\ \A p \in Requests \ {q} : /\ step'[p] = step[p] /\ op'[p] = op[p]
                                      /\ row'[p] = row[p] /\ copy'[p] = copy[p]
         /\ \/ step'[q] = "idle" /\ op'[q] = "none" /\ row'[q] = NoRow
            \/ /\ step'[q] = "append" /\ op'[q] = op[q] /\ row'[q] = row[q]
               /\ row[q] \in raced'
         /\ step[q] = "write" => Commit(q) \/ row[q] \in raced'
         /\ Commit(q) => db' = [db EXCEPT ![row[q]] = copy[q]] /\ row'[q] = NoRow
<1>1. CASE Commit(q) BY <1>1 DEF Commit, Finish, WriteRow, TypeOK
<1>2. CASE Partial(q)
  <2>1. step[q] = "write" /\ raced' = raced \cup {row[q]} /\ Finish(q)
        /\ db' \in {db, [db EXCEPT ![row[q]] = copy[q]]}
    BY <1>2 DEF Partial, WriteInPart
  <2>2. \A r \in Rows : r # row[q] => db'[r] = db[r] BY <2>1 DEF WriteRow, TypeOK
  <2>3. ~Commit(q) \/ db' = [db EXCEPT ![row[q]] = copy[q]] BY DEF Commit, WriteRow
  <2>q. QED BY <2>1, <2>2, <2>3 DEF Finish, TypeOK
<1>3. CASE Fallback(q)
  <2>1. /\ step[q] = "write" /\ raced' = raced \cup {row[q]}
        /\ step' = [step EXCEPT ![q] = "append"] /\ UNCHANGED <<op, row, copy>>
        /\ (WriteRow(q) \/ UNCHANGED db)
    BY <1>3 DEF Fallback
  <2>2. \A r \in Rows : r # row[q] => db'[r] = db[r] BY <2>1 DEF WriteRow, TypeOK
  <2>3. ~Commit(q) BY <2>1 DEF Commit, Finish, TypeOK
  <2>q. QED BY <2>1, <2>2, <2>3 DEF TypeOK
<1>4. CASE AppendEvent(q) \/ AppendThrows(q)
  <2>1. step[q] = "append" /\ Finish(q) /\ UNCHANGED <<db, raced>>
    BY <1>4 DEF AppendEvent, AppendThrows
  <2>2. ~Commit(q) BY <2>1 DEF Commit
  <2>q. QED BY <2>1, <2>2 DEF Finish, TypeOK
<1>q. QED BY <1>1, <1>2, <1>3, <1>4 DEF Write

\* The escrow state keeps its types: above all, a request in hand always has an escrow
\* to write, never the missing row its guard should have refused. (findById and the
\* guards of every operation.)
THEOREM TypeCorrect == Spec => []TypeOK
<1>1. Init => TypeOK BY InitTypes
<1>2. TypeOK /\ [Next]_vars => TypeOK' BY NextTypes
<1>q. QED BY <1>1, <1>2, PTL DEF Spec

----------------------------------------------------------------------------
(* What a caller was told is in the outbox. The inequality alone is not inductive: a
   request whose EXEC seemed to fail, but appended its event, will report success
   without appending another one. Its event is spoken for, and no two requests may
   count on the same one. *)

\* The requests that will acknowledge an event that is in the outbox already.
Appended(r, t) == {q \in Requests : step[q] = "append" /\ stored[q] /\ row[q] = r /\ op[q] = t}

AckInv ==
  /\ \A r \in Rows, t \in Observed :
       acked[r][t] + Cardinality(Appended(r, t)) <= events[r][t]
  /\ \A r \in Rows, t \in EventTypes \ Observed : acked[r][t] = 0

LEMMA AppendedFinite ==
  ASSUME NEW r, NEW t
  PROVE  IsFiniteSet(Appended(r, t)) /\ Cardinality(Appended(r, t)) \in Nat
<1>1. Appended(r, t) \in SUBSET Requests BY DEF Appended
<1>q. QED BY <1>1, FS_Subset, FS_CardinalityType

LEMMA FewerAppended ==
  ASSUME NEW r, NEW t, Appended(r, t)' \subseteq Appended(r, t)
  PROVE  /\ Cardinality(Appended(r, t)') \in Nat
         /\ Cardinality(Appended(r, t)') <= Cardinality(Appended(r, t))
BY AppendedFinite, FS_Subset, FS_CardinalityType

LEMMA CountValue ==
  ASSUME TypeOK, NEW q \in Requests, step[q] # "idle", NEW f \in [Rows -> [EventTypes -> Nat]],
         NEW r \in Rows, NEW t \in EventTypes
  PROVE  Count(f, q)[r][t] =
           IF op[q] \in Observed /\ row[q] = r /\ op[q] = t THEN f[r][t] + 1 ELSE f[r][t]
<1>1. row[q] \in Rows BY DEF TypeOK
<1>2. CASE op[q] \in Observed
  <2>1. op[q] \in EventTypes BY <1>2
  <2>2. Count(f, q) = [f EXCEPT ![row[q]][op[q]] = f[row[q]][op[q]] + 1] BY <1>2 DEF Count
  <2>q. QED BY <1>1, <1>2, <2>1, <2>2
<1>q. QED BY <1>2 DEF Count

\* An event and its acknowledgement are counted at the same place.
LEMMA CountBoth ==
  ASSUME TypeOK, NEW q \in Requests, step[q] # "idle", NEW r \in Rows, NEW t \in EventTypes
  PROVE  \/ Count(events, q)[r][t] = events[r][t] + 1 /\ Count(acked, q)[r][t] = acked[r][t] + 1
         \/ Count(events, q)[r][t] = events[r][t] /\ Count(acked, q)[r][t] = acked[r][t]
<1>1. events \in [Rows -> [EventTypes -> Nat]] BY DEF TypeOK
<1>2. acked \in [Rows -> [EventTypes -> Nat]] BY DEF TypeOK
<1>3. Count(events, q)[r][t] =
        IF op[q] \in Observed /\ row[q] = r /\ op[q] = t THEN events[r][t] + 1 ELSE events[r][t]
  BY <1>1, CountValue
<1>4. Count(acked, q)[r][t] =
        IF op[q] \in Observed /\ row[q] = r /\ op[q] = t THEN acked[r][t] + 1 ELSE acked[r][t]
  BY <1>2, CountValue
<1>q. QED BY <1>3, <1>4

LEMMA FinishAppended ==
  ASSUME TypeOK, NEW q \in Requests, Finish(q), NEW r, NEW t
  PROVE  Appended(r, t)' = Appended(r, t) \ {q}
BY DEF Finish, Appended, TypeOK

\* Only the counters of the pair (r, t) and the requests that count on it matter.
LEMMA AckStep ==
  ASSUME TypeOK, AckInv, TypeOK',
         \A r \in Rows, t \in Observed :
           acked'[r][t] + Cardinality(Appended(r, t)') <= events'[r][t],
         \A r \in Rows, t \in EventTypes \ Observed : acked'[r][t] = acked[r][t]
  PROVE  AckInv'
BY DEF AckInv

LEMMA InitAck == Init => AckInv
<1> SUFFICES ASSUME Init PROVE AckInv OBVIOUS
<1>1. \A r, t : Appended(r, t) = {} BY DEF Init, Appended
<1>2. TypeOK BY InitTypes
<1>3. \A r \in Rows, t \in EventTypes : acked[r][t] = 0 /\ events[r][t] \in Nat
  BY <1>2 DEF Init, TypeOK
<1>q. QED BY <1>1, <1>3, FS_EmptySet DEF AckInv

LEMMA NextAck == TypeOK /\ TypeOK' /\ AckInv /\ [Next]_vars => AckInv'
<1> SUFFICES ASSUME TypeOK, TypeOK', AckInv, [Next]_vars PROVE AckInv' OBVIOUS
<1>t. \A r \in Rows, t \in EventTypes :
        /\ acked[r][t] \in Nat /\ events[r][t] \in Nat
        /\ acked'[r][t] \in Nat /\ events'[r][t] \in Nat
  BY DEF TypeOK
<1>i. \A r \in Rows, t \in Observed :
        acked[r][t] + Cardinality(Appended(r, t)) <= events[r][t]
  BY DEF AckInv
<1>1. ASSUME NEW q \in Requests, Begin(q) PROVE AckInv'
  <2>1. PICK s \in Rows, o \in Ops \ {"none"}, e \in Escrows, d \in BOOLEAN :
          step[q] = "idle" /\ Take(q, o, s, e, d)
    BY <1>1, BeginTakes
  <2>2. \A r, t : Appended(r, t)' \subseteq Appended(r, t)
    BY <2>1 DEF Take, Appended, TypeOK
  <2>3. UNCHANGED <<acked, events>> BY <2>1 DEF Take
  <2>4. ASSUME NEW r \in Rows, NEW t \in Observed
        PROVE  acked'[r][t] + Cardinality(Appended(r, t)') <= events'[r][t]
    BY <1>t, <1>i, <2>2, <2>3, FewerAppended, AppendedFinite
  <2>q. QED BY <2>3, <2>4, AckStep
<1>2. ASSUME NEW q \in Requests, Commit(q) PROVE AckInv'
  <2>1. /\ step[q] = "write" /\ Finish(q)
        /\ events' = Count(events, q) /\ acked' = Count(acked, q)
    BY <1>2 DEF Commit
  <2>2. \A r, t : Appended(r, t)' \subseteq Appended(r, t) BY <2>1, FinishAppended
  <2>3. events \in [Rows -> [EventTypes -> Nat]] /\ acked \in [Rows -> [EventTypes -> Nat]]
    BY DEF TypeOK
  <2>4. ASSUME NEW r \in Rows, NEW t \in Observed
        PROVE  acked'[r][t] + Cardinality(Appended(r, t)') <= events'[r][t]
    <3>1. \/ events'[r][t] = events[r][t] + 1 /\ acked'[r][t] = acked[r][t] + 1
          \/ events'[r][t] = events[r][t] /\ acked'[r][t] = acked[r][t]
      BY <2>1, CountBoth
    <3>q. QED BY <1>t, <1>i, <2>2, <3>1, FewerAppended, AppendedFinite
  <2>5. ASSUME NEW r \in Rows, NEW t \in EventTypes \ Observed
        PROVE  acked'[r][t] = acked[r][t]
    <3>1. step[q] # "idle" /\ ~(op[q] \in Observed /\ op[q] = t) BY <2>1
    <3>2. acked \in [Rows -> [EventTypes -> Nat]] BY <2>3
    <3>3. Count(acked, q)[r][t] = acked[r][t] BY <3>1, <3>2, CountValue
    <3>q. QED BY <2>1, <3>3
  <2>q. QED BY <2>4, <2>5, AckStep
<1>3. ASSUME NEW q \in Requests, Partial(q) PROVE AckInv'
  <2>1. /\ step[q] = "write" /\ Finish(q) /\ UNCHANGED acked
        /\ events' = events \/ events' = Count(events, q)
    BY <1>3 DEF Partial, WriteInPart
  <2>2. \A r, t : Appended(r, t)' \subseteq Appended(r, t) BY <2>1, FinishAppended
  <2>3. events \in [Rows -> [EventTypes -> Nat]] BY DEF TypeOK
  <2>4. ASSUME NEW r \in Rows, NEW t \in Observed
        PROVE  acked'[r][t] + Cardinality(Appended(r, t)') <= events'[r][t]
    <3>1. events'[r][t] >= events[r][t] BY <1>t, <2>1, <2>3, CountValue
    <3>q. QED BY <1>t, <1>i, <2>1, <2>2, <3>1, FewerAppended, AppendedFinite
  <2>q. QED BY <2>1, <2>4, AckStep
<1>4. ASSUME NEW q \in Requests, Fallback(q) PROVE AckInv'
  <2>1. PICK applied \in BOOLEAN :
       /\ events' = IF applied THEN Count(events, q) ELSE events
       /\ stored' = [stored EXCEPT ![q] = applied /\ HasEvent(q)]
    BY <1>4 DEF Fallback
  <2>2. /\ step[q] = "write" /\ UNCHANGED <<op, row, acked>>
        /\ step' = [step EXCEPT ![q] = "append"]
    BY <1>4 DEF Fallback
  <2>3. events \in [Rows -> [EventTypes -> Nat]] BY DEF TypeOK
  <2>4. ASSUME NEW r \in Rows, NEW t \in Observed
        PROVE  acked'[r][t] + Cardinality(Appended(r, t)') <= events'[r][t]
    <3>1. q \notin Appended(r, t) BY <2>2 DEF Appended
    <3>2. CASE applied /\ row[q] = r /\ op[q] = t
      <4>0. step'[q] = "append" /\ stored'[q] /\ row'[q] = r /\ op'[q] = t
        BY <2>1, <2>2, <3>2 DEF HasEvent, TypeOK
      <4>1. Appended(r, t)' = Appended(r, t) \cup {q}
        <5>1. ASSUME NEW p \in Requests, p # q
              PROVE  UNCHANGED <<step[p], stored[p], row[p], op[p]>>
          BY <2>1, <2>2, <5>1 DEF TypeOK
        <5>q. QED BY <4>0, <5>1 DEF Appended
      <4>2. Cardinality(Appended(r, t)') = Cardinality(Appended(r, t)) + 1
        BY <3>1, <4>1, AppendedFinite, FS_AddElement
      <4>3. events'[r][t] = events[r][t] + 1 BY <2>1, <2>2, <2>3, <3>2, CountValue
      <4>q. QED BY <1>t, <1>i, <2>2, <4>2, <4>3, AppendedFinite
    <3>3. CASE ~(applied /\ row[q] = r /\ op[q] = t)
      <4>1. Appended(r, t)' \subseteq Appended(r, t)
        BY <2>1, <2>2, <3>3 DEF Appended, TypeOK
      <4>2. events'[r][t] = events[r][t] BY <2>1, <2>2, <2>3, <3>3, CountValue
      <4>q. QED BY <1>t, <1>i, <2>2, <4>1, <4>2, FewerAppended, AppendedFinite
    <3>q. QED BY <3>2, <3>3
  <2>q. QED BY <2>2, <2>4, AckStep
<1>5. ASSUME NEW q \in Requests, AppendEvent(q) PROVE AckInv'
  <2>1. /\ step[q] = "append" /\ Finish(q) /\ acked' = Count(acked, q)
        /\ events' = IF stored[q] THEN events ELSE Count(events, q)
    BY <1>5 DEF AppendEvent
  <2>2. events \in [Rows -> [EventTypes -> Nat]] /\ acked \in [Rows -> [EventTypes -> Nat]]
    BY DEF TypeOK
  <2>3. ASSUME NEW r \in Rows, NEW t \in Observed
        PROVE  acked'[r][t] + Cardinality(Appended(r, t)') <= events'[r][t]
    <3>1. CASE stored[q] /\ row[q] = r /\ op[q] = t
      <4>1. q \in Appended(r, t) /\ Appended(r, t)' = Appended(r, t) \ {q}
        BY <2>1, <3>1, FinishAppended DEF Appended
      <4>2. Cardinality(Appended(r, t)') = Cardinality(Appended(r, t)) - 1
        BY <4>1, AppendedFinite, FS_RemoveElement
      <4>3. events'[r][t] = events[r][t] BY <2>1, <3>1
      <4>4. acked'[r][t] = acked[r][t] + 1 BY <2>1, <2>2, <3>1, CountValue
      <4>q. QED BY <1>t, <1>i, <4>2, <4>3, <4>4, AppendedFinite
    <3>2. CASE ~(stored[q] /\ row[q] = r /\ op[q] = t)
      <4>1. Appended(r, t)' \subseteq Appended(r, t) BY <2>1, FinishAppended
      <4>2. \/ events'[r][t] = events[r][t] + 1 /\ acked'[r][t] = acked[r][t] + 1
            \/ events'[r][t] = events[r][t] /\ acked'[r][t] = acked[r][t]
        <5>1. CASE ~stored[q] BY <2>1, <5>1, CountBoth
        <5>2. CASE stored[q]
          <6>1. ~(op[q] \in Observed /\ row[q] = r /\ op[q] = t) BY <3>2, <5>2
          <6>2. acked \in [Rows -> [EventTypes -> Nat]] BY <2>2
          <6>3. step[q] # "idle" BY <2>1
          <6>4. Count(acked, q)[r][t] = acked[r][t] BY <6>1, <6>2, <6>3, CountValue
          <6>q. QED BY <2>1, <5>2, <6>4
        <5>q. QED BY <5>1, <5>2
      <4>q. QED BY <1>t, <1>i, <4>1, <4>2, FewerAppended, AppendedFinite
    <3>q. QED BY <3>1, <3>2
  <2>4. ASSUME NEW r \in Rows, NEW t \in EventTypes \ Observed
        PROVE  acked'[r][t] = acked[r][t]
    <3>1. step[q] # "idle" /\ ~(op[q] \in Observed /\ op[q] = t) BY <2>1
    <3>2. acked \in [Rows -> [EventTypes -> Nat]] BY <2>2
    <3>3. Count(acked, q)[r][t] = acked[r][t] BY <3>1, <3>2, CountValue
    <3>q. QED BY <2>1, <3>3
  <2>q. QED BY <2>3, <2>4, AckStep
<1>6. ASSUME NEW q \in Requests, AppendThrows(q) PROVE AckInv'
  <2>1. /\ step[q] = "append" /\ Finish(q) /\ UNCHANGED acked
        /\ events' = events \/ events' = Count(events, q)
    BY <1>6 DEF AppendThrows
  <2>2. \A r, t : Appended(r, t)' \subseteq Appended(r, t) BY <2>1, FinishAppended
  <2>3. events \in [Rows -> [EventTypes -> Nat]] BY DEF TypeOK
  <2>4. ASSUME NEW r \in Rows, NEW t \in Observed
        PROVE  acked'[r][t] + Cardinality(Appended(r, t)') <= events'[r][t]
    <3>1. events'[r][t] >= events[r][t] BY <1>t, <2>1, <2>3, CountValue
    <3>q. QED BY <1>t, <1>i, <2>1, <2>2, <3>1, FewerAppended, AppendedFinite
  <2>q. QED BY <2>1, <2>4, AckStep
<1>7. ASSUME NEW i \in Instances, Restart(i) PROVE AckInv'
  <2>1. \A r, t : Appended(r, t)' \subseteq Appended(r, t) BY <1>7 DEF Restart, Appended
  <2>2. UNCHANGED <<acked, events>> BY <1>7 DEF Restart
  <2>3. ASSUME NEW r \in Rows, NEW t \in Observed
        PROVE  acked'[r][t] + Cardinality(Appended(r, t)') <= events'[r][t]
    BY <1>t, <1>i, <2>1, <2>2, FewerAppended, AppendedFinite
  <2>q. QED BY <2>2, <2>3, AckStep
<1>8. CASE UNCHANGED vars
  <2>1. UNCHANGED <<acked, events, step, op, row, stored>> BY <1>8 DEF vars, dbVars, reqVars
  <2>q. QED BY <2>1 DEF AckInv, Appended
<1>q. QED BY <1>1, <1>2, <1>3, <1>4, <1>5, <1>6, <1>7, <1>8 DEF Next, Write

\* For any number of instances and requests, in any order, however often an EXEC fails
\* half-way or its answer is lost: no caller was told of a transition whose event is not
\* in the outbox. (persist, create, rethrowIfInconsistent, outbox.append.)
THEOREM AcknowledgedIsPublished == Spec => []AckedIsPublished
<1>1. Init => TypeOK /\ AckInv BY InitTypes, InitAck
<1>2. (TypeOK /\ AckInv) /\ [Next]_vars => (TypeOK /\ AckInv)' BY NextTypes, NextAck
<1>3. TypeOK /\ AckInv => AckedIsPublished
  <2> SUFFICES ASSUME TypeOK, AckInv, NEW r \in Rows, NEW t \in EventTypes
               PROVE  acked[r][t] <= events[r][t]
    BY DEF AckedIsPublished
  <2>1. acked[r][t] \in Nat /\ events[r][t] \in Nat BY DEF TypeOK
  <2>2. CASE t \in Observed BY <2>1, <2>2, AppendedFinite DEF AckInv
  <2>3. CASE t \notin Observed BY <2>1, <2>3 DEF AckInv
  <2>q. QED BY <2>2, <2>3
<1>q. QED BY <1>1, <1>2, <1>3, PTL DEF Spec

----------------------------------------------------------------------------
(* What the guards are worth. A guard looks at a copy; the invariant says that, for a
   row that is neither raced nor corrected, the copy still agrees with Redis when it is
   written back: at most one request has the row in hand, and what its guard saw is
   still so. Every event type has to be counted for events to tell the status. *)

\* What the guard of the request that has r in hand saw is still so.
StillAllowed(q, r) ==
  /\ step[q] = "write"
  /\ op[q] \in {"create", "link"} \cup Transitions
  /\ op[q] = "create" => copy[q].status = "pending" /\ \A t \in EventTypes : events[r][t] = 0
  /\ op[q] \in Transitions => db[r].status \in Allowed[op[q]] /\ copy[q].status = Target[op[q]]
  /\ op[q] = "link" => copy[q].status = db[r].status

RowInv(r) ==
  /\ \A p, q \in InHand(r) : p = q
  /\ \A q \in InHand(r) : StillAllowed(q, r)
  /\ events[r]["release"] + events[r]["split"] + events[r]["cancel"] <= 1
  /\ db[r].status = Replayed(r)

GuardInv ==
  /\ \A q \in Requests : step[q] = "idle" => row[q] = NoRow
  /\ \A r \in Rows \ (raced \cup corrected) : RowInv(r)

\* A row that a step leaves alone, and that no further request takes in hand, keeps RowInv.
LEMMA RowKept ==
  ASSUME NEW r, RowInv(r), db'[r] = db[r], events'[r] = events[r],
         InHand(r)' \subseteq InHand(r),
         \A p \in InHand(r)' : step'[p] = step[p] /\ op'[p] = op[p] /\ copy'[p] = copy[p]
  PROVE  RowInv(r)'
<1>1. \A p \in InHand(r)' : StillAllowed(p, r)' BY DEF RowInv, StillAllowed
<1>2. Replayed(r)' = Replayed(r) BY DEF Replayed
<1>3. \A p, q \in InHand(r)' : p = q BY DEF RowInv
<1>q. QED BY <1>1, <1>2, <1>3 DEF RowInv

LEMMA FinishInHand ==
  ASSUME TypeOK, NEW q \in Requests, Finish(q), NEW r \in Rows
  PROVE  /\ InHand(r)' = InHand(r) \ {q}
         /\ \A p \in InHand(r)' : step'[p] = step[p] /\ op'[p] = op[p] /\ copy'[p] = copy[p]
BY DEF Finish, InHand, TypeOK

\* The events before and after a guarded operation, and the statuses they replay to.
LEMMA HistoryOfTransition ==
  ASSUME NEW r, NEW o \in Transitions,
         events[r] \in [EventTypes -> Nat], events'[r] = [events[r] EXCEPT ![o] = @ + 1],
         Replayed(r) \in Allowed[o],
         events[r]["release"] + events[r]["split"] + events[r]["cancel"] <= 1
  PROVE  /\ events'[r]["release"] + events'[r]["split"] + events'[r]["cancel"] <= 1
         /\ Replayed(r)' = Target[o]
<1>1. \A t \in {"create", "fund", "dispute", "release", "split", "cancel"} : events[r][t] \in Nat
  BY DEF EventTypes, Transitions
<1>2. \A t \in {"create", "fund", "dispute", "release", "split", "cancel"} :
        events'[r][t] = IF t = o THEN events[r][t] + 1 ELSE events[r][t]
  BY DEF EventTypes, Transitions
<1>3. events[r]["release"] = 0 /\ events[r]["split"] = 0 /\ events[r]["cancel"] = 0
  BY <1>1, TransitionTables DEF Replayed, Unsettled
<1>4. CASE o = "fund"
  <2>1. Allowed[o] = {"pending"} /\ Target[o] = "active" BY <1>4 DEF Allowed, Target
  <2>2. events[r]["dispute"] = 0 /\ events[r]["fund"] = 0 BY <1>1, <1>3, <2>1 DEF Replayed
  <2>q. QED BY <1>1, <1>2, <1>3, <1>4, <2>1, <2>2 DEF Replayed
<1>5. CASE o = "dispute"
  <2>1. Target[o] = "disputed" BY <1>5 DEF Target
  <2>q. QED BY <1>1, <1>2, <1>3, <1>5, <2>1 DEF Replayed
<1>6. CASE o = "cancel"
  <2>1. Target[o] = "cancelled" BY <1>6 DEF Target
  <2>q. QED BY <1>1, <1>2, <1>3, <1>6, <2>1 DEF Replayed
<1>7. CASE o \in {"release", "split"}
  <2>1. Target[o] = "released" BY <1>7 DEF Target
  <2>q. QED BY <1>1, <1>2, <1>3, <1>7, <2>1 DEF Replayed
<1>q. QED BY <1>4, <1>5, <1>6, <1>7 DEF Transitions

LEMMA InitGuard == Observed = EventTypes /\ Init => GuardInv
<1> SUFFICES ASSUME Observed = EventTypes, Init PROVE GuardInv OBVIOUS
<1>1. \A r \in Rows : InHand(r) = {} BY DEF Init, InHand
<1>2. ASSUME NEW r \in Rows
      PROVE  /\ events[r]["release"] + events[r]["split"] + events[r]["cancel"] <= 1
             /\ db[r].status = Replayed(r)
  <2>1. PICK F \in SUBSET Funded :
          /\ db = [s \in Rows |-> IF s \in F THEN Active ELSE Absent]
          /\ events = [s \in Rows |-> [t \in EventTypes |->
                         IF s \in F /\ t \in Observed \cap {"create", "fund"} THEN 1 ELSE 0]]
    BY DEF Init
  <2>2. \A t \in {"create", "fund", "dispute", "release", "split", "cancel"} :
          events[r][t] = IF r \in F /\ t \in {"create", "fund"} THEN 1 ELSE 0
    BY <2>1 DEF EventTypes, Transitions
  <2>3. db[r].status = IF r \in F THEN "active" ELSE "none" BY <2>1 DEF Active, Absent
  <2>q. QED BY <2>2, <2>3 DEF Replayed
<1>q. QED BY <1>1, <1>2 DEF GuardInv, RowInv, Init

LEMMA BeginGuard ==
  ASSUME TypeOK, GuardInv, NEW q \in Requests, Begin(q)
  PROVE  GuardInv'
<1>1. PICK r \in Rows, o \in Ops \ {"none"}, e \in Escrows, d \in BOOLEAN :
           /\ step[q] = "idle"
           /\ Take(q, o, r, e, d)
           /\ o = "create" => db[r] = Absent /\ InHand(r) = {} /\ e.status = "pending"
                              /\ (\A t \in EventTypes : events[r][t] = 0) /\ ~d
           /\ o \in Transitions /\ ~d => db[r].status \in Allowed[o] /\ e.status = Target[o]
           /\ o = "link" /\ ~d => Exists(db[r]) /\ e.status = db[r].status
  BY BeginTakes
<1>2. /\ step'[q] = "write" /\ op'[q] = o /\ row'[q] = r /\ copy'[q] = e
      /\ \A p \in Requests \ {q} : /\ step'[p] = step[p] /\ op'[p] = op[p]
                                   /\ row'[p] = row[p] /\ copy'[p] = copy[p]
      /\ UNCHANGED <<db, events>>
  BY <1>1 DEF Take, TypeOK
<1>3. row[q] = NoRow BY <1>1 DEF GuardInv
<1>4. \A p \in Requests : step'[p] = "idle" => row'[p] = NoRow BY <1>2 DEF GuardInv
<1>5. raced \subseteq raced' /\ corrected \subseteq corrected' BY <1>1 DEF Take
<1>6. ASSUME NEW s \in Rows \ (raced' \cup corrected') PROVE RowInv(s)'
  <2>1. RowInv(s) BY <1>5, <1>6 DEF GuardInv
  <2>2. CASE s # r
    <3>1. InHand(s)' \subseteq InHand(s) BY <1>2, <2>2 DEF InHand
    <3>2. \A p \in InHand(s)' : step'[p] = step[p] /\ op'[p] = op[p] /\ copy'[p] = copy[p]
      BY <1>2, <2>2 DEF InHand
    <3>q. QED BY <1>2, <2>1, <3>1, <3>2, RowKept
  <2>3. CASE s = r
    <3>1. InHand(r) = {} /\ ~d /\ o \notin {"seed", "correct", "apply"}
      BY <1>1, <1>6, <2>3 DEF Take
    <3>2. InHand(r)' = {q} BY <1>2, <3>1 DEF InHand
    <3>3. StillAllowed(q, r)'
      <4>1. o \in {"create", "link"} \cup Transitions BY <3>1 DEF Ops, EventTypes
      <4>q. QED BY <1>1, <1>2, <3>1, <4>1 DEF StillAllowed
    <3>4. Replayed(r)' = Replayed(r) BY <1>2 DEF Replayed
    <3>q. QED BY <1>2, <2>1, <2>3, <3>2, <3>3, <3>4 DEF RowInv
  <2>q. QED BY <2>2, <2>3
<1>q. QED BY <1>4, <1>6 DEF GuardInv

\* A write half of q leaves the other rows alone, and ends with q idle or in "append".
LEMMA WriteElsewhere ==
  ASSUME TypeOK, GuardInv, NEW q \in Requests, Write(q),
         NEW r \in Rows \ (raced \cup corrected), r # row[q]
  PROVE  RowInv(r)'
<1>1. RowInv(r) BY DEF GuardInv
<1>2. db'[r] = db[r] BY DEF Write, Commit, Partial, WriteInPart, Fallback, AppendEvent, AppendThrows, WriteRow, TypeOK
<1>3. events' = events \/ events' = Count(events, q)
  BY DEF Write, Commit, Partial, WriteInPart, Fallback, AppendEvent, AppendThrows
<1>4. events'[r] = events[r] BY <1>3 DEF Count, TypeOK
<1>5. /\ InHand(r)' \subseteq InHand(r)
      /\ \A p \in InHand(r)' : step'[p] = step[p] /\ op'[p] = op[p] /\ copy'[p] = copy[p]
  <2>1. CASE Finish(q) BY <2>1, FinishInHand
  <2>2. CASE Fallback(q) BY <2>2 DEF Fallback, InHand, TypeOK
  <2>q. QED BY <2>1, <2>2 DEF Write, Commit, Partial, AppendEvent, AppendThrows
<1>q. QED BY <1>1, <1>2, <1>4, <1>5, RowKept

LEMMA CommitGuard ==
  ASSUME Observed = EventTypes, TypeOK, GuardInv, NEW q \in Requests, Commit(q),
         NEW r \in Rows \ (raced \cup corrected), r = row[q]
  PROVE  RowInv(r)'
<1>1. step[q] # "idle" /\ q \in InHand(r) BY DEF Commit, TypeOK, InHand
<1>2. RowInv(r) /\ StillAllowed(q, r) BY <1>1 DEF GuardInv, RowInv
<1>3. Finish(q) /\ events' = Count(events, q) /\ db' = [db EXCEPT ![r] = copy[q]]
  BY DEF Commit, WriteRow
<1>4. InHand(r)' = {} BY <1>1, <1>2, <1>3, FinishInHand DEF RowInv
<1>5. db'[r].status = copy[q].status BY <1>1, <1>3 DEF TypeOK
<1>6. events[r] \in [EventTypes -> Nat] BY <1>1 DEF TypeOK
<1>7. op[q] \in EventTypes => events'[r] = [events[r] EXCEPT ![op[q]] = @ + 1]
  BY <1>1, <1>3 DEF Count, TypeOK
<1>8. /\ events'[r]["release"] + events'[r]["split"] + events'[r]["cancel"] <= 1
      /\ copy[q].status = Replayed(r)'
  <2>1. CASE op[q] \in Transitions
    <3>1. Replayed(r) \in Allowed[op[q]] /\ copy[q].status = Target[op[q]]
      BY <1>2, <2>1 DEF RowInv, StillAllowed
    <3>2. events'[r] = [events[r] EXCEPT ![op[q]] = @ + 1] BY <1>7, <2>1 DEF EventTypes
    <3>q. QED BY <1>2, <1>6, <2>1, <3>1, <3>2, HistoryOfTransition DEF RowInv
  <2>2. CASE op[q] = "create"
    <3>1. \A t \in EventTypes : events'[r][t] = IF t = "create" THEN 1 ELSE 0
      BY <1>2, <1>6, <1>7, <2>2 DEF StillAllowed, EventTypes
    <3>2. \A t \in {"create", "fund", "dispute", "release", "split", "cancel"} :
            events'[r][t] = IF t = "create" THEN 1 ELSE 0
      BY <3>1 DEF EventTypes, Transitions
    <3>3. copy[q].status = "pending" BY <1>2, <2>2 DEF StillAllowed
    <3>q. QED BY <3>2, <3>3 DEF Replayed
  <2>3. CASE op[q] = "link"
    <3>1. events' = events BY <1>3, <2>3 DEF Count, EventTypes, Transitions
    <3>2. Replayed(r)' = Replayed(r) BY <3>1 DEF Replayed
    <3>q. QED BY <1>2, <2>3, <3>1, <3>2 DEF RowInv, StillAllowed
  <2>q. QED BY <1>2, <2>1, <2>2, <2>3 DEF StillAllowed
<1>q. QED BY <1>4, <1>5, <1>8 DEF RowInv

LEMMA WriteGuard ==
  ASSUME Observed = EventTypes, TypeOK, GuardInv, NEW q \in Requests, Write(q)
  PROVE  GuardInv'
<1>1. \A p \in Requests : step'[p] = "idle" => row'[p] = NoRow
  <2>1. CASE Finish(q) BY <2>1 DEF Finish, TypeOK, GuardInv
  <2>2. CASE Fallback(q) BY <2>2 DEF Fallback, TypeOK, GuardInv
  <2>q. QED BY <2>1, <2>2 DEF Write, Commit, Partial, AppendEvent, AppendThrows
<1>2. raced \subseteq raced' /\ corrected \subseteq corrected'
  BY DEF Write, Commit, Partial, Fallback, AppendEvent, AppendThrows
<1>3. ASSUME NEW r \in Rows \ (raced' \cup corrected') PROVE RowInv(r)'
  <2>0. r \in Rows \ (raced \cup corrected) BY <1>2
  <2>1. CASE r # row[q] BY <2>0, <2>1, WriteElsewhere
  <2>2. CASE r = row[q]
    <3>1. CASE Commit(q) BY <2>0, <2>2, <3>1, CommitGuard
    <3>2. CASE Partial(q) \/ Fallback(q) BY <2>2, <3>2 DEF Partial, Fallback
    <3>3. CASE AppendEvent(q) \/ AppendThrows(q)
      <4>1. step[q] = "append" BY <3>3 DEF AppendEvent, AppendThrows
      <4>2. StillAllowed(q, r) BY <2>0, <2>2 DEF GuardInv, RowInv, InHand
      <4>q. QED BY <4>1, <4>2 DEF StillAllowed
    <3>q. QED BY <3>1, <3>2, <3>3 DEF Write
  <2>q. QED BY <2>1, <2>2
<1>q. QED BY <1>1, <1>3 DEF GuardInv

LEMMA NextGuard ==
  Observed = EventTypes /\ TypeOK /\ GuardInv /\ [Next]_vars => GuardInv'
<1> SUFFICES ASSUME Observed = EventTypes, TypeOK, GuardInv, [Next]_vars PROVE GuardInv'
  OBVIOUS
<1>1. ASSUME NEW q \in Requests, Begin(q) PROVE GuardInv' BY <1>1, BeginGuard
<1>2. ASSUME NEW q \in Requests, Write(q) PROVE GuardInv' BY <1>2, WriteGuard
<1>3. ASSUME NEW i \in Instances, Restart(i) PROVE GuardInv'
  <2>1. UNCHANGED <<db, events, raced, corrected>> BY <1>3 DEF Restart
  <2>2. \A q \in Requests : step'[q] = "idle" => row'[q] = NoRow
    BY <1>3 DEF Restart, GuardInv, TypeOK
  <2>3. ASSUME NEW r \in Rows \ (raced' \cup corrected') PROVE RowInv(r)'
    <3>1. RowInv(r) BY <2>1 DEF GuardInv
    <3>2. /\ InHand(r)' \subseteq InHand(r)
          /\ \A p \in InHand(r)' : step'[p] = step[p] /\ op'[p] = op[p] /\ copy'[p] = copy[p]
      BY <1>3 DEF Restart, InHand, TypeOK
    <3>q. QED BY <2>1, <3>1, <3>2, RowKept
  <2>q. QED BY <2>2, <2>3 DEF GuardInv
<1>4. CASE UNCHANGED vars
  <2>1. UNCHANGED <<db, events, step, op, row, copy, raced, corrected>>
    BY <1>4 DEF vars, dbVars, reqVars
  <2>2. ASSUME NEW r \in Rows \ (raced' \cup corrected') PROVE RowInv(r)'
    <3>1. RowInv(r) BY <2>1 DEF GuardInv
    <3>2. InHand(r)' = InHand(r) BY <2>1 DEF InHand
    <3>q. QED BY <2>1, <3>1, <3>2, RowKept
  <2>q. QED BY <2>1, <2>2 DEF GuardInv
<1>q. QED BY <1>1, <1>2, <1>3, <1>4 DEF Next

\* The invariant both theorems below rest on.
LEMMA GuardsHold == ASSUME Observed = EventTypes PROVE Spec => [](TypeOK /\ GuardInv)
<1>1. Init => TypeOK /\ GuardInv BY InitTypes, InitGuard
<1>2. (TypeOK /\ GuardInv) /\ [Next]_vars => (TypeOK /\ GuardInv)' BY NextTypes, NextGuard
<1>q. QED BY <1>1, <1>2, PTL DEF Spec

\* However many instances and requests there are: an escrow is settled twice only if two
\* requests had it in hand at once, a fault hit one of them, or something bypassed the
\* guards. (Guards of release, cancel and split.)
THEOREM SettlesOnce == ASSUME Observed = EventTypes PROVE Spec => []SettledOnce
<1>1. TypeOK /\ GuardInv => SettledOnce BY DEF GuardInv, RowInv, SettledOnce
<1>q. QED BY <1>1, GuardsHold, PTL

\* Under the same conditions replaying the events of a row gives its status: no change is
\* silent, none is announced and not made. (State and event share one MULTI.)
THEOREM EventsTellTheStatus ==
  ASSUME Observed = EventTypes PROVE Spec => []StatusIsEventHistory
<1>1. TypeOK /\ GuardInv => StatusIsEventHistory BY DEF GuardInv, RowInv, StatusIsEventHistory
<1>q. QED BY <1>1, GuardsHold, PTL
=============================================================================

----------------------------- MODULE ChainProofs -----------------------------
(* Theorems of what the workers read of the chain: the endpoints, the indexer and the    *)
(* ingestion, for any events, ledgers, instances, requests and faults; and with them the *)
(* types of all of Workers.                                                              *)
EXTENDS WorkersProofs

(* The RPC endpoints. *)
USE FailoverAssumption

LEMMA FailoverAlone == WorkersSpec => Rpc!Spec
<1>1. WorkersInit => Rpc!Init BY DEF WorkersInit
<1>2. [WorkersNext]_workersVars => [Rpc!Next]_(Rpc!vars)
  BY DEF WorkersNext, Others, workersVars, rpcVars, Rpc!vars
<1>q. QED BY <1>1, <1>2, PTL DEF WorkersSpec, Rpc!Spec, workersVars

\* Checks that were held against the current endpoint are among its failures.
FailuresCount == held <= failureCount[current] /\ Rpc!LeftInTime

LEMMA RpcMinIs ==
  /\ \A a, b \in Nat : Rpc!Min({a, b}) = IF a <= b THEN a ELSE b
  /\ \A S \in SUBSET Nat : S # {} => Rpc!Min(S) \in S
<1>1. \A a, b \in Nat : Rpc!Min({a, b}) = IF a <= b THEN a ELSE b BY DEF Rpc!Min
<1>2. ASSUME NEW S \in SUBSET Nat, S # {} PROVE Rpc!Min(S) \in S
  <2>1. \E x \in S : \A y \in S : x <= y BY <1>2, LeastOf
  <2>q. QED BY <2>1 DEF Rpc!Min
<1>q. QED BY <1>1, <1>2

LEMMA AnsweredIs ==
  ASSUME Rpc!TypeOK, NEW e \in Endpoints, NEW ok \in BOOLEAN, Rpc!Answered(e, ok)
  PROVE  /\ healthy' \in [Endpoints -> BOOLEAN] /\ failureCount' \in [Endpoints -> 0 .. MaxCount]
         /\ unchecked' \subseteq Endpoints
         /\ healthy'[e] = ok /\ \A f \in Endpoints \ {e} : failureCount'[f] = failureCount[f]
         /\ ~ok => failureCount'[e] = IF failureCount[e] < MaxCount THEN failureCount[e] + 1 ELSE MaxCount
<1> DEFINE n == IF ok THEN 0 ELSE Rpc!Min({failureCount[e] + 1, MaxCount})
<1>1. /\ healthy' = [healthy EXCEPT ![e] = ok] /\ failureCount' = [failureCount EXCEPT ![e] = n]
      /\ unchecked' = unchecked \ {e}
  BY DEF Rpc!Answered
<1>2. failureCount[e] \in 0 .. MaxCount BY DEF Rpc!TypeOK
<1>3. ~ok => n = IF failureCount[e] < MaxCount THEN failureCount[e] + 1 ELSE MaxCount BY <1>2, RpcMinIs
<1>4. n \in 0 .. MaxCount BY <1>2, <1>3
<1> HIDE DEF n
<1>q. QED BY <1>1, <1>3, <1>4 DEF Rpc!TypeOK

LEMMA NextEndpoints ==
  Rpc!TypeOK /\ FailuresCount /\ [Rpc!Next]_(Rpc!vars) => (Rpc!TypeOK /\ FailuresCount)'
<1> SUFFICES ASSUME Rpc!TypeOK, FailuresCount, [Rpc!Next]_(Rpc!vars)
             PROVE  (Rpc!TypeOK /\ FailuresCount)'
  OBVIOUS
<1>t. /\ current \in Endpoints /\ failureCount[current] \in 0 .. MaxCount /\ held \in Nat /\ Endpoints \subseteq Nat
      /\ held <= failureCount[current] /\ held < MaxUnhealthy
  BY DEF Rpc!TypeOK, FailuresCount, Rpc!LeftInTime
<1>1. CASE Rpc!Round BY <1>1 DEF Rpc!Round, Rpc!TypeOK, FailuresCount, Rpc!LeftInTime
<1>2. ASSUME NEW e \in Endpoints, NEW ok \in BOOLEAN, Rpc!Answered(e, ok), UNCHANGED current,
             held' = IF e = current THEN 0 ELSE held
      PROVE  (Rpc!TypeOK /\ FailuresCount)'
  <2>1. held' <= failureCount'[current] /\ failureCount'[current] \in 0 .. MaxCount BY <1>2, <1>t, AnsweredIs
  <2>q. QED BY <1>2, <1>t, <2>1, AnsweredIs DEF Rpc!TypeOK, FailuresCount, Rpc!LeftInTime
<1>3. ASSUME NEW e \in Endpoints, Rpc!Throw(e) PROVE (Rpc!TypeOK /\ FailuresCount)'
  <2> DEFINE good == {f \in Endpoints : healthy'[f]}
  <2>0. Rpc!Answered(e, FALSE) BY <1>3 DEF Rpc!Throw
  <2>a. /\ healthy'[e] = FALSE /\ \A f \in Endpoints \ {e} : failureCount'[f] = failureCount[f]
        /\ failureCount'[e] = IF failureCount[e] < MaxCount THEN failureCount[e] + 1 ELSE MaxCount
        /\ failureCount' \in [Endpoints -> 0 .. MaxCount]
    BY <2>0, AnsweredIs
  <2>1. current' = IF e = current /\ failureCount'[e] >= MaxUnhealthy /\ good # {} THEN Rpc!Min(good) ELSE current
    BY <1>3 DEF Rpc!Throw, Rpc!Switch
  <2>2. good # {} => Rpc!Min(good) \in good
    <3>1. good \in SUBSET Nat BY <1>t
    <3> HIDE DEF good
    <3>q. QED BY <3>1, RpcMinIs
  <2>3. e \notin good BY <2>a
  <2>4. current' \in Endpoints BY <1>t, <2>1, <2>2
  <2>5. held' = IF e # current THEN held ELSE IF current' = e /\ good # {} THEN held + 1 ELSE 0
    BY <1>3 DEF Rpc!Throw
  <2>6. held' \in Nat /\ held' <= failureCount'[current'] /\ held' < MaxUnhealthy
    <3>0. failureCount'[current'] \in Nat BY <2>4, <2>a
    <3> HIDE DEF good
    <3>1. CASE e # current BY <1>t, <2>1, <2>5, <2>a, <3>1
    <3>2. CASE e = current /\ current' = e /\ good # {}
      <4>1. failureCount'[e] < MaxUnhealthy BY <2>1, <2>2, <2>3, <2>a, <3>2
      <4>2. failureCount'[e] = failureCount[e] + 1 BY <2>a, <4>1, <1>t, <3>2
      <4>q. QED BY <1>t, <2>5, <3>2, <4>1, <4>2
    <3>3. CASE held' = 0 BY <3>0, <3>3
    <3>q. QED BY <2>5, <3>1, <3>2, <3>3
  <2>q. QED BY <2>0, <2>4, <2>6, AnsweredIs DEF Rpc!TypeOK, FailuresCount, Rpc!LeftInTime
<1>4. CASE UNCHANGED Rpc!vars BY <1>4 DEF Rpc!vars, Rpc!TypeOK, FailuresCount, Rpc!LeftInTime
<1>q. QED BY <1>1, <1>2, <1>3, <1>4 DEF Rpc!Next, Rpc!Good, Rpc!Bad

LEMMA EndpointsLeftInTime == Rpc!Spec => [](Rpc!TypeOK /\ FailuresCount)
<1>1. Rpc!Init => Rpc!TypeOK /\ FailuresCount BY DEF Rpc!Init, Rpc!TypeOK, FailuresCount, Rpc!LeftInTime
<1>q. QED BY <1>1, NextEndpoints, PTL DEF Rpc!Spec
----------------------------------------------------------------------------
(* The indexer. *)
USE IndexerAssumption

LEMMA IndexerAlone == WorkersSpec => Index!Spec
<1>1. WorkersInit => Index!Init BY DEF WorkersInit
<1>2. [WorkersNext]_workersVars => [Index!Next]_(Index!vars)
  BY DEF WorkersNext, Others, workersVars, indexVars, Index!vars
<1>q. QED BY <1>1, <1>2, PTL DEF WorkersSpec, Index!Spec, workersVars

Held == indexed \cup passedOver
\* What a poll has not stored of its range it has still to do; it moves the cursor when that is nothing.
PollsCover ==
  \A i \in Indexers :
    /\ poll[i].phase # "none" => Index!Below(poll[i].end + 1) \subseteq Held \cup poll[i].todo
    /\ poll[i].phase # "store" => poll[i].todo = {}
IndexInv == PollsCover /\ Index!IndexedUpToCursor

Polls == [phase : {"none", "store", "write"}, todo : SUBSET IndexEvents, end : 0 .. Tip, seen : 0 .. Tip]

LEMMA IndexTypesAre ==
  Index!TypeOK <=>
    /\ indexCursor \in 0 .. Tip /\ head \in 1 .. Tip /\ tail \in 1 .. head
    /\ indexed \subseteq IndexEvents /\ passedOver \subseteq IndexEvents
    /\ poll \in [Indexers -> Polls]
    /\ running \in [Indexers -> {"up", "stopping", "down"}] /\ indexFaults \in 0 .. MaxIndexFaults
BY DEF Index!TypeOK, Polls

LEMMA RangeIs ==
  ASSUME Index!TypeOK, NEW seen \in 0 .. Tip
  PROVE  LET start == Index!Start(seen)
         IN /\ start \in Nat /\ tail <= start /\ Index!End(start) \in Nat /\ Index!End(start) <= head
            /\ seen > 0 => start = seen + 1 \/ start = tail
<1>t. tail \in Nat /\ head \in Nat /\ seen \in Nat BY IndexTypesAre
<1>1. \A a, b \in Nat : Index!Max({a, b}) = IF a >= b THEN a ELSE b BY DEF Index!Max
<1>2. \A a, b \in Nat : Index!Min({a, b}) = IF a <= b THEN a ELSE b BY DEF Index!Min
<1>3. /\ Index!Start(seen) \in Nat /\ tail <= Index!Start(seen)
      /\ seen > 0 => Index!Start(seen) = seen + 1 \/ Index!Start(seen) = tail
  <2>1. CASE seen > 0 BY <1>t, <1>1, <2>1 DEF Index!Start
  <2>2. CASE ~(seen > 0)
    <3> DEFINE back == IF head > IndexLookback THEN head - IndexLookback ELSE 0
    <3>1. back \in Nat BY <1>t
    <3>2. Index!Start(seen) = Index!Max({back, tail}) BY <2>2 DEF Index!Start
    <3> HIDE DEF back
    <3>q. QED BY <1>t, <1>1, <2>2, <3>1, <3>2
  <2>q. QED BY <2>1, <2>2
<1>4. ASSUME NEW start \in Nat, tail <= start PROVE Index!End(start) \in Nat /\ Index!End(start) <= head
  <2>1. tail >= 1 BY IndexTypesAre
  <2>2. start + IndexRange - 1 \in Nat BY <1>t
  <2>q. QED BY <1>t, <1>2, <2>2 DEF Index!End
<1>q. QED BY <1>3, <1>4

LEMMA PollMoves ==
  ASSUME poll \in [Indexers -> Polls], NEW i \in Indexers, NEW p, Index!Continue(i, p), p \in Polls
  PROVE  poll' \in [Indexers -> Polls] /\ poll'[i] = p /\ \A j \in Indexers \ {i} : poll'[j] = poll[j]
BY DEF Index!Continue

\* A step of one poll that forgets no event and leaves the cursor alone.
LEMMA IndexStays ==
  ASSUME Index!TypeOK, IndexInv, NEW i \in Indexers, Held \subseteq Held', UNCHANGED indexCursor,
         \A j \in Indexers \ {i} : poll'[j] = poll[j],
         poll'[i].phase # "none" => Index!Below(poll'[i].end + 1) \subseteq Held' \cup poll'[i].todo,
         poll'[i].phase # "store" => poll'[i].todo = {}
  PROVE  IndexInv'
<1>1. ASSUME NEW j \in Indexers
      PROVE  /\ poll'[j].phase # "none" => Index!Below(poll'[j].end + 1) \subseteq Held' \cup poll'[j].todo
             /\ poll'[j].phase # "store" => poll'[j].todo = {}
  <2>1. CASE j = i BY <2>1
  <2>2. CASE j # i BY <2>2 DEF IndexInv, PollsCover
  <2>q. QED BY <2>1, <2>2
<1>2. Index!IndexedUpToCursor' BY DEF IndexInv, Index!IndexedUpToCursor, Held, Index!Below
<1>q. QED BY <1>1, <1>2 DEF IndexInv, PollsCover, Held, Index!Below

LEMMA NextIndex == Index!TypeOK /\ IndexInv /\ [Index!Next]_(Index!vars) => (Index!TypeOK /\ IndexInv)'
<1> SUFFICES ASSUME Index!TypeOK, IndexInv, [Index!Next]_(Index!vars) PROVE (Index!TypeOK /\ IndexInv)'
  OBVIOUS
<1>t. /\ indexCursor \in 0 .. Tip /\ indexCursor \in Nat /\ head \in 1 .. Tip /\ tail \in 1 .. head
      /\ indexed \subseteq IndexEvents /\ passedOver \subseteq IndexEvents
      /\ poll \in [Indexers -> Polls] /\ running \in [Indexers -> {"up", "stopping", "down"}]
      /\ indexFaults \in 0 .. MaxIndexFaults
  BY IndexTypesAre
<1>f. Index!Fault \/ UNCHANGED indexFaults => indexFaults' \in 0 .. MaxIndexFaults
  BY <1>t DEF Index!Fault
<1>n. Index!NoPoll \in Polls /\ Index!NoPoll.phase = "none" /\ Index!NoPoll.todo = {}
  BY DEF Index!NoPoll, Polls
<1>c. \A e \in Index!Below(indexCursor + 1) : e \in Held BY DEF IndexInv, Index!IndexedUpToCursor, Held
<1>p. \A i \in Indexers :
        /\ poll[i] \in Polls
        /\ poll[i].phase # "none" => Index!Below(poll[i].end + 1) \subseteq Held \cup poll[i].todo
        /\ poll[i].phase # "store" => poll[i].todo = {}
  BY <1>t DEF IndexInv, PollsCover
\* A poll that is over, without the cursor.
<1>o. ASSUME NEW i \in Indexers, Index!Continue(i, Index!NoPoll), UNCHANGED <<indexCursor, indexed, passedOver, head, tail>>,
             running' \in [Indexers -> {"up", "stopping", "down"}], Index!Fault \/ UNCHANGED indexFaults
      PROVE  (Index!TypeOK /\ IndexInv)'
  <2>1. poll' \in [Indexers -> Polls] /\ poll'[i] = Index!NoPoll /\ \A j \in Indexers \ {i} : poll'[j] = poll[j]
    BY <1>o, <1>n, <1>t, PollMoves
  <2>2. Index!TypeOK' BY <1>o, <1>f, <1>t, <2>1 DEF Index!TypeOK, Polls
  <2>3. IndexInv' BY <1>o, <1>n, <2>1, IndexStays DEF Held
  <2>q. QED BY <2>2, <2>3
<1>1. CASE Index!Grow
  <2>1. Index!TypeOK' BY <1>1, <1>t DEF Index!Grow, Index!TypeOK, Polls
  <2>q. QED BY <1>1, <2>1 DEF Index!Grow, IndexInv, PollsCover, Held, Index!Below, Index!IndexedUpToCursor
<1>2. ASSUME NEW i \in Indexers, Index!Poll(i) PROVE (Index!TypeOK /\ IndexInv)'
  <2>1. PICK seen \in {indexCursor, 0} :
          LET start == Index!Start(seen)
              found == Index!FirstPage(Index!Below(head + 1) \ Index!Below(start))
          IN /\ start <= Index!End(start)
             /\ IF seen = indexCursor THEN UNCHANGED indexFaults ELSE Index!Fault
             /\ Index!Continue(i, [phase |-> "store", todo |-> found, end |-> Index!End(start), seen |-> 0])
             /\ passedOver' = passedOver \cup (Index!Below(Index!End(start) + 1) \ (Index!Below(start) \cup found))
                                \cup (IF seen = 0 \/ start = tail THEN Index!Below(start) ELSE {})
    BY <1>2 DEF Index!Poll
  <2> DEFINE start == Index!Start(seen)
             found == Index!FirstPage(Index!Below(head + 1) \ Index!Below(start))
             end == Index!End(start)
             p == [phase |-> "store", todo |-> found, end |-> end, seen |-> 0]
  <2>0. UNCHANGED <<indexCursor, head, tail, indexed, running>> BY <1>2 DEF Index!Poll
  <2>2. seen \in 0 .. Tip BY <1>t
  <2>3. start \in Nat /\ end \in 0 .. Tip /\ (seen > 0 => start = seen + 1 \/ start = tail)
    BY <1>t, <2>2, RangeIs
  <2>4. found \subseteq IndexEvents /\ \A l : Index!Below(l) \subseteq IndexEvents
    BY DEF Index!FirstPage, Index!Below
  <2>5. /\ Index!Continue(i, p) /\ (Index!Fault \/ UNCHANGED indexFaults)
        /\ passedOver' = passedOver \cup (Index!Below(end + 1) \ (Index!Below(start) \cup found))
                             \cup (IF seen = 0 \/ start = tail THEN Index!Below(start) ELSE {})
    BY <2>1
  <2>s. seen = 0 \/ start = tail \/ Index!Below(start) \subseteq Held
    <3>1. CASE seen # 0 /\ start # tail
      <4>1. start = indexCursor + 1 BY <1>t, <2>2, <2>3, <3>1
      <4>q. QED BY <1>c, <4>1
    <3>q. QED BY <3>1
  <2>e. end \in 0 .. Tip BY <2>3
  <2> HIDE DEF start, found, end
  <2>6. p \in Polls BY <2>e, <2>4, <1>t DEF Polls
  <2>7. poll' \in [Indexers -> Polls] /\ poll'[i] = p /\ \A j \in Indexers \ {i} : poll'[j] = poll[j]
    BY <1>t, <2>5, <2>6, PollMoves
  <2>8. Held \subseteq Held' /\ passedOver' \subseteq IndexEvents BY <1>t, <2>0, <2>4, <2>5 DEF Held
  <2>9. Index!Below(end + 1) \subseteq Held' \cup found BY <2>0, <2>5, <2>s DEF Held
  <2>10. IndexInv' BY <2>0, <2>7, <2>8, <2>9, IndexStays
  <2>11. Index!TypeOK' BY <1>f, <1>t, <2>0, <2>5, <2>7, <2>8 DEF Index!TypeOK, Polls
  <2>q. QED BY <2>10, <2>11
<1>3. ASSUME NEW i \in Indexers, Index!StoreEvent(i) PROVE (Index!TypeOK /\ IndexInv)'
  <2> DEFINE e == Index!Min(poll[i].todo)
             p == [poll[i] EXCEPT !.todo = @ \ {e}]
  <2>0. /\ UNCHANGED <<indexCursor, head, tail, running>> /\ poll[i].todo # {} /\ Index!Continue(i, p)
        /\ \/ indexed' = indexed \cup {e} /\ UNCHANGED <<indexFaults, passedOver>>
           \/ Index!Fault /\ passedOver' = passedOver \cup {e} /\ UNCHANGED indexed
    BY <1>3 DEF Index!StoreEvent
  <2>1. e \in IndexEvents
    <3>1. poll[i].todo \subseteq IndexEvents BY <1>p DEF Polls
    <3>2. \E x \in poll[i].todo : \A y \in poll[i].todo : x <= y BY <2>0, <3>1, LeastOf
    <3>q. QED BY <3>1, <3>2 DEF Index!Min
  <2> HIDE DEF e
  <2>2. p \in Polls /\ p.todo = poll[i].todo \ {e} /\ p.phase = poll[i].phase /\ p.end = poll[i].end
    BY <1>p DEF Polls
  <2>3. poll' \in [Indexers -> Polls] /\ poll'[i] = p /\ \A j \in Indexers \ {i} : poll'[j] = poll[j]
    BY <1>t, <2>0, <2>2, PollMoves
  <2> HIDE DEF p
  <2>4. Held' = Held \cup {e} BY <2>0 DEF Held
  <2>5. IndexInv' BY <1>p, <2>0, <2>2, <2>3, <2>4, IndexStays
  <2>6. Index!TypeOK' BY <1>f, <1>t, <2>0, <2>1, <2>3 DEF Index!TypeOK, Polls
  <2>q. QED BY <2>5, <2>6
<1>4. ASSUME NEW i \in Indexers, Index!ReadIndexCursor(i) PROVE (Index!TypeOK /\ IndexInv)'
  <2>0. /\ UNCHANGED <<indexCursor, head, tail, indexed, running, passedOver>>
        /\ poll[i].phase = "store" /\ poll[i].todo = {}
    BY <1>4 DEF Index!ReadIndexCursor
  <2>1. CASE Index!Fault /\ Index!Continue(i, Index!NoPoll) BY <1>o, <1>t, <2>0, <2>1
  <2> DEFINE p == [poll[i] EXCEPT !.phase = "write", !.seen = indexCursor]
  <2>2. CASE Index!Continue(i, p) /\ UNCHANGED indexFaults
    <3>1. p \in Polls /\ p.todo = {} /\ p.phase = "write" /\ p.end = poll[i].end BY <1>p, <1>t, <2>0 DEF Polls
    <3> HIDE DEF p
    <3>2. poll' \in [Indexers -> Polls] /\ poll'[i] = p /\ \A j \in Indexers \ {i} : poll'[j] = poll[j]
      BY <1>t, <2>2, <3>1, PollMoves
    <3>3. IndexInv' BY <1>p, <2>0, <3>1, <3>2, IndexStays DEF Held
    <3>4. Index!TypeOK' BY <1>t, <2>0, <2>2, <3>2 DEF Index!TypeOK, Polls
    <3>q. QED BY <3>3, <3>4
  <2>q. QED BY <1>4, <2>1, <2>2 DEF Index!ReadIndexCursor
<1>5. ASSUME NEW i \in Indexers, Index!WriteIndexCursor(i) PROVE (Index!TypeOK /\ IndexInv)'
  <2>0. /\ UNCHANGED <<head, tail, indexed, running, passedOver>> /\ poll[i].phase = "write"
        /\ Index!Continue(i, Index!NoPoll)
        /\ indexCursor' \in {indexCursor, poll[i].end} /\ (Index!Fault \/ UNCHANGED indexFaults)
    BY <1>5 DEF Index!WriteIndexCursor
  <2>1. CASE indexCursor' = indexCursor BY <1>o, <1>t, <2>0, <2>1
  <2>2. CASE indexCursor' = poll[i].end
    <3>1. poll' \in [Indexers -> Polls] /\ poll'[i] = Index!NoPoll /\ \A j \in Indexers \ {i} : poll'[j] = poll[j]
      BY <1>n, <1>t, <2>0, PollMoves
    <3>2. poll[i].end \in 0 .. Tip BY <1>p DEF Polls
    <3>3. Index!TypeOK' BY <1>f, <1>t, <2>0, <2>2, <3>1, <3>2 DEF Index!TypeOK, Polls
    <3>4. Index!Below(indexCursor' + 1) \subseteq Held BY <1>p, <2>0, <2>2
    <3>5. Index!IndexedUpToCursor' BY <2>0, <3>4 DEF Index!IndexedUpToCursor, Held, Index!Below
    <3>6. PollsCover'
      <4>1. ASSUME NEW j \in Indexers
            PROVE  /\ poll'[j].phase # "none" => Index!Below(poll'[j].end + 1) \subseteq Held \cup poll'[j].todo
                   /\ poll'[j].phase # "store" => poll'[j].todo = {}
        BY <1>n, <1>p, <3>1
      <4>q. QED BY <2>0, <4>1 DEF PollsCover, Held, Index!Below
    <3>q. QED BY <3>3, <3>5, <3>6 DEF IndexInv
  <2>q. QED BY <2>0, <2>1, <2>2
<1>6. ASSUME NEW i \in Indexers, Index!Shutdown(i) PROVE (Index!TypeOK /\ IndexInv)'
  <2>0. /\ UNCHANGED <<indexCursor, head, tail, indexed, poll, indexFaults, passedOver>>
        /\ running' \in [Indexers -> {"up", "stopping", "down"}]
    BY <1>6, <1>t DEF Index!Shutdown
  <2>q. QED BY <1>t, <2>0 DEF Index!TypeOK, Polls, IndexInv, PollsCover, Held, Index!Below, Index!IndexedUpToCursor
<1>7. ASSUME NEW i \in Indexers, Index!Exit(i) PROVE (Index!TypeOK /\ IndexInv)'
  <2>0. /\ UNCHANGED <<indexCursor, head, tail, indexed, passedOver>>
        /\ running' \in [Indexers -> {"up", "stopping", "down"}]
    BY <1>7, <1>t DEF Index!Exit
  <2>1. CASE UNCHANGED <<poll, indexFaults>>
    BY <1>t, <2>0, <2>1 DEF Index!TypeOK, Polls, IndexInv, PollsCover, Held, Index!Below, Index!IndexedUpToCursor
  <2>2. CASE Index!Fault /\ Index!Continue(i, Index!NoPoll) BY <1>o, <2>0, <2>2
  <2>q. QED BY <1>7, <2>1, <2>2 DEF Index!Exit
<1>8. ASSUME NEW i \in Indexers, Index!Crash(i) PROVE (Index!TypeOK /\ IndexInv)'
  BY <1>8, <1>o, <1>t DEF Index!Crash
<1>9. CASE UNCHANGED Index!vars
  BY <1>9 DEF Index!vars, Index!TypeOK, IndexInv, PollsCover, Held, Index!Below, Index!IndexedUpToCursor
<1>q. QED BY <1>1, <1>2, <1>3, <1>4, <1>5, <1>6, <1>7, <1>8, <1>9 DEF Index!Next

LEMMA IndexerStores == Index!Spec => [](Index!TypeOK /\ IndexInv)
<1>1. ASSUME Index!Init PROVE Index!TypeOK /\ IndexInv
  <2>1. /\ indexCursor = 0 /\ head = 1 /\ tail = 1 /\ indexed = {} /\ passedOver = {} /\ indexFaults = 0
        /\ poll = [i \in Indexers |-> Index!NoPoll] /\ running = [i \in Indexers |-> "up"]
    BY <1>1 DEF Index!Init
  <2>2. Index!TypeOK BY <2>1 DEF Index!TypeOK, Index!NoPoll
  <2>3. Index!IndexedUpToCursor
    BY <2>1 DEF Index!IndexedUpToCursor, Index!Below
  <2>q. QED BY <2>1, <2>2, <2>3 DEF IndexInv, PollsCover, Index!NoPoll
<1>q. QED BY <1>1, NextIndex, PTL DEF Index!Spec
----------------------------------------------------------------------------
(* The ingestion. An event is settled when a record, a retry or a reason to leave it out is
   there; the cursor, the copies of it and the work in hand are only past settled events, or
   events they have in hand themselves. *)
USE IngestionAssumption

LEMMA IngestionAlone == WorkersSpec => Ingest!Spec
<1>1. WorkersInit => Ingest!Init BY DEF WorkersInit
<1>2. [WorkersNext]_workersVars => [Ingest!Next]_(Ingest!vars)
  BY DEF WorkersNext, Others, workersVars, ingestVars, Ingest!vars
<1>q. QED BY <1>1, <1>2, PTL DEF WorkersSpec, Ingest!Spec, workersVars

Sources == Pollers \cup Admins
Places == Ingest!Hosts
NoCursor == Ingest!NoCursor
Results == {"none", "ok", "failed"}
Memories == [record : [Events -> Results], cursor : 0 .. NoCursor]
Jobs == [kind : {"none", "poll", "single", "reorg", "retry"}, phase : {"none", "batch", "write"},
         upTo : 0 .. LastLedger, seen : 0 .. NoCursor, stage : [Events -> Ingest!Stages]]

IngestTypes ==
  /\ cursor \in 0 .. NoCursor /\ latest \in 1 .. LastLedger /\ oldest \in 1 .. latest
  /\ processed \in [Events -> Results] /\ ownEvents \in [Places -> Memories] /\ job \in [Sources -> Jobs]
  /\ requests \in 0 .. MaxRequests /\ ingestFaults \in 0 .. MaxFaults
  /\ tried \subseteq Events /\ excused \subseteq Events

InRetry(e) == \E w \in Sources : job[w].kind = "retry" /\ job[w].stage[e] # "idle"
Settled(e) == Ingest!Known(e) \/ InRetry(e) \/ e \in excused
Counted(c) == c # NoCursor => \A e \in Events : LedgerOf[e] <= c => Settled(e)

JobCovers(w) ==
  /\ job[w].kind \notin {"none", "retry"} =>
       \A e \in Events : /\ LedgerOf[e] <= job[w].upTo => Settled(e) \/ job[w].stage[e] # "idle"
                         /\ job[w].stage[e] # "idle" => LedgerOf[e] <= job[w].upTo
  /\ job[w].kind = "none" => job[w].phase = "none"
  /\ job[w].phase \in {"none", "write"} => job[w].stage = Ingest!Idle
  /\ job[w].phase = "write" => job[w].kind # "retry"
  /\ \A e \in Events :
       /\ job[w].stage[e] = "failed" => job[w].kind = "retry"
       /\ job[w].stage[e] = "handled" \/ (job[w].kind = "retry" /\ job[w].stage[e] # "idle") => e \in tried

IngestInv ==
  /\ Counted(cursor) /\ \A i \in Places : Counted(ownEvents[i].cursor)
  /\ \A w \in Sources : JobCovers(w)
  /\ \A e \in Events : Ingest!Known(e) => e \in tried
  /\ Ingest!HandledInOrder

LEMMA SourcesAre ==
  /\ Ingest!Workers = Sources /\ \A w \in Sources : Home[w] \in Places
  /\ Pollers \subseteq Sources /\ Admins \subseteq Sources
  /\ NoCursor = LastLedger + 1
  /\ Ingest!Stages = {"idle", "queued", "failed", "handled"}
BY DEF Sources, Places, Ingest!Hosts, Ingest!Workers, NoCursor, Ingest!NoCursor, Ingest!Stages

LEMMA IngestTypeCorrect == IngestTypes => Ingest!TypeOK
BY SourcesAre DEF IngestTypes, Ingest!TypeOK, Jobs, Results, NoCursor, Places

LEMMA JobMoves ==
  ASSUME job \in [Sources -> Jobs], NEW w \in Sources, NEW j, Ingest!Go(w, j), j \in Jobs
  PROVE  job' \in [Sources -> Jobs] /\ job'[w] = j /\ \A v \in Sources \ {w} : job'[v] = job[v]
BY DEF Ingest!Go

Staged(j, e, x) == [j EXCEPT !.stage[e] = x]
LEMMA StageMoves ==
  ASSUME NEW j \in Jobs, NEW e \in Events, NEW x \in Ingest!Stages
  PROVE  LET k == Staged(j, e, x)
         IN /\ k \in Jobs /\ k.stage[e] = x /\ \A f \in Events \ {e} : k.stage[f] = j.stage[f]
            /\ k.kind = j.kind /\ k.phase = j.phase /\ k.upTo = j.upTo
BY DEF Jobs, Staged

LEMMA NoJobIs ==
  /\ Ingest!NoJob \in Jobs /\ Ingest!NoJob.kind = "none" /\ Ingest!NoJob.phase = "none"
  /\ Ingest!NoJob.stage = Ingest!Idle /\ \A e \in Events : Ingest!Idle[e] = "idle"
<1>1. NoCursor \in 0 .. NoCursor /\ 0 \in 0 .. LastLedger BY SourcesAre
<1>2. Ingest!Idle \in [Events -> Ingest!Stages] BY SourcesAre DEF Ingest!Idle
<1>q. QED BY <1>1, <1>2 DEF Ingest!NoJob, Ingest!Idle, Jobs, NoCursor

\* What is written to the memory of an instance.
LEMMA MemoryMoves ==
  ASSUME ownEvents \in [Places -> Memories], NEW i \in Places, NEW r \in [Events -> Results],
         ownEvents' = [ownEvents EXCEPT ![i].record = r]
  PROVE  /\ ownEvents' \in [Places -> Memories] /\ ownEvents'[i].record = r
         /\ \A k \in Places : ownEvents'[k].cursor = ownEvents[k].cursor
         /\ \A k \in Places \ {i} : ownEvents'[k] = ownEvents[k]
BY DEF Memories

WrittenIn(i, e, x) == [ownEvents EXCEPT ![i].record[e] = x]
LEMMA RecordMoves ==
  ASSUME ownEvents \in [Places -> Memories], NEW i \in Places, NEW e \in Events, NEW x \in Results,
         ownEvents' = WrittenIn(i, e, x)
  PROVE  /\ ownEvents' \in [Places -> Memories] /\ ownEvents'[i].record[e] = x
         /\ \A k \in Places : ownEvents'[k].cursor = ownEvents[k].cursor
         /\ \A k \in Places, f \in Events : k # i \/ f # e => ownEvents'[k].record[f] = ownEvents[k].record[f]
<1> DEFINE r == [ownEvents[i].record EXCEPT ![e] = x]
<1>1. r \in [Events -> Results] /\ r[e] = x /\ \A f \in Events \ {e} : r[f] = ownEvents[i].record[f]
  BY DEF Memories
<1>2. ownEvents' = [ownEvents EXCEPT ![i].record = r] BY DEF WrittenIn
<1> HIDE DEF r
<1>3. /\ ownEvents' \in [Places -> Memories] /\ ownEvents'[i].record = r
      /\ \A k \in Places : ownEvents'[k].cursor = ownEvents[k].cursor
      /\ \A k \in Places \ {i} : ownEvents'[k] = ownEvents[k]
  BY <1>1, <1>2, MemoryMoves
<1>4. \A k \in Places, f \in Events : k # i \/ f # e => ownEvents'[k].record[f] = ownEvents[k].record[f]
  BY <1>1, <1>3
<1>q. QED BY <1>1, <1>3, <1>4

LEMMA KnownIs ==
  \A e \in Events : /\ Ingest!Known(e) <=> processed[e] # "none" \/ \E i \in Places : ownEvents[i].record[e] # "none"
                    /\ Ingest!Known(e)' <=> processed'[e] # "none" \/ \E i \in Places : ownEvents'[i].record[e] # "none"
BY DEF Ingest!Known, Places

\* What one source does leaves the others' events settled, and its own retries if it sees to them.
LEMMA SettledStays ==
  ASSUME NEW w \in Sources, \A v \in Sources \ {w} : job'[v] = job[v], excused \subseteq excused',
         \A e \in Events : Ingest!Known(e) => Settled(e)',
         \A e \in Events : job[w].kind = "retry" /\ job[w].stage[e] # "idle" => Settled(e)'
  PROVE  \A e \in Events : Settled(e) => Settled(e)'
<1> SUFFICES ASSUME NEW e \in Events, Settled(e) PROVE Settled(e)'
  OBVIOUS
<1>1. CASE Ingest!Known(e) BY <1>1
<1>2. CASE InRetry(e)
  <2>1. PICK v \in Sources : job[v].kind = "retry" /\ job[v].stage[e] # "idle" BY <1>2 DEF InRetry
  <2>2. CASE v = w BY <2>1, <2>2
  <2>3. CASE v # w BY <2>1, <2>3 DEF Settled, InRetry
  <2>q. QED BY <2>2, <2>3
<1>3. CASE e \in excused BY <1>3 DEF Settled
<1>q. QED BY <1>1, <1>2, <1>3 DEF Settled

\* A step of one source that leaves the cursors alone and hands no event on.
LEMMA IngestStays ==
  ASSUME IngestInv, NEW w \in Sources, \A v \in Sources \ {w} : job'[v] = job[v],
         excused \subseteq excused', tried \subseteq tried', UNCHANGED cursor,
         \A i \in Places : ownEvents'[i].cursor = ownEvents[i].cursor,
         \A e \in Events : Settled(e) => Settled(e)',
         \A e \in Events : Ingest!Known(e)' => e \in tried',
         JobCovers(w)', Ingest!HandledInOrder'
  PROVE  IngestInv'
<1>1. Counted(cursor)' /\ \A i \in Places : Counted(ownEvents[i].cursor)' BY DEF IngestInv, Counted
<1>2. ASSUME NEW v \in Sources PROVE JobCovers(v)'
  <2>1. CASE v = w BY <2>1
  <2>2. CASE v # w
    <3>1. job'[v] = job[v] BY <2>2
    <3>2. JobCovers(v) BY DEF IngestInv
    <3>q. QED BY <3>1, <3>2 DEF JobCovers, Ingest!Idle
  <2>q. QED BY <2>1, <2>2
<1>q. QED BY <1>1, <1>2 DEF IngestInv

LEMMA OrderStays == ASSUME IngestInv, UNCHANGED tried, excused \subseteq excused' PROVE Ingest!HandledInOrder'
BY DEF IngestInv, Ingest!HandledInOrder

LEMMA IngestMaxMin ==
  /\ \A a, b \in Nat : Ingest!Max({a, b}) = IF a >= b THEN a ELSE b
  /\ \A a, b \in Nat : Ingest!Min({a, b}) = IF a <= b THEN a ELSE b
  /\ \A S, n : n \in Nat /\ S \subseteq 0 .. n /\ S # {} => Ingest!Max(S) \in S /\ \A x \in S : x <= Ingest!Max(S)
<1>1. \A a, b \in Nat : Ingest!Max({a, b}) = IF a >= b THEN a ELSE b BY DEF Ingest!Max
<1>2. \A a, b \in Nat : Ingest!Min({a, b}) = IF a <= b THEN a ELSE b BY DEF Ingest!Min
<1>3. ASSUME NEW S, NEW n \in Nat, S \subseteq 0 .. n, S # {}
      PROVE  Ingest!Max(S) \in S /\ \A x \in S : x <= Ingest!Max(S)
  <2>1. PICK x \in S : \A y \in S : y <= x BY <1>3, GreatestOf
  <2>2. \A y \in S : x >= y BY <1>3, <2>1
  <2>3. Ingest!Max(S) \in S /\ \A y \in S : Ingest!Max(S) >= y BY <2>2 DEF Ingest!Max
  <2>4. \A y \in S : y \in Nat BY <1>3
  <2>q. QED BY <2>3, <2>4
<1>q. QED BY <1>1, <1>2, <1>3

LEMMA IngestRange ==
  ASSUME IngestTypes, NEW seen \in 0 .. NoCursor
  PROVE  /\ Ingest!StartLedger(seen, latest, oldest) \in Nat \ {0}
         /\ seen # NoCursor => \/ Ingest!StartLedger(seen, latest, oldest) = seen + 1
                               \/ Ingest!StartLedger(seen, latest, oldest) = oldest
         /\ \A start \in Nat \ {0} : Ingest!EndLedger(start, latest) \in 0 .. latest
<1>t. oldest \in Nat \ {0} /\ latest \in Nat /\ seen \in Nat BY SourcesAre DEF IngestTypes
<1>1. ASSUME NEW start \in Nat \ {0} PROVE Ingest!EndLedger(start, latest) \in 0 .. latest
  <2>1. start + MaxRange - 1 \in Nat OBVIOUS
  <2>q. QED BY <1>t, <2>1, IngestMaxMin DEF Ingest!EndLedger
<1>2. CASE seen # NoCursor
  <2>1. Ingest!StartLedger(seen, latest, oldest) = Ingest!Max({seen + 1, oldest})
    BY <1>2 DEF Ingest!StartLedger, NoCursor
  <2>q. QED BY <1>1, <1>t, <2>1, IngestMaxMin
<1>3. CASE seen = NoCursor
  <2> DEFINE back == IF latest > Lookback THEN latest - Lookback ELSE 0
  <2>1. Ingest!StartLedger(seen, latest, oldest) = Ingest!Max({back, oldest})
    BY <1>3 DEF Ingest!StartLedger, NoCursor
  <2>2. back \in Nat BY <1>t
  <2> HIDE DEF back
  <2>q. QED BY <1>1, <1>3, <1>t, <2>1, <2>2, IngestMaxMin
<1>q. QED BY <1>2, <1>3

\* What is read as the cursor counts.
LEMMA ReadCounts ==
  ASSUME IngestTypes, IngestInv, NEW w \in Sources, NEW c \in 0 .. NoCursor, Ingest!ReadCursor(w, c)
  PROVE  Counted(c) /\ ingestFaults' \in 0 .. MaxFaults
<1>1. c = cursor \/ c = ownEvents[Home[w]].cursor BY DEF Ingest!ReadCursor, Ingest!Answer
<1>2. Home[w] \in Places BY SourcesAre
<1>3. ingestFaults' \in 0 .. MaxFaults BY DEF Ingest!ReadCursor, Ingest!Answer, Ingest!Fail, IngestTypes
<1>q. QED BY <1>1, <1>2, <1>3 DEF IngestInv

\* What a batch of the ledgers a..b takes up.
LEMMA BatchIs ==
  ASSUME NEW kind \in {"poll", "single", "reorg"}, NEW a \in Nat, NEW b \in 0 .. LastLedger
  PROVE  LET j == Ingest!Batch(kind, a, b)
         IN /\ j \in Jobs /\ j.kind = kind /\ j.phase = "batch" /\ j.upTo <= b
            /\ \A e \in Events : /\ j.stage[e] \in {"idle", "queued"}
                                 /\ j.stage[e] = "queued" => LedgerOf[e] <= j.upTo
                                 /\ kind # "reorg" /\ a <= LedgerOf[e] /\ LedgerOf[e] <= b => j.stage[e] = "queued"
            /\ kind # "poll" => j.upTo = b
<1> DEFINE found == IF kind = "reorg" THEN {} ELSE Ingest!Between(a, b)
           ledgers == {LedgerOf[e] : e \in found}
           up == IF kind = "poll" /\ found # {} THEN Ingest!Max(ledgers) ELSE b
           st == [e \in Events |-> IF e \in found THEN "queued" ELSE "idle"]
           j == Ingest!Batch(kind, a, b)
<1>1. j = [kind |-> kind, phase |-> "batch", seen |-> NoCursor, upTo |-> up, stage |-> st]
  BY DEF Ingest!Batch, NoCursor
<1>2. /\ found \subseteq Events /\ \A e \in found : LedgerOf[e] \in 0 .. b
      /\ \A e \in Events : kind # "reorg" /\ a <= LedgerOf[e] /\ LedgerOf[e] <= b => e \in found
  BY DEF Ingest!Between
<1>3. ledgers \subseteq 0 .. b /\ (found # {} => ledgers # {}) /\ \A e \in found : LedgerOf[e] \in ledgers
  BY <1>2
<1>n. b \in Nat /\ b <= LastLedger OBVIOUS
<1> HIDE DEF ledgers
<1>4. up \in 0 .. LastLedger /\ up <= b /\ \A e \in found : LedgerOf[e] <= up
  <2>1. CASE kind = "poll" /\ found # {}
    <3>0. up = Ingest!Max(ledgers) BY <2>1
    <3>1. ledgers # {} BY <1>3, <2>1
    <3> HIDE DEF up, found
    <3>2. Ingest!Max(ledgers) \in ledgers /\ \A l \in ledgers : l <= Ingest!Max(ledgers)
      BY <1>3, <1>n, <3>1, IngestMaxMin
    <3>3. up \in 0 .. b BY <1>3, <3>0, <3>2
    <3>4. up \in 0 .. LastLedger /\ up <= b BY <1>n, <3>3
    <3>5. \A e \in found : LedgerOf[e] <= up BY <1>3, <3>0, <3>2
    <3>q. QED BY <3>4, <3>5
  <2>2. CASE ~(kind = "poll" /\ found # {})
    <3>1. up = b BY <2>2
    <3> HIDE DEF up
    <3>q. QED BY <1>2, <3>1
  <2>q. QED BY <2>1, <2>2
<1>5. st \in [Events -> Ingest!Stages]
      /\ \A e \in Events : st[e] = IF e \in found THEN "queued" ELSE "idle"
  BY SourcesAre
<1>6. kind # "poll" => up = b OBVIOUS
<1>7. NoCursor \in 0 .. NoCursor BY SourcesAre
<1> HIDE DEF up, st, found
<1>8. [kind |-> kind, phase |-> "batch", seen |-> NoCursor, upTo |-> up, stage |-> st] \in Jobs
  BY <1>4, <1>5, <1>7 DEF Jobs
<1> HIDE DEF j
<1>9. j \in Jobs /\ j.kind = kind /\ j.phase = "batch" /\ j.upTo = up /\ j.stage = st BY <1>1, <1>8
<1>q. QED BY <1>2, <1>4, <1>5, <1>6, <1>9 DEF j

\* A call that ingests or goes back starts from nothing in hand.
LEMMA BatchStarts ==
  ASSUME IngestTypes, IngestInv, NEW w \in Sources, job[w] = Ingest!NoJob,
         NEW kind \in {"poll", "single", "reorg"}, NEW a \in Nat, NEW b \in 0 .. LastLedger,
         Ingest!Go(w, Ingest!Batch(kind, a, b)), UNCHANGED <<cursor, tried>>, excused \subseteq excused',
         \A i \in Places : ownEvents'[i].cursor = ownEvents[i].cursor,
         \A e \in Events : Ingest!Known(e)' => Ingest!Known(e),
         \A e \in Events : Ingest!Known(e) => Ingest!Known(e)' \/ e \in excused',
         \A e \in Events : LedgerOf[e] <= b /\ (kind = "reorg" \/ LedgerOf[e] < a) => Settled(e) \/ e \in excused'
  PROVE  IngestInv' /\ job' \in [Sources -> Jobs]
<1> DEFINE j == Ingest!Batch(kind, a, b)
<1>1. /\ j \in Jobs /\ j.kind = kind /\ j.phase = "batch" /\ j.upTo <= b
      /\ \A e \in Events : /\ j.stage[e] \in {"idle", "queued"}
                           /\ j.stage[e] = "queued" => LedgerOf[e] <= j.upTo
                           /\ kind # "reorg" /\ a <= LedgerOf[e] /\ LedgerOf[e] <= b => j.stage[e] = "queued"
  BY BatchIs
<1>j. job \in [Sources -> Jobs] /\ Ingest!Go(w, j) BY DEF IngestTypes
<1> HIDE DEF j
<1>2. job' \in [Sources -> Jobs] /\ job'[w] = j /\ \A v \in Sources \ {w} : job'[v] = job[v]
  BY <1>1, <1>j, JobMoves
<1>3. \A e \in Events : Settled(e) => Settled(e)'
  <2>1. job[w].kind # "retry" BY NoJobIs
  <2>2. \A e \in Events : Ingest!Known(e) => Settled(e)' BY DEF Settled
  <2>q. QED BY <1>2, <2>1, <2>2, SettledStays
<1>4. JobCovers(w)'
  <2>1. ASSUME NEW e \in Events, LedgerOf[e] <= j.upTo, j.stage[e] = "idle" PROVE Settled(e)'
    <3>1. LedgerOf[e] \in Nat /\ j.upTo \in Nat BY <1>1 DEF Jobs
    <3>2. LedgerOf[e] <= b BY <1>1, <2>1, <3>1
    <3>3. kind = "reorg" \/ LedgerOf[e] < a BY <1>1, <2>1, <3>1, <3>2
    <3>4. Settled(e) \/ e \in excused' BY <3>2, <3>3
    <3>q. QED BY <1>3, <3>4 DEF Settled
  <2>2. \A e \in Events : j.stage[e] # "failed" /\ j.stage[e] # "handled" BY <1>1
  <2>q. QED BY <1>1, <1>2, <2>1, <2>2 DEF JobCovers
<1>5. Ingest!HandledInOrder' BY OrderStays
<1>6. \A e \in Events : Ingest!Known(e)' => e \in tried' BY DEF IngestInv
<1>q. QED BY <1>2, <1>3, <1>4, <1>5, <1>6, IngestStays

\* A poll takes up what follows the cursor it read.
LEMMA IngestPolls ==
  ASSUME IngestTypes, IngestInv, NEW w \in Pollers, Ingest!IngestEvents(w)
  PROVE  IngestInv' /\ IngestTypes'
<1>1. PICK seen \in 0 .. NoCursor :
        LET start == Ingest!StartLedger(seen, latest, oldest)
            end == Ingest!EndLedger(start, latest)
        IN /\ Ingest!ReadCursor(w, seen) /\ start <= end /\ Ingest!Go(w, Ingest!Batch("poll", start, end))
           /\ excused' = IF seen = NoCursor \/ start = oldest
                         THEN excused \cup Ingest!Between(0, start - 1) ELSE excused
  BY DEF Ingest!IngestEvents, NoCursor
<1> DEFINE start == Ingest!StartLedger(seen, latest, oldest)
           end == Ingest!EndLedger(start, latest)
<1>2. /\ job[w] = Ingest!NoJob
      /\ UNCHANGED <<cursor, latest, oldest, processed, ownEvents, requests, tried>>
  BY DEF Ingest!IngestEvents
<1>3. w \in Sources BY SourcesAre
<1>4. start \in Nat \ {0} /\ end \in 0 .. latest /\ latest \in 1 .. LastLedger
      /\ (seen # NoCursor => start = seen + 1 \/ start = oldest)
  BY IngestRange DEF IngestTypes
<1>5. Counted(seen) /\ ingestFaults' \in 0 .. MaxFaults BY <1>1, <1>3, ReadCounts
<1>6. Ingest!Go(w, Ingest!Batch("poll", start, end)) BY <1>1
<1>7. excused' = IF seen = NoCursor \/ start = oldest
                 THEN excused \cup Ingest!Between(0, start - 1) ELSE excused
  BY <1>1
<1> HIDE DEF start, end
<1>8. excused \subseteq excused' /\ excused' \subseteq Events BY <1>7 DEF Ingest!Between, IngestTypes
<1>9. ASSUME NEW e \in Events, LedgerOf[e] < start PROVE Settled(e) \/ e \in excused'
  <2>1. CASE seen = NoCursor \/ start = oldest
    <3>1. LedgerOf[e] \in 0 .. start - 1 BY <1>4, <1>9
    <3>q. QED BY <1>7, <2>1, <3>1 DEF Ingest!Between
  <2>2. CASE seen # NoCursor /\ start = seen + 1
    <3>1. LedgerOf[e] <= seen BY <1>4, <1>9, <2>2, SourcesAre
    <3>q. QED BY <1>5, <2>2, <3>1 DEF Counted
  <2>q. QED BY <1>4, <2>1, <2>2
<1>10. \A e \in Events : Ingest!Known(e)' <=> Ingest!Known(e) BY <1>2, KnownIs
<1>11. start \in Nat /\ end \in 0 .. LastLedger BY <1>4
<1>12. IngestInv' /\ job' \in [Sources -> Jobs]
  BY <1>2, <1>3, <1>6, <1>8, <1>9, <1>10, <1>11, BatchStarts
<1>q. QED BY <1>2, <1>5, <1>8, <1>12 DEF IngestTypes

LEMMA IngestOneLedger ==
  ASSUME IngestTypes, IngestInv, NEW w \in Admins, Ingest!IngestSingle(w)
  PROVE  IngestInv' /\ IngestTypes'
<1>1. PICK n \in oldest .. latest :
        /\ Ingest!Go(w, Ingest!Batch("single", n, n))
        /\ excused' = excused \cup {e \in Ingest!Between(0, n - 1) : ~Ingest!Known(e)}
  BY DEF Ingest!IngestSingle
<1>2. /\ job[w] = Ingest!NoJob
      /\ UNCHANGED <<cursor, latest, oldest, processed, ownEvents, ingestFaults, tried>>
  BY DEF Ingest!IngestSingle
<1>3. w \in Sources BY SourcesAre
<1>4. n \in Nat \ {0} /\ n \in 0 .. LastLedger BY DEF IngestTypes
<1>5. requests' \in 0 .. MaxRequests BY DEF Ingest!IngestSingle, Ingest!Call, IngestTypes
<1>8. excused \subseteq excused' /\ excused' \subseteq Events BY <1>1 DEF Ingest!Between, IngestTypes
<1>9. ASSUME NEW e \in Events, LedgerOf[e] < n PROVE Settled(e) \/ e \in excused'
  <2>1. LedgerOf[e] \in 0 .. n - 1 BY <1>4, <1>9
  <2>q. QED BY <1>1, <2>1 DEF Ingest!Between, Settled
<1>10. \A e \in Events : Ingest!Known(e)' <=> Ingest!Known(e) BY <1>2, KnownIs
<1>11. n \in Nat BY <1>4
<1>12. IngestInv' /\ job' \in [Sources -> Jobs]
  BY <1>1, <1>2, <1>3, <1>4, <1>8, <1>9, <1>10, <1>11, BatchStarts
<1>q. QED BY <1>2, <1>5, <1>8, <1>12 DEF IngestTypes

\* What a reorganisation clears, and nothing else, is no longer known.
LEMMA ReorgClears ==
  ASSUME IngestTypes, NEW w \in Sources, NEW n \in Nat, Ingest!ClearEventsFromLedger(w, n)
  PROVE  /\ processed' \in [Events -> Results] /\ ownEvents' \in [Places -> Memories]
         /\ ingestFaults' \in 0 .. MaxFaults
         /\ \A i \in Places : ownEvents'[i].cursor = ownEvents[i].cursor
         /\ \A e \in Events : Ingest!Known(e)' => Ingest!Known(e)
         /\ \A e \in Events : LedgerOf[e] < n => (Ingest!Known(e) => Ingest!Known(e)')
<1> DEFINE Wiped(kept) == [e \in Events |-> IF LedgerOf[e] >= n THEN "none" ELSE kept[e]]
<1>1. \A kept \in [Events -> Results] :
        /\ Wiped(kept) \in [Events -> Results]
        /\ \A e \in Events : (Wiped(kept)[e] # "none" => kept[e] # "none")
                             /\ (LedgerOf[e] < n => Wiped(kept)[e] = kept[e])
  BY DEF Results
<1>2. \/ processed' = Wiped(processed) /\ UNCHANGED <<ownEvents, ingestFaults>>
      \/ Ingest!Fail /\ ownEvents' = [ownEvents EXCEPT ![Home[w]].record = Wiped(ownEvents[Home[w]].record)]
         /\ UNCHANGED processed
  BY DEF Ingest!ClearEventsFromLedger
<1> HIDE DEF Wiped
<1>3. CASE processed' = Wiped(processed) /\ UNCHANGED <<ownEvents, ingestFaults>>
  BY <1>1, <1>3, KnownIs DEF IngestTypes
<1>4. CASE Ingest!Fail /\ ownEvents' = [ownEvents EXCEPT ![Home[w]].record = Wiped(ownEvents[Home[w]].record)]
           /\ UNCHANGED processed
  <2> DEFINE i == Home[w]
  <2>1. i \in Places BY SourcesAre
  <2>2. ownEvents \in [Places -> Memories] /\ ownEvents[i].record \in [Events -> Results]
    BY <2>1 DEF IngestTypes, Memories
  <2>3. ownEvents' = [ownEvents EXCEPT ![i].record = Wiped(ownEvents[i].record)] BY <1>4
  <2> HIDE DEF i
  <2>4. /\ ownEvents' \in [Places -> Memories] /\ ownEvents'[i].record = Wiped(ownEvents[i].record)
        /\ \A k \in Places : ownEvents'[k].cursor = ownEvents[k].cursor
        /\ \A k \in Places \ {i} : ownEvents'[k] = ownEvents[k]
    BY <1>1, <2>1, <2>2, <2>3, MemoryMoves
  <2>5. \A k \in Places, e \in Events :
          /\ ownEvents'[k].record[e] # "none" => ownEvents[k].record[e] # "none"
          /\ LedgerOf[e] < n => ownEvents'[k].record[e] = ownEvents[k].record[e]
    BY <1>1, <2>2, <2>4
  <2>6. processed' = processed /\ ingestFaults' \in 0 .. MaxFaults
    BY <1>4 DEF Ingest!Fail, IngestTypes
  <2>q. QED BY <2>4, <2>5, <2>6, KnownIs DEF IngestTypes
<1>q. QED BY <1>2, <1>3, <1>4

LEMMA IngestReorgs ==
  ASSUME IngestTypes, IngestInv, NEW w \in Admins, Ingest!Reorg(w)
  PROVE  IngestInv' /\ IngestTypes'
<1>1. PICK n \in oldest .. latest :
        /\ Ingest!ClearEventsFromLedger(w, n)
        /\ excused' = excused \cup {e \in Events : LedgerOf[e] >= n \/ ~Ingest!Known(e)}
        /\ Ingest!Go(w, Ingest!Batch("reorg", n - 1, n - 1))
  BY DEF Ingest!Reorg
<1>2. job[w] = Ingest!NoJob /\ UNCHANGED <<cursor, latest, oldest, tried>> BY DEF Ingest!Reorg
<1>3. w \in Sources BY SourcesAre
<1>4. n \in Nat \ {0} /\ n - 1 \in 0 .. LastLedger /\ n - 1 \in Nat BY DEF IngestTypes
<1>5. requests' \in 0 .. MaxRequests BY DEF Ingest!Reorg, Ingest!Call, IngestTypes
<1>6. /\ processed' \in [Events -> Results] /\ ownEvents' \in [Places -> Memories]
      /\ ingestFaults' \in 0 .. MaxFaults
      /\ \A i \in Places : ownEvents'[i].cursor = ownEvents[i].cursor
      /\ \A e \in Events : Ingest!Known(e)' => Ingest!Known(e)
      /\ \A e \in Events : LedgerOf[e] < n => (Ingest!Known(e) => Ingest!Known(e)')
  BY <1>1, <1>3, <1>4, ReorgClears
<1>7. excused \subseteq excused' /\ excused' \subseteq Events BY <1>1 DEF IngestTypes
<1>8. ASSUME NEW e \in Events PROVE Ingest!Known(e) => Ingest!Known(e)' \/ e \in excused'
  <2>1. CASE LedgerOf[e] >= n BY <1>1, <2>1
  <2>2. CASE ~(LedgerOf[e] >= n)
    <3>1. LedgerOf[e] < n BY <1>4, <2>2
    <3>q. QED BY <1>6, <3>1
  <2>q. QED BY <2>1, <2>2
<1>9. \A e \in Events : Settled(e) \/ e \in excused' BY <1>1 DEF Settled
<1>12. IngestInv' /\ job' \in [Sources -> Jobs]
  BY <1>1, <1>2, <1>3, <1>4, <1>6, <1>7, <1>8, <1>9, BatchStarts
<1>q. QED BY <1>2, <1>5, <1>6, <1>7, <1>12 DEF IngestTypes

\* The failed events are taken up again; each had been handled.
LEMMA IngestRetries ==
  ASSUME IngestTypes, IngestInv, NEW w \in Admins, Ingest!RetryFailed(w)
  PROVE  IngestInv' /\ IngestTypes'
<1> DEFINE st == [e \in Events |-> IF processed[e] = "failed" THEN "failed" ELSE "idle"]
           j == [Ingest!NoJob EXCEPT !.kind = "retry", !.phase = "batch", !.stage = st]
<1>1. /\ job[w] = Ingest!NoJob /\ Ingest!Go(w, j) /\ requests' \in 0 .. MaxRequests
      /\ UNCHANGED <<cursor, latest, oldest, processed, ownEvents, ingestFaults, tried, excused>>
  BY DEF Ingest!RetryFailed, Ingest!Call, IngestTypes
<1>2. st \in [Events -> Ingest!Stages] /\ \A e \in Events : st[e] = IF processed[e] = "failed" THEN "failed" ELSE "idle"
  BY SourcesAre
<1> HIDE DEF st
<1>3. j \in Jobs /\ j.kind = "retry" /\ j.phase = "batch" /\ j.stage = st
  BY <1>2, NoJobIs DEF Jobs
<1> HIDE DEF j
<1>4. w \in Sources /\ job \in [Sources -> Jobs] BY SourcesAre DEF IngestTypes
<1>5. job' \in [Sources -> Jobs] /\ job'[w] = j /\ \A v \in Sources \ {w} : job'[v] = job[v]
  BY <1>1, <1>3, <1>4, JobMoves
<1>6. \A e \in Events : Ingest!Known(e)' <=> Ingest!Known(e) BY <1>1, KnownIs
<1>7. \A e \in Events : Settled(e) => Settled(e)'
  <2>1. job[w].kind # "retry" BY <1>1, NoJobIs
  <2>2. \A e \in Events : Ingest!Known(e) => Settled(e)' BY <1>6 DEF Settled
  <2>3. excused \subseteq excused' BY <1>1
  <2>q. QED BY <1>4, <1>5, <2>1, <2>2, <2>3, SettledStays
<1>8. \A e \in Events : Ingest!Known(e)' => e \in tried' BY <1>1, <1>6 DEF IngestInv
<1>9. JobCovers(w)'
  <2>1. \A e \in Events : st[e] # "idle" => e \in tried'
    BY <1>2, <1>6, <1>8, KnownIs
  <2>2. \A e \in Events : st[e] # "handled" BY <1>2
  <2>q. QED BY <1>3, <1>5, <2>1, <2>2 DEF JobCovers
<1>10. Ingest!HandledInOrder' BY <1>1, OrderStays
<1>11. IngestInv' BY <1>1, <1>4, <1>5, <1>7, <1>8, <1>9, <1>10, IngestStays
<1>q. QED BY <1>1, <1>5, <1>11 DEF IngestTypes

\* One event's record is written, in Redis or at the instance.
LEMMA ResultMoves ==
  ASSUME IngestTypes, NEW w \in Sources, NEW e \in Events, NEW x \in Results,
         \/ processed' = [processed EXCEPT ![e] = x] /\ UNCHANGED <<ownEvents, ingestFaults>>
         \/ Ingest!Fail /\ ownEvents' = [ownEvents EXCEPT ![Home[w]].record[e] = x] /\ UNCHANGED processed
  PROVE  /\ processed' \in [Events -> Results] /\ ownEvents' \in [Places -> Memories]
         /\ ingestFaults' \in 0 .. MaxFaults
         /\ \A i \in Places : ownEvents'[i].cursor = ownEvents[i].cursor
         /\ \A f \in Events \ {e} : Ingest!Known(f)' <=> Ingest!Known(f)
         /\ x # "none" => Ingest!Known(e)'
         /\ x = "none" => (Ingest!Known(e)' => Ingest!Known(e))
<1>1. CASE processed' = [processed EXCEPT ![e] = x] /\ UNCHANGED <<ownEvents, ingestFaults>>
  <2>1. /\ processed' \in [Events -> Results] /\ processed'[e] = x
        /\ \A f \in Events \ {e} : processed'[f] = processed[f]
        /\ ownEvents' = ownEvents /\ ingestFaults' = ingestFaults
    BY <1>1 DEF IngestTypes
  <2>q. QED BY <2>1, KnownIs DEF IngestTypes
<1>2. CASE Ingest!Fail /\ ownEvents' = [ownEvents EXCEPT ![Home[w]].record[e] = x] /\ UNCHANGED processed
  <2> DEFINE i == Home[w]
  <2>1. i \in Places BY SourcesAre
  <2>2. ownEvents' = WrittenIn(i, e, x) /\ ownEvents \in [Places -> Memories]
    BY <1>2 DEF IngestTypes, WrittenIn
  <2> HIDE DEF i
  <2>3. /\ ownEvents' \in [Places -> Memories] /\ ownEvents'[i].record[e] = x
        /\ \A k \in Places : ownEvents'[k].cursor = ownEvents[k].cursor
        /\ \A k \in Places, f \in Events : k # i \/ f # e => ownEvents'[k].record[f] = ownEvents[k].record[f]
    BY <2>1, <2>2, RecordMoves
  <2>4. processed' = processed /\ ingestFaults' \in 0 .. MaxFaults BY <1>2 DEF Ingest!Fail, IngestTypes
  <2>q. QED BY <2>1, <2>3, <2>4, KnownIs DEF IngestTypes
<1>q. QED BY <1>1, <1>2

LEMMA ReadiesFailed ==
  ASSUME IngestTypes, IngestInv, NEW w \in Sources, NEW e \in Events, Ingest!ClearFailed(w, e)
  PROVE  IngestInv' /\ IngestTypes'
<1> DEFINE j == Staged(job[w], e, "queued")
<1>1. /\ job[w].stage[e] = "failed" /\ Ingest!Go(w, j)
      /\ \/ processed' = [processed EXCEPT ![e] = "none"] /\ UNCHANGED <<ownEvents, ingestFaults>>
         \/ Ingest!Fail /\ ownEvents' = [ownEvents EXCEPT ![Home[w]].record[e] = "none"] /\ UNCHANGED processed
      /\ UNCHANGED <<cursor, latest, oldest, requests, tried, excused>>
  BY DEF Ingest!ClearFailed, Staged
<1>2. job \in [Sources -> Jobs] /\ job[w] \in Jobs /\ JobCovers(w) BY DEF IngestTypes, IngestInv
<1>s. "queued" \in Ingest!Stages BY SourcesAre
<1>3. /\ j \in Jobs /\ j.stage[e] = "queued" /\ \A f \in Events \ {e} : j.stage[f] = job[w].stage[f]
      /\ j.kind = job[w].kind /\ j.phase = job[w].phase /\ j.upTo = job[w].upTo
  BY <1>2, <1>s, StageMoves
<1> HIDE DEF j
<1>4. job' \in [Sources -> Jobs] /\ job'[w] = j /\ \A v \in Sources \ {w} : job'[v] = job[v]
  BY <1>1, <1>2, <1>3, JobMoves
<1>5. /\ processed' \in [Events -> Results] /\ ownEvents' \in [Places -> Memories]
      /\ ingestFaults' \in 0 .. MaxFaults
      /\ \A i \in Places : ownEvents'[i].cursor = ownEvents[i].cursor
      /\ \A f \in Events \ {e} : Ingest!Known(f)' <=> Ingest!Known(f)
      /\ Ingest!Known(e)' => Ingest!Known(e)
  BY <1>1, ResultMoves DEF Results
<1>6. /\ job[w].kind = "retry" /\ job[w].phase = "batch" /\ e \in tried
  <2>1. job[w].kind = "retry" /\ e \in tried BY <1>1, <1>2 DEF JobCovers
  <2>2. job[w].stage # Ingest!Idle BY <1>1, NoJobIs
  <2>q. QED BY <1>2, <2>1, <2>2 DEF JobCovers, Jobs
<1>7. \A f \in Events : Settled(f) => Settled(f)'
  <2>1. ASSUME NEW f \in Events, job[w].stage[f] # "idle" PROVE Settled(f)'
    <3>1. j.kind = "retry" /\ j.stage[f] # "idle" BY <1>3, <1>6, <2>1
    <3>q. QED BY <1>4, <3>1 DEF Settled, InRetry
  <2>2. ASSUME NEW f \in Events, Ingest!Known(f) PROVE Settled(f)'
    <3>1. CASE f = e BY <1>1, <2>1, <3>1
    <3>2. CASE f # e BY <1>5, <2>2, <3>2 DEF Settled
    <3>q. QED BY <3>1, <3>2
  <2>3. excused \subseteq excused' BY <1>1
  <2>q. QED BY <1>4, <2>1, <2>2, <2>3, SettledStays
<1>8. \A f \in Events : Ingest!Known(f)' => f \in tried'
  <2>1. \A f \in Events : Ingest!Known(f)' => Ingest!Known(f) BY <1>5
  <2>q. QED BY <1>1, <2>1 DEF IngestInv
<1>9. JobCovers(w)'
  <2>1. \A f \in Events : job[w].stage[f] # "idle" => f \in tried BY <1>2, <1>6 DEF JobCovers
  <2>2. \A f \in Events : j.stage[f] # "idle" => f \in tried' BY <1>1, <1>3, <1>6, <2>1
  <2>3. j.kind = "retry" /\ j.phase = "batch" BY <1>3, <1>6
  <2>4. \A f \in Events : j.stage[f] = "handled" => f \in tried' BY <2>2
  <2>q. QED BY <1>4, <2>2, <2>3, <2>4 DEF JobCovers
<1>10. Ingest!HandledInOrder' BY <1>1, OrderStays
<1>11. IngestInv'
  <2>1. excused \subseteq excused' /\ tried \subseteq tried' /\ cursor' = cursor BY <1>1
  <2>q. QED BY <1>4, <1>5, <1>7, <1>8, <1>9, <1>10, <2>1, IngestStays
<1>q. QED BY <1>1, <1>4, <1>5, <1>11 DEF IngestTypes

\* What was handled is recorded, and settled by that.
LEMMA ResultIsKept ==
  ASSUME IngestTypes, IngestInv, NEW w \in Sources, NEW e \in Events, Ingest!PersistEvent(w, e)
  PROVE  IngestInv' /\ IngestTypes'
<1> DEFINE j == Staged(job[w], e, "idle")
<1>1. /\ job[w].stage[e] = "handled" /\ Ingest!Go(w, j)
      /\ UNCHANGED <<cursor, latest, oldest, requests, tried, excused>>
  BY DEF Ingest!PersistEvent, Staged
<1>r. PICK result \in {"ok", "failed"} :
         \/ processed' = [processed EXCEPT ![e] = result] /\ UNCHANGED <<ownEvents, ingestFaults>>
         \/ Ingest!Fail /\ ownEvents' = [ownEvents EXCEPT ![Home[w]].record[e] = result] /\ UNCHANGED processed
  BY DEF Ingest!PersistEvent
<1>2. job \in [Sources -> Jobs] /\ job[w] \in Jobs /\ JobCovers(w) BY DEF IngestTypes, IngestInv
<1>s. "idle" \in Ingest!Stages BY SourcesAre
<1>3. /\ j \in Jobs /\ j.stage[e] = "idle" /\ \A f \in Events \ {e} : j.stage[f] = job[w].stage[f]
      /\ j.kind = job[w].kind /\ j.phase = job[w].phase /\ j.upTo = job[w].upTo
  BY <1>2, <1>s, StageMoves
<1> HIDE DEF j
<1>4. job' \in [Sources -> Jobs] /\ job'[w] = j /\ \A v \in Sources \ {w} : job'[v] = job[v]
  BY <1>1, <1>2, <1>3, JobMoves
<1>5. /\ processed' \in [Events -> Results] /\ ownEvents' \in [Places -> Memories]
      /\ ingestFaults' \in 0 .. MaxFaults
      /\ \A i \in Places : ownEvents'[i].cursor = ownEvents[i].cursor
      /\ \A f \in Events \ {e} : Ingest!Known(f)' <=> Ingest!Known(f)
      /\ Ingest!Known(e)'
  BY <1>r, ResultMoves DEF Results
<1>6. /\ e \in tried /\ job[w].phase = "batch"
  <2>1. job[w].stage # Ingest!Idle BY <1>1, NoJobIs
  <2>q. QED BY <1>1, <1>2, <2>1 DEF JobCovers, Jobs
<1>7. \A f \in Events : Settled(f) => Settled(f)'
  <2>1. ASSUME NEW f \in Events, job[w].kind = "retry" /\ job[w].stage[f] # "idle" PROVE Settled(f)'
    <3>1. CASE f = e BY <1>5, <3>1 DEF Settled
    <3>2. CASE f # e
      <4>1. j.kind = "retry" /\ j.stage[f] # "idle" BY <1>3, <2>1, <3>2
      <4>q. QED BY <1>4, <4>1 DEF Settled, InRetry
    <3>q. QED BY <3>1, <3>2
  <2>2. ASSUME NEW f \in Events, Ingest!Known(f) PROVE Settled(f)' BY <1>5, <2>2 DEF Settled
  <2>3. excused \subseteq excused' BY <1>1
  <2>q. QED BY <1>4, <2>1, <2>2, <2>3, SettledStays
<1>8. \A f \in Events : Ingest!Known(f)' => f \in tried' BY <1>1, <1>5, <1>6 DEF IngestInv
<1>9. JobCovers(w)'
  <2>1. ASSUME NEW f \in Events
        PROVE  /\ j.kind \notin {"none", "retry"} =>
                    /\ LedgerOf[f] <= j.upTo => Settled(f)' \/ j.stage[f] # "idle"
                    /\ j.stage[f] # "idle" => LedgerOf[f] <= j.upTo
               /\ j.stage[f] = "failed" => j.kind = "retry"
               /\ j.stage[f] = "handled" \/ (j.kind = "retry" /\ j.stage[f] # "idle") => f \in tried'
    <3>1. CASE f = e BY <1>3, <1>5, <3>1 DEF Settled
    <3>2. CASE f # e
      <4>1. j.stage[f] = job[w].stage[f] BY <1>3, <3>2
      <4>2. /\ job[w].kind \notin {"none", "retry"} =>
                 /\ LedgerOf[f] <= job[w].upTo => Settled(f) \/ job[w].stage[f] # "idle"
                 /\ job[w].stage[f] # "idle" => LedgerOf[f] <= job[w].upTo
            /\ job[w].stage[f] = "failed" => job[w].kind = "retry"
            /\ job[w].stage[f] = "handled" \/ (job[w].kind = "retry" /\ job[w].stage[f] # "idle") => f \in tried
        BY <1>2 DEF JobCovers
      <4>q. QED BY <1>1, <1>3, <1>7, <4>1, <4>2
    <3>q. QED BY <3>1, <3>2
  <2>2. j.phase = "batch" /\ j.kind # "none" BY <1>2, <1>3, <1>6 DEF JobCovers
  <2>q. QED BY <1>4, <2>1, <2>2 DEF JobCovers
<1>10. Ingest!HandledInOrder' BY <1>1, OrderStays
<1>11. IngestInv'
  <2>1. excused \subseteq excused' /\ tried \subseteq tried' /\ cursor' = cursor BY <1>1
  <2>q. QED BY <1>4, <1>5, <1>7, <1>8, <1>9, <1>10, <2>1, IngestStays
<1>q. QED BY <1>1, <1>4, <1>5, <1>11 DEF IngestTypes

\* Whose turn it is has every earlier event of its key handled or left out.
LEMMA TurnComesInOrder ==
  ASSUME IngestTypes, IngestInv, NEW w \in Sources, NEW e \in Events,
         job[w].stage[e] = "queued", Ingest!Turn(w, e),
         NEW f \in Events, f < e, KeyOf[f] \in {KeyOf[e], NoKey}
  PROVE  e \in tried \/ f \in tried \cup excused
<1>n. e \in Nat /\ f \in Nat OBVIOUS
<1>0. ~(f >= e) BY <1>n
<1>1. job[w] \in Jobs /\ JobCovers(w) BY DEF IngestTypes, IngestInv
<1>2. job[w].kind # "none" BY <1>1, NoJobIs DEF JobCovers
<1>3. CASE job[w].kind = "retry" BY <1>1, <1>3 DEF JobCovers
<1>4. CASE job[w].kind # "retry"
  <2>1. LedgerOf[f] <= job[w].upTo
    <3>1. LedgerOf[e] <= job[w].upTo BY <1>1, <1>2, <1>4 DEF JobCovers
    <3>2. LedgerOf[f] <= LedgerOf[e] BY <1>n
    <3>3. job[w].upTo \in Nat BY <1>1 DEF Jobs
    <3>q. QED BY <3>1, <3>2, <3>3
  <2>2. Settled(f) \/ job[w].stage[f] # "idle" BY <1>1, <1>2, <1>4, <2>1 DEF JobCovers
  <2>3. job[w].stage[f] # "failed" BY <1>1, <1>4 DEF JobCovers
  <2>4. ~(job[w].stage[f] \notin {"idle", "failed"})
    <3>1. CASE KeyOf[e] = NoKey BY <3>1 DEF Ingest!Turn, Ingest!Before
    <3>2. CASE KeyOf[e] # NoKey
      <4>q. QED BY <1>0, <3>2 DEF Ingest!Turn
    <3>q. QED BY <3>1, <3>2
  <2>5. Settled(f) BY <2>2, <2>3, <2>4
  <2>6. Ingest!Known(f) => f \in tried BY DEF IngestInv
  <2>7. InRetry(f) => f \in tried BY DEF InRetry, IngestInv, JobCovers
  <2>q. QED BY <2>5, <2>6, <2>7 DEF Settled
<1>q. QED BY <1>3, <1>4

\* An event is handled in its turn, or left to the record it has.
LEMMA IngestHandles ==
  ASSUME IngestTypes, IngestInv, NEW w \in Sources, NEW e \in Events, Ingest!ProcessEvent(w, e)
  PROVE  IngestInv' /\ IngestTypes'
<1>1. PICK got \in Results :
        /\ Ingest!Answer(processed[e], ownEvents[Home[w]].record[e], got)
        /\ Ingest!Go(w, [job[w] EXCEPT !.stage[e] = IF got = "none" THEN "handled" ELSE "idle"])
        /\ tried' = IF got = "none" THEN tried \cup {e} ELSE tried
  BY DEF Ingest!ProcessEvent, Results
<1> DEFINE x == IF got = "none" THEN "handled" ELSE "idle"
           j == Staged(job[w], e, x)
<1>2. /\ job[w].stage[e] = "queued" /\ Ingest!Turn(w, e) /\ Ingest!Go(w, j)
      /\ UNCHANGED <<cursor, latest, oldest, processed, ownEvents, requests, excused>>
  BY <1>1 DEF Ingest!ProcessEvent, Staged
<1>3. job \in [Sources -> Jobs] /\ job[w] \in Jobs /\ JobCovers(w) BY DEF IngestTypes, IngestInv
<1>x. x \in Ingest!Stages /\ x \in {"handled", "idle"} /\ (x = "handled" <=> got = "none") BY SourcesAre
<1> HIDE DEF x
<1>4. /\ j \in Jobs /\ j.stage[e] = x /\ \A f \in Events \ {e} : j.stage[f] = job[w].stage[f]
      /\ j.kind = job[w].kind /\ j.phase = job[w].phase /\ j.upTo = job[w].upTo
  BY <1>3, <1>x, StageMoves
<1> HIDE DEF j
<1>5. job' \in [Sources -> Jobs] /\ job'[w] = j /\ \A v \in Sources \ {w} : job'[v] = job[v]
  BY <1>2, <1>3, <1>4, JobMoves
<1>6. got # "none" => Ingest!Known(e)
  <2>1. Home[w] \in Places BY SourcesAre
  <2>2. got = processed[e] \/ got = ownEvents[Home[w]].record[e] BY <1>1 DEF Ingest!Answer
  <2>q. QED BY <2>1, <2>2, KnownIs
<1>7. \A f \in Events : Ingest!Known(f)' <=> Ingest!Known(f) BY <1>2, KnownIs
<1>8. tried \subseteq tried' /\ tried' \subseteq Events /\ tried' \subseteq tried \cup {e}
      /\ (x = "handled" => e \in tried')
  BY <1>1, <1>x DEF IngestTypes
<1>9. \A f \in Events : Settled(f) => Settled(f)'
  <2>1. ASSUME NEW f \in Events, job[w].kind = "retry" /\ job[w].stage[f] # "idle" PROVE Settled(f)'
    <3>1. CASE f = e /\ x = "idle" BY <1>6, <1>7, <1>x, <3>1 DEF Settled
    <3>2. CASE f # e \/ x # "idle"
      <4>1. j.kind = "retry" /\ j.stage[f] # "idle" BY <1>4, <2>1, <3>2
      <4>q. QED BY <1>5, <4>1 DEF Settled, InRetry
    <3>q. QED BY <3>1, <3>2
  <2>2. \A f \in Events : Ingest!Known(f) => Settled(f)' BY <1>7 DEF Settled
  <2>3. excused \subseteq excused' BY <1>2
  <2>q. QED BY <1>5, <2>1, <2>2, <2>3, SettledStays
<1>10. \A f \in Events : Ingest!Known(f)' => f \in tried' BY <1>7, <1>8 DEF IngestInv
<1>11. JobCovers(w)'
  <2>1. ASSUME NEW f \in Events
        PROVE  /\ j.kind \notin {"none", "retry"} =>
                    /\ LedgerOf[f] <= j.upTo => Settled(f)' \/ j.stage[f] # "idle"
                    /\ j.stage[f] # "idle" => LedgerOf[f] <= j.upTo
               /\ j.stage[f] = "failed" => j.kind = "retry"
               /\ j.stage[f] = "handled" \/ (j.kind = "retry" /\ j.stage[f] # "idle") => f \in tried'
    <3>2. /\ job[w].kind \notin {"none", "retry"} =>
               /\ LedgerOf[f] <= job[w].upTo => Settled(f) \/ job[w].stage[f] # "idle"
               /\ job[w].stage[f] # "idle" => LedgerOf[f] <= job[w].upTo
          /\ job[w].stage[f] = "failed" => job[w].kind = "retry"
          /\ job[w].stage[f] = "handled" \/ (job[w].kind = "retry" /\ job[w].stage[f] # "idle") => f \in tried
      BY <1>3 DEF JobCovers
    <3>3. CASE f = e
      <4>1. x = "idle" => Settled(f)' BY <1>6, <1>7, <1>x, <3>3 DEF Settled
      <4>q. QED BY <1>2, <1>4, <1>8, <1>x, <3>2, <3>3, <4>1
    <3>4. CASE f # e
      <4>1. j.stage[f] = job[w].stage[f] BY <1>4, <3>4
      <4>q. QED BY <1>4, <1>8, <1>9, <3>2, <4>1
    <3>q. QED BY <3>3, <3>4
  <2>2. j.phase = "batch" /\ j.kind # "none"
    <3>1. job[w].stage # Ingest!Idle BY <1>2, NoJobIs
    <3>q. QED BY <1>3, <1>4, <3>1 DEF JobCovers, Jobs
  <2>q. QED BY <1>5, <2>1, <2>2 DEF JobCovers
<1>12. Ingest!HandledInOrder'
  <2>1. \A f \in Events : f < e /\ KeyOf[f] \in {KeyOf[e], NoKey} => e \in tried \/ f \in tried \cup excused
    BY <1>2, TurnComesInOrder
  <2>2. Ingest!HandledInOrder BY DEF IngestInv
  <2>q. QED BY <1>2, <1>8, <2>1, <2>2 DEF Ingest!HandledInOrder
<1>13. IngestInv'
  <2>1. /\ excused \subseteq excused' /\ tried \subseteq tried' /\ cursor' = cursor
        /\ \A i \in Places : ownEvents'[i].cursor = ownEvents[i].cursor
    BY <1>2, <1>8
  <2>q. QED BY <1>5, <1>9, <1>10, <1>11, <1>12, <2>1, IngestStays
<1>14. ingestFaults' \in 0 .. MaxFaults BY <1>1 DEF Ingest!Answer, Ingest!Fail, IngestTypes
<1>q. QED BY <1>2, <1>5, <1>8, <1>13, <1>14 DEF IngestTypes

LEMMA CursorIsRead ==
  ASSUME IngestTypes, IngestInv, NEW w \in Sources, Ingest!ReadForUpdate(w)
  PROVE  IngestInv' /\ IngestTypes'
<1>1. PICK c \in 0 .. NoCursor :
        /\ Ingest!ReadCursor(w, c)
        /\ Ingest!Go(w, IF job[w].kind = "retry" THEN Ingest!NoJob
                        ELSE [job[w] EXCEPT !.phase = "write", !.seen = c])
  BY DEF Ingest!ReadForUpdate, NoCursor
<1> DEFINE j == IF job[w].kind = "retry" THEN Ingest!NoJob
                ELSE [job[w] EXCEPT !.phase = "write", !.seen = c]
<1>2. /\ job[w].phase = "batch" /\ job[w].stage = Ingest!Idle /\ Ingest!Go(w, j)
      /\ UNCHANGED <<cursor, latest, oldest, processed, ownEvents, requests, tried, excused>>
  BY <1>1 DEF Ingest!ReadForUpdate
<1>3. job \in [Sources -> Jobs] /\ job[w] \in Jobs /\ JobCovers(w) BY DEF IngestTypes, IngestInv
<1>4. /\ j \in Jobs /\ j.stage = Ingest!Idle
      /\ \/ job[w].kind = "retry" /\ j.kind = "none" /\ j.phase = "none"
         \/ job[w].kind # "retry" /\ j.kind = job[w].kind /\ j.phase = "write" /\ j.upTo = job[w].upTo
  <2>1. CASE job[w].kind = "retry" BY <2>1, NoJobIs
  <2>2. CASE job[w].kind # "retry"
    <3>1. j = [job[w] EXCEPT !.phase = "write", !.seen = c] BY <2>2
    <3> HIDE DEF j
    <3>q. QED BY <1>2, <1>3, <2>2, <3>1 DEF Jobs
  <2>q. QED BY <2>1, <2>2
<1> HIDE DEF j
<1>5. job' \in [Sources -> Jobs] /\ job'[w] = j /\ \A v \in Sources \ {w} : job'[v] = job[v]
  BY <1>2, <1>3, <1>4, JobMoves
<1>6. \A f \in Events : Ingest!Known(f)' <=> Ingest!Known(f) BY <1>2, KnownIs
<1>7. \A e \in Events : job[w].stage[e] = "idle" BY <1>2, NoJobIs
<1>8. \A f \in Events : Settled(f) => Settled(f)'
  <2>1. \A f \in Events : Ingest!Known(f) => Settled(f)' BY <1>6 DEF Settled
  <2>2. excused \subseteq excused' BY <1>2
  <2>q. QED BY <1>5, <1>7, <2>1, <2>2, SettledStays
<1>9. JobCovers(w)'
  <2>1. job[w].kind # "none" BY <1>2, <1>3 DEF JobCovers
  <2>2. job[w].kind # "retry" => \A e \in Events : LedgerOf[e] <= job[w].upTo => Settled(e)
    BY <1>3, <1>7, <2>1 DEF JobCovers
  <2>3. \A e \in Events : j.stage[e] = "idle" BY <1>4, NoJobIs
  <2>4. j.stage = Ingest!Idle' BY <1>4 DEF Ingest!Idle
  <2>q. QED BY <1>4, <1>5, <1>8, <2>1, <2>2, <2>3, <2>4 DEF JobCovers
<1>10. Ingest!HandledInOrder' BY <1>2, OrderStays
<1>11. IngestInv'
  <2>1. /\ excused \subseteq excused' /\ tried \subseteq tried' /\ cursor' = cursor
        /\ \A i \in Places : ownEvents'[i].cursor = ownEvents[i].cursor
        /\ \A f \in Events : Ingest!Known(f)' => f \in tried'
    BY <1>2, <1>6 DEF IngestInv
  <2>q. QED BY <1>5, <1>8, <1>9, <1>10, <2>1, IngestStays
<1>12. ingestFaults' \in 0 .. MaxFaults
  BY <1>1 DEF Ingest!ReadCursor, Ingest!Answer, Ingest!Fail, IngestTypes
<1>q. QED BY <1>2, <1>5, <1>11, <1>12 DEF IngestTypes

\* The cursor moves to where the job's events are all settled.
LEMMA CursorIsWritten ==
  ASSUME IngestTypes, IngestInv, NEW w \in Sources, Ingest!WriteCursor(w)
  PROVE  IngestInv' /\ IngestTypes'
<1> DEFINE to == job[w].upTo
<1>1. /\ job[w].phase = "write" /\ Ingest!Go(w, Ingest!NoJob)
      /\ \/ UNCHANGED <<cursor, ownEvents, ingestFaults>>
         \/ cursor' = to /\ UNCHANGED <<ownEvents, ingestFaults>>
         \/ Ingest!Fail /\ ownEvents' = [ownEvents EXCEPT ![Home[w]].cursor = to] /\ UNCHANGED cursor
      /\ UNCHANGED <<latest, oldest, processed, requests, tried, excused>>
  BY DEF Ingest!WriteCursor
<1>2. job \in [Sources -> Jobs] /\ job[w] \in Jobs /\ JobCovers(w) BY DEF IngestTypes, IngestInv
<1>3. job' \in [Sources -> Jobs] /\ job'[w] = Ingest!NoJob /\ \A v \in Sources \ {w} : job'[v] = job[v]
  BY <1>1, <1>2, NoJobIs, JobMoves
<1>4. to \in 0 .. LastLedger /\ to \in 0 .. NoCursor BY <1>2, SourcesAre DEF Jobs
<1>5. job[w].kind # "retry" /\ \A e \in Events : job[w].stage[e] = "idle"
  BY <1>1, <1>2, NoJobIs DEF JobCovers
<1>6. \A e \in Events : LedgerOf[e] <= to => Settled(e)
  BY <1>1, <1>2, <1>5 DEF JobCovers
<1> HIDE DEF to
<1>7. /\ ownEvents' \in [Places -> Memories] /\ cursor' \in 0 .. NoCursor /\ ingestFaults' \in 0 .. MaxFaults
      /\ cursor' \in {cursor, to}
      /\ \A i \in Places : /\ ownEvents'[i].record = ownEvents[i].record
                           /\ ownEvents'[i].cursor \in {ownEvents[i].cursor, to}
  <2>1. CASE cursor' \in {cursor, to} /\ UNCHANGED <<ownEvents, ingestFaults>>
    BY <1>4, <2>1 DEF IngestTypes
  <2>2. CASE Ingest!Fail /\ ownEvents' = [ownEvents EXCEPT ![Home[w]].cursor = to] /\ UNCHANGED cursor
    BY <1>4, <2>2, SourcesAre DEF Ingest!Fail, IngestTypes, Memories
  <2>q. QED BY <1>1, <2>1, <2>2
<1>8. \A e \in Events : Ingest!Known(e)' <=> Ingest!Known(e) BY <1>1, <1>7, KnownIs
<1>9. \A e \in Events : Settled(e) => Settled(e)'
  <2>1. \A e \in Events : Ingest!Known(e) => Settled(e)' BY <1>8 DEF Settled
  <2>2. excused \subseteq excused' BY <1>1
  <2>q. QED BY <1>3, <1>5, <2>1, <2>2, SettledStays
<1>10. \A c : c \in {to} \/ Counted(c) => (c # NoCursor => \A e \in Events : LedgerOf[e] <= c => Settled(e)')
  BY <1>6, <1>9 DEF Counted
<1>11. Counted(cursor) /\ \A i \in Places : Counted(ownEvents[i].cursor) BY DEF IngestInv
<1>12. Counted(cursor)' /\ \A i \in Places : Counted(ownEvents[i].cursor)'
  BY <1>7, <1>10, <1>11 DEF Counted
<1>13. ASSUME NEW v \in Sources PROVE JobCovers(v)'
  <2>1. CASE v = w BY <1>3, <2>1, NoJobIs DEF JobCovers, Ingest!Idle
  <2>2. CASE v # w
    <3>1. job'[v] = job[v] BY <1>3, <2>2
    <3>2. JobCovers(v) BY DEF IngestInv
    <3>q. QED BY <1>1, <1>9, <3>1, <3>2 DEF JobCovers, Ingest!Idle
  <2>q. QED BY <2>1, <2>2
<1>14. \A e \in Events : Ingest!Known(e)' => e \in tried' BY <1>1, <1>8 DEF IngestInv
<1>15. Ingest!HandledInOrder' BY <1>1, OrderStays
<1>16. IngestInv' BY <1>12, <1>13, <1>14, <1>15 DEF IngestInv
<1>q. QED BY <1>1, <1>3, <1>7, <1>16 DEF IngestTypes

\* A crash loses what is in memory; what was only there is left out, and listed.
LEMMA IngestCrashes ==
  ASSUME IngestTypes, IngestInv, NEW i \in Places, Ingest!Crash(i)
  PROVE  IngestInv' /\ IngestTypes'
<1> DEFINE nothing == [record |-> [e \in Events |-> "none"], cursor |-> NoCursor]
<1>1. /\ job' = [w \in Sources |-> IF Home[w] = i THEN Ingest!NoJob ELSE job[w]]
      /\ ownEvents' = [ownEvents EXCEPT ![i] = nothing]
      /\ excused' = excused \cup
           {e \in Events : ownEvents[i].record[e] # "none" \/
              \E w \in Sources : Home[w] = i /\ job[w].kind = "retry" /\ job[w].stage[e] # "idle"}
      /\ UNCHANGED <<cursor, latest, oldest, processed, requests, tried>>
      /\ ingestFaults' \in 0 .. MaxFaults
  BY SourcesAre DEF Ingest!Crash, NoCursor, Ingest!Fail, IngestTypes
<1>2. nothing \in Memories /\ (\A e \in Events : nothing.record[e] = "none") /\ nothing.cursor = NoCursor
  BY SourcesAre DEF Memories, Results
<1> HIDE DEF nothing
<1>3. job' \in [Sources -> Jobs] BY <1>1, NoJobIs DEF IngestTypes
<1>4. \A w \in Sources : job'[w] = IF Home[w] = i THEN Ingest!NoJob ELSE job[w] BY <1>1
<1>5. /\ ownEvents' \in [Places -> Memories] /\ ownEvents'[i] = nothing
      /\ \A k \in Places \ {i} : ownEvents'[k] = ownEvents[k]
  BY <1>1, <1>2 DEF IngestTypes
<1>6. excused \subseteq excused' /\ excused' \subseteq Events BY <1>1 DEF IngestTypes
<1>7. \A e \in Events : Ingest!Known(e)' => Ingest!Known(e) BY <1>1, <1>2, <1>5, KnownIs
<1>8. ASSUME NEW e \in Events, Settled(e) PROVE Settled(e)'
  <2>1. CASE Ingest!Known(e)
    <3>1. CASE ownEvents[i].record[e] # "none" BY <1>1, <3>1 DEF Settled
    <3>2. CASE ownEvents[i].record[e] = "none"
      <4>1. Ingest!Known(e)' BY <1>1, <1>5, <2>1, <3>2, KnownIs
      <4>q. QED BY <4>1 DEF Settled
    <3>q. QED BY <3>1, <3>2
  <2>2. CASE InRetry(e)
    <3>1. PICK w \in Sources : job[w].kind = "retry" /\ job[w].stage[e] # "idle" BY <2>2 DEF InRetry
    <3>2. CASE Home[w] = i
      <4>1. e \in excused' BY <1>1, <3>1, <3>2
      <4>q. QED BY <4>1 DEF Settled
    <3>3. CASE Home[w] # i
      <4>1. job'[w] = job[w] BY <1>4, <3>3
      <4>q. QED BY <3>1, <4>1 DEF Settled, InRetry
    <3>q. QED BY <3>2, <3>3
  <2>3. CASE e \in excused BY <1>6, <2>3 DEF Settled
  <2>q. QED BY <1>8, <2>1, <2>2, <2>3 DEF Settled
<1>9. \A c : Counted(c) => (c # NoCursor => \A e \in Events : LedgerOf[e] <= c => Settled(e)')
  BY <1>8 DEF Counted
<1>10. Counted(cursor) /\ \A k \in Places : Counted(ownEvents[k].cursor) BY DEF IngestInv
<1>11. Counted(cursor)' BY <1>1, <1>9, <1>10 DEF Counted
<1>12. ASSUME NEW k \in Places PROVE Counted(ownEvents[k].cursor)'
  <2>1. CASE k = i BY <1>2, <1>5, <2>1 DEF Counted
  <2>2. CASE k # i BY <1>5, <1>9, <1>10, <2>2 DEF Counted
  <2>q. QED BY <2>1, <2>2
<1>13. ASSUME NEW v \in Sources PROVE JobCovers(v)'
  <2>1. CASE Home[v] = i
    <3>1. job'[v] = Ingest!NoJob BY <1>4, <2>1
    <3>q. QED BY <3>1, NoJobIs DEF JobCovers, Ingest!Idle
  <2>2. CASE Home[v] # i
    <3>1. job'[v] = job[v] BY <1>4, <2>2
    <3>2. JobCovers(v) BY DEF IngestInv
    <3>q. QED BY <1>1, <1>8, <3>1, <3>2 DEF JobCovers, Ingest!Idle
  <2>q. QED BY <2>1, <2>2
<1>14. \A e \in Events : Ingest!Known(e)' => e \in tried' BY <1>1, <1>7 DEF IngestInv
<1>15. Ingest!HandledInOrder' BY <1>1, <1>6, OrderStays
<1>16. IngestInv' BY <1>11, <1>12, <1>13, <1>14, <1>15 DEF IngestInv
<1>q. QED BY <1>1, <1>3, <1>5, <1>6, <1>16 DEF IngestTypes

\* Where nothing is written but the chain, nothing changes.
LEMMA IngestRests ==
  ASSUME IngestTypes, IngestInv,
         UNCHANGED <<cursor, processed, ownEvents, job, requests, ingestFaults, tried, excused>>,
         latest' \in 1 .. LastLedger, oldest' \in 1 .. latest'
  PROVE  IngestInv' /\ IngestTypes'
<1>1. \A e \in Events : (Ingest!Known(e)' <=> Ingest!Known(e)) /\ (Settled(e)' <=> Settled(e))
  BY KnownIs DEF Settled, InRetry
<1>2. Counted(cursor)' /\ \A i \in Places : Counted(ownEvents[i].cursor)' BY <1>1 DEF IngestInv, Counted
<1>3. ASSUME NEW v \in Sources PROVE JobCovers(v)' BY <1>1 DEF IngestInv, JobCovers, Ingest!Idle
<1>4. \A e \in Events : Ingest!Known(e)' => e \in tried' BY <1>1 DEF IngestInv
<1>5. Ingest!HandledInOrder' BY OrderStays
<1>q. QED BY <1>2, <1>3, <1>4, <1>5 DEF IngestInv, IngestTypes

LEMMA IngestNext == IngestTypes /\ IngestInv /\ [Ingest!Next]_(Ingest!vars) => (IngestTypes /\ IngestInv)'
<1> SUFFICES ASSUME IngestTypes, IngestInv, [Ingest!Next]_(Ingest!vars) PROVE IngestTypes' /\ IngestInv'
  OBVIOUS
<1>s. Pollers \subseteq Sources /\ Admins \subseteq Sources /\ Ingest!Workers = Sources /\ Ingest!Hosts = Places
  BY SourcesAre DEF Places
<1>1. CASE Ingest!Grow
  <2>1. UNCHANGED <<cursor, processed, ownEvents, job, requests, ingestFaults, tried, excused>> BY <1>1 DEF Ingest!Grow
  <2>2. latest' \in 1 .. LastLedger /\ oldest' \in 1 .. latest' BY <1>1 DEF Ingest!Grow, IngestTypes
  <2>q. QED BY <2>1, <2>2, IngestRests
<1>2. ASSUME NEW w \in Pollers, Ingest!IngestEvents(w) PROVE IngestTypes' /\ IngestInv' BY <1>2, IngestPolls
<1>3. ASSUME NEW w \in Admins, Ingest!IngestSingle(w) PROVE IngestTypes' /\ IngestInv' BY <1>3, IngestOneLedger
<1>4. ASSUME NEW w \in Admins, Ingest!Reorg(w) PROVE IngestTypes' /\ IngestInv' BY <1>4, IngestReorgs
<1>5. ASSUME NEW w \in Admins, Ingest!RetryFailed(w) PROVE IngestTypes' /\ IngestInv' BY <1>5, IngestRetries
<1>6. ASSUME NEW w \in Sources, Ingest!ReadForUpdate(w) PROVE IngestTypes' /\ IngestInv' BY <1>6, CursorIsRead
<1>7. ASSUME NEW w \in Sources, Ingest!WriteCursor(w) PROVE IngestTypes' /\ IngestInv' BY <1>7, CursorIsWritten
<1>8. ASSUME NEW w \in Sources, NEW e \in Events, Ingest!ClearFailed(w, e) PROVE IngestTypes' /\ IngestInv'
  BY <1>8, ReadiesFailed
<1>9. ASSUME NEW w \in Sources, NEW e \in Events, Ingest!ProcessEvent(w, e) PROVE IngestTypes' /\ IngestInv'
  BY <1>9, IngestHandles
<1>10. ASSUME NEW w \in Sources, NEW e \in Events, Ingest!PersistEvent(w, e) PROVE IngestTypes' /\ IngestInv'
  BY <1>10, ResultIsKept
<1>11. ASSUME NEW i \in Places, Ingest!Crash(i) PROVE IngestTypes' /\ IngestInv' BY <1>11, IngestCrashes
<1>12. CASE UNCHANGED Ingest!vars
  <2>1. UNCHANGED <<cursor, processed, ownEvents, job, requests, ingestFaults, tried, excused, latest, oldest>>
    BY <1>12 DEF Ingest!vars
  <2>2. latest' \in 1 .. LastLedger /\ oldest' \in 1 .. latest' BY <2>1 DEF IngestTypes
  <2>q. QED BY <2>1, <2>2, IngestRests
<1>q. QED
  BY <1>s, <1>1, <1>2, <1>3, <1>4, <1>5, <1>6, <1>7, <1>8, <1>9, <1>10, <1>11, <1>12 DEF Ingest!Next

LEMMA IngestionReads == Ingest!Spec => [](IngestTypes /\ IngestInv)
<1>1. ASSUME Ingest!Init PROVE IngestTypes /\ IngestInv
  <2>1. /\ cursor = NoCursor /\ latest = 1 /\ oldest = 1
        /\ processed = [e \in Events |-> "none"]
        /\ ownEvents = [i \in Places |-> [record |-> [e \in Events |-> "none"], cursor |-> NoCursor]]
        /\ job = [w \in Sources |-> Ingest!NoJob]
        /\ requests = 0 /\ ingestFaults = 0 /\ tried = {} /\ excused = {}
    BY <1>1, SourcesAre DEF Ingest!Init, NoCursor, Places
  <2>2. IngestTypes
    <3>1. NoCursor \in 0 .. NoCursor /\ 1 \in 1 .. LastLedger BY SourcesAre
    <3>2. \A i \in Places : ownEvents[i] \in Memories BY <2>1, <3>1 DEF Memories, Results
    <3>3. \A w \in Sources : job[w] \in Jobs BY <2>1, NoJobIs
    <3>4. ownEvents \in [Places -> Memories] BY <2>1, <3>2
    <3>5. job \in [Sources -> Jobs] BY <2>1, <3>3
    <3>6. processed \in [Events -> Results] BY <2>1 DEF Results
    <3>7. cursor \in 0 .. NoCursor BY <2>1, <3>1
    <3>8. latest \in 1 .. LastLedger /\ oldest \in 1 .. latest BY <2>1
    <3>9. requests \in 0 .. MaxRequests /\ ingestFaults \in 0 .. MaxFaults BY <2>1
    <3>10. tried \subseteq Events /\ excused \subseteq Events BY <2>1
    <3>q. QED BY <3>4, <3>5, <3>6, <3>7, <3>8, <3>9, <3>10 DEF IngestTypes
  <2>3. Counted(cursor) /\ \A i \in Places : Counted(ownEvents[i].cursor) BY <2>1 DEF Counted
  <2>4. \A w \in Sources : JobCovers(w) BY <2>1, NoJobIs DEF JobCovers
  <2>5. \A e \in Events : ~Ingest!Known(e) BY <2>1, KnownIs
  <2>6. Ingest!HandledInOrder BY <2>1 DEF Ingest!HandledInOrder
  <2>q. QED BY <2>2, <2>3, <2>4, <2>5, <2>6 DEF IngestInv
<1>q. QED BY <1>1, IngestNext, PTL DEF Ingest!Spec

LEMMA NothingIsForgotten == IngestInv => Ingest!NothingForgotten /\ Ingest!HandledInOrder
<1> SUFFICES ASSUME IngestInv PROVE Ingest!NothingForgotten
  BY DEF IngestInv
<1>1. \A e \in Events : InRetry(e) => Ingest!InHand(e) BY SourcesAre DEF InRetry, Ingest!InHand
<1>2. Counted(cursor) BY DEF IngestInv
<1>q. QED BY <1>1, <1>2 DEF Counted, Settled, Ingest!NothingForgotten, NoCursor
----------------------------------------------------------------------------
(* Whatever the chain, the events and their ledgers, the pollers, the requests     *)
(* and the faults: an event the cursor is past is recorded, in hand or among those *)
(* the code leaves out, and one escrow's events are first handled in their order;  *)
(* the indexer has stored what it is past; and an endpoint that failed as often as *)
(* it may is left while another one is healthy (EventIngestionService,             *)
(* SorobanEventIndexerService, RpcFailoverService).                                *)
THEOREM ChainStaysRead == WorkersSpec => []ChainIsRead
<1>1. IngestInv /\ IndexInv /\ FailuresCount => ChainIsRead
  BY NothingIsForgotten DEF IndexInv, FailuresCount, ChainIsRead
<1>q. QED BY <1>1, IngestionAlone, IngestionReads, IndexerAlone, IndexerStores,
             FailoverAlone, EndpointsLeftInTime, PTL

\* Every variable of the workers keeps its type, whatever the constants.
THEOREM WorkersTypesHold == WorkersSpec => []WorkersTypeOK
<1>1. WorkersSpec => [](service \in Services)
  <2>1. WorkersInit => service \in Services BY DEF WorkersInit
  <2>2. service \in Services /\ [WorkersNext]_workersVars => (service \in Services)'
    BY DEF WorkersNext, Only, workersVars
  <2>q. QED BY <2>1, <2>2, PTL DEF WorkersSpec, workersVars
<1>2. /\ service \in Services
      /\ GigTypes /\ IngestTypes /\ Index!TypeOK /\ Rpc!TypeOK /\ MigrateTypes /\ Remind!TypeOK
      => WorkersTypeOK
  BY GigTypeCorrect, IngestTypeCorrect DEF MigrateTypes, WorkersTypeOK
<1>q. QED
  BY <1>1, <1>2, GigsAlone, GigTypesHold, IngestionAlone, IngestionReads, IndexerAlone, IndexerStores,
     FailoverAlone, EndpointsLeftInTime, MigrationAlone, MigrateTypesHold,
     RemindersAlone, RemindTypesHold, PTL
==============================================================================

----------------------------- MODULE OutboxProofs -----------------------------
(* Proofs of the outbox's safety properties, of what no step of it may do and   *)
(* that it implements AtLeastOnce, for any number of rows, relay passes,        *)
(* processors, instances and replay requests.                                   *)
EXTENDS Outbox, TLAPS

USE OutboxAssumption

\* What the labels of a relay pass promise about the row it has in hand.
LabelInv ==
  \A w \in Workers :
    /\ pc[w] \in {"dispatch", "mark", "retry"} => cur[w] \in Rows
    /\ pc[w] \in {"dispatch", "mark"} => cur[w] \in published
    /\ pc[w] = "mark" => cur[w] \in handled

\* The inductive invariant behind the delivery guarantees.
DeliveryInv ==
  TypeOK /\ LabelInv /\ NeverLost /\ QueuedIsUndelivered /\ DeliveredWasHandled

LEMMA DedupKeyType ==
  ASSUME TypeOK, NEW e \in Rows
  PROVE  DedupKey(e) \in Domain \cup {NoRow}
  BY DEF TypeOK, DedupKey, Rows

LEMMA CreditType ==
  ASSUME TypeOK, NEW e \in Rows
  PROVE  Credit(e) \in [Domain -> 0..2]
<1>1. \A n \in 0..2 : Saturate(n) \in 0..2
  BY DEF Saturate
<1>2. QED
  BY <1>1, DedupKeyType DEF TypeOK, Credit, Rows

LEMMA FanOutType ==
  ASSUME TypeOK, NEW e \in Rows, FanOut(e)
  PROVE  /\ status' \in [Rows -> Statuses]
         /\ parent' \in [Hooks -> Domain \cup {NoRow}]
         /\ pending' \subseteq Rows
<1>1. CASE UNCHANGED <<status, parent, pending>>
  BY <1>1 DEF TypeOK
<1>2. CASE \E h \in Hooks :
             /\ status' = [status EXCEPT ![h] = "pending"]
             /\ parent' = [parent EXCEPT ![h] = DedupKey(e)]
             /\ pending' = pending \cup {h}
  <2>1. PICK h \in Hooks :
          /\ status' = [status EXCEPT ![h] = "pending"]
          /\ parent' = [parent EXCEPT ![h] = DedupKey(e)]
          /\ pending' = pending \cup {h}
    BY <1>2
  <2>2. DedupKey(e) \in Domain \cup {NoRow}
    BY DedupKeyType
  <2>3. parent' \in [Hooks -> Domain \cup {NoRow}]
    BY <2>1, <2>2 DEF TypeOK
  <2>4. status' \in [Rows -> Statuses] /\ pending' \subseteq Rows
    BY <2>1 DEF TypeOK, Rows, Statuses
  <2>5. QED
    BY <2>3, <2>4
<1>3. QED
  BY <1>1, <1>2 DEF FanOut

\* What the three writes of a worker do to the types.
LEMMA WriteType ==
  ASSUME TypeOK, NEW w \in Workers, NEW e \in Rows,
         WriteDelivered(w, e) \/ WriteRetry(w, e)
           \/ UNCHANGED <<status, attempts, pending, processing, expired>>
  PROVE  /\ status' \in [Rows -> Statuses]
         /\ attempts' \in [Rows -> 0..MaxAttempts]
         /\ pending' \subseteq Rows
         /\ processing' \subseteq Rows
         /\ expired' \subseteq processing'
<1>1. seen[w][e] \in 0..MaxAttempts
  BY DEF TypeOK
<1>2. CASE WriteDelivered(w, e)
  BY <1>1, <1>2 DEF TypeOK, WriteDelivered, Statuses
<1>3. CASE WriteRetry(w, e)
  <2>1. (IF seen[w][e] < MaxAttempts THEN seen[w][e] + 1 ELSE MaxAttempts) \in 0..MaxAttempts
    BY <1>1
  <2>2. attempts' \in [Rows -> 0..MaxAttempts]
    BY <1>3, <2>1 DEF TypeOK, WriteRetry
  <2>3. QED
    BY <1>3, <2>2 DEF TypeOK, WriteRetry, Statuses
<1>4. CASE UNCHANGED <<status, attempts, pending, processing, expired>>
  BY <1>4 DEF TypeOK
<1>5. QED
  BY <1>2, <1>3, <1>4

LEMMA TypeInit == Init => TypeOK
  BY DEF Init, TypeOK, Unloaded, Statuses, Labels, Rows

LEMMA TypeStep == TypeOK /\ LabelInv /\ [Next]_vars => TypeOK'
<1> SUFFICES ASSUME TypeOK, LabelInv, [Next]_vars PROVE TypeOK'
  OBVIOUS
<1> USE DEF vars, redisVars, workerVars, histVars
<1>1. ASSUME NEW d \in Domain, AppendDomain(d) PROVE TypeOK'
  BY <1>1 DEF TypeOK, AppendDomain, Rows, Statuses
<1>2. ASSUME NEW h \in Direct, SendWebhook(h) PROVE TypeOK'
  BY <1>2 DEF TypeOK, SendWebhook, Rows, Statuses
<1>3. ASSUME NEW e \in Rows, ExpireBody(e) PROVE TypeOK'
  BY <1>3 DEF TypeOK, ExpireBody, Statuses
<1>4. ASSUME NEW e \in Rows, LeaseExpires(e) PROVE TypeOK'
  BY <1>4 DEF TypeOK, LeaseExpires
<1>5. ASSUME NEW w \in Workers, ReclaimExpired(w) PROVE TypeOK'
  BY <1>5 DEF TypeOK, ReclaimExpired, Labels
<1>6. ASSUME NEW w \in Workers, ClaimDue(w) PROVE TypeOK'
  BY <1>6 DEF TypeOK, ClaimDue, ClaimRows, Labels
<1>7. ASSUME NEW w \in Workers, LoadEvents(w) PROVE TypeOK'
  <2>1. PICK L \in SUBSET batch[w] : LoadRows(w, L)
    BY <1>7 DEF LoadEvents
  <2>2. L \subseteq Rows
    BY DEF TypeOK
  <2>3. [e \in Rows |-> IF e \in L THEN attempts[e] ELSE 0] \in [Rows -> 0..MaxAttempts]
    BY DEF TypeOK
  <2>4. seen' \in [Workers -> [Rows -> 0..MaxAttempts]]
    BY <2>1, <2>3 DEF TypeOK, LoadRows
  <2>5. batch' \in [Workers -> SUBSET Rows] /\ pc' \in [Workers -> Labels]
    BY <2>1, <2>2 DEF TypeOK, LoadRows, Labels
  <2>6. frozen' \subseteq Instances
    BY <2>1 DEF TypeOK, LoadRows, Workers
  <2>7. QED
    BY <2>1, <2>4, <2>5, <2>6 DEF TypeOK, LoadRows
<1>7a. ASSUME NEW w \in Workers, LoadThrows(w) PROVE TypeOK'
  BY <1>7a DEF TypeOK, LoadThrows, Labels
<1>8. ASSUME NEW w \in Workers, RelayPublish(w) PROVE TypeOK'
  <2>1. PICK e \in batch[w] :
          /\ batch' = [batch EXCEPT ![w] = @ \ {e}]
          /\ cur' = [cur EXCEPT ![w] = e]
          /\ \/ /\ published' = published \cup {e}
                /\ FanOut(e)
                /\ pc' = [pc EXCEPT ![w] = "dispatch"]
             \/ /\ Faults
                /\ published' \in {published, published \cup {e}}
                /\ pc' = [pc EXCEPT ![w] = "retry"]
                /\ UNCHANGED <<status, parent, pending>>
    BY <1>8 DEF RelayPublish
  <2>2. e \in Rows
    BY DEF TypeOK
  <2>3. /\ status' \in [Rows -> Statuses]
        /\ parent' \in [Hooks -> Domain \cup {NoRow}]
        /\ pending' \subseteq Rows
    BY <2>1, <2>2, FanOutType DEF TypeOK
  <2>4. batch' \in [Workers -> SUBSET Rows] /\ cur' \in [Workers -> Rows \cup {NoRow}]
    BY <2>1, <2>2 DEF TypeOK
  <2>5. pc' \in [Workers -> Labels] /\ published' \subseteq Rows
    BY <2>1, <2>2 DEF TypeOK, Labels
  <2>6. QED
    BY <1>8, <2>3, <2>4, <2>5 DEF TypeOK, RelayPublish
<1>9. ASSUME NEW w \in Workers, RelayDispatch(w) PROVE TypeOK'
  <2>1. cur[w] \in Rows
    BY <1>9 DEF RelayDispatch, LabelInv
  <2>2. Credit(cur[w]) \in [Domain -> 0..2]
    BY <2>1, CreditType
  <2>3. credited' \in [Domain -> 0..2]
    BY <1>9, <2>2 DEF TypeOK, RelayDispatch
  <2>4. handled' \subseteq Rows /\ pc' \in [Workers -> Labels]
    BY <1>9, <2>1 DEF TypeOK, RelayDispatch, Labels
  <2>5. QED
    BY <1>9, <2>3, <2>4 DEF TypeOK, RelayDispatch
<1>10. ASSUME NEW w \in Workers, MarkDelivered(w) \/ RetryWritten(w) \/ RetryThrows(w)
       PROVE  TypeOK'
  <2>1. cur[w] \in Rows
    BY <1>10 DEF MarkDelivered, RetryWritten, RetryThrows, LabelInv
  <2>2. /\ status' \in [Rows -> Statuses]
        /\ attempts' \in [Rows -> 0..MaxAttempts]
        /\ pending' \subseteq Rows
        /\ processing' \subseteq Rows
        /\ expired' \subseteq processing'
    BY <1>10, <2>1, WriteType DEF MarkDelivered, RetryWritten, RetryThrows
  <2>3. /\ pc' \in [Workers -> Labels]
        /\ batch' \in [Workers -> SUBSET Rows]
        /\ cur' \in [Workers -> Rows \cup {NoRow}]
    BY <1>10 DEF TypeOK, MarkDelivered, RetryWritten, RetryThrows, NextRow, Labels
  <2>4. seen' \in [Workers -> [Rows -> 0..MaxAttempts]]
    BY <1>10, <2>1 DEF TypeOK, MarkDelivered, RetryWritten, RetryThrows, NextRow, Unloaded
  <2>5. QED
    BY <1>10, <2>2, <2>3, <2>4 DEF TypeOK, MarkDelivered, RetryWritten, RetryThrows
<1>11. ASSUME NEW r \in Replayers, ReplayRead(r) \/ ReplayWrite(r) PROVE TypeOK'
  <2>1. CASE ReplayRead(r)
    BY <2>1 DEF TypeOK, ReplayRead
  <2>2. CASE ReplayWrite(r)
    <3>1. replaying[r] \in Rows
      BY <2>2 DEF TypeOK, ReplayWrite
    <3>2. status' \in [Rows -> Statuses] /\ pending' \subseteq Rows
      BY <2>2, <3>1 DEF TypeOK, ReplayWrite, Statuses
    <3>3. attempts' \in [Rows -> 0..MaxAttempts]
      BY <2>2, <3>1 DEF TypeOK, ReplayWrite
    <3>4. replaying' \in [Replayers -> Rows \cup {NoRow}]
      BY <2>2 DEF TypeOK, ReplayWrite
    <3>5. QED
      BY <2>2, <3>2, <3>3, <3>4 DEF TypeOK, ReplayWrite
  <2>3. QED
    BY <1>11, <2>1, <2>2
<1>12. ASSUME NEW i \in Instances, Crash(i) PROVE TypeOK'
  BY <1>12 DEF TypeOK, Crash, Unloaded, Labels
<1>13. CASE UNCHANGED vars
  BY <1>13 DEF TypeOK
<1>14. QED
  BY <1>1, <1>2, <1>3, <1>4, <1>5, <1>6, <1>7, <1>7a, <1>8, <1>9, <1>10, <1>11, <1>12, <1>13
     DEF Next, WorkerStep, RelayStep

----------------------------------------------------------------------------
LEMMA LabelStep == TypeOK /\ LabelInv /\ [Next]_vars => LabelInv'
<1> SUFFICES ASSUME TypeOK, LabelInv, [Next]_vars, NEW v \in Workers
             PROVE  /\ pc'[v] \in {"dispatch", "mark", "retry"} => cur'[v] \in Rows
                    /\ pc'[v] \in {"dispatch", "mark"} => cur'[v] \in published'
                    /\ pc'[v] = "mark" => cur'[v] \in handled'
  BY DEF LabelInv
<1> USE DEF vars, redisVars, workerVars, histVars
<1>1. CASE pc' = pc /\ cur' = cur /\ published' = published /\ handled' = handled
  BY <1>1 DEF LabelInv
<1>2. ASSUME NEW w \in Workers, ReclaimExpired(w) \/ ClaimDue(w) \/ LoadEvents(w) \/ LoadThrows(w)
      PROVE  /\ cur' = cur /\ published' = published /\ handled' = handled
             /\ \A u \in Workers : pc'[u] = pc[u] \/ pc'[u] \in {"idle", "claim", "load", "publish", "spin"}
  BY <1>2 DEF TypeOK, ReclaimExpired, ClaimDue, ClaimRows, LoadEvents, LoadRows, LoadThrows
<1>3. ASSUME NEW w \in Workers, RelayPublish(w) \/ RelayDispatch(w)
      PROVE  /\ published \subseteq published' /\ handled \subseteq handled'
             /\ \A u \in Workers : u = w \/ (pc'[u] = pc[u] /\ cur'[u] = cur[u])
             /\ pc'[w] \in {"dispatch", "mark", "retry"} => cur'[w] \in Rows
             /\ pc'[w] \in {"dispatch", "mark"} => cur'[w] \in published'
             /\ pc'[w] = "mark" => cur'[w] \in handled'
  <2>1. CASE RelayPublish(w)
    BY <2>1 DEF TypeOK, RelayPublish
  <2>2. CASE RelayDispatch(w)
    BY <2>2 DEF TypeOK, RelayDispatch, LabelInv
  <2>3. QED
    BY <1>3, <2>1, <2>2
<1>4. ASSUME NEW w \in Workers, MarkDelivered(w) \/ RetryWritten(w) \/ RetryThrows(w)
      PROVE  /\ published' = published /\ handled' = handled
             /\ \A u \in Workers : u = w \/ (pc'[u] = pc[u] /\ cur'[u] = cur[u])
             /\ pc'[w] \in {"idle", "publish"} \/ (pc[w] = "mark" /\ pc'[w] = "retry" /\ cur' = cur)
  BY <1>4 DEF TypeOK, MarkDelivered, RetryWritten, RetryThrows, NextRow
<1>5. ASSUME NEW i \in Instances, Crash(i)
      PROVE  /\ published' = published /\ handled' = handled
             /\ \A u \in Workers : pc'[u] = "idle" \/ (pc'[u] = pc[u] /\ cur'[u] = cur[u])
  BY <1>5 DEF TypeOK, Crash
<1>6. CASE \E w \in Workers : WorkerStep(w)
  BY <1>2, <1>3, <1>4, <1>6 DEF LabelInv, WorkerStep, RelayStep
<1>7. CASE \E i \in Instances : Crash(i)
  BY <1>5, <1>7 DEF LabelInv
<1>8. QED
  BY <1>1, <1>6, <1>7 DEF Next, AppendDomain, SendWebhook, ExpireBody, LeaseExpires,
                          ReplayRead, ReplayWrite

\* The effect of the writes of one row on the indexes, apart from who makes them.
LEMMA WriteDelivery ==
  ASSUME TypeOK, NeverLost, QueuedIsUndelivered, NEW w \in Workers, NEW f \in Rows,
         WriteDelivered(w, f) \/ WriteRetry(w, f)
           \/ UNCHANGED <<status, attempts, pending, processing, expired>>
  PROVE  NeverLost' /\ QueuedIsUndelivered'
<1> USE DEF NeverLost, QueuedIsUndelivered, Queued
<1>1. CASE WriteDelivered(w, f)
  BY <1>1 DEF TypeOK, WriteDelivered
<1>2. CASE WriteRetry(w, f)
  BY <1>2 DEF TypeOK, WriteRetry
<1>3. CASE UNCHANGED <<status, attempts, pending, processing, expired>>
  BY <1>3
<1>4. QED
  BY <1>1, <1>2, <1>3

LEMMA IndexStep ==
  TypeOK /\ LabelInv /\ NeverLost /\ QueuedIsUndelivered /\ [Next]_vars
    => NeverLost' /\ QueuedIsUndelivered'
<1> SUFFICES ASSUME TypeOK, LabelInv, NeverLost, QueuedIsUndelivered, [Next]_vars
             PROVE  NeverLost' /\ QueuedIsUndelivered'
  OBVIOUS
<1> USE DEF vars, redisVars, workerVars, histVars
<1>1. CASE status' = status /\ Queued' = Queued
  BY <1>1 DEF NeverLost, QueuedIsUndelivered
<1>2. ASSUME NEW e \in Rows, status' = [status EXCEPT ![e] = "pending"],
             pending' = pending \cup {e}, processing' = processing
      PROVE  NeverLost' /\ QueuedIsUndelivered'
  BY <1>2 DEF TypeOK, NeverLost, QueuedIsUndelivered, Queued
<1>3. ASSUME NEW e \in Rows, ExpireBody(e) PROVE NeverLost' /\ QueuedIsUndelivered'
  BY <1>3 DEF TypeOK, ExpireBody, NeverLost, QueuedIsUndelivered, Queued
<1>4. ASSUME NEW w \in Workers, ReclaimExpired(w) \/ ClaimDue(w) \/ LoadEvents(w) \/ LoadThrows(w)
                                    \/ RelayDispatch(w)
      PROVE  status' = status /\ Queued' = Queued
  <2>1. CASE ReclaimExpired(w)
    BY <2>1 DEF TypeOK, ReclaimExpired, Queued
  <2>2. CASE ClaimDue(w)
    BY <2>2 DEF ClaimDue, ClaimRows, Queued
  <2>3. CASE LoadEvents(w) \/ LoadThrows(w) \/ RelayDispatch(w)
    BY <2>3 DEF LoadEvents, LoadRows, LoadThrows, RelayDispatch, Queued
  <2>4. QED
    BY <1>4, <2>1, <2>2, <2>3
<1>5. ASSUME NEW w \in Workers, RelayPublish(w) PROVE NeverLost' /\ QueuedIsUndelivered'
  <2>1. CASE UNCHANGED <<status, parent, pending>>
    BY <1>1, <1>5, <2>1 DEF RelayPublish, Queued
  <2>2. CASE \E h \in Hooks : /\ status' = [status EXCEPT ![h] = "pending"]
                             /\ pending' = pending \cup {h}
    BY <1>2, <1>5, <2>2 DEF RelayPublish, Rows
  <2>3. QED
    BY <1>5, <2>1, <2>2 DEF RelayPublish, FanOut
<1>6. ASSUME NEW w \in Workers, MarkDelivered(w) \/ RetryWritten(w) \/ RetryThrows(w)
      PROVE  NeverLost' /\ QueuedIsUndelivered'
  <2>1. cur[w] \in Rows
    BY <1>6 DEF MarkDelivered, RetryWritten, RetryThrows, LabelInv
  <2>2. QED
    BY <1>6, <2>1, WriteDelivery DEF MarkDelivered, RetryWritten, RetryThrows
<1>7. ASSUME NEW r \in Replayers, ReplayRead(r) \/ ReplayWrite(r)
      PROVE  NeverLost' /\ QueuedIsUndelivered'
  <2>1. CASE status' = status /\ pending' = pending
    BY <1>1, <1>7, <2>1 DEF ReplayRead, ReplayWrite, Queued
  <2>2. CASE ReplayWrite(r) /\ ~(status' = status /\ pending' = pending)
    <3>1. replaying[r] \in Rows
      BY <2>2 DEF TypeOK, ReplayWrite
    <3>2. QED
      BY <1>2, <2>2, <3>1 DEF ReplayWrite
  <2>3. QED
    BY <1>7, <2>1, <2>2 DEF ReplayRead
<1>8. ASSUME NEW d \in Domain, AppendDomain(d) PROVE NeverLost' /\ QueuedIsUndelivered'
  BY <1>2, <1>8 DEF AppendDomain, Rows
<1>9. ASSUME NEW h \in Direct, SendWebhook(h) PROVE NeverLost' /\ QueuedIsUndelivered'
  BY <1>2, <1>9 DEF SendWebhook, Rows
<1>10. CASE UNCHANGED vars \/ (\E i \in Instances : Crash(i)) \/ (\E e \in Rows : LeaseExpires(e))
  BY <1>1, <1>10 DEF Crash, LeaseExpires, Queued
<1>11. QED
  BY <1>1, <1>3, <1>4, <1>5, <1>6, <1>7, <1>8, <1>9, <1>10 DEF Next, WorkerStep, RelayStep

LEMMA TargetsStep ==
  TypeOK /\ LabelInv /\ DeliveredWasHandled /\ [Next]_vars => DeliveredWasHandled'
<1> SUFFICES ASSUME TypeOK, LabelInv, DeliveredWasHandled, [Next]_vars,
                    NEW f \in Rows, status'[f] \in {"delivered", "gone"}
             PROVE  f \in published' \cap handled'
  BY DEF DeliveredWasHandled
<1> USE DEF vars, redisVars, workerVars, histVars
<1>1. published \subseteq published' /\ handled \subseteq handled'
  BY DEF TypeOK, Next, WorkerStep, RelayStep, AppendDomain, SendWebhook, ExpireBody, LeaseExpires,
         ReclaimExpired, ClaimDue, ClaimRows, LoadEvents, LoadRows, LoadThrows, RelayPublish, RelayDispatch,
         MarkDelivered, RetryWritten, RetryThrows, ReplayRead, ReplayWrite, Crash
<1>2. CASE status[f] \in {"delivered", "gone"}
  BY <1>1, <1>2 DEF DeliveredWasHandled
<1>3. CASE status[f] \notin {"delivered", "gone"}
  <2>1. PICK w \in Workers : MarkDelivered(w) /\ cur[w] = f
    <3>1. ASSUME NEW w \in Workers, RelayPublish(w) PROVE FALSE
      BY <1>3, <3>1 DEF TypeOK, RelayPublish, FanOut
    <3>2. ASSUME NEW w \in Workers, RetryWritten(w) \/ RetryThrows(w) PROVE FALSE
      BY <1>3, <3>2 DEF TypeOK, RetryWritten, RetryThrows, WriteRetry
    <3>3. ASSUME NEW r \in Replayers, ReplayRead(r) \/ ReplayWrite(r) PROVE FALSE
      BY <1>3, <3>3 DEF TypeOK, ReplayRead, ReplayWrite
    <3>4. ASSUME NEW w \in Workers, MarkDelivered(w) PROVE cur[w] = f
      BY <1>3, <3>4 DEF TypeOK, MarkDelivered, WriteDelivered
    <3>5. CASE \E e \in Rows : ExpireBody(e) \/ LeaseExpires(e)
      BY <1>3, <3>5 DEF TypeOK, ExpireBody, LeaseExpires
    <3>6. CASE \E d \in Domain : AppendDomain(d)
      BY <1>3, <3>6 DEF TypeOK, AppendDomain
    <3>7. CASE \E h \in Direct : SendWebhook(h)
      BY <1>3, <3>7 DEF TypeOK, SendWebhook
    <3>8. ASSUME NEW w \in Workers, ReclaimExpired(w) \/ ClaimDue(w) \/ LoadEvents(w) \/ LoadThrows(w)
                                      \/ RelayDispatch(w)
          PROVE  FALSE
      BY <1>3, <3>8 DEF ReclaimExpired, ClaimDue, ClaimRows, LoadEvents, LoadRows, LoadThrows, RelayDispatch
    <3>9. CASE UNCHANGED vars \/ \E i \in Instances : Crash(i)
      BY <1>3, <3>9 DEF Crash
    <3>10. QED
      BY <3>1, <3>2, <3>3, <3>4, <3>5, <3>6, <3>7, <3>8, <3>9 DEF Next, WorkerStep, RelayStep
  <2>2. QED
    BY <1>1, <2>1 DEF LabelInv, MarkDelivered
<1>4. QED
  BY <1>2, <1>3

LEMMA DeliveryInit == Init => DeliveryInv
<1>1. Init => LabelInv /\ NeverLost /\ QueuedIsUndelivered /\ DeliveredWasHandled
  BY DEF Init, LabelInv, NeverLost, QueuedIsUndelivered, DeliveredWasHandled, Queued
<1>2. QED
  BY <1>1, TypeInit DEF DeliveryInv

\* The inductive invariant holds in every reachable state.
THEOREM DeliveryInvariant == Spec => []DeliveryInv
<1>1. DeliveryInv /\ [Next]_vars => DeliveryInv'
  BY TypeStep, LabelStep, IndexStep, TargetsStep DEF DeliveryInv
<1>2. QED
  BY <1>1, DeliveryInit, PTL DEF Spec

\* Every variable keeps its type; the attempt count never passes OUTBOX_MAX_ATTEMPTS.
THEOREM TypeCorrect == Spec => []TypeOK
<1>1. DeliveryInv => TypeOK
  BY DEF DeliveryInv
<1>2. QED
  BY <1>1, DeliveryInvariant, PTL

\* At-least-once delivery (append, claimDue, reclaimExpired, retry, replayAll): a
\* row that is not delivered or failed is in an index, for any number of workers.
THEOREM NoRowIsLost == Spec => []NeverLost
<1>1. DeliveryInv => NeverLost
  BY DEF DeliveryInv
<1>2. QED
  BY <1>1, DeliveryInvariant, PTL

\* The indexes never name a delivered row or one whose body has expired, so no
\* claim finds a missing body (loadEvents).
THEOREM NoStaleIndexEntry == Spec => []QueuedIsUndelivered
<1>1. DeliveryInv => QueuedIsUndelivered
  BY DEF DeliveryInv
<1>2. QED
  BY <1>1, DeliveryInvariant, PTL

\* markDelivered is reached only after publisher and handlers took the row, also
\* when leases are lost and several passes work on it (runOnce).
THEOREM DeliveredMeansHandled == Spec => []DeliveredWasHandled
<1>1. DeliveryInv => DeliveredWasHandled
  BY DEF DeliveryInv
<1>2. QED
  BY <1>1, DeliveryInvariant, PTL

----------------------------------------------------------------------------
(* Ownership of rows while leases outlast the work done under them.          *)

\* What the program counter says of the rows a worker has.
HandInv ==
  \A w \in Workers :
    /\ pc[w] \in {"idle", "claim"} => batch[w] = {}
    /\ pc[w] \notin {"dispatch", "mark", "retry"} => cur[w] = NoRow
    /\ cur[w] \notin batch[w]

\* A row somebody works on is in no index another worker claims or reclaims from,
\* and has a status nobody else may change.
HeldInv ==
  \A w \in Workers : Running(w) =>
    \A e \in Holding(w) : e \notin pending /\ e \notin expired /\ status[e] \notin {"none", "failed"}

DisjointInv ==
  \A v, w \in Workers : Running(v) /\ Running(w) /\ v # w => Holding(v) \cap Holding(w) = {}

ReplayInv == \A r \in Replayers : replaying[r] # NoRow => status[replaying[r]] = "failed"

LeaseInv == DeliveryInv /\ HandInv /\ HeldInv /\ DisjointInv /\ ReplayInv /\ FailedIsRetired

LEMMA HandStep == TypeOK /\ HandInv /\ [Next]_vars => HandInv'
<1> SUFFICES ASSUME TypeOK, HandInv, [Next]_vars PROVE HandInv'
  OBVIOUS
<1> USE DEF vars, redisVars, workerVars, histVars
<1>1. CASE pc' = pc /\ batch' = batch /\ cur' = cur
  BY <1>1 DEF HandInv
<1>2. ASSUME NEW w \in Workers, ReclaimExpired(w) \/ ClaimDue(w) PROVE HandInv'
  BY <1>2 DEF TypeOK, HandInv, ReclaimExpired, ClaimDue, ClaimRows
<1>3. ASSUME NEW w \in Workers, LoadEvents(w) PROVE HandInv'
  <2>1. PICK L \in SUBSET batch[w] : LoadRows(w, L) BY <1>3 DEF LoadEvents
  <2>2. /\ batch' = [batch EXCEPT ![w] = L] /\ cur' = cur /\ pc[w] = "load"
        /\ \A v \in Workers \ {w} : pc'[v] = pc[v]
        /\ pc'[w] \in {"idle", "spin", "publish"} /\ (pc'[w] = "idle" => L = {})
    BY <2>1 DEF TypeOK, LoadRows
  <2>q. QED BY <2>1, <2>2 DEF TypeOK, HandInv
<1>3a. ASSUME NEW w \in Workers, LoadThrows(w) PROVE HandInv'
  BY <1>3a DEF TypeOK, HandInv, LoadThrows
<1>4. ASSUME NEW w \in Workers, RelayPublish(w) PROVE HandInv'
  BY <1>4 DEF TypeOK, HandInv, RelayPublish
<1>5. ASSUME NEW w \in Workers, RelayDispatch(w) PROVE HandInv'
  BY <1>5 DEF TypeOK, HandInv, RelayDispatch
<1>6. ASSUME NEW w \in Workers, MarkDelivered(w) PROVE HandInv'
  BY <1>6 DEF TypeOK, HandInv, MarkDelivered, NextRow
<1>7. ASSUME NEW w \in Workers, RetryWritten(w) \/ RetryThrows(w) PROVE HandInv'
  BY <1>7 DEF TypeOK, HandInv, RetryWritten, RetryThrows, NextRow
<1>8. ASSUME NEW i \in Instances, Crash(i) PROVE HandInv'
  BY <1>8 DEF TypeOK, HandInv, Crash
<1>9. QED
  BY <1>1, <1>2, <1>3, <1>3a, <1>4, <1>5, <1>6, <1>7, <1>8
     DEF Next, WorkerStep, RelayStep, AppendDomain, SendWebhook, ExpireBody, LeaseExpires,
         ReplayRead, ReplayWrite

\* The part of LeaseInv this step is about.
OwnerInv == HeldInv /\ DisjointInv /\ ReplayInv /\ FailedIsRetired

\* A row nobody holds comes (back) to the pending set.
LEMMA EnqueueStep ==
  ASSUME TypeOK, OwnerInv, NEW e \in Rows,
         \A w \in Workers : Running(w) => e \notin Holding(w),
         \A r \in Replayers : replaying'[r] # NoRow => replaying'[r] # e,
         \A r \in Replayers : replaying'[r] \in {replaying[r], NoRow},
         status' = [status EXCEPT ![e] = "pending"], pending' = pending \cup {e},
         UNCHANGED <<processing, expired, frozen>>,
         \A w \in Workers : Holding(w)' \subseteq Holding(w)
  PROVE  OwnerInv'
<1>1. HeldInv'
  BY DEF OwnerInv, HeldInv, Running, TypeOK
<1>2. DisjointInv'
  BY DEF OwnerInv, DisjointInv, Running
<1>3. ReplayInv'
  BY DEF OwnerInv, ReplayInv, TypeOK
<1>4. FailedIsRetired'
  BY DEF OwnerInv, FailedIsRetired, TypeOK, Queued
<1>5. QED
  BY <1>1, <1>2, <1>3, <1>4 DEF OwnerInv

LEMMA OwnerStep ==
  ASSUME ~SlowWorkers, \A r, s \in Replayers : r = s,
         DeliveryInv, HandInv, OwnerInv, [Next]_vars
  PROVE  OwnerInv'
<1> USE DEF vars, redisVars, workerVars, histVars
<1> TypeOK /\ LabelInv /\ QueuedIsUndelivered
  BY DEF DeliveryInv
<1>1. ASSUME NEW d \in Domain, AppendDomain(d) PROVE OwnerInv'
  <2>1. status[d] = "none" /\ d \in Rows
    BY <1>1 DEF AppendDomain, Rows
  <2>2. \A w \in Workers : Running(w) => d \notin Holding(w)
    BY <2>1 DEF OwnerInv, HeldInv
  <2>3. \A r \in Replayers : replaying[r] # NoRow => replaying[r] # d
    BY <2>1 DEF OwnerInv, ReplayInv
  <2>4. \A w \in Workers : Holding(w)' \subseteq Holding(w)
    BY <1>1 DEF AppendDomain, Holding
  <2>5. QED
    BY <1>1, <2>1, <2>2, <2>3, <2>4, EnqueueStep DEF AppendDomain
<1>2. ASSUME NEW h \in Direct, SendWebhook(h) PROVE OwnerInv'
  <2>1. status[h] = "none" /\ h \in Rows
    BY <1>2 DEF SendWebhook, Rows
  <2>2. \A w \in Workers : Running(w) => h \notin Holding(w)
    BY <2>1 DEF OwnerInv, HeldInv
  <2>3. \A r \in Replayers : replaying[r] # NoRow => replaying[r] # h
    BY <2>1 DEF OwnerInv, ReplayInv
  <2>4. \A w \in Workers : Holding(w)' \subseteq Holding(w)
    BY <1>2 DEF SendWebhook, Holding
  <2>5. QED
    BY <1>2, <2>1, <2>2, <2>3, <2>4, EnqueueStep DEF SendWebhook
<1>3. ASSUME NEW e \in Rows, ExpireBody(e) PROVE OwnerInv'
  <2>1. /\ \A f \in Rows : status'[f] = status[f] \/ (f = e /\ status[e] = "delivered" /\ status'[f] = "gone")
        /\ UNCHANGED <<pending, processing, expired, frozen, replaying>>
    BY <1>3 DEF ExpireBody, TypeOK
  <2>2. \A w \in Workers : Holding(w)' = Holding(w) /\ Holding(w) \subseteq Rows /\ (Running(w)' <=> Running(w))
    BY <1>3 DEF ExpireBody, TypeOK, Holding, Running
  <2>3. HeldInv' /\ DisjointInv'
    BY <2>1, <2>2 DEF OwnerInv, HeldInv, DisjointInv
  <2>4. ReplayInv' /\ FailedIsRetired'
    BY <2>1 DEF TypeOK, OwnerInv, ReplayInv, FailedIsRetired, Queued
  <2>5. QED
    BY <2>3, <2>4 DEF OwnerInv
<1>4. ASSUME NEW e \in Rows, LeaseExpires(e) PROVE OwnerInv'
  <2>1. \A w \in Workers : Running(w) => e \notin Holding(w)
    BY <1>4 DEF LeaseExpires
  <2>2. QED
    BY <1>4, <2>1 DEF LeaseExpires, OwnerInv, HeldInv, DisjointInv, ReplayInv, FailedIsRetired,
                      Running, Holding, Queued
<1>5. ASSUME NEW w \in Workers, ReclaimExpired(w) PROVE OwnerInv'
  BY <1>5 DEF ReclaimExpired, TypeOK, OwnerInv, HeldInv, DisjointInv, ReplayInv, FailedIsRetired,
              Running, Holding, Queued
<1>6. ASSUME NEW w \in Workers, ClaimDue(w) PROVE OwnerInv'
  <2>1. PICK S \in SUBSET pending : ClaimRows(w, S)
    BY <1>6 DEF ClaimDue
  <2>2. batch[w] = {} /\ cur[w] = NoRow
    BY <2>1 DEF ClaimRows, HandInv
  <2>3. Holding(w)' = S /\ \A v \in Workers : v # w => Holding(v)' = Holding(v)
    BY <2>1, <2>2 DEF ClaimRows, TypeOK, Holding
  <2>4. \A e \in S : status[e] \notin {"none", "failed"}
    BY <2>1 DEF QueuedIsUndelivered, Queued, OwnerInv, FailedIsRetired, TypeOK
  <2>5. HeldInv'
    BY <2>1, <2>3, <2>4 DEF ClaimRows, OwnerInv, HeldInv, Running
  <2>6. DisjointInv'
    BY <2>1, <2>3 DEF ClaimRows, OwnerInv, HeldInv, DisjointInv, Running
  <2>7. QED
    BY <2>1, <2>5, <2>6 DEF ClaimRows, OwnerInv, ReplayInv, FailedIsRetired, Queued
<1>7. ASSUME NEW w \in Workers, LoadEvents(w) PROVE OwnerInv'
  <2>1. \A v \in Workers : Holding(v)' \subseteq Holding(v)
    BY <1>7 DEF LoadEvents, LoadRows, Loadable, Holding, TypeOK
  <2>2. \A v \in Workers : Running(v)' => Running(v)
    BY <1>7 DEF LoadEvents, LoadRows, Running
  <2>3. HeldInv' /\ DisjointInv'
    BY <1>7, <2>1, <2>2 DEF LoadEvents, LoadRows, OwnerInv, HeldInv, DisjointInv
  <2>4. QED
    BY <1>7, <2>3 DEF LoadEvents, LoadRows, OwnerInv, ReplayInv, FailedIsRetired, Queued
<1>7a. ASSUME NEW w \in Workers, LoadThrows(w) PROVE OwnerInv'
  <2>1. \A v \in Workers : Holding(v)' \subseteq Holding(v) /\ (Running(v)' <=> Running(v))
    BY <1>7a DEF LoadThrows, Holding, Running, TypeOK
  <2>2. HeldInv' /\ DisjointInv'
    BY <1>7a, <2>1 DEF LoadThrows, OwnerInv, HeldInv, DisjointInv
  <2>3. QED
    BY <1>7a, <2>2 DEF LoadThrows, OwnerInv, ReplayInv, FailedIsRetired, Queued
<1>8. ASSUME NEW w \in Workers, RelayPublish(w) PROVE OwnerInv'
  <2>1. cur[w] = NoRow /\ \A v \in Workers : Holding(v)' = Holding(v)
    <3>1. cur[w] = NoRow
      BY <1>8 DEF RelayPublish, HandInv
    <3>2. QED
      BY <1>8, <3>1 DEF RelayPublish, TypeOK, Holding
  <2>2. CASE UNCHANGED <<status, parent, pending>>
    BY <1>8, <2>1, <2>2 DEF RelayPublish, OwnerInv, HeldInv, DisjointInv, ReplayInv,
                            FailedIsRetired, Running, Queued
  <2>3. CASE \E h \in Hooks : /\ status[h] = "none"
                             /\ status' = [status EXCEPT ![h] = "pending"]
                             /\ pending' = pending \cup {h}
    <3>1. PICK h \in Hooks : /\ status[h] = "none"
                            /\ status' = [status EXCEPT ![h] = "pending"]
                            /\ pending' = pending \cup {h}
      BY <2>3
    <3>2. h \in Rows
      BY DEF Rows
    <3>3. \A v \in Workers : Running(v) => h \notin Holding(v)
      BY <3>1 DEF OwnerInv, HeldInv
    <3>4. \A r \in Replayers : replaying[r] # NoRow => replaying[r] # h
      BY <3>1 DEF OwnerInv, ReplayInv
    <3>5. UNCHANGED <<processing, expired, frozen, replaying>>
      BY <1>8 DEF RelayPublish
    <3>6. QED
      BY <2>1, <3>1, <3>2, <3>3, <3>4, <3>5, EnqueueStep
  <2>4. QED
    BY <1>8, <2>2, <2>3 DEF RelayPublish, FanOut
<1>9. ASSUME NEW w \in Workers, RelayDispatch(w) PROVE OwnerInv'
  BY <1>9 DEF RelayDispatch, OwnerInv, HeldInv, DisjointInv, ReplayInv, FailedIsRetired,
              Running, Holding, Queued
<1>10. ASSUME NEW w \in Workers, MarkDelivered(w) \/ RetryWritten(w) \/ RetryThrows(w)
       PROVE  OwnerInv'
  <2> DEFINE f == cur[w]
  <2>1. f \in Rows /\ f \notin batch[w] /\ Running(w)
    BY <1>10 DEF MarkDelivered, RetryWritten, RetryThrows, LabelInv, HandInv
  <2>2. f \in Holding(w) /\ f \notin pending /\ status[f] \notin {"none", "failed"}
    BY <2>1 DEF Holding, OwnerInv, HeldInv
  <2>3. \A v \in Workers : Running(v) /\ v # w => f \notin Holding(v)
    BY <2>1, <2>2 DEF OwnerInv, DisjointInv
  <2>4. /\ UNCHANGED <<frozen, replaying>>
        /\ \A v \in Workers : v # w => Holding(v)' = Holding(v)
        /\ Holding(w)' \subseteq Holding(w)
    BY <1>10 DEF MarkDelivered, RetryWritten, RetryThrows, NextRow, TypeOK, Holding
  <2>5. /\ \A e \in Rows : e # f => status'[e] = status[e]
        /\ pending' \subseteq pending \cup {f} /\ expired' \subseteq expired
        /\ processing' \subseteq processing /\ pending \ {f} \subseteq pending'
    BY <1>10 DEF MarkDelivered, RetryWritten, RetryThrows, WriteDelivered, WriteRetry, TypeOK
  <2>6. \/ f \notin pending' /\ f \notin expired' /\ status'[f] \notin {"none", "failed"}
        \/ f \notin Holding(w)'
    <3>1. CASE MarkDelivered(w)
      <4>1. CASE WriteDelivered(w, f)
        BY <2>1, <4>1 DEF WriteDelivered, TypeOK
      <4>2. CASE UNCHANGED <<status, attempts, pending, processing, expired>>
        BY <2>1, <2>2, <4>2 DEF OwnerInv, HeldInv
      <4>3. QED
        BY <3>1, <4>1, <4>2 DEF MarkDelivered
    <3>2. CASE RetryWritten(w) \/ RetryThrows(w)
      BY <2>1, <3>2 DEF RetryWritten, RetryThrows, NextRow, Holding, TypeOK
    <3>3. QED
      BY <1>10, <3>1, <3>2
  <2>7. status'[f] = "failed" => f \notin pending' /\ f \notin processing'
    <3>1. CASE WriteDelivered(w, f)
      BY <2>1, <3>1 DEF WriteDelivered, TypeOK
    <3>2. CASE WriteRetry(w, f)
      BY <2>1, <2>2, <3>2 DEF WriteRetry, TypeOK
    <3>3. CASE UNCHANGED <<status, attempts, pending, processing, expired>>
      BY <2>2, <3>3
    <3>4. QED
      BY <1>10, <3>1, <3>2, <3>3 DEF MarkDelivered, RetryWritten, RetryThrows
  <2>8. \A v \in Workers : Holding(v) \subseteq Rows
    BY DEF Holding, TypeOK
  <2>9. HeldInv'
    BY <2>3, <2>4, <2>5, <2>6, <2>8 DEF OwnerInv, HeldInv, Running
  <2>10. DisjointInv'
    BY <2>4 DEF OwnerInv, DisjointInv, Running
  <2>11. ReplayInv'
    BY <2>2, <2>4, <2>5 DEF OwnerInv, ReplayInv, TypeOK
  <2>12. FailedIsRetired'
    BY <2>5, <2>7 DEF OwnerInv, FailedIsRetired, Queued, TypeOK
  <2>13. QED
    BY <2>9, <2>10, <2>11, <2>12 DEF OwnerInv
<1>11. ASSUME NEW r \in Replayers, ReplayRead(r) PROVE OwnerInv'
  <2>1. UNCHANGED <<redisVars, workerVars, frozen>>
    BY <1>11 DEF ReplayRead
  <2>2. HeldInv' /\ DisjointInv' /\ FailedIsRetired'
    BY <2>1 DEF OwnerInv, HeldInv, DisjointInv, FailedIsRetired, Running, Holding, Queued
  <2>3. ReplayInv'
    BY <1>11 DEF ReplayRead, TypeOK, OwnerInv, ReplayInv
  <2>4. QED
    BY <2>2, <2>3 DEF OwnerInv
<1>12. ASSUME NEW r \in Replayers, ReplayWrite(r) PROVE OwnerInv'
  <2> DEFINE e == replaying[r]
  <2>1. e \in Rows /\ status[e] = "failed"
    BY <1>12 DEF ReplayWrite, TypeOK, OwnerInv, ReplayInv
  <2>2. \A w \in Workers : Running(w) => e \notin Holding(w)
    BY <2>1 DEF OwnerInv, HeldInv
  <2>3. \A s \in Replayers : replaying'[s] = NoRow
    BY <1>12 DEF ReplayWrite, TypeOK
  <2>4. UNCHANGED <<processing, expired, frozen>> /\ \A w \in Workers : Holding(w)' = Holding(w)
    BY <1>12 DEF ReplayWrite, Holding
  <2>5. CASE UNCHANGED <<status, pending>>
    BY <2>3, <2>4, <2>5 DEF OwnerInv, HeldInv, DisjointInv, ReplayInv, FailedIsRetired, Running, Queued
  <2>6. CASE status' = [status EXCEPT ![e] = "pending"] /\ pending' = pending \cup {e}
    BY <2>1, <2>2, <2>3, <2>4, <2>6, EnqueueStep
  <2>7. QED
    BY <1>12, <2>5, <2>6 DEF ReplayWrite
<1>13. ASSUME NEW i \in Instances, Crash(i) PROVE OwnerInv'
  <2>1. \A w \in Workers : Holding(w)' = IF Host[w] = i THEN {} ELSE Holding(w)
    BY <1>13 DEF Crash, Holding, TypeOK
  <2>2. \A w \in Workers : Host[w] # i => (Running(w)' <=> Running(w))
    BY <1>13 DEF Crash, Running
  <2>3. HeldInv' /\ DisjointInv'
    BY <1>13, <2>1, <2>2 DEF Crash, OwnerInv, HeldInv, DisjointInv
  <2>4. QED
    BY <1>13, <2>3 DEF Crash, OwnerInv, ReplayInv, FailedIsRetired, Queued
<1>14. CASE UNCHANGED vars
  BY <1>14 DEF OwnerInv, HeldInv, DisjointInv, ReplayInv, FailedIsRetired, Running, Holding, Queued
<1>15. QED
  BY <1>1, <1>2, <1>3, <1>4, <1>5, <1>6, <1>7, <1>7a, <1>8, <1>9, <1>10, <1>11, <1>12, <1>13, <1>14
     DEF Next, WorkerStep, RelayStep

LEMMA LeaseInit == Init => LeaseInv
<1>1. Init => HandInv /\ HeldInv /\ DisjointInv /\ ReplayInv /\ FailedIsRetired
  BY DEF Init, HandInv, HeldInv, DisjointInv, ReplayInv, FailedIsRetired, Holding, Queued
<1>2. QED
  BY <1>1, DeliveryInit DEF LeaseInv

\* The inductive invariant, when no live worker outlives its lease and at most one
\* replay-all request runs at a time.
THEOREM LeaseInvariant ==
  ASSUME ~SlowWorkers, \A r, s \in Replayers : r = s
  PROVE  Spec => []LeaseInv
<1>1. LeaseInv /\ [Next]_vars => LeaseInv'
  <2> SUFFICES ASSUME LeaseInv, [Next]_vars PROVE LeaseInv'
    OBVIOUS
  <2>1. DeliveryInv'
    BY TypeStep, LabelStep, IndexStep, TargetsStep DEF DeliveryInv, LeaseInv
  <2>2. HandInv'
    BY HandStep DEF LeaseInv, DeliveryInv
  <2>3. OwnerInv'
    BY OwnerStep DEF LeaseInv, OwnerInv
  <2>4. QED
    BY <2>1, <2>2, <2>3 DEF LeaseInv, OwnerInv
<1>2. QED
  BY <1>1, LeaseInit, PTL DEF Spec

\* claimDue gives a row to one worker at a time: no two live workers have the same
\* row in hand, and none has a row that is up for claiming or reclaiming.
THEOREM OneOwnerPerRow ==
  ASSUME ~SlowWorkers, \A r, s \in Replayers : r = s
  PROVE  Spec => []ExclusiveLease
<1>1. LeaseInv => ExclusiveLease
  BY DEF LeaseInv, HeldInv, DisjointInv, ExclusiveLease
<1>2. QED
  BY <1>1, LeaseInvariant, PTL

\* Under the same conditions a row that failed for good (retry at the limit) is in
\* neither index until an administrator replays it.
THEOREM FailedRowsRetire ==
  ASSUME ~SlowWorkers, \A r, s \in Replayers : r = s
  PROVE  Spec => []FailedIsRetired
<1>1. LeaseInv => FailedIsRetired
  BY DEF LeaseInv
<1>2. QED
  BY <1>1, LeaseInvariant, PTL

----------------------------------------------------------------------------
(* The outbox implements AtLeastOnce. *)
\* A row that a worker or a replay has in hand was appended, however late they come.
AppendedInv ==
  /\ \A w \in Workers : \A e \in Holding(w) : status[e] # "none"
  /\ \A r \in Replayers : replaying[r] # NoRow => status[replaying[r]] # "none"

\* Handlers see a row only after it was published.
PublishedFirst == handled \subseteq published

RefinementInv == DeliveryInv /\ AppendedInv /\ PublishedFirst

\* A row once appended stays so.
LEMMA AppendedForGood ==
  ASSUME TypeOK, LabelInv, [Next]_vars, NEW e \in Rows, status[e] # "none"
  PROVE  status'[e] # "none"
<1> USE DEF vars, redisVars, workerVars, histVars
<1>1. ASSUME NEW w \in Workers, RelayPublish(w) PROVE status'[e] # "none"
  BY <1>1 DEF RelayPublish, FanOut, TypeOK
<1>2. ASSUME NEW w \in Workers, MarkDelivered(w) \/ RetryWritten(w) \/ RetryThrows(w)
      PROVE  status'[e] # "none"
  BY <1>2 DEF MarkDelivered, RetryWritten, RetryThrows, WriteDelivered, WriteRetry, TypeOK
<1>3. ASSUME NEW r \in Replayers, ReplayWrite(r) PROVE status'[e] # "none"
  BY <1>3 DEF ReplayWrite, TypeOK
<1>4. CASE \/ \E d \in Domain : AppendDomain(d)
           \/ \E h \in Direct : SendWebhook(h)
           \/ \E f \in Rows : ExpireBody(f)
  BY <1>4 DEF AppendDomain, SendWebhook, ExpireBody, TypeOK
<1>5. QED
  BY <1>1, <1>2, <1>3, <1>4
     DEF Next, WorkerStep, RelayStep, LeaseExpires, ReclaimExpired, ClaimDue, ClaimRows, LoadEvents,
         LoadRows, LoadThrows, RelayDispatch, ReplayRead, Crash

LEMMA AppendedStep ==
  TypeOK /\ LabelInv /\ QueuedIsUndelivered /\ AppendedInv /\ [Next]_vars => AppendedInv'
<1> SUFFICES ASSUME TypeOK, LabelInv, QueuedIsUndelivered, AppendedInv, [Next]_vars
             PROVE  AppendedInv'
  OBVIOUS
<1> USE DEF vars, redisVars, workerVars, histVars
<1>1. \A v \in Workers : \A e \in Holding(v)' : e \in Holding(v) \/ e \in pending
  <2>1. ASSUME NEW w \in Workers, ReclaimExpired(w) \/ LoadThrows(w) \/ RelayDispatch(w)
        PROVE  \A v \in Workers : Holding(v)' \subseteq Holding(v)
    BY <2>1 DEF ReclaimExpired, LoadThrows, RelayDispatch, Holding, TypeOK
  <2>2. ASSUME NEW w \in Workers, ClaimDue(w)
        PROVE  \A v \in Workers : Holding(v)' \subseteq Holding(v) \cup pending
    BY <2>2 DEF ClaimDue, ClaimRows, Holding, TypeOK
  <2>3. ASSUME NEW w \in Workers, LoadEvents(w)
        PROVE  \A v \in Workers : Holding(v)' \subseteq Holding(v)
    BY <2>3 DEF LoadEvents, LoadRows, Holding, TypeOK
  <2>4. ASSUME NEW w \in Workers, RelayPublish(w)
        PROVE  \A v \in Workers : Holding(v)' \subseteq Holding(v)
    BY <2>4 DEF RelayPublish, Holding, TypeOK
  <2>5. ASSUME NEW w \in Workers, MarkDelivered(w) \/ RetryWritten(w) \/ RetryThrows(w)
        PROVE  \A v \in Workers : Holding(v)' \subseteq Holding(v)
    BY <2>5 DEF MarkDelivered, RetryWritten, RetryThrows, NextRow, Holding, TypeOK
  <2>6. ASSUME NEW i \in Instances, Crash(i)
        PROVE  \A v \in Workers : Holding(v)' \subseteq Holding(v)
    BY <2>6 DEF Crash, Holding, TypeOK
  <2>7. CASE UNCHANGED workerVars
    BY <2>7 DEF Holding
  <2>8. QED
    BY <2>1, <2>2, <2>3, <2>4, <2>5, <2>6, <2>7
       DEF Next, WorkerStep, RelayStep, AppendDomain, SendWebhook, ExpireBody, LeaseExpires,
           ReplayRead, ReplayWrite
<1>2. \A r \in Replayers : \/ replaying'[r] = NoRow \/ replaying'[r] = replaying[r]
                           \/ status[replaying'[r]] = "failed"
  BY DEF Next, WorkerStep, RelayStep, AppendDomain, SendWebhook, ExpireBody, LeaseExpires,
         ReclaimExpired, ClaimDue, ClaimRows, LoadEvents, LoadRows, LoadThrows, RelayPublish, RelayDispatch,
         MarkDelivered, RetryWritten, RetryThrows, ReplayRead, ReplayWrite, Crash, TypeOK
<1>3. \A e \in pending : status[e] # "none"
  BY DEF QueuedIsUndelivered, Queued
<1>4. TypeOK'
  BY TypeStep
<1>5. (\A v \in Workers : Holding(v)' \subseteq Rows) /\ (\A r \in Replayers : replaying'[r] \in Rows \cup {NoRow})
  BY <1>4 DEF TypeOK, Holding
<1>6. QED
  BY <1>1, <1>2, <1>3, <1>5, AppendedForGood DEF AppendedInv

LEMMA PublishedFirstStep == TypeOK /\ LabelInv /\ PublishedFirst /\ [Next]_vars => PublishedFirst'
<1> SUFFICES ASSUME TypeOK, LabelInv, PublishedFirst, [Next]_vars PROVE PublishedFirst'
  OBVIOUS
<1> USE DEF vars, redisVars, workerVars, histVars
<1>1. ASSUME NEW w \in Workers, RelayDispatch(w) PROVE PublishedFirst'
  BY <1>1 DEF RelayDispatch, LabelInv, PublishedFirst
<1>2. ASSUME NEW w \in Workers, RelayPublish(w) PROVE PublishedFirst'
  BY <1>2 DEF RelayPublish, PublishedFirst
<1>3. CASE UNCHANGED <<published, handled>>
  BY <1>3 DEF PublishedFirst
<1>4. QED
  BY <1>1, <1>2, <1>3
     DEF Next, WorkerStep, RelayStep, AppendDomain, SendWebhook, ExpireBody, LeaseExpires,
         ReclaimExpired, ClaimDue, ClaimRows, LoadEvents, LoadRows, LoadThrows,
         MarkDelivered, RetryWritten, RetryThrows, ReplayRead, ReplayWrite, Crash

LEMMA RefinementInvariant == Spec => []RefinementInv
<1>1. Init => RefinementInv
  BY DeliveryInit DEF Init, RefinementInv, AppendedInv, PublishedFirst, Holding
<1>2. RefinementInv /\ [Next]_vars => RefinementInv'
  BY TypeStep, LabelStep, IndexStep, TargetsStep, AppendedStep, PublishedFirstStep
     DEF RefinementInv, DeliveryInv
<1>3. QED
  BY <1>1, <1>2, PTL DEF Spec

----------------------------------------------------------------------------
(* The refinement mapping, step by step. *)

\* Body and indexes agree, so the body's status alone says what has become of a row.
FateOf(s) ==
  CASE s = "none" -> "new"
    [] s \in {"pending", "retrying"} -> "owed"
    [] s = "failed" -> "dead"
    [] OTHER -> "done"

LEMMA FateByStatus ==
  ASSUME DeliveryInv, NEW e \in Rows
  PROVE  Fate(e) = FateOf(status[e])
<1>1. status[e] \in Statuses
  BY DEF DeliveryInv, TypeOK
<1>2. status[e] \in {"pending", "retrying"} => e \in Queued
  BY DEF DeliveryInv, NeverLost
<1>3. status[e] \in {"delivered", "gone"} => e \notin Queued
  BY DEF DeliveryInv, QueuedIsUndelivered
<1>4. QED
  BY <1>1, <1>2, <1>3 DEF Fate, FateOf, Statuses

LEMMA FateByStatusNext ==
  ASSUME DeliveryInv', NEW e \in Rows
  PROVE  Fate(e)' = FateOf(status'[e])
<1>1. status'[e] \in Statuses
  BY DEF DeliveryInv, TypeOK
<1>2. status'[e] \in {"pending", "retrying"} => e \in Queued'
  BY DEF DeliveryInv, NeverLost
<1>3. status'[e] \in {"delivered", "gone"} => e \notin Queued'
  BY DEF DeliveryInv, QueuedIsUndelivered
<1>4. QED
  BY <1>1, <1>2, <1>3 DEF Fate, FateOf, Statuses

fates == [e \in Rows |-> Fate(e)]
targets == published \cap handled

\* A step that writes the status of one row is a step of the abstract outbox, or none.
LEMMA OneRowWritten ==
  ASSUME RefinementInv, RefinementInv', NEW e \in Rows,
         \A f \in Rows \ {e} : status'[f] = status[f],
         handled' = handled,
         status[e] = "none" => status'[e] \in {"none", "pending"},
         status[e] # "none" => status'[e] # "none",
         status'[e] \in {"delivered", "gone"} => e \in published \cap handled
  PROVE  [Delivery!Next]_<<fates, targets>>
<1>1. targets' = targets
  BY DEF targets, RefinementInv, PublishedFirst
<1>2. fates' = [fates EXCEPT ![e] = FateOf(status'[e])]
  BY FateByStatus, FateByStatusNext DEF RefinementInv, fates
<1>3. fates[e] = FateOf(status[e]) /\ fates \in [Rows -> {"new", "owed", "dead", "done"}]
  BY FateByStatus DEF RefinementInv, fates, FateOf
<1>4. status[e] \in Statuses /\ status'[e] \in Statuses
  BY DEF RefinementInv, DeliveryInv, TypeOK
<1>5. CASE FateOf(status'[e]) = fates[e]
  BY <1>1, <1>2, <1>3, <1>5
<1>6. CASE FateOf(status'[e]) # fates[e]
  <2>1. \/ Delivery!AppendRow(e) \/ Delivery!Settle(e) \/ Delivery!GiveUp(e) \/ Delivery!Reopen(e)
    BY <1>1, <1>2, <1>3, <1>4, <1>6
       DEF Delivery!AppendRow, Delivery!Settle, Delivery!GiveUp, Delivery!Reopen, Delivery!Turns, FateOf, Statuses,
           fates, targets
  <2>2. QED
    BY <2>1 DEF Delivery!Next
<1>7. QED
  BY <1>5, <1>6

\* The steps of the workers that write the row in hand, and of a replay.
LEMMA RowInHandWritten ==
  ASSUME RefinementInv, RefinementInv', NEW w \in Workers,
         MarkDelivered(w) \/ RetryWritten(w) \/ RetryThrows(w)
  PROVE  [Delivery!Next]_<<fates, targets>>
<1> DEFINE e == cur[w]
<1> TypeOK /\ LabelInv
  BY DEF RefinementInv, DeliveryInv
<1>1. e \in Rows /\ e \in Holding(w)
  BY DEF MarkDelivered, RetryWritten, RetryThrows, LabelInv, Holding, OutboxAssumption
<1>2. status[e] # "none"
  BY <1>1 DEF RefinementInv, AppendedInv
<1>3. /\ \A f \in Rows \ {e} : status'[f] = status[f]
      /\ handled' = handled
      /\ status'[e] # "none"
    BY <1>1, <1>2 DEF MarkDelivered, RetryWritten, RetryThrows, WriteDelivered, WriteRetry, TypeOK, histVars
<1>4. status'[e] \in {"delivered", "gone"} => e \in published \cap handled
  <2>1. CASE MarkDelivered(w)
    BY <2>1 DEF MarkDelivered, LabelInv
  <2>2. CASE (RetryWritten(w) \/ RetryThrows(w)) /\ status'[e] # status[e]
    BY <1>1, <2>2 DEF RetryWritten, RetryThrows, WriteRetry, TypeOK
  <2>3. CASE status'[e] = status[e]
    BY <1>1, <2>3 DEF RefinementInv, DeliveryInv, DeliveredWasHandled
  <2>4. QED
    BY <2>1, <2>2, <2>3
<1>5. QED
  BY <1>1, <1>2, <1>3, <1>4, OneRowWritten

LEMMA ImplementationStep ==
  RefinementInv /\ RefinementInv' /\ [Next]_vars => [Delivery!Next]_<<fates, targets>>
<1> SUFFICES ASSUME RefinementInv, RefinementInv', [Next]_vars
             PROVE  [Delivery!Next]_<<fates, targets>>
  OBVIOUS
<1> USE DEF vars, redisVars, workerVars, histVars
<1> TypeOK /\ LabelInv /\ DeliveredWasHandled
  BY DEF RefinementInv, DeliveryInv
<1>1. CASE status' = status /\ handled' = handled
  <2>1. fates' = fates
    BY <1>1, FateByStatus, FateByStatusNext DEF RefinementInv, fates
  <2>2. targets' = targets
    BY <1>1 DEF targets, RefinementInv, PublishedFirst
  <2>3. QED
    BY <2>1, <2>2
<1>2. ASSUME NEW e \in Rows, status[e] = "none", status' = [status EXCEPT ![e] = "pending"],
             handled' = handled
      PROVE  [Delivery!Next]_<<fates, targets>>
  BY <1>2, OneRowWritten DEF TypeOK
<1>3. ASSUME NEW d \in Domain, AppendDomain(d) PROVE [Delivery!Next]_<<fates, targets>>
  BY <1>2, <1>3 DEF AppendDomain, Rows
<1>4. ASSUME NEW h \in Direct, SendWebhook(h) PROVE [Delivery!Next]_<<fates, targets>>
  BY <1>2, <1>4 DEF SendWebhook, Rows
<1>5. ASSUME NEW e \in Rows, ExpireBody(e) PROVE [Delivery!Next]_<<fates, targets>>
  <2>1. e \in published \cap handled
    BY <1>5 DEF ExpireBody, DeliveredWasHandled
  <2>2. QED
    BY <1>5, <2>1, OneRowWritten DEF ExpireBody, TypeOK
<1>6. ASSUME NEW w \in Workers, RelayPublish(w) PROVE [Delivery!Next]_<<fates, targets>>
  <2>1. CASE UNCHANGED status
    BY <1>1, <1>6, <2>1 DEF RelayPublish
  <2>2. CASE \E h \in Hooks : status[h] = "none" /\ status' = [status EXCEPT ![h] = "pending"]
    BY <1>2, <1>6, <2>2 DEF RelayPublish, Rows
  <2>3. QED
    BY <1>6, <2>1, <2>2 DEF RelayPublish, FanOut
<1>7. ASSUME NEW w \in Workers, RelayDispatch(w) PROVE [Delivery!Next]_<<fates, targets>>
  <2>1. CASE handled' = handled
    BY <1>1, <1>7, <2>1 DEF RelayDispatch
  <2>2. CASE handled' = handled \cup {cur[w]}
    <3>1. cur[w] \in Rows /\ cur[w] \in published /\ status[cur[w]] # "none"
      BY <1>7 DEF RelayDispatch, LabelInv, Holding, RefinementInv, AppendedInv
    <3>2. fates' = fates
      BY <1>7, FateByStatus, FateByStatusNext DEF RelayDispatch, RefinementInv, fates
    <3>3. targets' = targets \cup {cur[w]}
      BY <1>7, <2>2, <3>1 DEF RelayDispatch, targets
    <3>4. fates[cur[w]] # "new"
      <4>1. fates[cur[w]] = FateOf(status[cur[w]]) /\ status[cur[w]] \in Statuses
        BY <3>1, FateByStatus DEF RefinementInv, fates, TypeOK
      <4>2. QED
        BY <3>1, <4>1 DEF FateOf, Statuses
    <3>5. Delivery!Accept(cur[w])
      BY <3>2, <3>3, <3>4 DEF Delivery!Accept, fates, targets
    <3>6. QED
      BY <3>1, <3>5 DEF Delivery!Next
  <2>3. QED
    BY <1>7, <2>1, <2>2 DEF RelayDispatch
<1>8. ASSUME NEW w \in Workers, MarkDelivered(w) \/ RetryWritten(w) \/ RetryThrows(w)
      PROVE  [Delivery!Next]_<<fates, targets>>
  BY <1>8, RowInHandWritten
<1>9. ASSUME NEW r \in Replayers, ReplayWrite(r) PROVE [Delivery!Next]_<<fates, targets>>
  <2>1. replaying[r] \in Rows /\ status[replaying[r]] # "none"
    BY <1>9 DEF ReplayWrite, RefinementInv, AppendedInv, TypeOK
  <2>2. CASE UNCHANGED status
    BY <1>1, <1>9, <2>2 DEF ReplayWrite
  <2>3. CASE status' = [status EXCEPT ![replaying[r]] = "pending"]
    BY <1>9, <2>1, <2>3, OneRowWritten DEF ReplayWrite, TypeOK
  <2>4. QED
    BY <1>9, <2>2, <2>3 DEF ReplayWrite
<1>10. QED
  BY <1>1, <1>3, <1>4, <1>5, <1>6, <1>7, <1>8, <1>9
     DEF Next, WorkerStep, RelayStep, LeaseExpires, ReclaimExpired, ClaimDue, ClaimRows, LoadEvents,
         LoadRows, LoadThrows, ReplayRead, Crash

\* The outbox implements the abstract one: whatever crashes, lost leases, replays and late
\* writes do, a row that was appended is owed until all its targets have accepted it or its
\* attempts are used up (OutboxService, OutboxRelayService, replayAll).
THEOREM OutboxImplementsAtLeastOnce == Spec => ImplementsAtLeastOnce
<1>1. Init => Delivery!Init
  BY DEF Init, Delivery!Init, Fate
<1>2. RefinementInv /\ RefinementInv' /\ [Next]_vars
        => [Delivery!Next]_<<[e \in Rows |-> Fate(e)], published \cap handled>>
  BY ImplementationStep DEF fates, targets
<1>3. QED
  BY <1>1, <1>2, RefinementInvariant, PTL DEF Spec, ImplementsAtLeastOnce, Delivery!Spec

----------------------------------------------------------------------------
(* Action properties. *)

\* A webhook row without a body has no origin yet, and only relay passes publish.
OriginInv ==
  /\ \A h \in Hooks : status[h] = "none" => parent[h] = NoRow
  /\ \A w \in Processors : pc[w] \in {"idle", "claim", "load", "spin"}

LEMMA OriginStep == TypeOK /\ LabelInv /\ OriginInv /\ [Next]_vars => OriginInv'
<1> SUFFICES ASSUME TypeOK, LabelInv, OriginInv, [Next]_vars PROVE OriginInv'
  OBVIOUS
<1> USE DEF vars, redisVars, workerVars, histVars
<1>1. \A h \in Hooks : parent'[h] = parent[h] \/ status'[h] = "pending"
  <2>1. ASSUME NEW w \in Workers, RelayPublish(w)
        PROVE  \A h \in Hooks : parent'[h] = parent[h] \/ status'[h] = "pending"
    BY <2>1 DEF RelayPublish, FanOut, TypeOK, Rows
  <2>2. QED
    BY <2>1 DEF Next, WorkerStep, RelayStep, AppendDomain, SendWebhook, ExpireBody, LeaseExpires,
         ReclaimExpired, ClaimDue, ClaimRows, LoadEvents, LoadRows, LoadThrows, RelayDispatch,
         MarkDelivered, RetryWritten, RetryThrows, ReplayRead, ReplayWrite, Crash
<1>2. \A h \in Hooks : status'[h] = "none" => parent'[h] = NoRow
  BY <1>1, AppendedForGood DEF OriginInv, Rows
<1>3. ASSUME NEW w \in Workers, RelayStep(w), NEW v \in Processors
      PROVE  pc'[v] = pc[v]
  <2>1. v # w /\ v \in Workers
    BY <1>3 DEF OriginInv, RelayStep, RelayPublish, RelayDispatch, MarkDelivered, RetryWritten,
                RetryThrows, Workers
  <2>2. QED
    BY <1>3, <2>1 DEF RelayStep, RelayPublish, RelayDispatch, MarkDelivered, RetryWritten, RetryThrows,
                      NextRow, TypeOK
<1>4. ASSUME NEW w \in Workers, WorkerStep(w), NEW v \in Processors
      PROVE  pc'[v] \in {"idle", "claim", "load", "spin"}
  <2>1. v \in Workers
    BY DEF Workers
  <2>2. CASE RelayStep(w)
    BY <1>3, <2>2 DEF OriginInv
  <2>3. QED
    BY <1>4, <2>1, <2>2 DEF WorkerStep, ReclaimExpired, ClaimDue, ClaimRows, LoadEvents, LoadRows,
                            LoadThrows, OriginInv, TypeOK
<1>5. \A v \in Processors : pc'[v] \in {"idle", "claim", "load", "spin"}
  BY <1>4 DEF Next, AppendDomain, SendWebhook, ExpireBody, LeaseExpires, ReplayRead, ReplayWrite, Crash,
              OriginInv, Workers, TypeOK
<1>6. QED
  BY <1>2, <1>5 DEF OriginInv

\* A webhook row no service appends is appended by the relay for the domain row it has just
\* published, never for a row that is a webhook itself, in whatever order the passes of all instances run (runOnce).
THEOREM NoHookOfAHook == Spec => NoRespawn
<1> DEFINE Respawns(h) == /\ status[h] = "none" /\ status'[h] # "none"
                          /\ h \notin Direct \/ parent'[h] # NoRow
           Published(h) == \E w \in Passes :
                             pc[w] = "publish" /\ cur'[w] \in Domain /\ cur'[w] = parent'[h]
<1>1. Init => OriginInv
  BY DEF Init, OriginInv, Workers, Rows
<1>2. RefinementInv /\ OriginInv /\ [Next]_vars => [\A h \in Hooks : Respawns(h) => Published(h)]_vars
  <2> SUFFICES ASSUME RefinementInv, OriginInv, Next, NEW h \in Hooks, Respawns(h)
               PROVE  Published(h)
    OBVIOUS
  <2> TypeOK /\ LabelInv /\ AppendedInv
    BY DEF RefinementInv, DeliveryInv
  <2> USE DEF vars, redisVars, workerVars, histVars
  <2>1. parent[h] = NoRow /\ h \in Rows
    BY DEF OriginInv, Rows
  <2>2. ASSUME NEW g \in Direct, SendWebhook(g) PROVE FALSE
    <3>1. status' = [status EXCEPT ![g] = "pending"] /\ parent' = parent
      BY <2>2 DEF SendWebhook
    <3>2. h = g
      BY <3>1 DEF TypeOK
    <3>3. QED
      BY <2>1, <2>2, <3>1, <3>2
  <2>3. ASSUME NEW v \in Workers, MarkDelivered(v) \/ RetryWritten(v) \/ RetryThrows(v)
         PROVE  FALSE
    <3>1. cur[v] \in Rows /\ cur[v] \in Holding(v)
      BY <2>3 DEF MarkDelivered, RetryWritten, RetryThrows, LabelInv, Holding, OutboxAssumption
    <3>2. h # cur[v]
      BY <3>1 DEF AppendedInv
    <3>3. QED
      BY <2>1, <2>3, <3>1, <3>2
         DEF MarkDelivered, RetryWritten, RetryThrows, WriteDelivered, WriteRetry, TypeOK
  <2>4. ASSUME NEW r \in Replayers, ReplayWrite(r) PROVE FALSE
    BY <2>1, <2>4, OutboxAssumption DEF ReplayWrite, AppendedInv, TypeOK
  <2>5. ~\E d \in Domain : AppendDomain(d)
    BY <2>1, OutboxAssumption DEF AppendDomain, OutboxAssumption, TypeOK
  <2>6. ~\E e \in Rows : ExpireBody(e)
    BY <2>1 DEF ExpireBody, TypeOK
  <2>7. PICK w \in Workers : RelayPublish(w)
    BY <2>1, <2>2, <2>3, <2>4, <2>5, <2>6
       DEF Next, WorkerStep, RelayStep, LeaseExpires, ReclaimExpired, ClaimDue, ClaimRows,
           LoadEvents, LoadRows, LoadThrows, RelayDispatch, ReplayRead, Crash
  <2>8. w \in Passes /\ pc[w] = "publish"
    BY <2>7 DEF RelayPublish, OriginInv, Workers
  <2>9. PICK e \in batch[w] : cur' = [cur EXCEPT ![w] = e] /\ FanOut(e)
    BY <2>1, <2>7 DEF RelayPublish
  <2>10. PICK g \in Hooks : /\ e \in Domain
                           /\ status' = [status EXCEPT ![g] = "pending"]
                           /\ parent' = [parent EXCEPT ![g] = DedupKey(e)]
    BY <2>1, <2>9 DEF FanOut
  <2>11. parent'[h] = DedupKey(e)
    BY <2>1, <2>10 DEF TypeOK
  <2>12. DedupKey(e) = e
    BY <2>10 DEF DedupKey
  <2>13. cur'[w] = e
    BY <2>8, <2>9 DEF TypeOK, Workers
  <2>14. QED
    BY <2>8, <2>10, <2>11, <2>12, <2>13
<1>3. RefinementInv => TypeOK /\ LabelInv
  BY DEF RefinementInv, DeliveryInv
<1>4. TypeOK /\ LabelInv /\ OriginInv /\ [Next]_vars => OriginInv'
  BY OriginStep
<1>5. Spec => [](RefinementInv /\ OriginInv)
  BY <1>1, <1>3, <1>4, RefinementInvariant, PTL DEF Spec
<1>6. Spec => [][\A h \in Hooks : Respawns(h) => Published(h)]_vars
  BY <1>2, <1>5, PTL DEF Spec
<1>7. QED
  BY <1>6 DEF NoRespawn

\* The copy of the attempt count a running worker has loaded is still the one in Redis.
CopyInv ==
  \A w \in Workers : Running(w) /\ pc[w] # "load" =>
    \A e \in Holding(w) : seen[w][e] = attempts[e]

\* Nobody but its holder, or the replay of a row that failed, writes the count of a row.
LEMMA AttemptsWritten ==
  ASSUME TypeOK, LabelInv, [Next]_vars, NEW e \in Rows, attempts'[e] # attempts[e]
  PROVE  \/ \E w \in Workers : /\ MarkDelivered(w) \/ RetryWritten(w) \/ RetryThrows(w)
                              /\ Running(w) /\ cur[w] = e
                              /\ attempts'[e] \in {seen[w][e], seen[w][e] + 1, MaxAttempts}
         \/ \E r \in Replayers : ReplayWrite(r) /\ replaying[r] = e /\ status'[e] = "pending"
<1> USE DEF vars, redisVars, workerVars, histVars
<1>1. ASSUME NEW w \in Workers, MarkDelivered(w) \/ RetryWritten(w) \/ RetryThrows(w)
      PROVE  /\ Running(w) /\ cur[w] = e
             /\ attempts'[e] \in {seen[w][e], seen[w][e] + 1, MaxAttempts}
  <2>1. cur[w] \in Rows /\ Running(w)
    BY <1>1 DEF MarkDelivered, RetryWritten, RetryThrows, LabelInv
  <2>2. CASE WriteDelivered(w, cur[w])
    BY <2>1, <2>2 DEF WriteDelivered, TypeOK
  <2>3. CASE WriteRetry(w, cur[w])
    BY <2>1, <2>3 DEF WriteRetry, TypeOK
  <2>4. QED
    BY <1>1, <2>2, <2>3 DEF MarkDelivered, RetryWritten, RetryThrows
<1>2. ASSUME NEW r \in Replayers, ReplayWrite(r)
      PROVE  replaying[r] = e /\ status'[e] = "pending"
  BY <1>2 DEF ReplayWrite, TypeOK
<1>3. QED
  BY <1>1, <1>2
     DEF Next, WorkerStep, RelayStep, AppendDomain, SendWebhook, ExpireBody, LeaseExpires,
         ReclaimExpired, ClaimDue, ClaimRows, LoadEvents, LoadRows, LoadThrows, RelayPublish,
         RelayDispatch, ReplayRead, Crash

\* What a step leaves a running worker of the rows and copies it had.
LEMMA CopiesKept ==
  ASSUME TypeOK, LabelInv, HandInv, [Next]_vars, NEW v \in Workers, Running(v)', pc'[v] # "load"
  PROVE  \/ /\ pc[v] # "load" /\ Running(v)
            /\ \A e \in Holding(v)' : e \in Holding(v) /\ seen'[v][e] = seen[v][e]
         \/ attempts' = attempts /\ \A e \in Holding(v)' : seen'[v][e] = attempts[e]
<1> USE DEF vars, redisVars, workerVars, histVars
<1> DEFINE Kept == /\ pc[v] # "load" /\ Running(v)
                   /\ \A e \in Holding(v)' : e \in Holding(v) /\ seen'[v][e] = seen[v][e]
           Fresh == attempts' = attempts /\ \A e \in Holding(v)' : seen'[v][e] = attempts[e]
<1>1. CASE pc'[v] = pc[v] /\ batch'[v] = batch[v] /\ cur'[v] = cur[v] /\ seen'[v] = seen[v]
           /\ frozen \subseteq frozen'
  BY <1>1 DEF Holding, Running
<1>2. ASSUME ReclaimExpired(v) \/ ClaimDue(v) \/ LoadThrows(v) PROVE Kept \/ Fresh
  <2>1. batch'[v] = {} /\ cur'[v] = NoRow
    BY <1>2 DEF ReclaimExpired, ClaimDue, ClaimRows, LoadThrows, HandInv, TypeOK
  <2>2. attempts' = attempts
    BY <1>2 DEF ReclaimExpired, ClaimDue, ClaimRows, LoadThrows
  <2>3. QED
    BY <2>1, <2>2 DEF Holding
<1>3. ASSUME LoadEvents(v) PROVE Kept \/ Fresh
  <2>1. PICK L \in SUBSET batch[v] : LoadRows(v, L)
    BY <1>3 DEF LoadEvents
  <2>2. batch'[v] = L /\ cur'[v] = NoRow /\ L \subseteq Rows
    BY <2>1 DEF LoadRows, HandInv, TypeOK
  <2>3. seen'[v] = [e \in Rows |-> IF e \in L THEN attempts[e] ELSE 0]
    BY <2>1 DEF LoadRows, TypeOK
  <2>4. attempts' = attempts
    BY <2>1 DEF LoadRows
  <2>5. Holding(v)' = L
    BY <2>2 DEF Holding
  <2>6. QED
    BY <2>2, <2>3, <2>4, <2>5
<1>4. ASSUME RelayPublish(v) \/ RelayDispatch(v) PROVE Kept
  BY <1>4 DEF RelayPublish, RelayDispatch, Holding, Running, TypeOK
<1>5. ASSUME MarkDelivered(v) \/ RetryWritten(v) \/ RetryThrows(v) PROVE Kept
  <2>1. pc[v] # "load" /\ Running(v) /\ cur[v] \in Rows /\ cur[v] \notin batch[v]
    BY <1>5 DEF MarkDelivered, RetryWritten, RetryThrows, HandInv, LabelInv
  <2>2. CASE NextRow(v)
    <3>1. Holding(v)' = batch[v]
      BY <2>2 DEF NextRow, Holding, TypeOK
    <3>2. \A e \in batch[v] : e \in Rows /\ e # cur[v]
      BY <2>1 DEF TypeOK
    <3>3. \A e \in batch[v] : seen'[v][e] = seen[v][e]
      BY <2>2, <3>2 DEF NextRow, TypeOK
    <3>4. QED
      BY <2>1, <3>1, <3>3 DEF Holding
  <2>3. CASE UNCHANGED <<batch, cur, seen>>
    BY <2>1, <2>3 DEF Holding
  <2>4. CASE RetryThrows(v)
    <3>1. Holding(v)' = {}
      BY <2>4 DEF RetryThrows, Holding, TypeOK
    <3>2. QED
      BY <2>1, <3>1
  <2>5. QED
    BY <1>5, <2>2, <2>3, <2>4 DEF MarkDelivered, RetryWritten
<1>6. ASSUME NEW w \in Workers \ {v}, WorkerStep(w) PROVE Kept \/ Fresh
  <2>1. pc'[v] = pc[v] /\ batch'[v] = batch[v] /\ cur'[v] = cur[v] /\ seen'[v] = seen[v]
    BY <1>6 DEF WorkerStep, RelayStep, ReclaimExpired, ClaimDue, ClaimRows, LoadEvents, LoadRows, LoadThrows,
                RelayPublish, RelayDispatch, MarkDelivered, RetryWritten, RetryThrows, NextRow, TypeOK
  <2>2. frozen \subseteq frozen'
    BY <1>6 DEF WorkerStep, RelayStep, ReclaimExpired, ClaimDue, ClaimRows, LoadEvents, LoadRows, LoadThrows,
                RelayPublish, RelayDispatch, MarkDelivered, RetryWritten, RetryThrows
  <2>3. QED
    BY <1>1, <2>1, <2>2
<1>7. ASSUME NEW i \in Instances, Crash(i) PROVE Kept \/ Fresh
  <2>1. attempts' = attempts
    BY <1>7 DEF Crash
  <2>2. CASE Host[v] = i
    BY <1>7, <2>1, <2>2 DEF Crash, Holding
  <2>3. CASE Host[v] # i
    BY <1>7, <2>3 DEF Crash, Holding, Running
  <2>4. QED
    BY <2>2, <2>3
<1>8. CASE UNCHANGED <<workerVars, frozen>>
  BY <1>1, <1>8
<1>9. QED
  BY <1>2, <1>3, <1>4, <1>5, <1>6, <1>7, <1>8
     DEF Next, WorkerStep, RelayStep, AppendDomain, SendWebhook, ExpireBody, LeaseExpires,
         ReplayRead, ReplayWrite

LEMMA CopyStep ==
  ASSUME ~SlowWorkers, \A r, s \in Replayers : r = s, LeaseInv, LeaseInv', CopyInv, [Next]_vars
  PROVE  CopyInv'
<1> SUFFICES ASSUME NEW v \in Workers, Running(v)', pc'[v] # "load", NEW e \in Holding(v)'
             PROVE  seen'[v][e] = attempts'[e]
  BY DEF CopyInv
<1> TypeOK /\ LabelInv /\ HandInv /\ HeldInv /\ DisjointInv /\ ReplayInv
  BY DEF LeaseInv, DeliveryInv
<1>1. e \in Rows
  BY DEF LeaseInv, DeliveryInv, TypeOK, Holding
<1>2. CASE attempts' = attempts /\ seen'[v][e] = attempts[e]
  BY <1>2
<1>3. CASE pc[v] # "load" /\ Running(v) /\ e \in Holding(v) /\ seen'[v][e] = seen[v][e]
  <2>1. seen[v][e] = attempts[e] /\ status[e] # "failed"
    BY <1>3 DEF CopyInv, HeldInv
  <2>2. CASE attempts'[e] = attempts[e]
    BY <1>3, <2>1, <2>2
  <2>3. ASSUME NEW w \in Workers, Running(w), cur[w] = e PROVE w = v
    BY <1>1, <1>3, <2>3 DEF DisjointInv, Holding, OutboxAssumption
  <2>4. ASSUME NEW r \in Replayers, ReplayWrite(r) PROVE replaying[r] # e
    BY <2>1, <2>4 DEF ReplayWrite, ReplayInv
  <2>5. CASE attempts'[e] # attempts[e]
    <3>1. cur[v] = e /\ (MarkDelivered(v) \/ RetryWritten(v) \/ RetryThrows(v))
      BY <1>1, <2>3, <2>4, <2>5, AttemptsWritten
    <3>2. e \notin batch[v]
      BY <3>1 DEF HandInv
    <3>3. CASE WriteDelivered(v, e)
      BY <1>1, <1>3, <3>3 DEF WriteDelivered, TypeOK
    <3>4. CASE NextRow(v) \/ RetryThrows(v)
      BY <1>1, <3>2, <3>4 DEF NextRow, RetryThrows, Holding, TypeOK
    <3>5. QED
      BY <2>5, <3>1, <3>3, <3>4 DEF MarkDelivered, RetryWritten
  <2>6. QED
    BY <2>2, <2>5
<1>4. QED
  BY <1>2, <1>3, CopiesKept

\* A late or repeated write never takes the attempt count of a row back, while no live worker
\* outlives its lease and replay-all requests do not overlap: only the replay of a row that
\* failed for good starts it again (retry, markDelivered, replayAll).
THEOREM AttemptsNeverGoBack ==
  ASSUME ~SlowWorkers, \A r, s \in Replayers : r = s
  PROVE  Spec => AttemptsMonotone
<1> DEFINE Replayed(e) == /\ status[e] = "failed" /\ status'[e] = "pending"
                          /\ \E r \in Replayers : replaying[r] = e
           Monotone == \A e \in Rows : attempts'[e] < attempts[e] => Replayed(e)
<1>1. LeaseInv /\ CopyInv /\ [Next]_vars => [Monotone]_vars
  <2> SUFFICES ASSUME LeaseInv, CopyInv, Next, NEW e \in Rows, attempts'[e] < attempts[e]
               PROVE  Replayed(e)
    OBVIOUS
  <2> TypeOK /\ LabelInv /\ HandInv /\ ReplayInv
    BY DEF LeaseInv, DeliveryInv
  <2>1. attempts[e] \in 0..MaxAttempts /\ attempts'[e] # attempts[e]
    BY DEF TypeOK
  <2>2. ASSUME NEW w \in Workers, MarkDelivered(w) \/ RetryWritten(w) \/ RetryThrows(w),
               Running(w), cur[w] = e, attempts'[e] \in {seen[w][e], seen[w][e] + 1, MaxAttempts}
        PROVE  FALSE
    <3>1. pc[w] # "load" /\ e \in Holding(w)
      BY <2>2 DEF MarkDelivered, RetryWritten, RetryThrows, Holding
    <3>2. seen[w][e] = attempts[e]
      BY <2>2, <3>1 DEF CopyInv
    <3>3. QED
      BY <2>1, <2>2, <3>2
  <2>3. PICK r \in Replayers : ReplayWrite(r) /\ replaying[r] = e /\ status'[e] = "pending"
    BY <2>1, <2>2, AttemptsWritten
  <2>4. QED
    BY <2>3 DEF ReplayInv, ReplayWrite
<1>2. Init => CopyInv
  BY DEF Init, CopyInv, Holding
<1>3. LeaseInv /\ LeaseInv' /\ CopyInv /\ [Next]_vars => CopyInv'
  BY CopyStep
<1>4. Spec => [](LeaseInv /\ CopyInv)
  BY <1>2, <1>3, LeaseInvariant, PTL DEF Spec
<1>5. Spec => [][Monotone]_vars
  BY <1>1, <1>4, PTL DEF Spec
<1>6. QED
  BY <1>5 DEF AttemptsMonotone
=============================================================================

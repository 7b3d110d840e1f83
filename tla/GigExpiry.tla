----------------------------- MODULE GigExpiry -----------------------------
(***************************************************************************)
(* GigExpiryWorkerService: on every instance a timer that sweeps the due    *)
(* gigs behind the distributed lock, over the gig service.                  *)
(***************************************************************************)
EXTENDS Gig, DistributedLock

CONSTANTS
  Concurrency,  \* expirations a sweep has in flight
  MaxPerSweep   \* GIG_EXPIRY_SWEEP_MAX_GIGS

ASSUME SweepAssumption ==
  /\ Contenders = Instances
  /\ Concurrency \in Nat \ {0} /\ MaxPerSweep \in Nat \ {0}

VARIABLES
  sweep,   \* per instance: "off", "find" or "run"; `sweeping` is sweep # "off"
  batch    \* per instance: the gigs the sweep has still to start on

sweepVars == <<sweep, batch>>
vars == <<gigVars, lockVars, sweepVars>>

Init ==
  /\ GigInit /\ LockInit
  /\ sweep = [i \in Instances |-> "off"] /\ batch = [i \in Instances |-> {}]

Expiring(i) == {q \in Requests : Host[q] = i /\ op[q] = "expire"}

\* tick: skipped while the last sweep runs, or when another instance holds the lock.
Tick(i) ==
  /\ sweep[i] = "off" /\ TryAcquire(i)
  /\ sweep' = [sweep EXCEPT ![i] = "find"]
  /\ UNCHANGED <<gigVars, batch>>

\* runOnce: findExpirable, from the instance's own map when Redis fails, cut down to the cap.
FindExpirable(i) ==
  /\ sweep[i] = "find"
  /\ sweep' = [sweep EXCEPT ![i] = "run"]
  /\ \E due \in {{g \in OpenGigs : index[g] = "due"}, {g \in Gigs : memory[i][g] = "open"}} :
       /\ IF due = {g \in OpenGigs : index[g] = "due"} THEN UNCHANGED failures ELSE Fails
       /\ \E B \in SUBSET due :
            /\ Cardinality(B) <= MaxPerSweep /\ (B # due => Cardinality(B) = MaxPerSweep)
            /\ batch' = [batch EXCEPT ![i] = B]
  /\ UNCHANGED <<redisVars, watchVars, cacheVars, callVars, calls, faulted, lockVars>>

\* mapWithConcurrency: the next gig, while fewer than the limit are in flight.
ExpireNext(i, q) ==
  /\ sweep[i] = "run" /\ Host[q] = i /\ Cardinality(Expiring(i)) < Concurrency
  /\ \E g \in batch[i] :
       /\ batch' = [batch EXCEPT ![i] = @ \ {g}]
       /\ Mutate(q, "expire", g)
  /\ UNCHANGED <<calls, lockVars, sweep>>

\* The finally of tick.
SweepEnds(i) ==
  /\ sweep[i] = "run" /\ batch[i] = {} /\ Expiring(i) = {}
  /\ sweep' = [sweep EXCEPT ![i] = "off"]
  /\ Release(i)
  /\ UNCHANGED <<gigVars, batch>>

\* The renewal timer finds the lock lost. It forgets the token, and the sweep goes on.
LoseLock(i) ==
  /\ sweep[i] # "off" /\ RenewFails(i)
  /\ UNCHANGED <<gigVars, sweepVars>>

LeaseLapses ==
  /\ LeaseEnds /\ Fails
  /\ UNCHANGED <<redisVars, watchVars, cacheVars, callVars, calls, faulted, sweepVars>>

\* An instance dies with its requests, its connection, its map and its sweep.
Crash(i) ==
  /\ Fails
  /\ memory' = [memory EXCEPT ![i] = [g \in Gigs |-> "none"]]
  /\ watched' = [watched EXCEPT ![i] = {}] /\ dirty' = [dirty EXCEPT ![i] = FALSE]
  /\ step' = [q \in Requests |-> IF Host[q] = i THEN "idle" ELSE step[q]]
  /\ op' = [q \in Requests |-> IF Host[q] = i THEN "none" ELSE op[q]]
  /\ target' = [q \in Requests |-> IF Host[q] = i THEN NoGig ELSE target[q]]
  /\ tries' = [q \in Requests |-> IF Host[q] = i THEN 0 ELSE tries[q]]
  /\ stored' = [q \in Requests |-> stored[q] /\ Host[q] # i]
  /\ again' = [q \in Requests |-> again[q] /\ Host[q] # i]
  /\ page' = [q \in Requests |-> IF Host[q] = i THEN NoPage ELSE page[q]]
  /\ overtaken' = (overtaken \/ \E q \in Requests :
                     Host[q] = i /\ step[q] \in {"add", "append", "members", "drop"})
  /\ sweep' = [sweep EXCEPT ![i] = "off"] /\ batch' = [batch EXCEPT ![i] = {}]
  /\ token' = token \ {i}
  /\ UNCHANGED <<storeVars, unguarded, cache, cached, calls, faulted, lock, lapsed>>

Next ==
  \/ \E q \in Requests : (Call(q) \/ (Proceed(q) /\ UNCHANGED calls)) /\ UNCHANGED <<lockVars, sweepVars>>
  \/ \E i \in Instances :
       \/ Tick(i) \/ FindExpirable(i) \/ SweepEnds(i) \/ LoseLock(i) \/ Crash(i)
       \/ \E q \in Requests : ExpireNext(i, q)
       \/ (OtherExec(i) /\ UNCHANGED <<lockVars, sweepVars>>)
  \/ ((PageExpires \/ \E g \in Gigs : Deadline(g)) /\ UNCHANGED <<lockVars, sweepVars>>)
  \/ LeaseLapses

Spec == Init /\ [][Next]_vars

TypeOK ==
  /\ GigTypeOK /\ LockTypeOK
  /\ sweep \in [Instances -> {"off", "find", "run"}] /\ batch \in [Instances -> SUBSET Gigs]
  /\ \A i \in Instances : Cardinality(Expiring(i)) <= Concurrency

\* Two instances sweep at once only if a lease ran out under one of them. (tryAcquire
\* with NX, and a release that compares the token.)
SweepsAlone ==
  \A i, j \in Instances : i # j /\ sweep[i] # "off" /\ sweep[j] # "off" => {i, j} \cap lapsed # {}
=============================================================================

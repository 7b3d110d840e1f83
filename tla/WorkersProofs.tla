---------------------------- MODULE WorkersProofs ----------------------------
(* Theorems of Workers, for any gigs, requests, instances, events, runs and faults. A    *)
(* behaviour of Workers is, part by part, a behaviour of that part alone; what a part    *)
(* promises is proved of its own Init and Next.                                          *)
EXTENDS Workers, FiniteSetTheorems, WellFoundedInduction, TLAPS

workersVars == <<service, vars, ingestVars, indexVars, rpcVars, migrateVars, remindVars>>
LEMMA GigsAlone == WorkersSpec => Spec
<1>1. WorkersInit => Init BY DEF WorkersInit
<1>2. [WorkersNext]_workersVars => [Next]_vars
  BY DEF WorkersNext, Others, workersVars
<1>q. QED BY <1>1, <1>2, PTL DEF WorkersSpec, Spec, workersVars

USE GigAssumption, SweepAssumption, LockAssumption

----------------------------------------------------------------------------
(* The lock. *)

\* Who sweeps, and whose lease never ran out, believes to hold the lock.
SweeperHolds == \A i \in Instances : sweep[i] # "off" /\ i \notin lapsed => i \in token

LockInv ==
  /\ LockTypeOK /\ HolderHolds /\ SweeperHolds
  /\ sweep \in [Instances -> {"off", "find", "run"}]

LEMMA InitLock == Init => LockInv
BY DEF Init, LockInit, LockInv, LockTypeOK, HolderHolds, SweeperHolds

LEMMA NextLock == LockInv /\ [Next]_vars => LockInv'
<1> USE DEF LockInv, LockTypeOK, HolderHolds, SweeperHolds
<1> SUFFICES ASSUME LockInv, [Next]_vars PROVE LockInv'
  OBVIOUS
<1>1. ASSUME NEW i \in Instances, Tick(i) PROVE LockInv'
  BY <1>1 DEF Tick, TryAcquire
<1>2. ASSUME NEW i \in Instances, FindExpirable(i) PROVE LockInv'
  BY <1>2 DEF FindExpirable, lockVars
<1>3. ASSUME NEW i \in Instances, SweepEnds(i) PROVE LockInv'
  BY <1>3 DEF SweepEnds, Release
<1>4. ASSUME NEW i \in Instances, LoseLock(i) PROVE LockInv'
  BY <1>4 DEF LoseLock, RenewFails, sweepVars
<1>5. ASSUME NEW i \in Instances, Crash(i) PROVE LockInv'
  BY <1>5 DEF Crash
<1>6. ASSUME NEW i \in Instances, NEW q \in Requests, ExpireNext(i, q) PROVE LockInv'
  BY <1>6 DEF ExpireNext, lockVars
<1>7. CASE LeaseLapses
  BY <1>7 DEF LeaseLapses, LeaseEnds, sweepVars
<1>8. CASE UNCHANGED <<lockVars, sweepVars>>
  BY <1>8 DEF lockVars, sweepVars
<1>9. UNCHANGED vars => UNCHANGED <<lockVars, sweepVars>> BY DEF vars
<1>q. QED BY <1>1, <1>2, <1>3, <1>4, <1>5, <1>6, <1>7, <1>8, <1>9 DEF Next

\* What a lock of one key in Redis is worth to the sweeps: nobody's lease is taken by the
\* release of another, and two instances sweep together only after one of their leases
\* ran out. (DistributedLockService, and tick of the expiry worker.)
THEOREM SweepsAreExclusive == WorkersSpec => []SweepsBehindLock
<1>1. LockInv => SweepsBehindLock
  BY DEF LockInv, LockTypeOK, HolderHolds, SweeperHolds, SweepsBehindLock, SweepsAlone
<1>2. Spec => []LockInv BY InitLock, NextLock, PTL DEF Spec
<1>q. QED BY <1>1, <1>2, GigsAlone, PTL

----------------------------------------------------------------------------
(* The gigs: types, and what a request has in hand at each of its phases. *)

LEMMA Tables ==
  /\ \A o \in Mutations \cup {"create"} : Target[o] \in Statuses
  /\ \A o \in Resolving : Target[o] \notin {"none", "open"} /\ Allowed[o] = {"open"}
  /\ Target["update"] = "open" /\ Target["remove"] = "none" /\ Target["create"] = "open"
  /\ Allowed["update"] = {"open"} /\ Allowed["remove"] = {"open", "cancelled", "expired"}
BY DEF Mutations, Resolving, Target, Allowed, Statuses

InHandTyped ==
  \A q \in Requests :
    /\ step[q] \in {"watch", "read", "unwatch"} => op[q] \in Mutations
    /\ step[q] = "exec" => op[q] \in Mutations \cup {"create"}
    /\ step[q] = "append" => HasEvent(op[q])
    /\ step[q] \in {"watch", "read", "unwatch", "exec", "append"} => target[q] \in Gigs
    /\ again[q] => step[q] = "unwatch" /\ tries[q] < MaxRetries

CallTypes ==
  /\ step \in [Requests -> Phases] /\ op \in [Requests -> Ops]
  /\ target \in [Requests -> Gigs \cup {NoGig}] /\ tries \in [Requests -> 0..MaxRetries]
  /\ stored \in [Requests -> BOOLEAN] /\ again \in [Requests -> BOOLEAN]
  /\ page \in [Requests -> SUBSET (Gigs \cup {NoGig})]
  /\ \A q \in Requests : page[q] \subseteq Gigs \/ page[q] = NoPage
  /\ InHandTyped

StoreTypes ==
  /\ gigs \in [Gigs -> Statuses] /\ index \in [Gigs -> {"out", "waiting", "due"}]
  /\ memory \in [Instances -> [Gigs -> Statuses]]
  /\ events \in [Gigs -> [Resolving \cup {"create"} -> Nat]]
  /\ watched \in [Instances -> SUBSET Gigs] /\ dirty \in [Instances -> BOOLEAN]
  /\ \A i \in Instances : dirty[i] => watched[i] # {}
  /\ cache \subseteq Gigs \/ cache = NoPage
  /\ cached \in BOOLEAN /\ overtaken \in BOOLEAN
  /\ calls \in 0..MaxCalls /\ failures \in 0..MaxFailures
  /\ unguarded \subseteq Gigs /\ faulted \subseteq Gigs /\ halved \subseteq Gigs
  /\ listing \subseteq Gigs

SweepTypes ==
  /\ LockTypeOK
  /\ sweep \in [Instances -> {"off", "find", "run"}] /\ batch \in [Instances -> SUBSET Gigs]
  /\ \A i \in Instances : IsFiniteSet(Expiring(i)) /\ Cardinality(Expiring(i)) <= Concurrency

GigTypes == CallTypes /\ StoreTypes /\ SweepTypes

LEMMA PhasesAndOps ==
  /\ Mutations \cup {"create", "search", "none"} = Ops
  /\ Phases = {"idle", "watch", "read", "exec", "unwatch", "append", "members", "drop",
               "find", "rows", "set", "add"}
  /\ \A o : HasEvent(o) <=> o \in Resolving \cup {"create"}
  /\ Resolving \subseteq Mutations /\ Mutations = Resolving \cup {"update", "remove"}
  /\ "create" \notin Mutations /\ "search" \notin Mutations /\ "none" \notin Mutations
BY DEF Ops, Phases, HasEvent, Mutations, Resolving

LEMMA InitGigTypes == Init => GigTypes
<1> SUFFICES ASSUME Init PROVE GigTypes
  OBVIOUS
<1>1. CallTypes BY DEF Init, GigInit, CallTypes, InHandTyped, NoPage, Ops, Phases
<1>2. StoreTypes
  <2>1. PICK S \in SUBSET Started :
         /\ gigs = [g \in Gigs |-> IF g \in S THEN "open" ELSE "none"]
         /\ index = [g \in Gigs |-> IF g \in S THEN "waiting" ELSE "out"]
         /\ events = [g \in Gigs |-> [o \in Resolving \cup {"create"} |->
                      IF g \in S /\ o = "create" THEN 1 ELSE 0]]
         /\ listing = S
    BY DEF Init, GigInit
  <2>2. events \in [Gigs -> [Resolving \cup {"create"} -> Nat]] BY <2>1
  <2>3. gigs \in [Gigs -> Statuses] /\ index \in [Gigs -> {"out", "waiting", "due"}]
    BY <2>1 DEF Statuses
  <2>4. /\ memory \in [Instances -> [Gigs -> Statuses]]
        /\ watched \in [Instances -> SUBSET Gigs] /\ dirty \in [Instances -> BOOLEAN]
        /\ \A i \in Instances : ~dirty[i]
    BY DEF Init, GigInit, Statuses
  <2>5. cached \in BOOLEAN /\ overtaken \in BOOLEAN BY DEF Init, GigInit
  <2>6. calls \in 0..MaxCalls /\ failures \in 0..MaxFailures BY DEF Init, GigInit
  <2>7. /\ unguarded \subseteq Gigs /\ faulted \subseteq Gigs /\ cache = NoPage
        /\ halved \subseteq Gigs /\ listing \subseteq Gigs
    BY <2>1, GigAssumption DEF Init, GigInit
  <2>q. QED BY <2>2, <2>3, <2>4, <2>5, <2>6, <2>7 DEF StoreTypes
<1>3. \A i \in Instances : Expiring(i) = {} BY DEF Init, GigInit, Expiring
<1>4. SweepTypes
  BY <1>3, FS_EmptySet DEF Init, LockInit, SweepTypes, LockTypeOK
<1>q. QED BY <1>1, <1>2, <1>4 DEF GigTypes

\* What the common parts of the actions do to the requests' own variables.
LEMMA StartTypes ==
  ASSUME CallTypes, NEW q \in Requests, NEW o \in Ops, NEW g \in Gigs \cup {NoGig}, NEW phase,
         Start(q, o, g, phase),
         \/ phase = "watch" /\ o \in Mutations /\ g \in Gigs
         \/ phase = "exec" /\ o = "create" /\ g \in Gigs
         \/ phase = "find"
  PROVE  CallTypes'
<1>1. phase \in Phases BY DEF Phases
<1>2. /\ step' \in [Requests -> Phases] /\ op' \in [Requests -> Ops]
      /\ target' \in [Requests -> Gigs \cup {NoGig}] /\ tries' \in [Requests -> 0..MaxRetries]
      /\ UNCHANGED <<stored, again, page>>
  BY <1>1 DEF Start, Goto, CallTypes
<1>3. InHandTyped'
  <2> SUFFICES ASSUME NEW r \in Requests PROVE InHandTyped!(r)'
    BY DEF InHandTyped
  <2>1. CASE r = q
    BY <2>1, PhasesAndOps DEF Start, Goto, CallTypes, InHandTyped
  <2>2. CASE r # q
    BY <2>2 DEF Start, Goto, CallTypes, InHandTyped
  <2>q. QED BY <2>1, <2>2
<1>q. QED BY <1>2, <1>3 DEF CallTypes

LEMMA FinishTypes ==
  ASSUME CallTypes, NEW q \in Requests, Finish(q)
  PROVE  CallTypes'
BY DEF CallTypes, InHandTyped, Finish, Goto, Ops, Phases, NoPage

LEMMA GotoTypes ==
  ASSUME CallTypes, NEW q \in Requests, NEW phase \in Phases, Goto(q, phase),
         step[q] # "unwatch", UNCHANGED <<op, target, tries, again>>,
         stored' \in [Requests -> BOOLEAN],
         page' \in [Requests -> SUBSET (Gigs \cup {NoGig})],
         \A r \in Requests : page'[r] \subseteq Gigs \/ page'[r] = NoPage,
         phase \in {"watch", "read", "unwatch"} => op[q] \in Mutations,
         phase = "exec" => op[q] \in Mutations \cup {"create"},
         phase = "append" => HasEvent(op[q]),
         phase \in {"watch", "read", "unwatch", "exec", "append"} => target[q] \in Gigs
  PROVE  CallTypes'
BY DEF CallTypes, InHandTyped, Goto

LEMMA RetryTypes ==
  ASSUME CallTypes, NEW q \in Requests, Retry(q), op[q] \in Mutations, target[q] \in Gigs
  PROVE  CallTypes'
BY DEF CallTypes, InHandTyped, Retry, Goto, Phases

\* Nobody new expires a gig.
LEMMA SweepsStay ==
  ASSUME SweepTypes, op \in [Requests -> Ops], NEW q \in Requests,
         UNCHANGED op \/ (\E o \in Ops \ {"expire"} : op' = [op EXCEPT ![q] = o]),
         UNCHANGED <<lockVars, sweepVars>>
  PROVE  SweepTypes'
<1>1. ASSUME NEW i \in Instances
      PROVE  IsFiniteSet(Expiring(i)') /\ Cardinality(Expiring(i)') <= Concurrency
  <2>1. Expiring(i)' \subseteq Expiring(i) BY DEF Expiring
  <2>2. /\ IsFiniteSet(Expiring(i)') /\ Cardinality(Expiring(i)') \in Nat
        /\ Cardinality(Expiring(i)) \in Nat /\ Cardinality(Expiring(i)') <= Cardinality(Expiring(i))
    BY <2>1, FS_Subset, FS_CardinalityType DEF SweepTypes
  <2>q. QED BY <2>2 DEF SweepTypes
<1>q. QED BY <1>1 DEF SweepTypes, LockTypeOK, lockVars, sweepVars

LEMMA WrittenTypes ==
  ASSUME StoreTypes, CallTypes, NEW q \in Requests, target[q] \in Gigs,
         op[q] \in Mutations \cup {"create"}
  PROVE  /\ RowWritten(q) => gigs' \in [Gigs -> Statuses]
         /\ IndexWritten(q) => index' \in [Gigs -> {"out", "waiting", "due"}]
         /\ EventWritten(q) => events' \in [Gigs -> [Resolving \cup {"create"} -> Nat]]
         /\ ListWritten(q) => listing' \subseteq Gigs
         /\ memory' = [memory EXCEPT ![Host[q]][target[q]] = Target[op[q]]]
              => memory' \in [Instances -> [Gigs -> Statuses]]
         /\ memory' = [memory EXCEPT ![Host[q]][target[q]] = "open"]
              => memory' \in [Instances -> [Gigs -> Statuses]]
<1>0. Target[op[q]] \in Statuses /\ "open" \in Statuses /\ Host[q] \in Instances
  BY Tables DEF Statuses
<1>1. RowWritten(q) => gigs' \in [Gigs -> Statuses] BY <1>0 DEF StoreTypes, RowWritten
<1>2. IndexWritten(q) => index' \in [Gigs -> {"out", "waiting", "due"}]
  BY DEF StoreTypes, IndexWritten
<1>3. EventWritten(q) => events' \in [Gigs -> [Resolving \cup {"create"} -> Nat]]
  <2>1. CASE HasEvent(op[q])
    <3>1. op[q] \in Resolving \cup {"create"} BY <2>1, PhasesAndOps
    <3>2. [events[target[q]] EXCEPT ![op[q]] = @ + 1] \in [Resolving \cup {"create"} -> Nat]
      BY <3>1 DEF StoreTypes
    <3>3. [events EXCEPT ![target[q]] = [events[target[q]] EXCEPT ![op[q]] = @ + 1]]
            \in [Gigs -> [Resolving \cup {"create"} -> Nat]]
      BY <3>2 DEF StoreTypes
    <3>q. QED BY <2>1, <3>3 DEF EventWritten, StoreTypes
  <2>2. CASE ~HasEvent(op[q]) BY <2>2 DEF EventWritten, StoreTypes
  <2>q. QED BY <2>1, <2>2
<1>4. ASSUME NEW s \in Statuses, memory' = [memory EXCEPT ![Host[q]][target[q]] = s]
      PROVE  memory' \in [Instances -> [Gigs -> Statuses]]
  <2>1. [memory[Host[q]] EXCEPT ![target[q]] = s] \in [Gigs -> Statuses] BY <1>0 DEF StoreTypes
  <2>q. QED BY <1>0, <1>4, <2>1 DEF StoreTypes
<1>5. ListWritten(q) => listing' \subseteq Gigs BY DEF ListWritten, StoreTypes
<1>q. QED BY <1>0, <1>1, <1>2, <1>3, <1>4, <1>5

WatchTypes ==
  /\ watched \in [Instances -> SUBSET Gigs] /\ dirty \in [Instances -> BOOLEAN]
  /\ \A i \in Instances : dirty[i] => watched[i] # {}

LEMMA WatchesTyped ==
  ASSUME StoreTypes, CallTypes, NEW q \in Requests, EndWatches(q),
         Dirtied(q) \/ dirty' = [dirty EXCEPT ![Host[q]] = FALSE]
  PROVE  WatchTypes' /\ unguarded' \subseteq Gigs
<1>0. Host[q] \in Instances OBVIOUS
<1>1. watched' \in [Instances -> SUBSET Gigs] BY <1>0 DEF EndWatches, StoreTypes
<1>2. dirty' \in [Instances -> BOOLEAN] BY <1>0 DEF Dirtied, StoreTypes
<1>3. \A i \in Instances : dirty'[i] => watched'[i] # {}
  BY <1>0 DEF EndWatches, Dirtied, StoreTypes
<1>4. unguarded' \subseteq Gigs
  <2>1. Beside(q) \subseteq Gigs BY DEF Beside, CallTypes, InHandTyped
  <2>q. QED BY <2>1 DEF EndWatches, StoreTypes
<1>q. QED BY <1>1, <1>2, <1>3, <1>4 DEF WatchTypes

LEMMA FailsTyped == StoreTypes /\ (Fails \/ UNCHANGED failures) => failures' \in 0..MaxFailures
BY DEF Fails, StoreTypes

LEMMA WatchStep ==
  ASSUME GigTypes, NEW q \in Requests, Watch(q) PROVE CallTypes' /\ StoreTypes'
<1>0. Host[q] \in Instances /\ target[q] \in Gigs /\ op[q] \in Mutations
  BY DEF GigTypes, CallTypes, InHandTyped, Watch
<1>1. CallTypes'
  BY <1>0, GotoTypes DEF GigTypes, CallTypes, Phases, Watch
<1>2. watched' \in [Instances -> SUBSET Gigs] /\ \A i \in Instances : watched[i] \subseteq watched'[i]
  <2>1. CASE watched' = [watched EXCEPT ![Host[q]] = @ \cup {target[q]}]
    BY <1>0, <2>1 DEF GigTypes, StoreTypes
  <2>2. CASE UNCHANGED watched BY <2>2 DEF GigTypes, StoreTypes
  <2>q. QED BY <2>1, <2>2 DEF Watch
<1>3. unguarded' \subseteq Gigs BY <1>0 DEF Watch, GigTypes, StoreTypes
<1>4. failures' \in 0..MaxFailures BY FailsTyped DEF Watch, GigTypes
<1>5. \A i \in Instances : dirty'[i] => watched'[i] # {} BY <1>2 DEF Watch, GigTypes, StoreTypes
<1>6. UNCHANGED <<redisVars, dirty, cacheVars, calls, faulted>> BY DEF Watch
<1>q. QED BY <1>1, <1>2, <1>3, <1>4, <1>5, <1>6 DEF GigTypes, StoreTypes, redisVars, storeVars, cacheVars

LEMMA ReadStep ==
  ASSUME GigTypes, NEW q \in Requests, Read(q) PROVE CallTypes' /\ StoreTypes'
<1>0. Host[q] \in Instances /\ target[q] \in Gigs /\ op[q] \in Mutations /\ step[q] = "read"
  BY DEF GigTypes, CallTypes, InHandTyped, Read
<1>1. CallTypes'
  <2>1. \/ Goto(q, "exec") /\ UNCHANGED <<op, target, tries, stored, again, page>>
        \/ Goto(q, "unwatch") /\ UNCHANGED <<op, target, tries, stored, again, page>>
        \/ Finish(q)
    BY DEF Read
  <2>q. QED BY <1>0, <2>1, GotoTypes, FinishTypes DEF GigTypes, CallTypes, Phases
<1>2. unguarded' \subseteq Gigs BY <1>0 DEF Read, GigTypes, StoreTypes
<1>3. failures' \in 0..MaxFailures BY FailsTyped DEF Read, GigTypes
<1>4. UNCHANGED <<redisVars, watched, dirty, cacheVars, calls, faulted>> BY DEF Read
<1>q. QED BY <1>1, <1>2, <1>3, <1>4 DEF GigTypes, StoreTypes, redisVars, storeVars, cacheVars

LEMMA UnwatchStep ==
  ASSUME GigTypes, NEW q \in Requests, Unwatch(q) PROVE CallTypes' /\ StoreTypes'
<1>0. Host[q] \in Instances /\ target[q] \in Gigs /\ op[q] \in Mutations /\ step[q] = "unwatch"
  BY DEF GigTypes, CallTypes, InHandTyped, Unwatch
<1>1. CallTypes'
  <2>1. CASE again[q]
    <3>1. tries[q] + 1 \in 0..MaxRetries BY <2>1 DEF GigTypes, CallTypes, InHandTyped
    <3>2. /\ step' = [step EXCEPT ![q] = "watch"] /\ tries' = [tries EXCEPT ![q] = @ + 1]
          /\ again' = [again EXCEPT ![q] = FALSE] /\ UNCHANGED <<op, target, stored, page>>
      BY <2>1 DEF Unwatch, Goto
    <3>3. tries' \in [Requests -> 0..MaxRetries] BY <3>1, <3>2 DEF GigTypes, CallTypes
    <3>4. step' \in [Requests -> Phases] /\ again' \in [Requests -> BOOLEAN]
      BY <3>2 DEF GigTypes, CallTypes, Phases
    <3>5. InHandTyped' BY <1>0, <3>2 DEF GigTypes, CallTypes, InHandTyped
    <3>q. QED BY <3>2, <3>3, <3>4, <3>5 DEF GigTypes, CallTypes
  <2>2. CASE ~again[q] BY <2>2, FinishTypes DEF Unwatch, GigTypes
  <2>q. QED BY <2>1, <2>2
<1>2. WatchTypes' /\ unguarded' \subseteq Gigs BY WatchesTyped DEF Unwatch, GigTypes
<1>3. UNCHANGED <<redisVars, cacheVars, calls, failures, faulted>> BY DEF Unwatch
<1>q. QED BY <1>1, <1>2, <1>3 DEF GigTypes, StoreTypes, WatchTypes, redisVars, storeVars, cacheVars

LEMMA ExecStep ==
  ASSUME GigTypes, NEW q \in Requests,
         Exec(q) \/ ExecAborted(q) \/ ExecPartial(q) \/ ExecFails(q)
  PROVE  CallTypes' /\ StoreTypes'
<1>0. /\ Host[q] \in Instances /\ target[q] \in Gigs /\ op[q] \in Mutations \cup {"create"}
      /\ step[q] = "exec"
  BY DEF GigTypes, CallTypes, InHandTyped, Exec, ExecAborted, ExecPartial, ExecFails
<1>t. StoreTypes /\ CallTypes BY DEF GigTypes
<1>c. ASSUME NEW phase \in {"members", "append"}, Goto(q, phase), phase = "append" => HasEvent(op[q]),
             UNCHANGED <<op, target, tries, again, page>>, stored' \in [Requests -> BOOLEAN]
      PROVE  CallTypes'
  BY <1>0, <1>t, <1>c, GotoTypes DEF CallTypes, Phases
<1>r. ASSUME op[q] # "create", Retry(q) PROVE CallTypes'
  BY <1>0, <1>t, <1>r, RetryTypes
<1>e. HasEvent("create") BY DEF HasEvent
<1>1. CASE Exec(q)
  <2>1. CallTypes' BY <1>1, <1>c, <1>t DEF Exec, CallTypes
  <2>2. WatchTypes' /\ unguarded' \subseteq Gigs BY <1>1, <1>t, WatchesTyped DEF Exec
  <2>3. /\ gigs' \in [Gigs -> Statuses] /\ index' \in [Gigs -> {"out", "waiting", "due"}]
        /\ events' \in [Gigs -> [Resolving \cup {"create"} -> Nat]]
        /\ listing' \subseteq Gigs /\ halved' \subseteq Gigs
    BY <1>0, <1>1, <1>t, WrittenTypes DEF Exec, Written, StoreTypes
  <2>4. overtaken' \in BOOLEAN BY <1>1, <1>t DEF Exec, Overtakes, StoreTypes
  <2>5. UNCHANGED <<memory, cache, cached, calls, failures, faulted>> BY <1>1 DEF Exec
  <2>q. QED BY <1>t, <2>1, <2>2, <2>3, <2>4, <2>5 DEF StoreTypes, WatchTypes
<1>2. CASE ExecAborted(q)
  <2>1. CallTypes' BY <1>2, <1>c, <1>r, <1>e, <1>t DEF ExecAborted, CallTypes
  <2>2. WatchTypes' /\ unguarded' \subseteq Gigs BY <1>2, <1>t, WatchesTyped DEF ExecAborted
  <2>3. memory' \in [Instances -> [Gigs -> Statuses]]
    <3>1. memory' = [memory EXCEPT ![Host[q]][target[q]] = "open"] \/ memory' = memory
      BY <1>2 DEF ExecAborted
    <3>q. QED BY <1>0, <1>t, <3>1, WrittenTypes DEF StoreTypes
  <2>4. UNCHANGED <<gigs, listing, index, events, halved, cacheVars, calls, failures, faulted>>
    BY <1>2 DEF ExecAborted, storeVars
  <2>q. QED BY <1>t, <2>1, <2>2, <2>3, <2>4 DEF StoreTypes, WatchTypes, cacheVars
<1>3. CASE ExecPartial(q)
  <2>s. op[q] = "create" => stored' \in [Requests -> BOOLEAN]
    <3>1. (events' # events) \in BOOLEAN OBVIOUS
    <3>q. QED BY <1>3, <1>t, <3>1 DEF ExecPartial, CallTypes
  <2>1. CallTypes'
    <3>1. CASE op[q] = "create" BY <1>3, <1>c, <1>e, <2>s, <3>1 DEF ExecPartial
    <3>2. CASE op[q] # "create" BY <1>3, <1>r, <3>2 DEF ExecPartial
    <3>q. QED BY <3>1, <3>2
  <2>2. WatchTypes' /\ unguarded' \subseteq Gigs BY <1>3, <1>t, WatchesTyped DEF ExecPartial
  <2>3. /\ gigs' \in [Gigs -> Statuses] /\ index' \in [Gigs -> {"out", "waiting", "due"}]
        /\ events' \in [Gigs -> [Resolving \cup {"create"} -> Nat]]
        /\ memory' \in [Instances -> [Gigs -> Statuses]]
        /\ listing' \subseteq Gigs /\ halved' \subseteq Gigs
    <3>1. memory' = [memory EXCEPT ![Host[q]][target[q]] = "open"] \/ memory' = memory
      BY <1>3 DEF ExecPartial
    <3>2. /\ RowWritten(q) \/ UNCHANGED gigs
          /\ IndexWritten(q) \/ UNCHANGED index
          /\ EventWritten(q) \/ UNCHANGED events
          /\ ListWritten(q) \/ UNCHANGED listing
      BY <1>3 DEF ExecPartial
    <3>3. halved' \subseteq halved \cup {target[q]} BY <1>3 DEF ExecPartial
    <3>q. QED BY <1>0, <1>t, <3>1, <3>2, <3>3, WrittenTypes DEF StoreTypes
  <2>4. overtaken' \in BOOLEAN BY <1>3 DEF ExecPartial
  <2>5. failures' \in 0..MaxFailures /\ faulted' \subseteq Gigs
    BY <1>0, <1>3, <1>t, FailsTyped DEF ExecPartial, StoreTypes
  <2>6. UNCHANGED <<cache, cached, calls>> BY <1>3 DEF ExecPartial
  <2>q. QED BY <1>t, <2>1, <2>2, <2>3, <2>4, <2>5, <2>6 DEF StoreTypes, WatchTypes
<1>4. CASE ExecFails(q)
  <2>s. stored' \in [Requests -> BOOLEAN]
    <3>1. (events' # events) \in BOOLEAN OBVIOUS
    <3>q. QED BY <1>4, <1>t, <3>1 DEF ExecFails, CallTypes
  <2>1. CallTypes' BY <1>4, <1>c, <2>s DEF ExecFails
  <2>2. WatchTypes' /\ unguarded' \subseteq Gigs
    <3>1. CASE UNCHANGED watchVars BY <1>t, <3>1 DEF watchVars, StoreTypes, WatchTypes
    <3>2. CASE Dirtied(q) /\ EndWatches(q) BY <1>t, <3>2, WatchesTyped
    <3>q. QED BY <1>4, <3>1, <3>2 DEF ExecFails
  <2>3. /\ gigs' \in [Gigs -> Statuses] /\ index' \in [Gigs -> {"out", "waiting", "due"}]
        /\ events' \in [Gigs -> [Resolving \cup {"create"} -> Nat]]
        /\ memory' \in [Instances -> [Gigs -> Statuses]]
        /\ listing' \subseteq Gigs /\ halved' \subseteq Gigs
    <3>1. CASE Written(q) BY <1>0, <1>4, <1>t, <3>1, WrittenTypes DEF ExecFails, Written, StoreTypes
    <3>2. CASE UNCHANGED storeVars BY <1>0, <1>4, <1>t, <3>2, WrittenTypes DEF ExecFails, storeVars, StoreTypes
    <3>q. QED BY <1>4, <3>1, <3>2 DEF ExecFails
  <2>4. overtaken' \in BOOLEAN BY <1>4, <1>t DEF ExecFails, Overtakes, StoreTypes
  <2>5. failures' \in 0..MaxFailures /\ faulted' \subseteq Gigs
    BY <1>0, <1>4, <1>t, FailsTyped DEF ExecFails, StoreTypes
  <2>6. UNCHANGED <<cache, cached, calls>> BY <1>4 DEF ExecFails
  <2>q. QED BY <1>t, <2>1, <2>2, <2>3, <2>4, <2>5, <2>6 DEF StoreTypes, WatchTypes
<1>q. QED BY <1>1, <1>2, <1>3, <1>4

LEMMA AppendStep ==
  ASSUME GigTypes, NEW q \in Requests, Append(q) PROVE CallTypes' /\ StoreTypes'
<1>0. /\ target[q] \in Gigs /\ op[q] \in Mutations \cup {"create"} /\ step[q] = "append"
  BY PhasesAndOps DEF GigTypes, CallTypes, InHandTyped, Append
<1>1. CallTypes' BY <1>0, GotoTypes DEF GigTypes, CallTypes, Phases, Append
<1>2. events' \in [Gigs -> [Resolving \cup {"create"} -> Nat]]
  BY <1>0, WrittenTypes DEF Append, GigTypes, StoreTypes
<1>3. UNCHANGED <<gigs, listing, index, halved, memory, watchVars, cacheVars, calls, failures, faulted>>
  BY DEF Append
<1>q. QED BY <1>1, <1>2, <1>3 DEF GigTypes, StoreTypes, watchVars, cacheVars

LEMMA CacheStep ==
  ASSUME GigTypes, NEW q \in Requests,
         FindAll(q) \/ CacheSet(q) \/ CacheAdd(q) \/ Members(q) \/ Drop(q)
  PROVE  CallTypes' /\ StoreTypes'
<1>t. StoreTypes /\ CallTypes BY DEF GigTypes
<1>g. ASSUME NEW phase \in {"rows", "set", "add", "drop"}, Goto(q, phase), step[q] # "unwatch",
             UNCHANGED <<op, target, tries, stored, again>>,
             page' \in [Requests -> SUBSET (Gigs \cup {NoGig})],
             \A r \in Requests : page'[r] \subseteq Gigs \/ page'[r] = NoPage
      PROVE  CallTypes'
  BY <1>t, <1>g, GotoTypes DEF CallTypes, Phases
<1>1. CASE FindAll(q)
  <2>1. PICK S \in SUBSET Gigs : page' = [page EXCEPT ![q] = S]
    BY <1>1, <1>t DEF FindAll, OpenGigs, StoreTypes
  <2>2. CallTypes' BY <1>1, <1>t, <1>g, <2>1 DEF FindAll, CallTypes
  <2>3. overtaken' \in BOOLEAN BY <1>1, <1>t DEF FindAll, StoreTypes
  <2>4. failures' \in 0..MaxFailures BY <1>1, <1>t, FailsTyped DEF FindAll
  <2>5. UNCHANGED <<redisVars, watchVars, cache, cached, calls, faulted>> BY <1>1 DEF FindAll
  <2>q. QED BY <1>t, <2>2, <2>3, <2>4, <2>5 DEF StoreTypes, redisVars, storeVars, watchVars
<1>2. CASE CacheSet(q)
  <2>1. CallTypes'
    <3>1. CASE Goto(q, "add") /\ UNCHANGED <<op, target, tries, stored, again, page>>
      BY <1>2, <1>t, <1>g, <3>1 DEF CacheSet, CallTypes
    <3>q. QED BY <1>2, <1>t, <3>1, FinishTypes DEF CacheSet
  <2>2. cache' \subseteq Gigs \/ cache' = NoPage BY <1>2, <1>t DEF CacheSet, CallTypes, StoreTypes
  <2>3. failures' \in 0..MaxFailures BY <1>2, <1>t, FailsTyped DEF CacheSet
  <2>4. UNCHANGED <<redisVars, watchVars, cached, overtaken, calls, faulted>> BY <1>2 DEF CacheSet
  <2>q. QED BY <1>t, <2>1, <2>2, <2>3, <2>4 DEF StoreTypes, redisVars, storeVars, watchVars
<1>3. CASE CacheAdd(q)
  <2>1. CallTypes' BY <1>3, <1>t, FinishTypes DEF CacheAdd
  <2>2. cached' \in BOOLEAN /\ overtaken' \in BOOLEAN BY <1>3, <1>t DEF CacheAdd, StoreTypes
  <2>3. failures' \in 0..MaxFailures BY <1>3, <1>t, FailsTyped DEF CacheAdd
  <2>4. UNCHANGED <<redisVars, watchVars, cache, calls, faulted>> BY <1>3 DEF CacheAdd
  <2>q. QED BY <1>t, <2>1, <2>2, <2>3, <2>4 DEF StoreTypes, redisVars, storeVars, watchVars
<1>4. CASE Members(q)
  <2>1. CallTypes'
    <3>1. CASE Goto(q, "drop") /\ UNCHANGED <<op, target, tries, stored, again, page>>
      BY <1>4, <1>t, <1>g, <3>1 DEF Members, CallTypes
    <3>q. QED BY <1>4, <1>t, <3>1, FinishTypes DEF Members
  <2>2. overtaken' \in BOOLEAN BY <1>4, <1>t DEF Members, StoreTypes
  <2>3. failures' \in 0..MaxFailures BY <1>4, <1>t, FailsTyped DEF Members
  <2>4. UNCHANGED <<redisVars, watchVars, cache, cached, calls, faulted>> BY <1>4 DEF Members
  <2>q. QED BY <1>t, <2>1, <2>2, <2>3, <2>4 DEF StoreTypes, redisVars, storeVars, watchVars
<1>5. CASE Drop(q)
  <2>1. CallTypes' BY <1>5, <1>t, FinishTypes DEF Drop
  <2>2. cached' \in BOOLEAN /\ overtaken' \in BOOLEAN BY <1>5, <1>t DEF Drop, StoreTypes
  <2>3. cache' \subseteq Gigs \/ cache' = NoPage BY <1>5, <1>t DEF Drop, StoreTypes
  <2>4. failures' \in 0..MaxFailures BY <1>5, <1>t, FailsTyped DEF Drop
  <2>5. UNCHANGED <<redisVars, watchVars, calls, faulted>> BY <1>5 DEF Drop
  <2>q. QED BY <1>t, <2>1, <2>2, <2>3, <2>4, <2>5 DEF StoreTypes, redisVars, storeVars, watchVars
<1>q. QED BY <1>1, <1>2, <1>3, <1>4, <1>5

LEMMA CallStep ==
  ASSUME GigTypes, NEW q \in Requests, Call(q) PROVE CallTypes' /\ StoreTypes'
<1>t. StoreTypes /\ CallTypes BY DEF GigTypes
<1>0. calls' \in 0..MaxCalls BY <1>t DEF Call, StoreTypes
<1>1. CASE Search(q)
  <2>1. CallTypes' BY <1>1, <1>t, StartTypes, PhasesAndOps DEF Search
  <2>q. QED BY <1>t, <1>0, <1>1, <2>1 DEF Search, StoreTypes, redisVars, storeVars, watchVars, cacheVars
<1>2. ASSUME NEW g \in Gigs, Create(q, g) PROVE CallTypes' /\ StoreTypes'
  <2>1. CallTypes' BY <1>2, <1>t, StartTypes, PhasesAndOps DEF Create
  <2>q. QED BY <1>t, <1>0, <1>2, <2>1 DEF Create, StoreTypes, redisVars, storeVars, watchVars, cacheVars
<1>3. ASSUME NEW g \in Gigs, NEW o \in Mutations \ {"expire"}, Mutate(q, o, g)
      PROVE  CallTypes' /\ StoreTypes'
  <2>1. CallTypes' BY <1>3, <1>t, StartTypes, PhasesAndOps DEF Mutate
  <2>q. QED BY <1>t, <1>0, <1>3, <2>1 DEF Mutate, StoreTypes, redisVars, storeVars, watchVars, cacheVars
<1>q. QED BY <1>1, <1>2, <1>3 DEF Call

LEMMA ProceedStep ==
  ASSUME GigTypes, NEW q \in Requests, Proceed(q) PROVE CallTypes' /\ StoreTypes'
BY WatchStep, ReadStep, UnwatchStep, ExecStep, AppendStep, CacheStep DEF Proceed

\* A request takes up an expiry only in ExpireNext.
LEMMA NoNewExpiry ==
  ASSUME GigTypes, NEW q \in Requests, Call(q) \/ Proceed(q)
  PROVE  UNCHANGED op \/ \E o \in Ops \ {"expire"} : op' = [op EXCEPT ![q] = o]
<1>0. {"none", "search", "create"} \subseteq Ops \ {"expire"} /\ Mutations \subseteq Ops
  BY DEF Ops
<1>1. CASE Call(q)
  <2>1. \E o \in Ops \ {"expire"} : op' = [op EXCEPT ![q] = o]
    BY <1>0, <1>1 DEF Call, Search, Create, Mutate, Start
  <2>q. QED BY <2>1
<1>2. CASE Proceed(q)
  <2>1. UNCHANGED op \/ op' = [op EXCEPT ![q] = "none"]
    <3>1. Watch(q) \/ Read(q) \/ Unwatch(q) \/ FindAll(q) \/ CacheSet(q) \/ CacheAdd(q) \/ Members(q) \/ Drop(q)
            => UNCHANGED op \/ op' = [op EXCEPT ![q] = "none"]
      BY DEF Watch, Read, Unwatch, FindAll, CacheSet, CacheAdd, Members, Drop, Finish
    <3>2. Exec(q) \/ ExecAborted(q) \/ ExecPartial(q) \/ ExecFails(q) \/ Append(q) => UNCHANGED op
      BY DEF Exec, ExecAborted, ExecPartial, ExecFails, Append, Retry
    <3>q. QED BY <1>2, <3>1, <3>2 DEF Proceed
  <2>q. QED BY <1>0, <2>1
<1>q. QED BY <1>1, <1>2

LEMMA ExpireStep ==
  ASSUME GigTypes, NEW i \in Instances, NEW q \in Requests, ExpireNext(i, q) PROVE GigTypes'
<1>t. StoreTypes /\ CallTypes /\ SweepTypes BY DEF GigTypes
<1>1. PICK g \in batch[i] : batch' = [batch EXCEPT ![i] = @ \ {g}] /\ Mutate(q, "expire", g)
  BY DEF ExpireNext
<1>2. g \in Gigs /\ "expire" \in Mutations /\ "expire" \in Ops
  BY <1>t DEF SweepTypes, Mutations, Resolving, Ops
<1>3. CallTypes' BY <1>1, <1>2, <1>t, StartTypes DEF Mutate
<1>4. StoreTypes'
  BY <1>t, <1>1 DEF ExpireNext, Mutate, StoreTypes, redisVars, storeVars, watchVars, cacheVars
<1>5. op' = [op EXCEPT ![q] = "expire"] BY <1>1 DEF Mutate, Start
<1>6. ASSUME NEW j \in Instances
      PROVE  IsFiniteSet(Expiring(j)') /\ Cardinality(Expiring(j)') <= Concurrency
  <2>0. /\ IsFiniteSet(Expiring(j)) /\ Cardinality(Expiring(j)) \in Nat
        /\ Cardinality(Expiring(j)) <= Concurrency
    BY <1>t, FS_CardinalityType DEF SweepTypes
  <2>1. CASE j = i
    <3>1. Expiring(i)' = Expiring(i) \cup {q} BY <1>t, <1>5 DEF Expiring, CallTypes, ExpireNext
    <3>2. /\ IsFiniteSet(Expiring(i) \cup {q})
          /\ \/ Cardinality(Expiring(i) \cup {q}) = Cardinality(Expiring(i))
             \/ Cardinality(Expiring(i) \cup {q}) = Cardinality(Expiring(i)) + 1
      BY <2>0, <2>1, FS_AddElement
    <3>3. Cardinality(Expiring(i)) < Concurrency BY DEF ExpireNext
    <3>q. QED BY <2>0, <2>1, <3>1, <3>2, <3>3
  <2>2. CASE j # i
    <3>1. Expiring(j)' = Expiring(j) BY <1>t, <1>5, <2>2 DEF Expiring, CallTypes, ExpireNext
    <3>q. QED BY <2>0, <3>1
  <2>q. QED BY <2>1, <2>2
<1>7. batch' \in [Instances -> SUBSET Gigs] /\ UNCHANGED <<lockVars, sweep>>
  BY <1>t, <1>1 DEF ExpireNext, SweepTypes
<1>8. SweepTypes' BY <1>t, <1>6, <1>7 DEF SweepTypes, LockTypeOK, lockVars
<1>q. QED BY <1>3, <1>4, <1>8 DEF GigTypes

LEMMA GigCrashStep ==
  ASSUME GigTypes, NEW i \in Instances, Crash(i) PROVE GigTypes'
<1>t. StoreTypes /\ CallTypes /\ SweepTypes BY DEF GigTypes
<1>1. CallTypes'
  <2>1. /\ step' \in [Requests -> Phases] /\ op' \in [Requests -> Ops]
        /\ target' \in [Requests -> Gigs \cup {NoGig}] /\ tries' \in [Requests -> 0..MaxRetries]
    BY <1>t DEF CallTypes, Crash, Phases, Ops
  <2>2. stored' \in [Requests -> BOOLEAN] /\ again' \in [Requests -> BOOLEAN]
    <3>1. \A q \in Requests : (stored[q] /\ Host[q] # i) \in BOOLEAN /\ (again[q] /\ Host[q] # i) \in BOOLEAN
      OBVIOUS
    <3>q. QED BY <3>1 DEF Crash
  <2>3. /\ page' \in [Requests -> SUBSET (Gigs \cup {NoGig})]
        /\ \A q \in Requests : page'[q] \subseteq Gigs \/ page'[q] = NoPage
    BY <1>t DEF CallTypes, Crash, NoPage
  <2>4. InHandTyped'
    <3> SUFFICES ASSUME NEW q \in Requests PROVE InHandTyped!(q)'
      BY DEF InHandTyped
    <3>1. CASE Host[q] = i
      <4>1. step'[q] = "idle" /\ ~again'[q] BY <3>1 DEF Crash
      <4>q. QED BY <4>1
    <3>2. CASE Host[q] # i
      <4>1. /\ step'[q] = step[q] /\ op'[q] = op[q] /\ target'[q] = target[q] /\ tries'[q] = tries[q]
            /\ again'[q] => again[q]
        BY <3>2 DEF Crash
      <4>q. QED BY <1>t, <4>1 DEF CallTypes, InHandTyped, HasEvent
    <3>q. QED BY <3>1, <3>2
  <2>q. QED BY <2>1, <2>2, <2>3, <2>4 DEF CallTypes
<1>2. StoreTypes'
  <2>1. memory' \in [Instances -> [Gigs -> Statuses]] BY <1>t DEF Crash, StoreTypes, Statuses
  <2>2. WatchTypes' BY <1>t DEF Crash, StoreTypes, WatchTypes
  <2>3. overtaken' \in BOOLEAN /\ failures' \in 0..MaxFailures
    BY <1>t, FailsTyped DEF Crash, StoreTypes
  <2>4. UNCHANGED <<gigs, listing, index, events, halved, unguarded, cache, cached, calls, faulted>>
    BY DEF Crash, storeVars
  <2>q. QED BY <1>t, <2>1, <2>2, <2>3, <2>4 DEF StoreTypes, WatchTypes
<1>3. SweepTypes'
  <2>1. ASSUME NEW j \in Instances
        PROVE  IsFiniteSet(Expiring(j)') /\ Cardinality(Expiring(j)') <= Concurrency
    <3>1. Expiring(j)' \subseteq Expiring(j) BY DEF Expiring, Crash
    <3>2. /\ IsFiniteSet(Expiring(j)') /\ Cardinality(Expiring(j)') \in Nat
          /\ Cardinality(Expiring(j)) \in Nat /\ Cardinality(Expiring(j)') <= Cardinality(Expiring(j))
      BY <1>t, <3>1, FS_Subset, FS_CardinalityType DEF SweepTypes
    <3>q. QED BY <1>t, <3>2 DEF SweepTypes
  <2>q. QED BY <1>t, <2>1 DEF SweepTypes, LockTypeOK, Crash
<1>q. QED BY <1>1, <1>2, <1>3 DEF GigTypes

LEMMA NextGigTypes == GigTypes /\ [Next]_vars => GigTypes'
<1> SUFFICES ASSUME GigTypes, [Next]_vars PROVE GigTypes'
  OBVIOUS
<1>t. StoreTypes /\ CallTypes /\ SweepTypes BY DEF GigTypes
<1>c. UNCHANGED callVars => CallTypes'
  BY <1>t DEF callVars, CallTypes, InHandTyped
<1>e. UNCHANGED op => \A i \in Instances : Expiring(i)' = Expiring(i) BY DEF Expiring
<1>1. ASSUME NEW q \in Requests, Call(q) \/ (Proceed(q) /\ UNCHANGED calls),
             UNCHANGED <<lockVars, sweepVars>>
      PROVE  GigTypes'
  <2>1. CallTypes' /\ StoreTypes' BY <1>1, CallStep, ProceedStep
  <2>2. SweepTypes' BY <1>t, <1>1, NoNewExpiry, SweepsStay DEF CallTypes
  <2>q. QED BY <2>1, <2>2 DEF GigTypes
<1>2. ASSUME NEW i \in Instances, Tick(i) PROVE GigTypes'
  <2>1. CallTypes' /\ StoreTypes' /\ UNCHANGED op
    BY <1>t, <1>c, <1>2 DEF Tick, gigVars, redisVars, storeVars, watchVars, cacheVars, callVars, StoreTypes
  <2>q. QED BY <1>t, <1>2, <1>e, <2>1 DEF Tick, TryAcquire, SweepTypes, LockTypeOK, GigTypes
<1>3. ASSUME NEW i \in Instances, FindExpirable(i) PROVE GigTypes'
  <2>1. failures' \in 0..MaxFailures BY <1>3, <1>t, FailsTyped DEF FindExpirable
  <2>2. CallTypes' /\ StoreTypes' /\ UNCHANGED op
    BY <1>t, <1>c, <1>3, <2>1 DEF FindExpirable, redisVars, storeVars, watchVars, cacheVars, callVars, StoreTypes
  <2>3. PICK B \in SUBSET Gigs : batch' = [batch EXCEPT ![i] = B]
    BY <1>3 DEF FindExpirable, OpenGigs
  <2>4. sweep' \in [Instances -> {"off", "find", "run"}] /\ batch' \in [Instances -> SUBSET Gigs]
    BY <1>t, <1>3, <2>3 DEF FindExpirable, SweepTypes
  <2>q. QED BY <1>t, <1>3, <1>e, <2>2, <2>4 DEF FindExpirable, SweepTypes, LockTypeOK, lockVars, GigTypes
<1>4. ASSUME NEW i \in Instances, SweepEnds(i) PROVE GigTypes'
  <2>1. CallTypes' /\ StoreTypes' /\ UNCHANGED op
    BY <1>t, <1>c, <1>4 DEF SweepEnds, gigVars, redisVars, storeVars, watchVars, cacheVars, callVars, StoreTypes
  <2>q. QED BY <1>t, <1>4, <1>e, <2>1 DEF SweepEnds, Release, SweepTypes, LockTypeOK, GigTypes
<1>5. ASSUME NEW i \in Instances, LoseLock(i) PROVE GigTypes'
  <2>1. CallTypes' /\ StoreTypes' /\ UNCHANGED op
    BY <1>t, <1>c, <1>5 DEF LoseLock, gigVars, redisVars, storeVars, watchVars, cacheVars, callVars, StoreTypes
  <2>q. QED BY <1>t, <1>5, <1>e, <2>1 DEF LoseLock, RenewFails, sweepVars, SweepTypes, LockTypeOK, GigTypes
<1>6. CASE LeaseLapses
  <2>1. failures' \in 0..MaxFailures BY <1>6, <1>t, FailsTyped DEF LeaseLapses
  <2>2. CallTypes' /\ StoreTypes' /\ UNCHANGED op
    BY <1>t, <1>c, <1>6, <2>1 DEF LeaseLapses, redisVars, storeVars, watchVars, cacheVars, callVars, StoreTypes
  <2>q. QED BY <1>t, <1>6, <1>e, <2>2 DEF LeaseLapses, LeaseEnds, sweepVars, SweepTypes, LockTypeOK, GigTypes
<1>7. ASSUME NEW i \in Instances, OtherExec(i), UNCHANGED <<lockVars, sweepVars>> PROVE GigTypes'
  <2>1. WatchTypes' BY <1>t, <1>7 DEF OtherExec, StoreTypes, WatchTypes
  <2>2. unguarded' \subseteq Gigs BY <1>t, <1>7 DEF OtherExec, StoreTypes, CallTypes, InHandTyped
  <2>3. StoreTypes' BY <1>t, <1>7, <2>1, <2>2 DEF OtherExec, StoreTypes, WatchTypes, redisVars, storeVars, cacheVars
  <2>4. CallTypes' /\ UNCHANGED op BY <1>c, <1>7 DEF OtherExec, callVars
  <2>q. QED BY <1>t, <1>7, <1>e, <2>3, <2>4 DEF SweepTypes, LockTypeOK, lockVars, sweepVars, GigTypes
<1>8. ASSUME PageExpires \/ (\E g \in Gigs : Deadline(g)), UNCHANGED <<lockVars, sweepVars>>
      PROVE  GigTypes'
  <2>1. CallTypes' /\ UNCHANGED op BY <1>c, <1>8 DEF PageExpires, Deadline, callVars
  <2>2. StoreTypes'
    <3>1. CASE PageExpires BY <1>t, <3>1 DEF PageExpires, StoreTypes, redisVars, storeVars, watchVars
    <3>2. ASSUME NEW g \in Gigs, Deadline(g) PROVE StoreTypes'
      BY <1>t, <3>2 DEF Deadline, StoreTypes, watchVars, cacheVars
    <3>q. QED BY <1>8, <3>1, <3>2
  <2>q. QED BY <1>t, <1>8, <1>e, <2>1, <2>2 DEF SweepTypes, LockTypeOK, lockVars, sweepVars, GigTypes
<1>9. CASE UNCHANGED vars
  <2>1. CallTypes' /\ StoreTypes' /\ UNCHANGED op
    BY <1>t, <1>c, <1>9 DEF vars, gigVars, redisVars, storeVars, watchVars, cacheVars, callVars, StoreTypes
  <2>q. QED BY <1>t, <1>9, <1>e, <2>1 DEF vars, SweepTypes, LockTypeOK, lockVars, sweepVars, GigTypes
<1>q. QED BY <1>1, <1>2, <1>3, <1>4, <1>5, <1>6, <1>7, <1>8, <1>9, ExpireStep, GigCrashStep DEF Next

LEMMA GigTypesHold == Spec => []GigTypes
BY InitGigTypes, NextGigTypes, PTL DEF Spec

LEMMA GigTypeCorrect == GigTypes => TypeOK
BY DEF GigTypes, CallTypes, StoreTypes, SweepTypes, TypeOK, GigTypeOK

----------------------------------------------------------------------------
(* Rows, index and events only change in the transactions; row and index together
   unless the gig is counted among those left half written. *)

Unwritten == UNCHANGED <<gigs, index, events, halved, faulted>>

LEMMA WhoWrites ==
  ASSUME GigTypes, [Next]_vars
  PROVE  \/ Unwritten
         \/ \E g \in Gigs : Deadline(g)
         \/ \E q \in Requests : Exec(q) \/ ExecPartial(q) \/ ExecFails(q) \/ Append(q)
<1> USE DEF Unwritten
<1>1. ASSUME NEW q \in Requests, Call(q) PROVE Unwritten
  BY <1>1 DEF Call, Search, Create, Mutate, redisVars, storeVars
<1>2. ASSUME NEW q \in Requests, Proceed(q)
      PROVE  Unwritten \/ Exec(q) \/ ExecPartial(q) \/ ExecFails(q) \/ Append(q)
  BY <1>2 DEF Proceed, Watch, Read, Unwatch, ExecAborted, FindAll, CacheSet, CacheAdd, Members, Drop,
              redisVars, storeVars
<1>3. ASSUME NEW i \in Instances,
             \/ Tick(i) \/ FindExpirable(i) \/ SweepEnds(i) \/ LoseLock(i) \/ Crash(i)
             \/ OtherExec(i) \/ LeaseLapses \/ \E q \in Requests : ExpireNext(i, q)
      PROVE  Unwritten
  BY <1>3 DEF Tick, FindExpirable, SweepEnds, LoseLock, Crash, OtherExec, LeaseLapses, ExpireNext,
              Mutate, gigVars, redisVars, storeVars
<1>4. PageExpires => Unwritten BY DEF PageExpires, redisVars, storeVars
<1>5. UNCHANGED vars => Unwritten BY DEF vars, gigVars, redisVars, storeVars
<1>6. LeaseLapses => Unwritten BY DEF LeaseLapses, redisVars, storeVars
<1>q. QED BY <1>1, <1>2, <1>3, <1>4, <1>5, <1>6 DEF Next

LEMMA ExecHasInHand ==
  ASSUME GigTypes, NEW q \in Requests, Exec(q) \/ ExecPartial(q) \/ ExecFails(q)
  PROVE  /\ Host[q] \in Instances /\ target[q] \in Gigs /\ op[q] \in Mutations \cup {"create"}
         /\ step[q] = "exec"
BY DEF GigTypes, CallTypes, InHandTyped, Exec, ExecPartial, ExecFails

\* One transaction that writes the row of a gig, its index, both or neither.
LEMMA IndexKept ==
  ASSUME GigTypes, OpenIsIndexed, NEW q \in Requests, target[q] \in Gigs,
         \/ RowWritten(q) /\ IndexWritten(q) /\ halved' = halved \ {target[q]}
         \/ UNCHANGED <<gigs, index, halved>>
         \/ /\ RowWritten(q) \/ UNCHANGED gigs
            /\ IndexWritten(q) \/ UNCHANGED index
            /\ halved' = halved \cup {target[q]}
  PROVE  OpenIsIndexed'
<1>t. StoreTypes BY DEF GigTypes
<1>1. SUFFICES ASSUME NEW g \in Gigs, g \notin halved' PROVE gigs'[g] = "open" <=> index'[g] # "out"
  BY DEF OpenIsIndexed
<1>2. /\ gigs'[g] = IF RowWritten(q) /\ g = target[q] THEN Target[op[q]] ELSE gigs[g]
      /\ index'[g] = IF IndexWritten(q) /\ g = target[q]
                     THEN IF Target[op[q]] = "open" THEN "waiting" ELSE "out" ELSE index[g]
  BY <1>t, <1>1 DEF RowWritten, IndexWritten, StoreTypes
<1>3. CASE g # target[q] BY <1>1, <1>2, <1>3 DEF OpenIsIndexed
<1>4. CASE g = target[q] /\ RowWritten(q) /\ IndexWritten(q) BY <1>2, <1>4
<1>5. CASE UNCHANGED <<gigs, index, halved>> BY <1>1, <1>5 DEF OpenIsIndexed
<1>q. QED BY <1>1, <1>3, <1>4, <1>5

LEMMA NextIndexed == GigTypes /\ OpenIsIndexed /\ [Next]_vars => OpenIsIndexed'
<1> SUFFICES ASSUME GigTypes, OpenIsIndexed, [Next]_vars PROVE OpenIsIndexed'
  OBVIOUS
<1>t. StoreTypes BY DEF GigTypes
<1>1. ASSUME NEW q \in Requests, Exec(q) \/ ExecPartial(q) \/ ExecFails(q) PROVE OpenIsIndexed'
  <2>0. target[q] \in Gigs BY <1>1, ExecHasInHand
  <2>1. Exec(q) => RowWritten(q) /\ IndexWritten(q) /\ halved' = halved \ {target[q]} BY DEF Exec, Written
  <2>2. ExecFails(q) => \/ RowWritten(q) /\ IndexWritten(q) /\ halved' = halved \ {target[q]}
                        \/ UNCHANGED <<gigs, index, halved>>
    BY DEF ExecFails, Written, storeVars
  <2>3. ExecPartial(q) => \/ RowWritten(q) /\ IndexWritten(q) /\ halved' = halved \ {target[q]}
                          \/ UNCHANGED <<gigs, index, halved>>
                          \/ /\ RowWritten(q) \/ UNCHANGED gigs
                             /\ IndexWritten(q) \/ UNCHANGED index
                             /\ halved' = halved \cup {target[q]}
    BY DEF ExecPartial
  <2>q. QED BY <1>1, <2>0, <2>1, <2>2, <2>3, IndexKept
<1>2. ASSUME NEW h \in Gigs, Deadline(h) PROVE OpenIsIndexed'
  BY <1>t, <1>2 DEF Deadline, OpenIsIndexed, StoreTypes
<1>3. ASSUME NEW q \in Requests, Append(q) PROVE OpenIsIndexed'
  BY <1>3 DEF Append, OpenIsIndexed
<1>4. CASE Unwritten BY <1>4 DEF Unwritten, OpenIsIndexed
<1>q. QED BY <1>1, <1>2, <1>3, <1>4, WhoWrites

\* A gig is open if and only if the expiry index knows of it, so every deadline is found by
\* some sweep: whatever mutations race or are retried, whatever EXEC is aborted, and whatever
\* connection fails before or after an EXEC is applied. Only a transaction of which Redis
\* kept the one write and refused the other parts them, until the next one on that gig.
\* (GigService: the row and the sorted set are written in one MULTI.)
THEOREM OpenGigsAreIndexed == WorkersSpec => []OpenIsIndexed
<1>1. Init => OpenIsIndexed
  <2> SUFFICES ASSUME Init PROVE OpenIsIndexed
    OBVIOUS
  <2>1. PICK S \in SUBSET Started :
         /\ gigs = [g \in Gigs |-> IF g \in S THEN "open" ELSE "none"]
         /\ index = [g \in Gigs |-> IF g \in S THEN "waiting" ELSE "out"]
    BY DEF Init, GigInit
  <2>q. QED BY <2>1 DEF OpenIsIndexed
<1>2. Spec => []OpenIsIndexed BY <1>1, NextIndexed, GigTypesHold, PTL DEF Spec
<1>q. QED BY <1>2, GigsAlone, PTL

----------------------------------------------------------------------------
(* What a WATCH is worth. A request that has a gig in hand, and whose watch nothing
   else ended, still watches it; if its connection is not dirty the row is as it read it. *)

WatchInv ==
  \A q \in Requests :
    step[q] \in {"read", "exec"} /\ op[q] \in Mutations /\ target[q] \notin unguarded =>
      /\ target[q] \in watched[Host[q]]
      /\ step[q] = "exec" /\ ~dirty[Host[q]] => gigs[target[q]] \in Allowed[op[q]]

\* One request at most creates a gig, and until it has, there is none.
CreateInv ==
  \A q \in Requests : op[q] = "create" =>
    /\ \A p \in Requests : op[p] = "create" /\ target[p] = target[q] => p = q
    /\ step[q] = "exec" => events[target[q]]["create"] = 0

AppendInv ==
  \A q \in Requests : step[q] = "append" => op[q] = "create" \/ target[q] \in faulted

\* No gig without its event.
BornInv ==
  \A g \in Gigs \ (faulted \cup unguarded) :
    events[g]["create"] = 0 => gigs[g] = "none" /\ Resolutions(g) = 0

ResolveInv == WatchInv /\ CreateInv /\ AppendInv /\ BornInv /\ ResolvedOnceIfWatched

LEMMA Resolutions_ ==
  ASSUME StoreTypes, NEW g \in Gigs
  PROVE  /\ Resolutions(g) \in Nat /\ events[g]["create"] \in Nat
         /\ events[g]["accept"] \in Nat /\ events[g]["cancel"] \in Nat /\ events[g]["expire"] \in Nat
BY DEF StoreTypes, Resolutions, Resolving

LEMMA NextWatch == GigTypes /\ WatchInv /\ [Next]_vars => WatchInv'
<1> SUFFICES ASSUME GigTypes, WatchInv, [Next]_vars, NEW q \in Requests,
                    step'[q] \in {"read", "exec"}, op'[q] \in Mutations, target'[q] \notin unguarded'
             PROVE  /\ target'[q] \in watched'[Host[q]]
                    /\ step'[q] = "exec" /\ ~dirty'[Host[q]] => gigs'[target'[q]] \in Allowed[op'[q]]
  BY DEF WatchInv
<1> DEFINE Goal == /\ target'[q] \in watched'[Host[q]]
                   /\ step'[q] = "exec" /\ ~dirty'[Host[q]] => gigs'[target'[q]] \in Allowed[op'[q]]
           Held == /\ step[q] \in {"read", "exec"} /\ op[q] \in Mutations /\ target[q] \notin unguarded
                   /\ step'[q] = step[q] /\ op'[q] = op[q] /\ target'[q] = target[q]
<1>t. StoreTypes /\ CallTypes /\ Host[q] \in Instances BY DEF GigTypes
<1>h. Held => target[q] \in Gigs BY <1>t DEF CallTypes, InHandTyped
<1>k. ASSUME Held, UNCHANGED <<gigs, dirty>>, watched[Host[q]] \subseteq watched'[Host[q]] PROVE Goal
  BY <1>k DEF WatchInv
<1>l. ASSUME Held, UNCHANGED gigs, dirty'[Host[q]] = dirty[Host[q]], watched'[Host[q]] = watched[Host[q]]
      PROVE  Goal
  BY <1>l DEF WatchInv
\* A transaction of another request leaves q's watch dirty, or ends it.
<1>w. ASSUME NEW p \in Requests, p # q, Held, step[p] = "exec", EndWatches(p), Dirtied(p), target[p] \in Gigs,
             RowWritten(p) \/ UNCHANGED gigs
      PROVE  Goal
  <2>1. Host[p] # Host[q]
    BY <1>w DEF EndWatches, Beside
  <2>2. watched'[Host[q]] = watched[Host[q]] BY <1>t, <2>1, <1>w DEF EndWatches, StoreTypes
  <2>3. target[q] \in watched[Host[q]] BY <1>w DEF WatchInv
  <2>4. dirty'[Host[q]] <=> dirty[Host[q]] \/ target[p] \in watched[Host[q]]
    BY <1>t, <1>w, <2>1 DEF Dirtied
  <2>5. ~dirty'[Host[q]] => target[p] # target[q] /\ gigs'[target[q]] = gigs[target[q]]
    BY <1>t, <1>h, <1>w, <2>3, <2>4 DEF RowWritten, StoreTypes
  <2>q. QED BY <1>w, <2>2, <2>3, <2>4, <2>5 DEF WatchInv
<1>1. ASSUME NEW p \in Requests, Call(p) PROVE Goal
  <2>1. /\ UNCHANGED <<gigs, watchVars>>
        /\ \E o, g, phase : phase \in {"find", "exec", "watch"} /\ Start(p, o, g, phase)
                            /\ (phase = "exec" => o = "create")
    BY <1>1 DEF Call, Search, Create, Mutate, redisVars, storeVars
  <2>2. p # q BY <1>t, <2>1, PhasesAndOps DEF Start, Goto, CallTypes
  <2>3. Held BY <1>t, <2>1, <2>2 DEF Start, Goto, CallTypes, watchVars
  <2>q. QED BY <2>1, <2>3, <1>k DEF watchVars
<1>2. ASSUME NEW p \in Requests, Watch(p) PROVE Goal
  <2>1. CASE p = q
    <3>1. watched'[Host[q]] = watched[Host[q]] \cup {target[q]}
      BY <1>2, <1>t, <2>1 DEF Watch, StoreTypes
    <3>2. step'[q] = "read" /\ target'[q] = target[q] BY <1>2, <1>t, <2>1 DEF Watch, Goto, CallTypes
    <3>q. QED BY <3>1, <3>2
  <2>2. CASE p # q
    <3>1. Held BY <1>2, <1>t, <2>2 DEF Watch, Goto, CallTypes
    <3>2. watched[Host[q]] \subseteq watched'[Host[q]]
      <4>1. CASE watched' = [watched EXCEPT ![Host[p]] = @ \cup {target[p]}]
        BY <1>t, <4>1 DEF StoreTypes
      <4>2. CASE UNCHANGED watched BY <4>2
      <4>q. QED BY <1>2, <4>1, <4>2 DEF Watch
    <3>q. QED BY <1>2, <3>1, <3>2, <1>k DEF Watch, redisVars, storeVars
  <2>q. QED BY <2>1, <2>2
<1>3. ASSUME NEW p \in Requests, Read(p) PROVE Goal
  <2>1. CASE p = q
    <3>1. /\ UNCHANGED <<gigs, watched, dirty>> BY <1>3 DEF Read, redisVars, storeVars
    <3>2. step[q] = "read" BY <1>3, <2>1 DEF Read
    <3>3. Goto(q, "exec") /\ UNCHANGED <<op, target>>
      <4>1. ~Finish(q) /\ ~Goto(q, "unwatch") BY <1>t DEF Finish, Goto, CallTypes
      <4>q. QED BY <1>3, <2>1, <4>1 DEF Read
    <3>4. gigs[target[q]] \in Allowed[op[q]]
      <4>1. PICK d \in BOOLEAN :
              LET s == IF d THEN memory[Host[q]][target[q]] ELSE gigs[target[q]] IN
              /\ IF d THEN Fails /\ unguarded' = unguarded \cup {target[q]}
                      ELSE UNCHANGED <<failures, unguarded>>
              /\ \/ s \in Allowed[op[q]] /\ Goto(q, "exec")
                 \/ Goto(q, "unwatch")
                 \/ Finish(q)
        BY <1>3, <2>1 DEF Read
      <4>2. ~d BY <3>3, <4>1
      <4>3. ~Finish(q) /\ ~Goto(q, "unwatch") BY <1>t DEF Finish, Goto, CallTypes
      <4>q. QED BY <4>1, <4>2, <4>3
    <3>5. unguarded \subseteq unguarded' BY <1>3 DEF Read
    <3>q. QED BY <3>1, <3>2, <3>3, <3>4, <3>5 DEF WatchInv
  <2>2. CASE p # q
    <3>1. /\ step'[q] = step[q] /\ op'[q] = op[q] /\ target'[q] = target[q]
      BY <1>3, <1>t, <2>2 DEF Read, Goto, Finish, CallTypes
    <3>2. unguarded \subseteq unguarded' BY <1>3 DEF Read
    <3>q. QED BY <1>3, <3>1, <3>2, <1>k DEF Read, redisVars, storeVars
  <2>q. QED BY <2>1, <2>2
<1>4. ASSUME NEW p \in Requests, Unwatch(p) PROVE Goal
  <2>1. p # q
    <3>1. Unwatch(q) => step'[q] \in {"watch", "idle"} BY <1>t DEF Unwatch, Finish, Goto, CallTypes
    <3>q. QED BY <1>4, <3>1
  <2>2. Held BY <1>4, <1>t, <2>1 DEF Unwatch, Finish, Goto, CallTypes, EndWatches
  <2>3. Host[p] # Host[q] BY <1>4, <2>1, <2>2 DEF Unwatch, EndWatches, Beside
  <2>4. watched'[Host[q]] = watched[Host[q]] /\ dirty'[Host[q]] = dirty[Host[q]] /\ UNCHANGED gigs
    BY <1>4, <1>t, <2>3 DEF Unwatch, EndWatches, StoreTypes, redisVars, storeVars
  <2>q. QED BY <2>2, <2>4, <1>l
<1>5. ASSUME NEW p \in Requests, Exec(p) PROVE Goal
  <2>1. p # q BY <1>5, <1>t DEF Exec, Goto, CallTypes
  <2>2. Held BY <1>5, <1>t, <2>1 DEF Exec, Goto, CallTypes, EndWatches
  <2>q. QED BY <1>5, <2>1, <2>2, <1>w, ExecHasInHand DEF Exec, Written
<1>6. ASSUME NEW p \in Requests, ExecAborted(p) PROVE Goal
  <2>1. p # q BY <1>6, <1>t DEF ExecAborted, Retry, Goto, CallTypes
  <2>2. Held BY <1>6, <1>t, <2>1 DEF ExecAborted, Retry, Goto, CallTypes, EndWatches
  <2>3. Host[p] # Host[q] BY <1>6, <2>1, <2>2 DEF ExecAborted, EndWatches, Beside
  <2>4. watched'[Host[q]] = watched[Host[q]] /\ dirty'[Host[q]] = dirty[Host[q]] /\ UNCHANGED gigs
    BY <1>6, <1>t, <2>3 DEF ExecAborted, EndWatches, StoreTypes, storeVars
  <2>q. QED BY <2>2, <2>4, <1>l
<1>7. ASSUME NEW p \in Requests, ExecPartial(p) PROVE Goal
  <2>1. p # q BY <1>7, <1>t DEF ExecPartial, Retry, Goto, CallTypes
  <2>2. Held BY <1>7, <1>t, <2>1 DEF ExecPartial, Retry, Goto, CallTypes, EndWatches
  <2>q. QED BY <1>7, <2>1, <2>2, <1>w, ExecHasInHand DEF ExecPartial
<1>8. ASSUME NEW p \in Requests, ExecFails(p) PROVE Goal
  <2>1. p # q BY <1>8, <1>t DEF ExecFails, Goto, CallTypes
  <2>2. unguarded \subseteq unguarded' BY <1>8 DEF ExecFails, EndWatches, watchVars
  <2>3. Held BY <1>8, <1>t, <2>1, <2>2 DEF ExecFails, Goto, CallTypes
  <2>4. CASE UNCHANGED <<storeVars, watchVars>> BY <2>3, <2>4, <1>k DEF storeVars, watchVars
  <2>5. CASE Written(p) /\ Dirtied(p) /\ EndWatches(p)
    BY <1>8, <2>1, <2>3, <2>5, <1>w, ExecHasInHand DEF Written
  <2>q. QED BY <1>8, <2>4, <2>5 DEF ExecFails
<1>9. ASSUME NEW p \in Requests, Append(p) \/ FindAll(p) \/ CacheSet(p) \/ CacheAdd(p) \/ Members(p) \/ Drop(p)
      PROVE Goal
  <2>1. UNCHANGED <<gigs, watchVars>>
    BY <1>9 DEF Append, FindAll, CacheSet, CacheAdd, Members, Drop, redisVars, storeVars
  <2>2. /\ step'[p] \notin {"read", "exec"}
        /\ p # q => step'[q] = step[q] /\ op'[q] = op[q] /\ target'[q] = target[q]
    BY <1>9, <1>t DEF Append, FindAll, CacheSet, CacheAdd, Members, Drop, Finish, Goto, CallTypes
  <2>q. QED BY <2>1, <2>2, <1>k DEF watchVars
<1>10. ASSUME NEW i \in Instances, NEW p \in Requests, ExpireNext(i, p) PROVE Goal
  <2>1. UNCHANGED <<gigs, watchVars>> BY <1>10 DEF ExpireNext, Mutate, redisVars, storeVars
  <2>2. \E g : Start(p, "expire", g, "watch") BY <1>10 DEF ExpireNext, Mutate
  <2>3. p # q BY <1>t, <2>2 DEF Start, Goto, CallTypes
  <2>q. QED BY <1>t, <2>1, <2>2, <2>3, <1>k DEF watchVars, Start, Goto, CallTypes
<1>11. ASSUME NEW i \in Instances, OtherExec(i) PROVE Goal
  <2>1. UNCHANGED <<gigs, callVars>> /\ unguarded \subseteq unguarded' BY <1>11 DEF OtherExec, redisVars, storeVars
  <2>2. Held BY <2>1 DEF callVars
  <2>3. Host[q] # i BY <1>11, <2>2 DEF OtherExec
  <2>4. watched'[Host[q]] = watched[Host[q]] /\ dirty'[Host[q]] = dirty[Host[q]]
    BY <1>t, <1>11, <2>3 DEF OtherExec, StoreTypes
  <2>q. QED BY <2>1, <2>2, <2>4, <1>l
<1>12. ASSUME NEW i \in Instances, Crash(i) PROVE Goal
  <2>1. Host[q] # i BY <1>12 DEF Crash
  <2>2. Held /\ UNCHANGED gigs BY <1>12, <2>1 DEF Crash, storeVars
  <2>3. watched'[Host[q]] = watched[Host[q]] /\ dirty'[Host[q]] = dirty[Host[q]]
    BY <1>t, <1>12, <2>1 DEF Crash, StoreTypes
  <2>q. QED BY <2>2, <2>3, <1>l
<1>13. CASE UNCHANGED <<gigs, watchVars, callVars>>
  BY <1>13, <1>k DEF watchVars, callVars
<1>14. ASSUME NEW i \in Instances,
              \/ Tick(i) \/ FindExpirable(i) \/ SweepEnds(i) \/ LoseLock(i)
              \/ PageExpires \/ (\E g \in Gigs : Deadline(g)) \/ LeaseLapses
       PROVE  UNCHANGED <<gigs, watchVars, callVars>>
  BY <1>14 DEF Tick, FindExpirable, SweepEnds, LoseLock, PageExpires, Deadline, LeaseLapses, gigVars, redisVars, storeVars
<1>15. UNCHANGED vars => UNCHANGED <<gigs, watchVars, callVars>> BY DEF vars, gigVars, redisVars, storeVars
<1> HIDE DEF Goal, Held
<1>q. QED BY <1>1, <1>2, <1>3, <1>4, <1>5, <1>6, <1>7, <1>8, <1>9, <1>10, <1>11, <1>12, <1>13, <1>14,
           <1>15, <1>t DEF Next, Proceed, Goal

----------------------------------------------------------------------------
\* What writing the event of a request makes of the events of a gig.
LEMMA EventsOf ==
  ASSUME StoreTypes, CallTypes, NEW q \in Requests, target[q] \in Gigs,
         op[q] \in Mutations \cup {"create"}, EventWritten(q), NEW g \in Gigs, NEW o \in Resolving \cup {"create"}
  PROVE  events'[g][o] = IF g = target[q] /\ o = op[q] THEN events[g][o] + 1 ELSE events[g][o]
<1>0. events[g] \in [Resolving \cup {"create"} -> Nat] /\ events[target[q]] \in [Resolving \cup {"create"} -> Nat]
  BY DEF StoreTypes
<1>1. CASE HasEvent(op[q])
  <2>0. op[q] \in Resolving \cup {"create"} BY <1>1, PhasesAndOps
  <2>1. events' = [events EXCEPT ![target[q]] = [events[target[q]] EXCEPT ![op[q]] = @ + 1]]
    BY <1>1 DEF EventWritten
  <2>2. CASE g = target[q]
    <3>1. events'[g] = [events[g] EXCEPT ![op[q]] = @ + 1] BY <2>1, <2>2 DEF StoreTypes
    <3>q. QED BY <1>0, <2>0, <2>2, <3>1
  <2>3. CASE g # target[q] BY <2>1, <2>3 DEF StoreTypes
  <2>q. QED BY <2>2, <2>3
<1>2. CASE ~HasEvent(op[q])
  <2>1. o # op[q] BY <1>2, PhasesAndOps
  <2>q. QED BY <1>2, <2>1 DEF EventWritten
<1>q. QED BY <1>1, <1>2

LEMMA NextAppend == GigTypes /\ AppendInv /\ [Next]_vars => AppendInv'
<1> SUFFICES ASSUME GigTypes, AppendInv, [Next]_vars, NEW q \in Requests, step'[q] = "append"
             PROVE  op'[q] = "create" \/ target'[q] \in faulted'
  BY DEF AppendInv
<1>t. StoreTypes /\ CallTypes /\ Host[q] \in Instances BY DEF GigTypes
<1>k. ASSUME step[q] = "append", op'[q] = op[q], target'[q] = target[q], faulted \subseteq faulted'
      PROVE  op'[q] = "create" \/ target'[q] \in faulted'
  BY <1>k DEF AppendInv
<1>1. ASSUME NEW p \in Requests, Call(p) PROVE op'[q] = "create" \/ target'[q] \in faulted'
  <2>1. UNCHANGED faulted BY <1>1 DEF Call, Search, Create, Mutate
  <2>2. \E o, g, phase : phase \in {"find", "exec", "watch"} /\ Start(p, o, g, phase)
    BY <1>1 DEF Call, Search, Create, Mutate
  <2>3. step[q] = "append" /\ op'[q] = op[q] /\ target'[q] = target[q]
    BY <1>t, <2>2 DEF Start, Goto, CallTypes
  <2>q. QED BY <2>1, <2>3, <1>k
<1>2. ASSUME NEW p \in Requests, ExecAborted(p) \/ ExecPartial(p) \/ ExecFails(p)
      PROVE op'[q] = "create" \/ target'[q] \in faulted'
  <2>1. faulted \subseteq faulted' BY <1>2 DEF ExecAborted, ExecPartial, ExecFails
  <2>2. CASE p = q
    <3>1. ExecAborted(p) => op'[q] = "create" 
      BY <1>t, <2>2 DEF ExecAborted, Retry, Goto, CallTypes
    <3>2. ExecPartial(p) \/ ExecFails(p) => target'[q] \in faulted'
      BY <1>t, <2>2 DEF ExecPartial, ExecFails, Retry, Goto, CallTypes
    <3>q. QED BY <1>2, <3>1, <3>2
  <2>3. CASE p # q
    <3>1. step[q] = "append" /\ op'[q] = op[q] /\ target'[q] = target[q]
      BY <1>2, <1>t, <2>3 DEF ExecAborted, ExecPartial, ExecFails, Retry, Goto, CallTypes
    <3>q. QED BY <2>1, <3>1, <1>k
  <2>q. QED BY <2>2, <2>3
<1>3. ASSUME NEW p \in Requests,
             \/ Watch(p) \/ Read(p) \/ Unwatch(p) \/ Exec(p) \/ Append(p)
             \/ FindAll(p) \/ CacheSet(p) \/ CacheAdd(p) \/ Members(p) \/ Drop(p)
      PROVE op'[q] = "create" \/ target'[q] \in faulted'
  <2>1. UNCHANGED faulted
    BY <1>3 DEF Watch, Read, Unwatch, Exec, Append, FindAll, CacheSet, CacheAdd, Members, Drop
  <2>2. step[q] = "append" /\ op'[q] = op[q] /\ target'[q] = target[q]
    BY <1>3, <1>t DEF Watch, Read, Unwatch, Exec, Append, FindAll, CacheSet, CacheAdd, Members, Drop,
       Goto, Finish, CallTypes
  <2>q. QED BY <2>1, <2>2, <1>k
<1>4. ASSUME NEW i \in Instances, NEW p \in Requests, ExpireNext(i, p)
      PROVE op'[q] = "create" \/ target'[q] \in faulted'
  BY <1>4, <1>t, <1>k DEF ExpireNext, Mutate, Start, Goto, CallTypes
<1>5. ASSUME NEW i \in Instances, Crash(i) PROVE op'[q] = "create" \/ target'[q] \in faulted'
  BY <1>5, <1>t, <1>k DEF Crash
<1>6. CASE UNCHANGED <<faulted, callVars>> BY <1>6, <1>k DEF callVars
<1>7. ASSUME NEW i \in Instances,
              \/ Tick(i) \/ FindExpirable(i) \/ SweepEnds(i) \/ LoseLock(i) \/ OtherExec(i)
              \/ PageExpires \/ (\E g \in Gigs : Deadline(g)) \/ LeaseLapses
       PROVE  UNCHANGED <<faulted, callVars>>
  BY <1>7 DEF Tick, FindExpirable, SweepEnds, LoseLock, OtherExec, PageExpires, Deadline, LeaseLapses, gigVars
<1>8. UNCHANGED vars => UNCHANGED <<faulted, callVars>> BY DEF vars, gigVars
<1>q. QED BY <1>1, <1>2, <1>3, <1>4, <1>5, <1>6, <1>7, <1>8, <1>t DEF Next, Proceed

\* Only the requests of a gig under creation, or one that adds its event, matter to CreateInv.
LEMMA NextCreate == GigTypes /\ CreateInv /\ [Next]_vars => CreateInv'
<1> SUFFICES ASSUME GigTypes, CreateInv, [Next]_vars PROVE CreateInv'
  OBVIOUS
<1>t. StoreTypes /\ CallTypes BY DEF GigTypes
\* Nobody takes up a new creation.
<1>f. ASSUME \A q \in Requests : op'[q] = "create" =>
                op[q] = "create" /\ target'[q] = target[q] /\ (step'[q] = "exec" => step[q] = "exec"),
             \A q \in Requests : op'[q] = "create" /\ step'[q] = "exec"
                => events'[target[q]]["create"] = events[target[q]]["create"]
      PROVE  CreateInv'
  BY <1>f DEF CreateInv
<1>1. ASSUME NEW p \in Requests, Call(p) PROVE CreateInv'
  <2>1. UNCHANGED events BY <1>1 DEF Call, Search, Create, Mutate, redisVars, storeVars
  <2>2. ASSUME NEW o, NEW g, NEW phase, o # "create", Start(p, o, g, phase) PROVE CreateInv'
    BY <2>1, <2>2, <1>t, <1>f DEF Start, Goto, CallTypes
  <2>3. ASSUME NEW g \in Gigs, Create(p, g) PROVE CreateInv'
    <3>1. /\ op' = [op EXCEPT ![p] = "create"] /\ target' = [target EXCEPT ![p] = g]
          /\ step' = [step EXCEPT ![p] = "exec"]
          /\ \A r \in Requests : target[r] # g
          /\ events[g]["create"] = 0
      BY <2>3 DEF Create, Start, Goto
    <3>q. QED BY <2>1, <3>1, <1>t DEF CreateInv, CallTypes
  <2>4. ASSUME NEW g \in Gigs, NEW o \in Mutations, Mutate(p, o, g) PROVE CreateInv'
    BY <2>2, <2>4, PhasesAndOps DEF Mutate
  <2>5. Search(p) => CreateInv' BY <2>2 DEF Search
  <2>q. QED BY <1>1, <2>3, <2>4, <2>5 DEF Call
<1>2. ASSUME NEW p \in Requests, Exec(p) \/ ExecPartial(p) \/ ExecFails(p) \/ Append(p) PROVE CreateInv'
  <2>0. target[p] \in Gigs /\ op[p] \in Mutations \cup {"create"} /\ (step[p] = "exec" \/ step[p] = "append")
    BY <1>2, <1>t, PhasesAndOps DEF CallTypes, InHandTyped, Exec, ExecPartial, ExecFails, Append
  <2>1. /\ UNCHANGED <<op, target>> /\ step'[p] # "exec"
        /\ \A q \in Requests \ {p} : step'[q] = step[q]
    BY <1>2, <1>t DEF Exec, ExecPartial, ExecFails, Append, Retry, Goto, CallTypes
  <2>2. EventWritten(p) \/ UNCHANGED events
    BY <1>2 DEF Exec, ExecPartial, ExecFails, Append, Written, storeVars
  <2>3. ASSUME NEW q \in Requests, op'[q] = "create", step'[q] = "exec"
        PROVE  events'[target[q]]["create"] = events[target[q]]["create"]
    <3>1. q # p /\ op[q] = "create" /\ step[q] = "exec" BY <2>1, <2>3
    <3>2. op[p] = "create" => target[p] # target[q] BY <3>1 DEF CreateInv
    <3>3. target[q] \in Gigs BY <1>t, <3>1 DEF CallTypes, InHandTyped
    <3>q. QED BY <1>t, <2>0, <2>2, <3>2, <3>3, EventsOf
  <2>q. QED BY <1>f, <2>1, <2>3
<1>3. ASSUME NEW p \in Requests,
             \/ Watch(p) \/ Read(p) \/ Unwatch(p) \/ ExecAborted(p)
             \/ FindAll(p) \/ CacheSet(p) \/ CacheAdd(p) \/ Members(p) \/ Drop(p)
      PROVE  CreateInv'
  <2>0. Watch(p) \/ Read(p) \/ Unwatch(p) => op[p] # "create"
    BY <1>t, PhasesAndOps DEF CallTypes, InHandTyped, Watch, Read, Unwatch
  <2>1. UNCHANGED events
    BY <1>3 DEF Watch, Read, Unwatch, ExecAborted, FindAll, CacheSet, CacheAdd, Members, Drop, redisVars, storeVars
  <2>2. ASSUME NEW q \in Requests, op'[q] = "create"
        PROVE op[q] = "create" /\ target'[q] = target[q] /\ (step'[q] = "exec" => step[q] = "exec")
    <3>1. CASE q # p
      BY <1>3, <1>t, <3>1, <2>2 DEF Watch, Read, Unwatch, ExecAborted, FindAll, CacheSet, CacheAdd, Members, Drop,
        Goto, Finish, Retry, CallTypes
    <3>2. CASE q = p
      BY <1>3, <1>t, <2>0, <3>2, <2>2 DEF Watch, Read, Unwatch, ExecAborted, FindAll, CacheSet, CacheAdd, Members, Drop,
        Goto, Finish, Retry, CallTypes
    <3>q. QED BY <3>1, <3>2
  <2>q. QED BY <1>f, <2>1, <2>2
<1>4. ASSUME NEW i \in Instances, NEW p \in Requests, ExpireNext(i, p) PROVE CreateInv'
  <2>1. UNCHANGED events /\ \E g : Start(p, "expire", g, "watch") BY <1>4 DEF ExpireNext, Mutate, redisVars, storeVars
  <2>q. QED BY <2>1, <1>t, <1>f DEF Start, Goto, CallTypes
<1>5. ASSUME NEW i \in Instances, Crash(i) PROVE CreateInv'
  <2>1. \A q \in Requests : op'[q] = "create" => op'[q] = op[q] /\ target'[q] = target[q] /\ step'[q] = step[q]
    BY <1>5 DEF Crash
  <2>2. UNCHANGED events BY <1>5 DEF Crash, storeVars, redisVars
  <2>q. QED BY <1>f, <2>1, <2>2
<1>6. CASE UNCHANGED <<events, callVars>> BY <1>6, <1>f DEF callVars
<1>7. ASSUME \/ \E i \in Instances : Tick(i) \/ FindExpirable(i) \/ SweepEnds(i) \/ LoseLock(i) \/ OtherExec(i)
             \/ PageExpires \/ (\E g \in Gigs : Deadline(g)) \/ LeaseLapses
       PROVE  UNCHANGED <<events, callVars>>
  BY <1>7 DEF Tick, FindExpirable, SweepEnds, LoseLock, OtherExec, PageExpires, Deadline, LeaseLapses, gigVars, redisVars, storeVars
<1>8. UNCHANGED vars => UNCHANGED <<events, callVars>> BY DEF vars, gigVars, redisVars, storeVars
<1>q. QED BY <1>1, <1>2, <1>3, <1>4, <1>5, <1>6, <1>7, <1>8 DEF Next, Proceed

\* One gig, one event: what a transaction that nothing disturbed makes of it.
LEMMA NextResolved ==
  GigTypes /\ ResolveInv /\ [Next]_vars => BornInv' /\ ResolvedOnceIfWatched'
<1> SUFFICES ASSUME GigTypes, ResolveInv, [Next]_vars, NEW g \in Gigs \ (faulted' \cup unguarded')
             PROVE  /\ events'[g]["create"] = 0 => gigs'[g] = "none" /\ Resolutions(g)' = 0
                    /\ Resolutions(g)' <= 1 /\ (gigs'[g] = "open" => Resolutions(g)' = 0)
  BY DEF BornInv, ResolvedOnceIfWatched
<1> DEFINE Goal == /\ events'[g]["create"] = 0 => gigs'[g] = "none" /\ Resolutions(g)' = 0
                   /\ Resolutions(g)' <= 1 /\ (gigs'[g] = "open" => Resolutions(g)' = 0)
<1>t. StoreTypes /\ CallTypes BY DEF GigTypes
<1>m. faulted \subseteq faulted' /\ unguarded \subseteq unguarded'
  <2>1. ASSUME NEW p \in Requests, Call(p) \/ Proceed(p) 
        PROVE faulted \subseteq faulted' /\ unguarded \subseteq unguarded'
    BY <2>1 DEF Call, Search, Create, Mutate, Proceed, Watch, Read, Unwatch, Exec, ExecAborted, ExecPartial,
      ExecFails, Append, FindAll, CacheSet, CacheAdd, Members, Drop, EndWatches, watchVars
  <2>2. ASSUME \/ \E i \in Instances : \/ Tick(i) \/ FindExpirable(i) \/ SweepEnds(i) \/ LoseLock(i) \/ OtherExec(i)
                                       \/ Crash(i) \/ \E q \in Requests : ExpireNext(i, q)
               \/ PageExpires \/ (\E h \in Gigs : Deadline(h)) \/ LeaseLapses
        PROVE faulted \subseteq faulted' /\ unguarded \subseteq unguarded'
    BY <2>2 DEF Tick, FindExpirable, SweepEnds, LoseLock, OtherExec, Crash, ExpireNext, Mutate, PageExpires,
      Deadline, LeaseLapses, gigVars, watchVars
  <2>3. UNCHANGED vars => faulted \subseteq faulted' /\ unguarded \subseteq unguarded'
    BY DEF vars, gigVars, watchVars
  <2>q. QED BY <2>1, <2>2, <2>3 DEF Next
<1>o. /\ g \in Gigs /\ g \notin faulted /\ g \notin unguarded
      /\ events[g]["create"] = 0 => gigs[g] = "none" /\ Resolutions(g) = 0
      /\ Resolutions(g) <= 1 /\ (gigs[g] = "open" => Resolutions(g) = 0)
  BY <1>m DEF ResolveInv, BornInv, ResolvedOnceIfWatched
<1>n. /\ Resolutions(g) \in Nat /\ events[g]["create"] \in Nat
      /\ events[g]["accept"] \in Nat /\ events[g]["cancel"] \in Nat /\ events[g]["expire"] \in Nat
  BY <1>t, Resolutions_
<1>k. ASSUME gigs'[g] = gigs[g], events'[g] = events[g] PROVE Goal
  BY <1>k, <1>o DEF Resolutions
<1>1. ASSUME NEW q \in Requests, Exec(q) PROVE Goal
  <2>0. target[q] \in Gigs /\ op[q] \in Mutations \cup {"create"} BY <1>1, ExecHasInHand
  <2>1. CASE target[q] # g
    <3>1. gigs'[g] = gigs[g] BY <1>t, <1>1, <2>1 DEF Exec, Written, RowWritten, StoreTypes
    <3>2. \A o \in Resolving \cup {"create"} : events'[g][o] = events[g][o]
      BY <1>t, <1>1, <1>o, <2>0, <2>1, EventsOf DEF Exec, Written
    <3>3. Resolutions(g)' = Resolutions(g) BY <3>2 DEF Resolutions, Resolving
    <3>q. QED BY <1>o, <3>1, <3>2, <3>3
  <2>2. CASE target[q] = g
    <3>1. gigs'[g] = Target[op[q]] BY <1>t, <1>1, <2>0, <2>2 DEF Exec, Written, RowWritten, StoreTypes
    <3>2. \A o \in Resolving \cup {"create"} :
            events'[g][o] = IF o = op[q] THEN events[g][o] + 1 ELSE events[g][o]
      BY <1>t, <1>1, <1>o, <2>0, <2>2, EventsOf DEF Exec, Written
    <3>3. CASE op[q] = "create"
      <4>1. events[g]["create"] = 0
        BY <1>1, <2>2, <3>3 DEF ResolveInv, CreateInv, Exec
      <4>2. Resolutions(g)' = Resolutions(g) BY <3>2, <3>3 DEF Resolutions, Resolving
      <4>3. events'[g]["create"] = 1 BY <3>2, <3>3, <4>1
      <4>q. QED BY <1>o, <4>1, <4>2, <4>3
    <3>4. CASE op[q] \in Mutations
      <4>1. gigs[g] \in Allowed[op[q]]
        BY <1>1, <1>o, <2>2, <3>4 DEF ResolveInv, WatchInv, Exec
      <4>2. gigs[g] # "none" BY <4>1, <3>4, Tables, PhasesAndOps
      <4>3. events'[g]["create"] = events[g]["create"] BY <3>2, <3>4, PhasesAndOps
      <4>4. events[g]["create"] # 0 BY <1>o, <4>2
      <4>5. CASE op[q] \in Resolving
        <5>1. Resolutions(g) = 0 BY <1>o, <4>1, <4>5, Tables
        <5>2. events[g]["accept"] = 0 /\ events[g]["cancel"] = 0 /\ events[g]["expire"] = 0
          BY <1>n, <5>1 DEF Resolutions
        <5>3. Resolutions(g)' = 1 BY <3>2, <4>5, <5>2 DEF Resolutions, Resolving
        <5>4. gigs'[g] # "open" BY <3>1, <4>5, Tables
        <5>q. QED BY <4>3, <4>4, <5>3, <5>4
      <4>6. CASE op[q] = "update" \/ op[q] = "remove"
        <5>1. Resolutions(g)' = Resolutions(g) BY <3>2, <4>6 DEF Resolutions, Resolving
        <5>2. gigs'[g] = "open" => gigs[g] = "open" BY <3>1, <4>1, <4>6, Tables
        <5>q. QED BY <1>o, <4>3, <4>4, <5>1, <5>2
      <4>q. QED BY <3>4, <4>5, <4>6, PhasesAndOps
    <3>q. QED BY <2>0, <3>3, <3>4
  <2>q. QED BY <2>1, <2>2
<1>2. ASSUME NEW q \in Requests, ExecPartial(q) \/ ExecFails(q) PROVE Goal
  <2>0. target[q] \in Gigs /\ op[q] \in Mutations \cup {"create"} BY <1>2, ExecHasInHand
  <2>1. target[q] # g BY <1>2 DEF ExecPartial, ExecFails
  <2>2. gigs'[g] = gigs[g] BY <1>t, <1>2, <2>1 DEF ExecPartial, ExecFails, Written, storeVars, RowWritten, StoreTypes
  <2>3. EventWritten(q) \/ UNCHANGED events BY <1>2 DEF ExecPartial, ExecFails, Written, storeVars
  <2>4. \A o \in Resolving \cup {"create"} : events'[g][o] = events[g][o]
      BY <1>t, <1>o, <2>0, <2>1, <2>3, EventsOf 
  <2>5. Resolutions(g)' = Resolutions(g) BY <2>4 DEF Resolutions, Resolving
  <2>q. QED BY <1>o, <2>2, <2>4, <2>5
<1>3. ASSUME NEW q \in Requests, Append(q) PROVE Goal
  <2>0. target[q] \in Gigs /\ op[q] \in Mutations \cup {"create"}
    BY <1>3, <1>t, PhasesAndOps DEF CallTypes, InHandTyped, Append
  <2>1. EventWritten(q) \/ UNCHANGED events BY <1>3 DEF Append
  <2>2. UNCHANGED <<gigs, faulted>> BY <1>3 DEF Append
  <2>3. target[q] = g => op[q] = "create" BY <1>3, <1>o DEF ResolveInv, AppendInv, Append
  <2>4. \A o \in Resolving : events'[g][o] = events[g][o]
    BY <1>t, <1>o, <2>0, <2>1, <2>3, EventsOf DEF Resolving
  <2>5. events'[g]["create"] >= events[g]["create"]
    BY <1>t, <1>o, <1>n, <2>0, <2>1, EventsOf
  <2>6. Resolutions(g)' = Resolutions(g) BY <2>4 DEF Resolutions, Resolving
  <2>7. events'[g]["create"] = 0 => events[g]["create"] = 0
    BY <1>t, <1>o, <1>n, <2>0, <2>1, EventsOf
  <2>q. QED BY <1>o, <2>2, <2>6, <2>7
<1>4. ASSUME NEW h \in Gigs, Deadline(h) PROVE Goal
  BY <1>4, <1>k DEF Deadline
<1>5. CASE Unwritten BY <1>5, <1>k DEF Unwritten
<1> HIDE DEF Goal
<1>q. QED BY <1>1, <1>2, <1>3, <1>4, <1>5, WhoWrites DEF Goal

LEMMA InitResolve == Init => ResolveInv
<1> SUFFICES ASSUME Init PROVE ResolveInv
  OBVIOUS
<1>1. PICK S \in SUBSET Started :
       /\ gigs = [g \in Gigs |-> IF g \in S THEN "open" ELSE "none"]
       /\ events = [g \in Gigs |-> [o \in Resolving \cup {"create"} |->
                      IF g \in S /\ o = "create" THEN 1 ELSE 0]]
  BY DEF Init, GigInit
<1>2. \A q \in Requests : step[q] = "idle" /\ op[q] = "none" BY DEF Init, GigInit
<1>3. ASSUME NEW g \in Gigs
      PROVE  /\ Resolutions(g) = 0
             /\ events[g]["create"] = 0 => gigs[g] = "none"
  <2>1. \A o \in Resolving : events[g][o] = 0 BY <1>1 DEF Resolving
  <2>2. Resolutions(g) = 0 BY <2>1 DEF Resolutions, Resolving
  <2>3. events[g]["create"] = 0 => g \notin S BY <1>1
  <2>q. QED BY <1>1, <2>2, <2>3
<1>4. WatchInv /\ CreateInv /\ AppendInv BY <1>2 DEF WatchInv, CreateInv, AppendInv
<1>q. QED BY <1>3, <1>4 DEF ResolveInv, BornInv, ResolvedOnceIfWatched

\* A gig reaches a final status once, announced once, however its mutations, sweeps and
\* retries interleave, as long as no transaction was half written and no call on the
\* shared connection ended its watch. (GigService.mutate, WATCH and MULTI.)
THEOREM GigsResolveOnce == WorkersSpec => []ResolvedOnceIfWatched
<1>1. GigTypes /\ ResolveInv /\ [Next]_vars => ResolveInv'
  BY NextWatch, NextCreate, NextAppend, NextResolved DEF ResolveInv
<1>2. Spec => []ResolveInv BY <1>1, InitResolve, GigTypesHold, PTL DEF Spec
<1>3. ResolveInv => ResolvedOnceIfWatched BY DEF ResolveInv
<1>q. QED BY <1>2, <1>3, GigsAlone, PTL

----------------------------------------------------------------------------
(* The cached page. While nothing overtook a search, what a search has in hand is the
   list, then what is open of it; a page that is not current still has a mutation at work on it; and a page
   whose key is not in the set of cached keys has its search at work on that. *)

Working == {"append", "members", "drop"}

PageInv ==
  ~overtaken =>
    /\ \A q \in Requests : /\ step[q] = "rows" => page[q] = listing
                           /\ step[q] \in {"set", "add"} => page[q] = ListedOpen
    /\ (\E q \in Requests : step[q] = "add") => cache \in {NoPage, ListedOpen}
    /\ cache # NoPage => cached \/ \E q \in Requests : step[q] = "add"
    /\ cache \notin {NoPage, ListedOpen} => \E q \in Requests : step[q] \in Working

LEMMA NextPage == GigTypes /\ PageInv /\ [Next]_vars => PageInv'
<1> SUFFICES ASSUME GigTypes, PageInv, [Next]_vars, ~overtaken' PROVE PageInv'
  BY DEF PageInv
<1>t. StoreTypes /\ CallTypes BY DEF GigTypes
<1>g. UNCHANGED <<gigs, listing>> => ListedOpen' = ListedOpen BY DEF OpenGigs, ListedOpen
\* A step that leaves the phases in question alone.
<1>k. ASSUME UNCHANGED <<gigs, listing, cached, overtaken>>, cache' \in {cache, NoPage},
             \A q \in Requests : step'[q] = step[q] \/ {step[q], step'[q]} \cap ({"rows", "set", "add"} \cup Working) = {},
             \A q \in Requests : step[q] \in {"rows", "set", "add"} => page'[q] = page[q]
      PROVE  PageInv'
  BY <1>k, <1>g DEF PageInv
<1>1. ASSUME NEW p \in Requests, Call(p) PROVE PageInv'
  <2>1. UNCHANGED <<gigs, listing, cacheVars, page>> BY <1>1 DEF Call, Search, Create, Mutate, Start, redisVars, storeVars
  <2>2. \E phase \in {"find", "exec", "watch"} : step[p] = "idle" /\ step' = [step EXCEPT ![p] = phase]
    BY <1>1 DEF Call, Search, Create, Mutate, Start, Goto
  <2>q. QED BY <1>t, <1>k, <2>1, <2>2 DEF cacheVars, Working, CallTypes
<1>2. ASSUME NEW p \in Requests, Watch(p) \/ Read(p) \/ Unwatch(p) PROVE PageInv'
  <2>1. UNCHANGED <<gigs, listing, cacheVars>> BY <1>2 DEF Watch, Read, Unwatch, redisVars, storeVars
  <2>2. \A q \in Requests \ {p} : step'[q] = step[q] /\ page'[q] = page[q]
    BY <1>2, <1>t DEF Watch, Read, Unwatch, Goto, Finish, CallTypes
  <2>3. {step[p], step'[p]} \subseteq {"watch", "read", "unwatch", "exec", "idle"}
    BY <1>2, <1>t DEF Watch, Read, Unwatch, Goto, Finish, CallTypes
  <2>q. QED BY <1>k, <2>1, <2>2, <2>3 DEF cacheVars, Working
<1>3. ASSUME NEW p \in Requests, Exec(p) \/ ExecFails(p) PROVE PageInv'
  <2>1. /\ ~overtaken /\ \A q \in Requests : step[q] \notin {"set", "add"}
        /\ (\E q \in Requests : step[q] = "rows") => listing' = listing
    BY <1>3 DEF Exec, ExecFails, Overtakes
  <2>2. UNCHANGED <<cache, cached, page>> BY <1>3 DEF Exec, ExecFails
  <2>3. step'[p] \in Working /\ \A q \in Requests \ {p} : step'[q] = step[q]
    BY <1>3, <1>t DEF Exec, ExecFails, Goto, CallTypes, Working
  <2>q. QED BY <2>1, <2>2, <2>3 DEF PageInv, Working
<1>4. ASSUME NEW p \in Requests, ExecAborted(p) PROVE PageInv'
  <2>1. UNCHANGED <<gigs, listing, cacheVars>> BY <1>4 DEF ExecAborted, storeVars
  <2>2. /\ step[p] = "exec" /\ step'[p] \in {"append", "unwatch"}
        /\ \A q \in Requests \ {p} : step'[q] = step[q]
        /\ UNCHANGED page
    BY <1>4, <1>t DEF ExecAborted, Retry, Goto, CallTypes
  <2>q. QED BY <1>g, <2>1, <2>2 DEF PageInv, Working, cacheVars
<1>5. ASSUME NEW p \in Requests, Append(p) PROVE PageInv'
  <2>1. UNCHANGED <<gigs, listing, cacheVars, page>> BY <1>5 DEF Append
  <2>2. /\ step[p] = "append" /\ step'[p] = "members"
        /\ \A q \in Requests \ {p} : step'[q] = step[q]
    BY <1>5, <1>t DEF Append, Goto, CallTypes
  <2>q. QED BY <1>g, <2>1, <2>2 DEF PageInv, Working, cacheVars
<1>6. ASSUME NEW p \in Requests, FindAll(p) PROVE PageInv'
  <2>1. /\ UNCHANGED <<gigs, listing, cache, cached, overtaken>>
        /\ \/ step[p] = "find" /\ Goto(p, "rows") /\ page' = [page EXCEPT ![p] = listing]
           \/ step[p] = "rows" /\ Goto(p, "set") /\ page' = [page EXCEPT ![p] = @ \cap OpenGigs]
    BY <1>6 DEF FindAll, redisVars, storeVars
  <2>2. PICK x \in {"rows", "set"} : Goto(p, x) BY <2>1
  <2>3. /\ \A q \in Requests \ {p} : step'[q] = step[q] /\ page'[q] = page[q]
        /\ step'[p] = x /\ {step[p], step'[p]} \subseteq {"find", "rows", "set"}
    BY <1>t, <2>1, <2>2 DEF CallTypes, Goto
  <2>4. step'[p] = "rows" => page'[p] = listing
    BY <1>t, <2>1 DEF CallTypes, Goto
  <2>5. step'[p] = "set" => step[p] = "rows" /\ page'[p] = page[p] \cap OpenGigs
    BY <1>t, <2>1 DEF CallTypes, Goto
  <2>6. ~overtaken /\ (step'[p] = "set" => page'[p] = ListedOpen)
    BY <2>1, <2>5 DEF PageInv, ListedOpen
  <2>q. QED BY <1>g, <2>1, <2>3, <2>4, <2>6 DEF PageInv, Working
<1>7. ASSUME NEW p \in Requests, CacheSet(p) PROVE PageInv'
  <2>0. UNCHANGED <<gigs, listing, cached, overtaken>> /\ step[p] = "set" BY <1>7 DEF CacheSet, redisVars, storeVars
  <2>1. ASSUME cache' = page[p], Goto(p, "add"), UNCHANGED page PROVE PageInv'
    <3>1. cache' = ListedOpen BY <2>0, <2>1 DEF PageInv
    <3>2. step'[p] = "add" /\ \A q \in Requests \ {p} : step'[q] = step[q] BY <1>t, <2>1 DEF Goto, CallTypes
    <3>q. QED BY <1>g, <2>0, <2>1, <3>1, <3>2 DEF PageInv
  <2>2. ASSUME Finish(p), UNCHANGED cache PROVE PageInv'
    <3>1. step'[p] = "idle" /\ \A q \in Requests \ {p} : step'[q] = step[q] /\ page'[q] = page[q]
      BY <1>t, <2>2 DEF Finish, Goto, CallTypes
    <3>q. QED BY <1>g, <2>0, <2>2, <3>1 DEF PageInv, Working
  <2>q. QED BY <1>7, <2>1, <2>2 DEF CacheSet
<1>8. ASSUME NEW p \in Requests, CacheAdd(p) PROVE PageInv'
  <2>1. UNCHANGED <<gigs, listing, cache, overtaken>> /\ step[p] = "add" /\ cached' = TRUE BY <1>8 DEF CacheAdd, redisVars, storeVars
  <2>2. step'[p] = "idle" /\ \A q \in Requests \ {p} : step'[q] = step[q] /\ page'[q] = page[q]
    BY <1>t, <1>8 DEF CacheAdd, Finish, Goto, CallTypes
  <2>q. QED BY <1>g, <2>1, <2>2 DEF PageInv, Working
<1>9. ASSUME NEW p \in Requests, Members(p) PROVE PageInv'
  <2>0. UNCHANGED <<gigs, listing, cache, cached, overtaken>> /\ step[p] = "members"
    BY <1>9 DEF Members, redisVars, storeVars
  <2>1. ASSUME cached, Goto(p, "drop"), UNCHANGED page PROVE PageInv'
    <3>1. step'[p] = "drop" /\ \A q \in Requests \ {p} : step'[q] = step[q] BY <1>t, <2>1 DEF Goto, CallTypes
    <3>q. QED BY <1>g, <2>0, <2>1, <3>1 DEF PageInv, Working
  <2>2. ASSUME ~cached, Finish(p) PROVE PageInv'
    <3>1. step'[p] = "idle" /\ \A q \in Requests \ {p} : step'[q] = step[q] /\ page'[q] = page[q]
      BY <1>t, <2>2 DEF Finish, Goto, CallTypes
    <3>2. cache \in {NoPage, ListedOpen} BY <2>0, <2>2 DEF PageInv
    <3>q. QED BY <1>g, <2>0, <2>2, <3>1, <3>2 DEF PageInv
  <2>q. QED BY <1>9, <2>1, <2>2 DEF Members
<1>10. ASSUME NEW p \in Requests, Drop(p) PROVE PageInv'
  <2>1. UNCHANGED <<gigs, listing, overtaken>> /\ step[p] = "drop" /\ cache' = NoPage BY <1>10 DEF Drop, redisVars, storeVars
  <2>2. step'[p] = "idle" /\ \A q \in Requests \ {p} : step'[q] = step[q] /\ page'[q] = page[q]
    BY <1>t, <1>10 DEF Drop, Finish, Goto, CallTypes
  <2>q. QED BY <1>g, <2>1, <2>2 DEF PageInv, Working
<1>11. ASSUME NEW i \in Instances, NEW p \in Requests, ExpireNext(i, p) PROVE PageInv'
  <2>1. UNCHANGED <<gigs, listing, cacheVars, page>> BY <1>11 DEF ExpireNext, Mutate, Start, redisVars, storeVars
  <2>2. step[p] = "idle" /\ step' = [step EXCEPT ![p] = "watch"]
    BY <1>11 DEF ExpireNext, Mutate, Start, Goto
  <2>q. QED BY <1>t, <1>k, <2>1, <2>2 DEF cacheVars, Working, CallTypes
<1>12. ASSUME NEW i \in Instances, Crash(i) PROVE PageInv'
  <2>1. ~overtaken /\ \A q \in Requests : Host[q] = i => step[q] \notin {"add"} \cup Working
    BY <1>12 DEF Crash, Working
  <2>2. \A q \in Requests : IF Host[q] = i THEN step'[q] = "idle" ELSE step'[q] = step[q] /\ page'[q] = page[q]
    BY <1>12 DEF Crash
  <2>3. UNCHANGED <<gigs, listing, cache, cached>> BY <1>12 DEF Crash, storeVars
  <2>q. QED BY <1>g, <2>1, <2>2, <2>3 DEF PageInv, Working
<1>13. CASE PageExpires BY <1>13, <1>k DEF PageExpires, redisVars, storeVars, callVars
<1>14. CASE UNCHANGED <<gigs, listing, cacheVars, callVars>> BY <1>14, <1>k DEF cacheVars, callVars
<1>15. ASSUME \/ \E i \in Instances : Tick(i) \/ FindExpirable(i) \/ SweepEnds(i) \/ LoseLock(i) \/ OtherExec(i)
              \/ (\E g \in Gigs : Deadline(g)) \/ LeaseLapses
       PROVE  UNCHANGED <<gigs, listing, cacheVars, callVars>>
  BY <1>15 DEF Tick, FindExpirable, SweepEnds, LoseLock, OtherExec, Deadline, LeaseLapses, gigVars, redisVars, storeVars
<1>16. UNCHANGED vars => UNCHANGED <<gigs, listing, cacheVars, callVars>> BY DEF vars, gigVars, redisVars, storeVars
<1>17. ASSUME NEW p \in Requests, ExecPartial(p) PROVE FALSE BY <1>17 DEF ExecPartial
<1>q. QED BY <1>1, <1>2, <1>3, <1>4, <1>5, <1>6, <1>7, <1>8, <1>9, <1>10, <1>11, <1>12, <1>13, <1>14,
           <1>15, <1>16, <1>17 DEF Next, Proceed

\* A cached page of open gigs is what is open, or a mutation is about to drop it, unless a
\* mutation overtook the search that wrote it. (GigService.findAll and its cache.)
THEOREM PagesAreCurrent == WorkersSpec => []PageIsCurrent
<1>1. Init => PageInv BY DEF Init, GigInit, PageInv
<1>2. Spec => []PageInv BY <1>1, NextPage, GigTypesHold, PTL DEF Spec
<1>3. PageInv => PageIsCurrent BY DEF PageInv, PageIsCurrent, Working
<1>q. QED BY <1>2, <1>3, GigsAlone, PTL

----------------------------------------------------------------------------
(* Smallest and greatest elements. *)

LEMMA NaturalsAreWellFounded ==
  \E R : IsWellFoundedOn(R, Nat) /\ \A x, y \in Nat : y < x => <<y, x>> \in R
<1>1. \A x, y \in Nat : y < x => <<y, x>> \in OpToRel(<, Nat) BY DEF OpToRel
<1>q. QED BY <1>1, NatLessThanWellFounded

LEMMA LeastOf ==
  ASSUME NEW S, S \subseteq Nat, S # {}
  PROVE  \E x \in S : \A y \in S : x <= y
<1>1. PICK R : IsWellFoundedOn(R, Nat) /\ \A x, y \in Nat : y < x => <<y, x>> \in R
  BY NaturalsAreWellFounded
<1>2. PICK x \in S : \A y \in S : ~ (<<y, x>> \in R) BY <1>1, WFMin
<1>3. \A y \in S : ~ (y < x) BY <1>1, <1>2
<1>4. \A y \in S : x \in Nat /\ y \in Nat OBVIOUS
<1>q. QED BY <1>3, <1>4

LEMMA GreatestOf ==
  ASSUME NEW n \in Nat, NEW S, S \subseteq 0 .. n, S # {}
  PROVE  \E x \in S : \A y \in S : y <= x
<1> DEFINE T == {n - x : x \in S}
<1>0. \A x \in S : x \in Nat /\ n - x \in Nat OBVIOUS
<1>1. T \subseteq Nat /\ T # {} BY <1>0
<1>2. \E x \in T : \A y \in T : x <= y
  <2> HIDE DEF T
  <2> QED BY <1>1, LeastOf
<1>3. PICK z \in S : \A y \in S : n - z <= n - y BY <1>2
<1>q. QED BY <1>0, <1>3

----------------------------------------------------------------------------
(* The migrations. *)

LEMMA MigrationAlone == WorkersSpec => Migrate!Spec
<1>1. WorkersInit => Migrate!Init BY DEF WorkersInit
<1>2. [WorkersNext]_workersVars => [Migrate!Next]_(Migrate!vars)
  BY DEF WorkersNext, Others, workersVars, migrateVars, Migrate!vars, Migrate!store, Migrate!rowVars
<1>q. QED BY <1>1, <1>2, PTL DEF WorkersSpec, Migrate!Spec, workersVars

Hosts == Migrate!Hosts
Calls == Runs \cup Undos
Ats == {"new", "done"} \cup Migrate!Claiming \cup Migrate!Phases
Ends == {"none", "rolled_back", "failed"}
CallRecs == [at : Ats, id : Runs \cup {Nobody}, reach : Migrate!Reaches, sees : Runs \cup {Nobody},
             cursor : {0} \cup Rows, end : Ends]

\* What the fields of a call say of it.
CallShape(c) ==
  /\ c \in Runs => call[c].id = c
  /\ c \in Undos => call[c].at \in {"new", "done", "rollbackContract", "rollbackExpand", "clearUndone", "saveUndone"}
  /\ c \in Undos /\ call[c].at \notin {"new", "done"} => call[c].id \in Runs
  /\ call[c].at \in {"complete", "clear"} => call[c].reach = "contract"
  /\ call[c].at \in Migrate!Claiming \cup {"new", "expand", "count"} => call[c].cursor = 0

MigrateTypes ==
  /\ Migrate!TypeOK
  /\ newest \in [Hosts -> Runs \cup {Nobody}]
  /\ \A c \in Calls : CallShape(c)

LEMMA AtsAre ==
  /\ Migrate!Calls = Calls
  /\ Ats = {"new", "done", "claim", "who", "look", "mark", "create", "expand", "count", "backfill",
            "contract", "complete", "clear", "rollbackContract", "rollbackExpand", "clearUndone", "saveUndone"}
  /\ Migrate!Claiming = {"claim", "who", "look", "mark", "create"}
  /\ Migrate!Reaches = {"none", "expand", "contract"}
  /\ \A c \in Calls : Migrate!Busy(c) <=> call[c].at \in
       {"expand", "count", "backfill", "contract", "complete", "rollbackContract", "rollbackExpand", "clearUndone"}
BY DEF Ats, Migrate!Claiming, Migrate!Phases, Migrate!Reaches, Migrate!Busy, Migrate!Closing, Migrate!Calls, Calls

LEMMA HomesAreHosts == \A c \in Calls : CallHome[c] \in Hosts
BY DEF Hosts, Migrate!Hosts, Migrate!Calls, Calls

\* The other calls stay as they are.
Moves(c) == call' \in [Calls -> CallRecs] /\ \A d \in Calls \ {c} : call'[d] = call[d]

LEMMA CallMoves ==
  ASSUME call \in [Calls -> CallRecs], NEW c \in Calls, NEW r, call' = [call EXCEPT ![c] = r], r \in CallRecs
  PROVE  Moves(c) /\ call'[c] = r
BY DEF Moves

LEMMA CallGoes ==
  ASSUME call \in [Calls -> CallRecs], NEW c \in Calls, NEW p \in Ats,
         call' = [call EXCEPT ![c].at = p]
  PROVE  Moves(c) /\ call'[c] = [call[c] EXCEPT !.at = p]
BY DEF Moves, CallRecs

LEMMA CallSees ==
  ASSUME call \in [Calls -> CallRecs], NEW c \in Calls, NEW p \in Ats, NEW s \in Runs \cup {Nobody},
         call' = [call EXCEPT ![c].at = p, ![c].sees = s]
  PROVE  Moves(c) /\ call'[c] = [call[c] EXCEPT !.at = p, !.sees = s]
BY DEF Moves, CallRecs

LEMMA CallReaches ==
  ASSUME call \in [Calls -> CallRecs], NEW c \in Calls, NEW p \in Ats, NEW h \in Migrate!Reaches,
         call' = [call EXCEPT ![c].at = p, ![c].reach = h]
  PROVE  Moves(c) /\ call'[c] = [call[c] EXCEPT !.at = p, !.reach = h]
BY DEF Moves, CallRecs

LEMMA CallEnds ==
  ASSUME call \in [Calls -> CallRecs], NEW c \in Calls, NEW p \in Ats, NEW e \in Ends,
         call' = [call EXCEPT ![c].at = p, ![c].end = e]
  PROVE  Moves(c) /\ call'[c] = [call[c] EXCEPT !.at = p, !.end = e]
BY DEF Moves, CallRecs

LEMMA CallAdvances ==
  ASSUME call \in [Calls -> CallRecs], NEW c \in Calls, NEW p \in Ats, NEW w \in {0} \cup Rows,
         call' = [call EXCEPT ![c].at = p, ![c].cursor = w]
  PROVE  Moves(c) /\ call'[c] = [call[c] EXCEPT !.at = p, !.cursor = w]
BY DEF Moves, CallRecs

----------------------------------------------------------------------------
(* The slot. A run that works and never lost its slot is the one in it; what a rollback
   undoes, and what is recorded as over, is over. *)

Holding(c) == Migrate!Busy(c) \/ call[c].at = "claim"
Over(r) == call[r].at \in {"clear", "done"}

HoldersHold ==
  \A c \in Runs \ strayed : Holding(c) => marker = c
ReclaimersStray == \A c \in Runs : call[c].at = "create" => c \in strayed
UndosUndo == \A c \in Undos : call[c].at \notin {"new", "done"} => Over(call[c].id)
RecordedIsOver == \A r \in Runs : runRecord[r].status \in {"completed", "rolled_back", "failed"} => Over(r)
SlotIsKept ==
  troubles = 0 /\ marker # Nobody =>
    call[marker].at \notin {"new", "who", "look", "mark", "saveUndone", "done"}

SlotInv == HoldersHold /\ ReclaimersStray /\ UndosUndo /\ RecordedIsOver /\ SlotIsKept

----------------------------------------------------------------------------
(* The rows of an instance that no two calls work on together, nor out of order. *)

AtWork(c) == Migrate!Busy(c) /\ call[c].at # "expand"
Full(i) == urgent[i] = Rows
Copied(i) == Rows \subseteq priority[i]

\* Who works there is alone, and works for the run that started last.
WorksAlone ==
  \A c \in Calls :
    AtWork(c) /\ CallHome[c] \notin mixed =>
      /\ newest[CallHome[c]] = call[c].id
      /\ \A d \in Calls : AtWork(d) /\ CallHome[d] = CallHome[c] => d = c
NewestIsHome == \A i \in Hosts : newest[i] # Nobody => CallHome[newest[i]] = i

\* What has been copied when a call is where it is.
CopiesSoFar ==
  \A c \in Calls :
    CallHome[c] \notin mixed =>
      /\ call[c].at \in {"count", "backfill", "contract", "rollbackExpand"} => Full(CallHome[c])
      /\ call[c].at = "backfill" => \A w \in Rows : w <= call[c].cursor => w \in priority[CallHome[c]]
      /\ call[c].at \in {"contract", "complete"} => Copied(CallHome[c])

\* The old values can be put back for the run that started last, or are all there.
CanUndo(r, reach) ==
  CallHome[r] \notin mixed /\ newest[CallHome[r]] = r => reach = "contract" \/ Full(CallHome[r])
UndoRestores ==
  /\ \A c \in Calls : call[c].at \in {"rollbackContract", "rollbackExpand", "clearUndone", "saveUndone"}
                        => CanUndo(call[c].id, call[c].reach)
  /\ \A r \in Runs : runRecord[r].status \in {"completed", "failed"} => CanUndo(r, runRecord[r].reach)

RowsInv == WorksAlone /\ NewestIsHome /\ CopiesSoFar /\ UndoRestores /\ Migrate!RowsKeepAValue

----------------------------------------------------------------------------
RunStatuses == {"none", "going", "completed", "rolled_back", "failed"}
StoreTyped ==
  /\ marker \in Runs \cup {Nobody} /\ runRecord \in [Runs -> Migrate!RunRecords]
  /\ ownRuns \in [Hosts -> [marker : Runs \cup {Nobody}, record : [Runs -> Migrate!RunRecords]]]
  /\ troubles \in 0 .. MaxTroubles
RowsTyped ==
  /\ urgent \in [Hosts -> SUBSET Rows] /\ priority \in [Hosts -> SUBSET Rows]
  /\ columnAdded \in [Hosts -> BOOLEAN] /\ newest \in [Hosts -> Runs \cup {Nobody}] /\ mixed \subseteq Hosts

LEMMA MigrateTypesAre ==
  MigrateTypes <=> /\ StoreTyped /\ RowsTyped /\ call \in [Calls -> CallRecs]
                   /\ breaks \in 0 .. MaxBreaks /\ strayed \subseteq Runs
                   /\ \A c \in Calls : CallShape(c)
BY DEF MigrateTypes, Migrate!TypeOK, StoreTyped, RowsTyped, CallRecs, Ats, Ends, Calls, Hosts, Migrate!Calls

LEMMA Trouble ==
  ASSUME troubles \in 0 .. MaxTroubles, Migrate!Trouble
  PROVE  troubles' \in 0 .. MaxTroubles /\ troubles' # 0
BY MigrationAssumption DEF Migrate!Trouble

LEMMA Saves ==
  ASSUME StoreTyped, NEW c \in Calls, call[c].id \in Runs, NEW s \in RunStatuses, NEW h \in Migrate!Reaches,
         Migrate!SaveRun(c, s, h), UNCHANGED marker
  PROVE  /\ StoreTyped'
         /\ UNCHANGED troubles \/ troubles' # 0
         /\ \/ UNCHANGED runRecord
            \/ runRecord' = [runRecord EXCEPT ![call[c].id] = [status |-> s, reach |-> h]]
<1>1. [status |-> s, reach |-> h] \in Migrate!RunRecords BY DEF RunStatuses, Migrate!RunRecords
<1>2. CallHome[c] \in Hosts BY HomesAreHosts
<1>3. CASE runRecord' = [runRecord EXCEPT ![call[c].id] = [status |-> s, reach |-> h]] /\ UNCHANGED <<ownRuns, troubles>>
  BY <1>1, <1>3 DEF StoreTyped
<1>4. CASE /\ Migrate!Trouble /\ UNCHANGED runRecord
           /\ ownRuns' = [ownRuns EXCEPT ![CallHome[c]].record[call[c].id] = [status |-> s, reach |-> h]]
  <2>1. ownRuns' \in [Hosts -> [marker : Runs \cup {Nobody}, record : [Runs -> Migrate!RunRecords]]]
    BY <1>1, <1>2, <1>4 DEF StoreTyped
  <2>q. QED BY <1>4, <2>1, Trouble DEF StoreTyped
<1>q. QED BY <1>3, <1>4 DEF Migrate!SaveRun

LEMMA Clears ==
  ASSUME StoreTyped, strayed \subseteq Runs, NEW c \in Calls, Migrate!ClearActive(c), UNCHANGED runRecord
  PROVE  /\ StoreTyped' /\ strayed' \subseteq Runs
         /\ \/ marker' = Nobody /\ strayed' = strayed \cup ({marker} \ {Nobody, call[c].id}) /\ UNCHANGED troubles
            \/ UNCHANGED <<marker, strayed>> /\ troubles' # 0
<1>1. CallHome[c] \in Hosts BY HomesAreHosts
<1>2. CASE /\ marker' = Nobody /\ strayed' = strayed \cup ({marker} \ {Nobody, call[c].id})
           /\ UNCHANGED <<ownRuns, troubles>>
  BY <1>2 DEF StoreTyped
<1>3. CASE /\ Migrate!Trouble /\ ownRuns' = [ownRuns EXCEPT ![CallHome[c]].marker = Nobody]
           /\ UNCHANGED <<marker, strayed>>
  <2>1. ownRuns' \in [Hosts -> [marker : Runs \cup {Nobody}, record : [Runs -> Migrate!RunRecords]]]
    BY <1>1, <1>3 DEF StoreTyped
  <2>q. QED BY <1>3, <2>1, Trouble DEF StoreTyped
<1>q. QED BY <1>2, <1>3 DEF Migrate!ClearActive

LEMMA ClaimsInMemory ==
  ASSUME StoreTyped, strayed \subseteq Runs, call \in [Calls -> CallRecs], NEW c \in Runs, Migrate!ClaimInMemory(c)
  PROVE  /\ StoreTyped' /\ strayed' \subseteq Runs /\ Moves(c) /\ UNCHANGED <<marker, runRecord>> /\ troubles' # 0
         /\ \/ strayed' = strayed \cup {c} /\ call'[c] = [call[c] EXCEPT !.at = "expand"]
            \/ UNCHANGED strayed
               /\ \E s \in Runs \cup {Nobody} : call'[c] = [call[c] EXCEPT !.at = "look", !.sees = s]
<1>1. CallHome[c] \in Hosts /\ c \in Calls BY HomesAreHosts DEF Calls
<1>a. "look" \in Ats /\ "expand" \in Ats BY AtsAre
<1>2. CASE /\ Migrate!Trouble /\ UNCHANGED <<marker, runRecord>>
           /\ ownRuns' = [ownRuns EXCEPT ![CallHome[c]] =
                            [marker |-> c, record |-> [@.record EXCEPT ![c].status = "going"]]]
           /\ strayed' = strayed \cup {c} /\ call' = [call EXCEPT ![c].at = "expand"]
  <2> DEFINE own == ownRuns[CallHome[c]].record
  <2>1. own \in [Runs -> Migrate!RunRecords] BY <1>1 DEF StoreTyped
  <2>2. [own EXCEPT ![c].status = "going"] \in [Runs -> Migrate!RunRecords]
    BY <2>1 DEF Migrate!RunRecords
  <2>4. ownRuns' \in [Hosts -> [marker : Runs \cup {Nobody}, record : [Runs -> Migrate!RunRecords]]]
    BY <1>1, <1>2, <2>2 DEF StoreTyped
  <2>5. Moves(c) /\ call'[c] = [call[c] EXCEPT !.at = "expand"] BY <1>a, <1>1, <1>2, CallGoes
  <2>q. QED BY <1>2, <2>4, <2>5, Trouble DEF StoreTyped
<1>3. CASE /\ Migrate!Trouble /\ UNCHANGED <<marker, runRecord>> /\ UNCHANGED <<ownRuns, strayed>>
           /\ call' = [call EXCEPT ![c].at = "look", ![c].sees = ownRuns[CallHome[c]].marker]
  <2>1. ownRuns[CallHome[c]].marker \in Runs \cup {Nobody} BY <1>1 DEF StoreTyped
  <2>2. Moves(c) /\ call'[c] = [call[c] EXCEPT !.at = "look", !.sees = ownRuns[CallHome[c]].marker]
    BY <1>a, <1>1, <1>3, <2>1, CallSees
  <2>q. QED BY <1>3, <2>1, <2>2, Trouble DEF StoreTyped
<1>q. QED BY <1>2, <1>3 DEF Migrate!ClaimInMemory, Migrate!Mine, Migrate!Go

----------------------------------------------------------------------------
LEMMA CallsHaveRuns ==
  ASSUME MigrateTypes, NEW c \in Calls
  PROVE  /\ call[c] \in CallRecs /\ CallHome[c] \in Hosts
         /\ call[c].at \notin {"new", "done"} => call[c].id \in Runs
         /\ call[c].at \in {"claim", "who", "look", "mark", "create", "expand", "count", "backfill",
                            "contract", "complete", "clear"} => c \in Runs
BY MigrateTypesAre, HomesAreHosts DEF Calls, CallShape

\* What is left to show of a call that moved.
LEMMA TypesMove ==
  ASSUME MigrateTypes, NEW c \in Calls, Moves(c), CallShape(c)',
         StoreTyped', RowsTyped', breaks' \in 0 .. MaxBreaks, strayed' \subseteq Runs
  PROVE  MigrateTypes'
<1>1. call' \in [Calls -> CallRecs] BY DEF Moves
<1>2. \A d \in Calls : CallShape(d)' BY MigrateTypesAre DEF Moves, CallShape
<1>q. QED BY <1>1, <1>2, MigrateTypesAre DEF MigrateTypes, Migrate!TypeOK, StoreTyped, RowsTyped,
             CallRecs, Ats, Ends, Calls, Hosts, Migrate!Calls

LEMMA Breaks ==
  ASSUME MigrateTypes, Migrate!Break \/ UNCHANGED breaks
  PROVE  breaks' \in 0 .. MaxBreaks
BY MigrationAssumption, MigrateTypesAre DEF Migrate!Break

RowsStay == UNCHANGED <<urgent, priority, columnAdded, newest, mixed>>
LEMMA RowsStayTyped == ASSUME MigrateTypes, RowsStay PROVE RowsTyped'
BY MigrateTypesAre DEF RowsStay, RowsTyped

\* How a run gets into its first phase.
Enters(c, p) == call'[c] = [call[c] EXCEPT !.at = p]
InMemory(c) ==
  /\ UNCHANGED <<marker, runRecord>> /\ troubles' # 0
  /\ \/ strayed' = strayed \cup {c} /\ Enters(c, "expand")
     \/ UNCHANGED strayed /\ \E s \in Runs \cup {Nobody} : call'[c] = [call[c] EXCEPT !.at = "look", !.sees = s]

LEMMA EnteredAt ==
  ASSUME NEW c \in Calls, NEW p, call[c] \in CallRecs, Enters(c, p)
  PROVE  /\ call'[c].at = p /\ call'[c].id = call[c].id /\ call'[c].reach = call[c].reach
         /\ call'[c].cursor = call[c].cursor
BY DEF Enters, CallRecs

LEMMA InMemoryAt ==
  ASSUME NEW c \in Calls, call[c] \in CallRecs, InMemory(c)
  PROVE  call'[c].at \in {"expand", "look"} /\ call'[c].id = call[c].id /\ call'[c].cursor = call[c].cursor
<1>1. CASE Enters(c, "expand") BY <1>1, EnteredAt
<1>2. ASSUME NEW s \in Runs \cup {Nobody}, call'[c] = [call[c] EXCEPT !.at = "look", !.sees = s]
      PROVE  call'[c].at = "look" /\ call'[c].id = call[c].id /\ call'[c].cursor = call[c].cursor
  BY <1>2 DEF CallRecs
<1>q. QED BY <1>1, <1>2 DEF InMemory

LEMMA ClaimStep ==
  ASSUME MigrateTypes, NEW c \in Calls, Migrate!Claim(c)
  PROVE  /\ MigrateTypes' /\ Moves(c) /\ RowsStay /\ UNCHANGED runRecord /\ c \in Runs /\ call[c].at = "new"
         /\ \/ marker = Nobody /\ marker' = c /\ Enters(c, "claim") /\ UNCHANGED <<troubles, strayed>>
            \/ UNCHANGED <<marker, troubles, strayed>> /\ Enters(c, "who")
            \/ InMemory(c)
<1>0. c \in Runs /\ call[c].at = "new" /\ RowsStay /\ UNCHANGED breaks
  BY DEF Migrate!Claim, Migrate!At, RowsStay, Migrate!rowVars
<1>t. call[c] \in CallRecs /\ CallShape(c) /\ StoreTyped /\ strayed \subseteq Runs /\ call \in [Calls -> CallRecs]
  BY MigrateTypesAre
<1>r. RowsTyped' /\ breaks' \in 0 .. MaxBreaks BY <1>0, RowsStayTyped, Breaks
<1>a. {"claim", "who"} \subseteq Ats BY AtsAre
<1>1. CASE marker = Nobody /\ marker' = c /\ Migrate!Go(c, "claim") /\ UNCHANGED <<runRecord, ownRuns, troubles, strayed>>
  <2>1. Moves(c) /\ Enters(c, "claim") BY <1>1, <1>t, <1>a, CallGoes DEF Migrate!Go, Enters
  <2>2. CallShape(c)' BY <1>0, <1>t, <2>1, AtsAre, MigrationAssumption DEF CallShape, Enters, CallRecs
  <2>3. StoreTyped' BY <1>0, <1>1, <1>t DEF StoreTyped
  <2>q. QED BY <1>0, <1>1, <1>t, <1>r, <2>1, <2>2, <2>3, TypesMove
<1>2. CASE Migrate!Go(c, "who") /\ UNCHANGED <<marker, runRecord, ownRuns, troubles, strayed>>
  <2>1. Moves(c) /\ Enters(c, "who") BY <1>2, <1>t, <1>a, CallGoes DEF Migrate!Go, Enters
  <2>2. CallShape(c)' BY <1>0, <1>t, <2>1, AtsAre, MigrationAssumption DEF CallShape, Enters, CallRecs
  <2>3. StoreTyped' BY <1>0, <1>2, <1>t DEF StoreTyped
  <2>q. QED BY <1>0, <1>2, <1>t, <1>r, <2>1, <2>2, <2>3, TypesMove
<1>3. CASE Migrate!ClaimInMemory(c)
  <2>1. StoreTyped' /\ strayed' \subseteq Runs /\ Moves(c) /\ InMemory(c)
    BY <1>0, <1>3, <1>t, ClaimsInMemory DEF InMemory, Enters
  <2>2. CallShape(c)' BY <1>0, <1>t, <2>1, InMemoryAt, AtsAre, MigrationAssumption DEF CallShape
  <2>q. QED BY <1>0, <1>3, <1>t, <1>r, <2>1, <2>2, TypesMove DEF InMemory
<1>q. QED BY <1>1, <1>2, <1>3 DEF Migrate!Claim, Migrate!store

----------------------------------------------------------------------------
\* The run of the call is saved, in Redis or in memory.
Saved(c, s, h) ==
  /\ UNCHANGED <<marker, strayed>>
  /\ UNCHANGED troubles \/ troubles' # 0
  /\ UNCHANGED runRecord \/ runRecord' = [runRecord EXCEPT ![call[c].id] = [status |-> s, reach |-> h]]
Untold == UNCHANGED <<marker, runRecord, troubles, strayed>>

LEMMA Tells ==
  ASSUME MigrateTypes, NEW c \in Calls, call[c].id \in Runs, NEW s \in RunStatuses, NEW h \in Migrate!Reaches,
         Migrate!SaveRun(c, s, h), UNCHANGED <<marker, strayed>>
  PROVE  StoreTyped' /\ Saved(c, s, h) /\ strayed' \subseteq Runs
BY Saves, MigrateTypesAre DEF Saved

LEMMA NotTold ==
  ASSUME MigrateTypes, UNCHANGED <<marker, runRecord, ownRuns, troubles, strayed>>
  PROVE  StoreTyped' /\ Untold /\ strayed' \subseteq Runs
BY MigrateTypesAre DEF StoreTyped, Untold

LEMMA CreateClaimedStep ==
  ASSUME MigrateTypes, NEW c \in Calls, Migrate!CreateClaimed(c)
  PROVE  /\ MigrateTypes' /\ Moves(c) /\ RowsStay /\ call[c].at = "claim" /\ c \in Runs
         /\ \/ /\ UNCHANGED <<marker, strayed, troubles>> /\ Enters(c, "expand")
               /\ \A r \in Runs \ {c} : runRecord'[r] = runRecord[r]
               /\ runRecord'[c].status = "going"
            \/ InMemory(c)
<1>0. call[c].at = "claim" /\ RowsStay /\ UNCHANGED breaks
  BY DEF Migrate!CreateClaimed, Migrate!At, RowsStay, Migrate!rowVars
<1>t. call[c] \in CallRecs /\ CallShape(c) /\ StoreTyped /\ strayed \subseteq Runs /\ call \in [Calls -> CallRecs] /\ c \in Runs
  BY <1>0, MigrateTypesAre, CallsHaveRuns
<1>r. RowsTyped' /\ breaks' \in 0 .. MaxBreaks BY <1>0, RowsStayTyped, Breaks
<1>1. CASE runRecord' = [runRecord EXCEPT ![c].status = "going"] /\ Migrate!Go(c, "expand")
           /\ UNCHANGED <<marker, ownRuns, troubles, strayed>>
  <2>1. Moves(c) /\ Enters(c, "expand") BY <1>1, <1>t, AtsAre, CallGoes DEF Migrate!Go, Enters
  <2>2. CallShape(c)' BY <1>0, <1>t, <2>1, AtsAre, MigrationAssumption DEF CallShape, Enters, CallRecs
  <2>3. [runRecord[c] EXCEPT !.status = "going"] \in Migrate!RunRecords
    BY <1>t DEF StoreTyped, Migrate!RunRecords
  <2>4. runRecord' \in [Runs -> Migrate!RunRecords] /\ runRecord'[c].status = "going"
        /\ \A r \in Runs \ {c} : runRecord'[r] = runRecord[r]
    BY <1>1, <1>t, <2>3 DEF StoreTyped, Migrate!RunRecords
  <2>5. StoreTyped' BY <1>1, <1>t, <2>4 DEF StoreTyped
  <2>q. QED BY <1>0, <1>1, <1>t, <1>r, <2>1, <2>2, <2>4, <2>5, TypesMove
<1>3. CASE Migrate!ClaimInMemory(c)
  <2>1. StoreTyped' /\ strayed' \subseteq Runs /\ Moves(c) /\ InMemory(c)
    BY <1>0, <1>3, <1>t, ClaimsInMemory DEF InMemory, Enters
  <2>2. CallShape(c)' BY <1>0, <1>t, <2>1, InMemoryAt, AtsAre, MigrationAssumption DEF CallShape
  <2>q. QED BY <1>0, <1>3, <1>t, <1>r, <2>1, <2>2, TypesMove
<1>q. QED BY <1>1, <1>3 DEF Migrate!CreateClaimed

LEMMA WhoStep ==
  ASSUME MigrateTypes, NEW c \in Calls, Migrate!Who(c)
  PROVE  /\ MigrateTypes' /\ Moves(c) /\ RowsStay /\ call[c].at = "who" /\ c \in Runs
         /\ \/ Untold /\ call'[c] = [call[c] EXCEPT !.at = "look", !.sees = marker]
            \/ InMemory(c)
<1>0. call[c].at = "who" /\ RowsStay /\ UNCHANGED breaks
  BY DEF Migrate!Who, Migrate!At, RowsStay, Migrate!rowVars
<1>t. call[c] \in CallRecs /\ CallShape(c) /\ StoreTyped /\ strayed \subseteq Runs /\ call \in [Calls -> CallRecs] /\ c \in Runs
  BY <1>0, MigrateTypesAre, CallsHaveRuns
<1>r. RowsTyped' /\ breaks' \in 0 .. MaxBreaks BY <1>0, RowsStayTyped, Breaks
<1>1. CASE call' = [call EXCEPT ![c].at = "look", ![c].sees = marker]
           /\ UNCHANGED <<marker, runRecord, ownRuns, troubles, strayed>>
  <2>1. Moves(c) /\ call'[c] = [call[c] EXCEPT !.at = "look", !.sees = marker]
    BY <1>1, <1>t, AtsAre, CallSees DEF StoreTyped
  <2>2. CallShape(c)' BY <1>0, <1>t, <2>1, AtsAre, MigrationAssumption DEF CallShape, CallRecs
  <2>q. QED BY <1>0, <1>1, <1>t, <1>r, <2>1, <2>2, NotTold, TypesMove
<1>3. CASE Migrate!ClaimInMemory(c)
  <2>1. StoreTyped' /\ strayed' \subseteq Runs /\ Moves(c) /\ InMemory(c)
    BY <1>0, <1>3, <1>t, ClaimsInMemory DEF InMemory, Enters
  <2>2. CallShape(c)' BY <1>0, <1>t, <2>1, InMemoryAt, AtsAre, MigrationAssumption DEF CallShape
  <2>q. QED BY <1>0, <1>3, <1>t, <1>r, <2>1, <2>2, TypesMove
<1>q. QED BY <1>1, <1>3 DEF Migrate!Who, Migrate!store

LEMMA Dones ==
  ASSUME MigrateTypes, NEW c \in Calls, Migrate!Done(c)
  PROVE  Moves(c) /\ call'[c] = Migrate!Blank(c, "done") /\ CallShape(c)'
<1>1. Migrate!Blank(c, "done") \in CallRecs
  <2>1. "done" \in Ats /\ "none" \in Migrate!Reaches BY AtsAre
  <2>q. QED BY <2>1 DEF Migrate!Blank, CallRecs, Ends
<1>2. Moves(c) /\ call'[c] = Migrate!Blank(c, "done") BY <1>1, MigrateTypesAre, CallMoves DEF Migrate!Done
<1>3. CallShape(c)' BY <1>2, AtsAre, MigrationAssumption DEF CallShape, Migrate!Blank
<1>q. QED BY <1>2, <1>3

LEMMA LookStep ==
  ASSUME MigrateTypes, NEW c \in Calls, Migrate!Look(c)
  PROVE  /\ MigrateTypes' /\ Moves(c) /\ RowsStay /\ call[c].at = "look" /\ c \in Runs
         /\ UNCHANGED <<marker, runRecord, strayed>> /\ (UNCHANGED troubles \/ troubles' # 0)
         /\ call'[c].at \in {"mark", "done"}
<1>0. call[c].at = "look" /\ RowsStay /\ UNCHANGED <<breaks, marker, runRecord, ownRuns, strayed>>
  BY DEF Migrate!Look, Migrate!At, RowsStay, Migrate!rowVars, Migrate!store
<1>t. call[c] \in CallRecs /\ CallShape(c) /\ StoreTyped /\ strayed \subseteq Runs /\ call \in [Calls -> CallRecs] /\ c \in Runs
  BY <1>0, MigrateTypesAre, CallsHaveRuns
<1>r. RowsTyped' /\ breaks' \in 0 .. MaxBreaks BY <1>0, RowsStayTyped, Breaks
<1>1. (UNCHANGED troubles \/ Migrate!Trouble) /\ (Migrate!Done(c) \/ call' = [call EXCEPT ![c].at = "mark", ![c].sees = Nobody])
  BY DEF Migrate!Look
<1>2. StoreTyped' /\ strayed' \subseteq Runs /\ (UNCHANGED troubles \/ troubles' # 0)
  BY <1>0, <1>1, <1>t, Trouble DEF StoreTyped
<1>3. CASE Migrate!Done(c)
  <2>1. Moves(c) /\ call'[c] = Migrate!Blank(c, "done") /\ CallShape(c)' BY <1>3, Dones
  <2>2. call'[c].at = "done" BY <2>1 DEF Migrate!Blank
  <2>q. QED BY <1>0, <1>t, <1>r, <1>2, <2>1, <2>2, TypesMove
<1>4. CASE call' = [call EXCEPT ![c].at = "mark", ![c].sees = Nobody]
  <2>1. Moves(c) /\ call'[c] = [call[c] EXCEPT !.at = "mark", !.sees = Nobody]
    BY <1>4, <1>t, AtsAre, CallSees
  <2>2. CallShape(c)' /\ call'[c].at = "mark"
    BY <1>0, <1>t, <2>1, AtsAre, MigrationAssumption DEF CallShape, CallRecs
  <2>q. QED BY <1>0, <1>t, <1>r, <1>2, <2>1, <2>2, TypesMove
<1>q. QED BY <1>1, <1>3, <1>4

LEMMA MarkStep ==
  ASSUME MigrateTypes, NEW c \in Calls, Migrate!MarkActive(c)
  PROVE  /\ MigrateTypes' /\ Moves(c) /\ RowsStay /\ call[c].at = "mark" /\ c \in Runs /\ Enters(c, "create")
         /\ UNCHANGED runRecord /\ strayed' = strayed \cup {c} \cup ({marker} \ {Nobody})
         /\ \/ marker' = c /\ UNCHANGED troubles
            \/ UNCHANGED marker /\ troubles' # 0
<1>0. /\ call[c].at = "mark" /\ RowsStay /\ UNCHANGED <<breaks, runRecord>> /\ Migrate!Go(c, "create")
      /\ strayed' = strayed \cup {c} \cup ({marker} \ {Nobody})
  BY DEF Migrate!MarkActive, Migrate!At, RowsStay, Migrate!rowVars
<1>t. call[c] \in CallRecs /\ CallShape(c) /\ StoreTyped /\ strayed \subseteq Runs /\ call \in [Calls -> CallRecs] /\ c \in Runs
  BY <1>0, MigrateTypesAre, CallsHaveRuns
<1>r. RowsTyped' /\ breaks' \in 0 .. MaxBreaks BY <1>0, RowsStayTyped, Breaks
<1>1. Moves(c) /\ Enters(c, "create") BY <1>0, <1>t, AtsAre, CallGoes DEF Migrate!Go, Enters
<1>2. CallShape(c)' BY <1>0, <1>t, <1>1, AtsAre, MigrationAssumption DEF CallShape, CallRecs, Enters
<1>3. strayed' \subseteq Runs BY <1>0, <1>t DEF StoreTyped
<1>4. CASE marker' = c /\ UNCHANGED <<ownRuns, troubles>>
  <2>1. StoreTyped' BY <1>0, <1>t, <1>4 DEF StoreTyped
  <2>q. QED BY <1>0, <1>t, <1>r, <1>1, <1>2, <1>3, <1>4, <2>1, TypesMove
<1>5. CASE Migrate!Trouble /\ ownRuns' = [ownRuns EXCEPT ![CallHome[c]].marker = c] /\ UNCHANGED marker
  <2>1. ownRuns' \in [Hosts -> [marker : Runs \cup {Nobody}, record : [Runs -> Migrate!RunRecords]]]
    BY <1>t, <1>5, HomesAreHosts DEF StoreTyped
  <2>2. StoreTyped' /\ troubles' # 0 BY <1>0, <1>t, <1>5, <2>1, Trouble DEF StoreTyped
  <2>q. QED BY <1>0, <1>t, <1>r, <1>1, <1>2, <1>3, <1>5, <2>2, TypesMove
<1>q. QED BY <1>4, <1>5 DEF Migrate!MarkActive

LEMMA CreateStep ==
  ASSUME MigrateTypes, NEW c \in Calls, Migrate!Create(c)
  PROVE  /\ MigrateTypes' /\ Moves(c) /\ RowsStay /\ call[c].at = "create" /\ c \in Runs /\ Enters(c, "expand")
         /\ Saved(c, "going", call[c].reach)
<1>0. /\ call[c].at = "create" /\ RowsStay /\ UNCHANGED <<breaks, marker, strayed>> /\ Migrate!Go(c, "expand")
      /\ Migrate!SaveRun(c, "going", call[c].reach)
  BY DEF Migrate!Create, Migrate!At, RowsStay, Migrate!rowVars
<1>t. call[c] \in CallRecs /\ CallShape(c) /\ call \in [Calls -> CallRecs] /\ c \in Runs /\ call[c].id \in Runs
  BY <1>0, MigrateTypesAre, CallsHaveRuns
<1>r. RowsTyped' /\ breaks' \in 0 .. MaxBreaks BY <1>0, RowsStayTyped, Breaks
<1>1. Moves(c) /\ Enters(c, "expand") BY <1>0, <1>t, AtsAre, CallGoes DEF Migrate!Go, Enters
<1>2. CallShape(c)' BY <1>0, <1>t, <1>1, AtsAre, MigrationAssumption DEF CallShape, CallRecs, Enters
<1>3. "going" \in RunStatuses /\ call[c].reach \in Migrate!Reaches BY <1>t DEF RunStatuses, CallRecs
<1>q. QED BY <1>0, <1>t, <1>r, <1>1, <1>2, <1>3, Tells, TypesMove

----------------------------------------------------------------------------
LEMMA ExpandStep ==
  ASSUME MigrateTypes, NEW c \in Calls, Migrate!Expand(c)
  PROVE  /\ MigrateTypes' /\ Moves(c) /\ call[c].at = "expand" /\ c \in Runs
         /\ newest' = [newest EXCEPT ![CallHome[c]] = c] /\ UNCHANGED <<urgent, priority>>
         /\ \/ urgent[CallHome[c]] = Rows /\ Migrate!Beside(c) = {} /\ UNCHANGED mixed
            \/ mixed' = mixed \cup {CallHome[c]}
         /\ \/ Saved(c, "going", "expand") /\ call'[c] = [call[c] EXCEPT !.at = "count", !.reach = "expand"]
            \/ Untold /\ call'[c] = [call[c] EXCEPT !.at = "rollbackContract", !.reach = "expand"]
<1>0. /\ call[c].at = "expand" /\ UNCHANGED <<urgent, priority, marker, strayed>>
      /\ newest' = [newest EXCEPT ![CallHome[c]] = c]
      /\ columnAdded' \in {columnAdded, [columnAdded EXCEPT ![CallHome[c]] = TRUE]}
      /\ mixed' = IF urgent[CallHome[c]] # Rows \/ Migrate!Beside(c) # {} THEN mixed \cup {CallHome[c]} ELSE mixed
  BY DEF Migrate!Expand, Migrate!At, Migrate!Here, Migrate!Mixes
<1>t. call[c] \in CallRecs /\ CallShape(c) /\ call \in [Calls -> CallRecs] /\ c \in Runs /\ call[c].id \in Runs
      /\ CallHome[c] \in Hosts
  BY <1>0, MigrateTypesAre, CallsHaveRuns
<1>r. RowsTyped' BY <1>0, <1>t, MigrateTypesAre DEF RowsTyped
<1>b. "going" \in RunStatuses /\ "expand" \in Migrate!Reaches BY AtsAre DEF RunStatuses
<1>1. CASE /\ call' = [call EXCEPT ![c].at = "count", ![c].reach = "expand"]
           /\ Migrate!SaveRun(c, "going", "expand") /\ UNCHANGED breaks
  <2>1. Moves(c) /\ call'[c] = [call[c] EXCEPT !.at = "count", !.reach = "expand"]
    BY <1>1, <1>t, <1>b, AtsAre, CallReaches
  <2>2. CallShape(c)' BY <1>0, <1>t, <2>1, AtsAre, MigrationAssumption DEF CallShape, CallRecs
  <2>3. breaks' \in 0 .. MaxBreaks BY <1>1, Breaks
  <2>4. StoreTyped' /\ Saved(c, "going", "expand") /\ strayed' \subseteq Runs BY <1>0, <1>1, <1>t, <1>b, Tells
  <2>5. MigrateTypes' BY <1>r, <2>1, <2>2, <2>3, <2>4, TypesMove
  <2>q. QED BY <1>0, <1>t, <2>1, <2>4, <2>5
<1>2. CASE /\ call' = [call EXCEPT ![c].at = "rollbackContract", ![c].reach = "expand"] /\ Migrate!Throws
  <2>1. Moves(c) /\ call'[c] = [call[c] EXCEPT !.at = "rollbackContract", !.reach = "expand"]
    BY <1>2, <1>t, <1>b, AtsAre, CallReaches
  <2>2. CallShape(c)' BY <1>0, <1>t, <2>1, AtsAre, MigrationAssumption DEF CallShape, CallRecs
  <2>3. breaks' \in 0 .. MaxBreaks BY <1>2, Breaks DEF Migrate!Throws
  <2>4. StoreTyped' /\ Untold /\ strayed' \subseteq Runs BY <1>0, <1>2, NotTold DEF Migrate!Throws
  <2>5. MigrateTypes' BY <1>r, <2>1, <2>2, <2>3, <2>4, TypesMove
  <2>q. QED BY <1>0, <1>t, <2>1, <2>4, <2>5
<1>q. QED BY <1>1, <1>2 DEF Migrate!Expand

LEMMA CountStep ==
  ASSUME MigrateTypes, NEW c \in Calls, Migrate!CountPending(c)
  PROVE  /\ MigrateTypes' /\ Moves(c) /\ RowsStay /\ call[c].at = "count" /\ c \in Runs
         /\ Saved(c, "going", call[c].reach) \/ Untold
         /\ \/ Copied(CallHome[c]) /\ Enters(c, "contract")
            \/ Enters(c, "backfill")
            \/ Enters(c, "rollbackContract")
<1>0. call[c].at = "count" /\ RowsStay /\ UNCHANGED <<marker, strayed>>
  BY DEF Migrate!CountPending, Migrate!At, RowsStay, Migrate!rowVars
<1>t. call[c] \in CallRecs /\ CallShape(c) /\ call \in [Calls -> CallRecs] /\ c \in Runs /\ call[c].id \in Runs
  BY <1>0, MigrateTypesAre, CallsHaveRuns
<1>b. "going" \in RunStatuses /\ call[c].reach \in Migrate!Reaches BY <1>t DEF RunStatuses, CallRecs
<1>r. RowsTyped' BY <1>0, RowsStayTyped
<1>1. PICK p \in {"contract", "backfill", "rollbackContract"} :
        /\ Migrate!Go(c, p) /\ (p = "contract" => Copied(CallHome[c]))
        /\ \/ Migrate!SaveRun(c, "going", call[c].reach) /\ UNCHANGED breaks
           \/ Migrate!Throws
  BY DEF Migrate!CountPending, Copied
<1>2. p \in Ats BY AtsAre
<1>3. Moves(c) /\ Enters(c, p) BY <1>1, <1>2, <1>t, CallGoes DEF Migrate!Go, Enters
<1>4. CallShape(c)' BY <1>0, <1>t, <1>3, AtsAre, MigrationAssumption DEF CallShape, CallRecs, Enters
<1>5. breaks' \in 0 .. MaxBreaks BY <1>1, Breaks DEF Migrate!Throws
<1>6. StoreTyped' /\ strayed' \subseteq Runs /\ (Saved(c, "going", call[c].reach) \/ Untold)
  BY <1>0, <1>1, <1>t, <1>b, Tells, NotTold DEF Migrate!Throws
<1>7. MigrateTypes' BY <1>r, <1>3, <1>4, <1>5, <1>6, TypesMove
<1>q. QED BY <1>0, <1>1, <1>t, <1>3, <1>6, <1>7

\* The rows a taken has copied: none before the cursor is left out.
Upto(c, w) == \A v \in Rows : v <= w => v \in priority'[CallHome[c]]

LEMMA SameCardinality == \A S : Migrate!Cardinality(S) = Cardinality(S)
BY DEF Migrate!Cardinality, Cardinality

LEMMA BackfillStep ==
  ASSUME MigrateTypes, NEW c \in Calls, Migrate!BackfillBatch(c)
  PROVE  /\ MigrateTypes' /\ Moves(c) /\ UNCHANGED <<urgent, newest, mixed>> /\ call[c].at = "backfill" /\ c \in Runs
         /\ Saved(c, "going", call[c].reach) \/ Untold
         /\ \A i \in Hosts : priority[i] \subseteq priority'[i]
         /\ \A i \in Hosts : i # CallHome[c] => priority'[i] = priority[i]
         /\ \/ Enters(c, "rollbackContract")
            \/ /\ call'[c].at \in {"backfill", "contract"}
               /\ call'[c] = [call[c] EXCEPT !.at = call'[c].at, !.cursor = call'[c].cursor]
               /\ (\A w \in Rows : w <= call[c].cursor => w \in priority[CallHome[c]]) =>
                     /\ Upto(c, call'[c].cursor)
                     /\ call'[c].at = "contract" => Copied(CallHome[c])'
<1> DEFINE i == CallHome[c]
           done == priority[i]
           pending == Migrate!Pending(c)
           taken == Migrate!Batch(c)
           top == Migrate!LastOf(c)
           next == IF taken = pending THEN "contract" ELSE "backfill"
<1>0. call[c].at = "backfill" /\ UNCHANGED <<urgent, newest, mixed, columnAdded, marker, strayed>>
  BY DEF Migrate!BackfillBatch, Migrate!At
<1>t. call[c] \in CallRecs /\ CallShape(c) /\ call \in [Calls -> CallRecs] /\ c \in Runs /\ call[c].id \in Runs
      /\ i \in Hosts /\ priority \in [Hosts -> SUBSET Rows]
  BY <1>0, MigrateTypesAre, CallsHaveRuns DEF RowsTyped
<1>b. "going" \in RunStatuses /\ call[c].reach \in Migrate!Reaches BY <1>t DEF RunStatuses, CallRecs
<1>n. PICK n \in Nat : Rows = 1 .. n BY MigrationAssumption, FS_CardinalityType
<1>c. call[c].cursor \in Nat /\ Rows \subseteq Nat BY <1>t, <1>n DEF CallRecs
<1>d. taken \subseteq pending /\ pending \subseteq Rows BY DEF Migrate!Batch, Migrate!Pending
<1>1. \/ /\ priority' = [priority EXCEPT ![i] = done \cup taken]
         /\ call' = [call EXCEPT ![c].at = next, ![c].cursor = top]
         /\ Migrate!SaveRun(c, "going", call[c].reach) /\ UNCHANGED breaks
      \/ Migrate!Go(c, "rollbackContract") /\ UNCHANGED <<runRecord, ownRuns, troubles, breaks, priority>>
      \/ /\ Migrate!Go(c, "rollbackContract") /\ Migrate!Throws
         /\ priority' \in {priority, [priority EXCEPT ![i] = done \cup taken]}
  BY DEF Migrate!BackfillBatch, Migrate!Filled, Migrate!Here
<1>2. next \in {"contract", "backfill"} /\ (next = "contract" => taken = pending) OBVIOUS
<1>3. taken # {} => top \in taken
  <2>1. ASSUME taken # {} PROVE \E w \in taken : \A v \in taken : v <= w
    <3>1. taken \subseteq 0 .. n BY <1>n, <1>d
    <3> HIDE DEF taken
    <3>q. QED BY <2>1, <3>1, GreatestOf
  <2>q. QED BY <2>1 DEF Migrate!LastOf
<1>e. taken = {} => top = call[c].cursor BY DEF Migrate!LastOf
<1> HIDE DEF next, top, taken, pending
<1>f. i \in Hosts /\ done \subseteq Rows /\ taken \subseteq Rows BY <1>d, <1>t
<1>4. /\ priority' \in [Hosts -> SUBSET Rows]
      /\ \A j \in Hosts : priority[j] \subseteq priority'[j] /\ (j # CallHome[c] => priority'[j] = priority[j])
  BY <1>1, <1>d, <1>t
<1>r. RowsTyped' BY <1>0, <1>4, MigrateTypesAre DEF RowsTyped
<1>5. breaks' \in 0 .. MaxBreaks BY <1>1, Breaks DEF Migrate!Throws
<1>6. StoreTyped' /\ strayed' \subseteq Runs /\ (Saved(c, "going", call[c].reach) \/ Untold)
  BY <1>0, <1>1, <1>t, <1>b, Tells, NotTold DEF Migrate!Throws
<1>7. CASE Migrate!Go(c, "rollbackContract")
  <2>1. Moves(c) /\ Enters(c, "rollbackContract") BY <1>7, <1>t, AtsAre, CallGoes DEF Migrate!Go, Enters
  <2>2. CallShape(c)' BY <1>0, <1>t, <2>1, AtsAre, MigrationAssumption DEF CallShape, CallRecs, Enters
  <2>3. MigrateTypes' BY <1>r, <1>5, <1>6, <2>1, <2>2, TypesMove
  <2>q. QED BY <1>0, <1>t, <1>4, <1>6, <2>1, <2>3
<1>8. CASE /\ priority' = [priority EXCEPT ![i] = done \cup taken]
           /\ call' = [call EXCEPT ![c].at = next, ![c].cursor = top]
  <2>1. top \in {0} \cup Rows /\ next \in Ats BY <1>2, <1>3, <1>d, <1>e, <1>t, AtsAre DEF CallRecs
  <2>2. Moves(c) /\ call'[c] = [call[c] EXCEPT !.at = next, !.cursor = top] BY <1>8, <1>t, <2>1, CallAdvances
  <2>3. call'[c].at = next /\ call'[c].cursor = top BY <1>t, <2>2 DEF CallRecs
  <2>4. CallShape(c)' BY <1>0, <1>2, <1>t, <2>2, AtsAre, MigrationAssumption DEF CallShape, CallRecs
  <2>5. MigrateTypes' BY <1>r, <1>5, <1>6, <2>2, <2>4, TypesMove
  <2>6. priority'[i] = done \cup taken BY <1>8, <1>t
  <2>7. ASSUME \A w \in Rows : w <= call[c].cursor => w \in priority[CallHome[c]]
        PROVE  Upto(c, top) /\ (next = "contract" => Copied(CallHome[c])')
    <3>1. \A w \in Rows : w <= call[c].cursor \/ w \in done \/ w \in pending
      BY <1>c DEF pending, Migrate!Pending
    <3>2. ASSUME next = "contract" PROVE Copied(i)'
      BY <1>2, <2>6, <2>7, <3>1, <3>2 DEF Copied
    <3>3. ASSUME NEW v \in pending, v <= top PROVE v \in taken
      <4>1. top \in Nat /\ v \in Nat /\ \A w \in pending : w \in Nat
        <5>1. pending \subseteq Nat /\ {0} \cup Rows \subseteq Nat BY <1>c, <1>d
        <5>q. QED BY <5>1, <2>1
      <4>2. taken # {}
        <5>1. v > call[c].cursor BY DEF pending, Migrate!Pending
        <5>q. QED BY <1>c, <1>e, <3>3, <4>1, <5>1
      <4>3. \A w \in pending : w <= v => w <= top BY <3>3, <4>1
      <4>4. {w \in pending : w <= v} \subseteq {w \in pending : w <= top} BY <4>3
      <4>5. IsFiniteSet({w \in pending : w <= top})
        <5>1. {w \in pending : w <= top} \subseteq Rows BY <1>d
        <5>q. QED BY <5>1, MigrationAssumption, FS_Subset
      <4>6. /\ Cardinality({w \in pending : w <= v}) \in Nat /\ Cardinality({w \in pending : w <= top}) \in Nat
            /\ Cardinality({w \in pending : w <= v}) <= Cardinality({w \in pending : w <= top})
        BY <4>4, <4>5, FS_Subset, FS_CardinalityType
      <4>7. Cardinality({w \in pending : w <= top}) <= BatchSize
        <5>1. top \in Migrate!Batch(c) BY <1>3, <4>2 DEF taken
        <5>q. QED BY <5>1, SameCardinality DEF pending, Migrate!Batch
      <4>8. Cardinality({w \in pending : w <= v}) <= BatchSize BY <4>6, <4>7, MigrationAssumption
      <4>9. v \in Migrate!Batch(c) BY <4>8, SameCardinality DEF pending, Migrate!Batch
      <4>q. QED BY <4>9 DEF taken
    <3>4. ASSUME NEW v \in Rows, v <= top PROVE v \in done \cup taken
      BY <2>7, <3>1, <3>3, <3>4
    <3>q. QED BY <3>2, <3>4, <2>6 DEF Upto
  <2>q. QED BY <1>0, <1>2, <1>t, <1>4, <1>6, <2>2, <2>3, <2>5, <2>7
<1>q. QED BY <1>1, <1>7, <1>8

----------------------------------------------------------------------------
LEMMA ContractStep ==
  ASSUME MigrateTypes, NEW c \in Calls, Migrate!Contract(c)
  PROVE  /\ MigrateTypes' /\ Moves(c) /\ call[c].at = "contract" /\ c \in Runs
         /\ UNCHANGED <<priority, newest, mixed>>
         /\ \A i \in Hosts : i # CallHome[c] => urgent'[i] = urgent[i]
         /\ \/ Saved(c, "going", "contract")
               /\ call'[c] = [call[c] EXCEPT !.at = "complete", !.cursor = 0, !.reach = "contract"]
            \/ Untold /\ call'[c] = [call[c] EXCEPT !.at = "rollbackContract", !.cursor = 0, !.reach = "contract"]
<1>0. call[c].at = "contract" /\ UNCHANGED <<priority, columnAdded, newest, mixed, marker, strayed>>
  BY DEF Migrate!Contract, Migrate!At
<1>t. call[c] \in CallRecs /\ CallShape(c) /\ call \in [Calls -> CallRecs] /\ c \in Runs /\ call[c].id \in Runs
      /\ CallHome[c] \in Hosts /\ urgent \in [Hosts -> SUBSET Rows]
  BY <1>0, MigrateTypesAre, CallsHaveRuns DEF RowsTyped
<1>b. "going" \in RunStatuses /\ "contract" \in Migrate!Reaches BY AtsAre DEF RunStatuses
<1>1. PICK W \in SUBSET urgent[CallHome[c]] : urgent' = [urgent EXCEPT ![CallHome[c]] = W]
  BY DEF Migrate!Contract, Migrate!Here
<1>2. urgent' \in [Hosts -> SUBSET Rows] /\ \A i \in Hosts : i # CallHome[c] => urgent'[i] = urgent[i]
  <2>1. W \subseteq Rows BY <1>t
  <2>q. QED BY <1>1, <1>t, <2>1
<1>r. RowsTyped' BY <1>0, <1>2, MigrateTypesAre DEF RowsTyped
<1>3. CASE /\ call' = [call EXCEPT ![c] = [@ EXCEPT !.at = "complete", !.cursor = 0, !.reach = "contract"]]
           /\ Migrate!SaveRun(c, "going", "contract") /\ UNCHANGED breaks
  <2>1. Moves(c) /\ call'[c] = [call[c] EXCEPT !.at = "complete", !.cursor = 0, !.reach = "contract"]
    <3>1. [call[c] EXCEPT !.at = "complete", !.cursor = 0, !.reach = "contract"] \in CallRecs
      <4>1. "complete" \in Ats BY AtsAre
      <4>q. QED BY <1>t, <1>b, <4>1 DEF CallRecs
    <3>q. QED BY <1>3, <1>t, <3>1, CallMoves
  <2>2. CallShape(c)' BY <1>0, <1>t, <2>1, AtsAre, MigrationAssumption DEF CallShape, CallRecs
  <2>3. breaks' \in 0 .. MaxBreaks BY <1>3, Breaks
  <2>4. StoreTyped' /\ Saved(c, "going", "contract") /\ strayed' \subseteq Runs BY <1>0, <1>3, <1>t, <1>b, Tells
  <2>5. MigrateTypes' BY <1>r, <2>1, <2>2, <2>3, <2>4, TypesMove
  <2>q. QED BY <1>0, <1>2, <1>t, <2>1, <2>4, <2>5
<1>4. CASE /\ call' = [call EXCEPT ![c] = [@ EXCEPT !.at = "rollbackContract", !.cursor = 0, !.reach = "contract"]]
           /\ Migrate!Throws
  <2>1. Moves(c) /\ call'[c] = [call[c] EXCEPT !.at = "rollbackContract", !.cursor = 0, !.reach = "contract"]
    <3>1. [call[c] EXCEPT !.at = "rollbackContract", !.cursor = 0, !.reach = "contract"] \in CallRecs
      <4>1. "rollbackContract" \in Ats BY AtsAre
      <4>q. QED BY <1>t, <1>b, <4>1 DEF CallRecs
    <3>q. QED BY <1>4, <1>t, <3>1, CallMoves
  <2>2. CallShape(c)' BY <1>0, <1>t, <2>1, AtsAre, MigrationAssumption DEF CallShape, CallRecs
  <2>3. breaks' \in 0 .. MaxBreaks BY <1>4, Breaks DEF Migrate!Throws
  <2>4. StoreTyped' /\ Untold /\ strayed' \subseteq Runs BY <1>0, <1>4, NotTold DEF Migrate!Throws
  <2>5. MigrateTypes' BY <1>r, <2>1, <2>2, <2>3, <2>4, TypesMove
  <2>q. QED BY <1>0, <1>2, <1>t, <2>1, <2>4, <2>5
<1>q. QED BY <1>3, <1>4 DEF Migrate!Contract

LEMMA CompleteStep ==
  ASSUME MigrateTypes, NEW c \in Calls, Migrate!Complete(c)
  PROVE  /\ MigrateTypes' /\ Moves(c) /\ RowsStay /\ call[c].at = "complete" /\ c \in Runs /\ Enters(c, "clear")
         /\ Saved(c, "completed", "contract")
<1>0. /\ call[c].at = "complete" /\ RowsStay /\ UNCHANGED <<breaks, marker, strayed>> /\ Migrate!Go(c, "clear")
      /\ Migrate!SaveRun(c, "completed", call[c].reach)
  BY DEF Migrate!Complete, Migrate!At, RowsStay, Migrate!rowVars
<1>t. call[c] \in CallRecs /\ CallShape(c) /\ call \in [Calls -> CallRecs] /\ c \in Runs /\ call[c].id \in Runs
  BY <1>0, MigrateTypesAre, CallsHaveRuns
<1>r. RowsTyped' /\ breaks' \in 0 .. MaxBreaks BY <1>0, RowsStayTyped, Breaks
<1>1. Moves(c) /\ Enters(c, "clear") BY <1>0, <1>t, AtsAre, CallGoes DEF Migrate!Go, Enters
<1>2. CallShape(c)' BY <1>0, <1>t, <1>1, AtsAre, MigrationAssumption DEF CallShape, CallRecs, Enters
<1>3. "completed" \in RunStatuses /\ "contract" \in Migrate!Reaches /\ call[c].reach = "contract"
  BY <1>0, <1>t, AtsAre DEF RunStatuses, CallShape
<1>q. QED BY <1>0, <1>t, <1>r, <1>1, <1>2, <1>3, Tells, TypesMove

\* The slot, whosever it is, is given up.
Cleared(c) ==
  /\ UNCHANGED runRecord
  /\ \/ marker' = Nobody /\ strayed' = strayed \cup ({marker} \ {Nobody, call[c].id}) /\ UNCHANGED troubles
     \/ UNCHANGED <<marker, strayed>> /\ troubles' # 0
Stops(c) == Moves(c) /\ call'[c] = Migrate!Blank(c, "done")

LEMMA ClearStep ==
  ASSUME MigrateTypes, NEW c \in Calls, Migrate!Clear(c)
  PROVE  MigrateTypes' /\ Stops(c) /\ RowsStay /\ call[c].at = "clear" /\ c \in Runs /\ Cleared(c)
<1>0. /\ call[c].at = "clear" /\ RowsStay /\ UNCHANGED <<breaks, runRecord>> /\ Migrate!Done(c)
      /\ Migrate!ClearActive(c)
  BY DEF Migrate!Clear, Migrate!At, RowsStay, Migrate!rowVars
<1>t. StoreTyped /\ strayed \subseteq Runs /\ c \in Runs BY <1>0, MigrateTypesAre, CallsHaveRuns
<1>r. RowsTyped' /\ breaks' \in 0 .. MaxBreaks BY <1>0, RowsStayTyped, Breaks
<1>1. Stops(c) /\ CallShape(c)' BY <1>0, Dones DEF Stops
<1>2. StoreTyped' /\ strayed' \subseteq Runs /\ Cleared(c) BY <1>0, <1>t, Clears DEF Cleared
<1>3. MigrateTypes' BY <1>r, <1>1, <1>2, TypesMove DEF Stops
<1>q. QED BY <1>0, <1>t, <1>1, <1>2, <1>3

LEMMA RollbackStep ==
  ASSUME MigrateTypes, NEW c \in Calls, Migrate!Rollback(c)
  PROVE  /\ MigrateTypes' /\ Moves(c) /\ UNCHANGED <<urgent, priority, newest>> /\ Untold
         /\ c \in Undos /\ call[c].at = "new"
         /\ \E r \in Runs :
              /\ runRecord[r].status \in {"completed", "failed"}
              /\ call'[c] = [call[c] EXCEPT !.at = "rollbackContract", !.id = r, !.reach = runRecord[r].reach]
              /\ \/ r = newest[CallHome[c]] /\ Migrate!Beside(c) = {} /\ UNCHANGED mixed
                 \/ mixed' = mixed \cup {CallHome[c]}
<1>0. /\ c \in Undos /\ call[c].at = "new"
      /\ UNCHANGED <<breaks, marker, runRecord, ownRuns, urgent, priority, columnAdded, troubles, strayed, newest>>
  BY DEF Migrate!Rollback, Migrate!At, Migrate!store, Migrate!rowVars
<1>1. PICK r \in Runs :
        /\ runRecord[r].status \in {"completed", "failed"}
        /\ call' = [call EXCEPT ![c] = [@ EXCEPT !.at = "rollbackContract", !.id = r, !.reach = runRecord[r].reach]]
        /\ mixed' = IF r # newest[CallHome[c]] \/ Migrate!Beside(c) # {} THEN mixed \cup {CallHome[c]} ELSE mixed
  BY DEF Migrate!Rollback, Migrate!Mixes
<1>t. call[c] \in CallRecs /\ CallShape(c) /\ call \in [Calls -> CallRecs] /\ CallHome[c] \in Hosts
      /\ runRecord[r].reach \in Migrate!Reaches
  BY MigrateTypesAre, CallsHaveRuns DEF StoreTyped, Migrate!RunRecords
<1>2. Moves(c) /\ call'[c] = [call[c] EXCEPT !.at = "rollbackContract", !.id = r, !.reach = runRecord[r].reach]
  <2> DEFINE rec == [call[c] EXCEPT !.at = "rollbackContract", !.id = r, !.reach = runRecord[r].reach]
  <2>1. rec \in CallRecs
    <3>1. "rollbackContract" \in Ats BY AtsAre
    <3>q. QED BY <1>t, <3>1 DEF CallRecs
  <2>q. QED BY <1>1, <1>t, <2>1, CallMoves
<1>3. CallShape(c)' BY <1>0, <1>t, <1>2, AtsAre, MigrationAssumption DEF CallShape, CallRecs
<1>4. RowsTyped' BY <1>0, <1>1, <1>t, MigrateTypesAre DEF RowsTyped
<1>5. StoreTyped' /\ Untold /\ strayed' \subseteq Runs /\ breaks' \in 0 .. MaxBreaks BY <1>0, NotTold, Breaks
<1>6. MigrateTypes' BY <1>2, <1>3, <1>4, <1>5, TypesMove
<1>q. QED BY <1>0, <1>1, <1>2, <1>5, <1>6

\* How an undoing call ends its work on the rows.
EndsWith(c, e) == call'[c] = [call[c] EXCEPT !.at = "clearUndone", !.end = e]

LEMMA RollbackContractStep ==
  ASSUME MigrateTypes, NEW c \in Calls, Migrate!RollbackContract(c)
  PROVE  /\ MigrateTypes' /\ Moves(c) /\ call[c].at = "rollbackContract" /\ UNCHANGED <<priority, newest, mixed>>
         /\ \/ /\ Enters(c, "rollbackExpand") /\ Saved(c, "going", call[c].reach)
               /\ urgent'[CallHome[c]] = Migrate!Restore(c)
            \/ EndsWith(c, "failed") /\ Untold
         /\ \A i \in Hosts : urgent[i] \subseteq urgent'[i] /\ (i # CallHome[c] => urgent'[i] = urgent[i])
<1>0. call[c].at = "rollbackContract" /\ UNCHANGED <<priority, columnAdded, newest, mixed, marker, strayed>>
  BY DEF Migrate!RollbackContract, Migrate!At
<1>t. call[c] \in CallRecs /\ CallShape(c) /\ call \in [Calls -> CallRecs] /\ call[c].id \in Runs
      /\ CallHome[c] \in Hosts /\ urgent \in [Hosts -> SUBSET Rows]
  BY <1>0, MigrateTypesAre, CallsHaveRuns DEF RowsTyped
<1>b. "going" \in RunStatuses /\ call[c].reach \in Migrate!Reaches BY <1>t DEF RunStatuses, CallRecs
<1>c. Migrate!Restore(c) \subseteq Rows /\ urgent[CallHome[c]] \subseteq Migrate!Restore(c)
  BY <1>t DEF Migrate!Restore
<1>1. CASE /\ urgent' = [urgent EXCEPT ![CallHome[c]] = Migrate!Restore(c)] /\ Migrate!Go(c, "rollbackExpand")
           /\ Migrate!SaveRun(c, "going", call[c].reach) /\ UNCHANGED breaks
  <2>1. Moves(c) /\ Enters(c, "rollbackExpand") BY <1>1, <1>t, AtsAre, CallGoes DEF Migrate!Go, Enters
  <2>2. CallShape(c)' BY <1>0, <1>t, <2>1, AtsAre, MigrationAssumption DEF CallShape, CallRecs, Enters
  <2>3. breaks' \in 0 .. MaxBreaks BY <1>1, Breaks
  <2>4. StoreTyped' /\ Saved(c, "going", call[c].reach) /\ strayed' \subseteq Runs BY <1>0, <1>1, <1>t, <1>b, Tells
  <2>5. /\ urgent' \in [Hosts -> SUBSET Rows] /\ urgent'[CallHome[c]] = Migrate!Restore(c)
        /\ \A i \in Hosts : urgent[i] \subseteq urgent'[i] /\ (i # CallHome[c] => urgent'[i] = urgent[i])
    BY <1>1, <1>c, <1>t
  <2>6. RowsTyped' BY <1>0, <2>5, MigrateTypesAre DEF RowsTyped
  <2>7. MigrateTypes' BY <2>1, <2>2, <2>3, <2>4, <2>6, TypesMove
  <2>q. QED BY <1>0, <2>1, <2>4, <2>5, <2>7
<1>2. CASE /\ \E w \in SUBSET Migrate!Restore(c) :
                urgent[CallHome[c]] \subseteq w /\ urgent' = [urgent EXCEPT ![CallHome[c]] = w]
           /\ Migrate!Failed(c) /\ UNCHANGED <<runRecord, ownRuns, troubles>>
  <2>1. Moves(c) /\ EndsWith(c, "failed") BY <1>2, <1>t, AtsAre, CallEnds DEF Migrate!Failed, EndsWith, Ends
  <2>2. CallShape(c)' BY <1>0, <1>t, <2>1, AtsAre, MigrationAssumption DEF CallShape, CallRecs, EndsWith
  <2>3. breaks' \in 0 .. MaxBreaks BY <1>2, Breaks DEF Migrate!Failed
  <2>4. StoreTyped' /\ Untold /\ strayed' \subseteq Runs BY <1>0, <1>2, NotTold
  <2>5. /\ urgent' \in [Hosts -> SUBSET Rows]
        /\ \A i \in Hosts : urgent[i] \subseteq urgent'[i] /\ (i # CallHome[c] => urgent'[i] = urgent[i])
    <3>1. PICK w \in SUBSET Migrate!Restore(c) :
             urgent[CallHome[c]] \subseteq w /\ urgent' = [urgent EXCEPT ![CallHome[c]] = w]
      BY <1>2
    <3>2. w \in SUBSET Rows BY <1>c
    <3>q. QED BY <3>1, <3>2, <1>t
  <2>6. RowsTyped' BY <1>0, <2>5, MigrateTypesAre DEF RowsTyped
  <2>7. MigrateTypes' BY <2>1, <2>2, <2>3, <2>4, <2>6, TypesMove
  <2>q. QED BY <1>0, <2>1, <2>4, <2>5, <2>7
<1>q. QED BY <1>1, <1>2 DEF Migrate!RollbackContract, Migrate!Here

LEMMA RollbackExpandStep ==
  ASSUME MigrateTypes, NEW c \in Calls, Migrate!RollbackExpand(c)
  PROVE  /\ MigrateTypes' /\ Moves(c) /\ call[c].at = "rollbackExpand" /\ UNCHANGED <<urgent, newest, mixed>> /\ Untold
         /\ EndsWith(c, "rolled_back") \/ EndsWith(c, "failed")
         /\ \A i \in Hosts : i # CallHome[c] => priority'[i] = priority[i]
<1>0. /\ call[c].at = "rollbackExpand"
      /\ UNCHANGED <<urgent, newest, mixed, marker, runRecord, ownRuns, strayed, troubles>>
  BY DEF Migrate!RollbackExpand, Migrate!At, Migrate!store
<1>t. call[c] \in CallRecs /\ CallShape(c) /\ call \in [Calls -> CallRecs] /\ call[c].id \in Runs
      /\ CallHome[c] \in Hosts /\ priority \in [Hosts -> SUBSET Rows] /\ columnAdded \in [Hosts -> BOOLEAN]
  BY <1>0, MigrateTypesAre, CallsHaveRuns DEF RowsTyped
<1>1. PICK e \in {"rolled_back", "failed"} :
        /\ call' = [call EXCEPT ![c].at = "clearUndone", ![c].end = e] /\ (Migrate!Break \/ UNCHANGED breaks)
  BY DEF Migrate!RollbackExpand, Migrate!Failed
<1>2. PICK W \in SUBSET priority[CallHome[c]] : priority' = [priority EXCEPT ![CallHome[c]] = W]
  BY DEF Migrate!RollbackExpand, Migrate!Here
<1>3. columnAdded' \in {columnAdded, [columnAdded EXCEPT ![CallHome[c]] = FALSE]}
  BY DEF Migrate!RollbackExpand, Migrate!Here
<1>4. Moves(c) /\ EndsWith(c, e) BY <1>1, <1>t, AtsAre, CallEnds DEF EndsWith, Ends
<1>5. CallShape(c)' BY <1>0, <1>t, <1>4, AtsAre, MigrationAssumption DEF CallShape, CallRecs, EndsWith
<1>6. breaks' \in 0 .. MaxBreaks BY <1>1, Breaks
<1>7. StoreTyped' /\ Untold /\ strayed' \subseteq Runs BY <1>0, NotTold
<1>8. priority' \in [Hosts -> SUBSET Rows] /\ \A i \in Hosts : i # CallHome[c] => priority'[i] = priority[i]
  <2>1. W \in SUBSET Rows BY <1>t
  <2>q. QED BY <1>2, <1>t, <2>1
<1>9. columnAdded' \in [Hosts -> BOOLEAN]
  <2>1. CASE columnAdded' = columnAdded BY <2>1, <1>t
  <2>2. CASE columnAdded' = [columnAdded EXCEPT ![CallHome[c]] = FALSE] BY <2>2, <1>t
  <2>q. QED BY <1>3, <2>1, <2>2
<1>10. RowsTyped' BY <1>0, <1>8, <1>9, MigrateTypesAre DEF RowsTyped
<1>11. MigrateTypes' BY <1>4, <1>5, <1>6, <1>7, <1>10, TypesMove
<1>q. QED BY <1>0, <1>4, <1>7, <1>8, <1>11

LEMMA ClearUndoneStep ==
  ASSUME MigrateTypes, NEW c \in Calls, Migrate!ClearUndone(c)
  PROVE  /\ MigrateTypes' /\ Moves(c) /\ Enters(c, "saveUndone") /\ RowsStay /\ call[c].at = "clearUndone"
         /\ Cleared(c)
<1>0. /\ call[c].at = "clearUndone" /\ RowsStay /\ UNCHANGED <<breaks, runRecord>> /\ Migrate!Go(c, "saveUndone")
      /\ Migrate!ClearActive(c)
  BY DEF Migrate!ClearUndone, Migrate!At, RowsStay, Migrate!rowVars
<1>t. StoreTyped /\ strayed \subseteq Runs /\ call[c] \in CallRecs /\ CallShape(c) /\ call \in [Calls -> CallRecs]
  BY <1>0, MigrateTypesAre, CallsHaveRuns
<1>r. RowsTyped' /\ breaks' \in 0 .. MaxBreaks BY <1>0, RowsStayTyped, Breaks
<1>1. Moves(c) /\ Enters(c, "saveUndone") BY <1>0, <1>t, AtsAre, CallGoes DEF Migrate!Go, Enters
<1>2. CallShape(c)' BY <1>0, <1>t, <1>1, AtsAre, MigrationAssumption DEF CallShape, CallRecs, Enters
<1>3. StoreTyped' /\ strayed' \subseteq Runs /\ Cleared(c) BY <1>0, <1>t, Clears DEF Cleared
<1>4. MigrateTypes' BY <1>r, <1>1, <1>2, <1>3, TypesMove
<1>q. QED BY <1>0, <1>1, <1>3, <1>4

LEMMA SaveUndoneStep ==
  ASSUME MigrateTypes, NEW c \in Calls, Migrate!SaveUndone(c)
  PROVE  MigrateTypes' /\ Stops(c) /\ RowsStay /\ call[c].at = "saveUndone" /\ Saved(c, call[c].end, call[c].reach)
<1>0. /\ call[c].at = "saveUndone" /\ RowsStay /\ UNCHANGED <<breaks, marker, strayed>> /\ Migrate!Done(c)
      /\ Migrate!SaveRun(c, call[c].end, call[c].reach)
  BY DEF Migrate!SaveUndone, Migrate!At, RowsStay, Migrate!rowVars
<1>t. call[c] \in CallRecs /\ call[c].id \in Runs BY <1>0, CallsHaveRuns
<1>r. RowsTyped' /\ breaks' \in 0 .. MaxBreaks BY <1>0, RowsStayTyped, Breaks
<1>1. Stops(c) /\ CallShape(c)' BY <1>0, Dones DEF Stops
<1>2. call[c].end \in RunStatuses /\ call[c].reach \in Migrate!Reaches BY <1>t DEF RunStatuses, CallRecs, Ends
<1>3. StoreTyped' /\ strayed' \subseteq Runs /\ Saved(c, call[c].end, call[c].reach) BY <1>0, <1>t, <1>2, Tells
<1>4. MigrateTypes' BY <1>r, <1>1, <1>3, TypesMove DEF Stops
<1>q. QED BY <1>0, <1>1, <1>3, <1>4

LEMMA RecordExpires ==
  ASSUME MigrateTypes, NEW r \in Runs, Migrate!Expire(r)
  PROVE  /\ MigrateTypes' /\ RowsStay /\ UNCHANGED <<call, marker, troubles, strayed>>
         /\ \A q \in Runs \ {r} : runRecord'[q] = runRecord[q]
         /\ runRecord'[r].status = "none"
<1>0. /\ runRecord' = [runRecord EXCEPT ![r] = Migrate!NoRun] /\ RowsStay
      /\ UNCHANGED <<call, marker, ownRuns, troubles, breaks, strayed>>
  BY DEF Migrate!Expire, RowsStay, Migrate!rowVars
<1>1. Migrate!NoRun \in Migrate!RunRecords /\ Migrate!NoRun.status = "none"
  BY DEF Migrate!NoRun, Migrate!RunRecords, Migrate!Reaches
<1>2. /\ runRecord' \in [Runs -> Migrate!RunRecords] /\ runRecord'[r] = Migrate!NoRun
      /\ \A q \in Runs \ {r} : runRecord'[q] = runRecord[q]
  <2> HIDE DEF Migrate!NoRun
  <2>q. QED BY <1>0, <1>1, MigrateTypesAre DEF StoreTyped
<1>3. StoreTyped' /\ RowsTyped' BY <1>0, <1>2, RowsStayTyped, MigrateTypesAre DEF StoreTyped
<1>4. call' \in [Calls -> CallRecs] /\ breaks' \in 0 .. MaxBreaks /\ strayed' \subseteq Runs
      /\ \A c \in Calls : CallShape(c)'
  BY <1>0, MigrateTypesAre DEF CallShape
<1>5. MigrateTypes'
  BY <1>3, <1>4 DEF MigrateTypes, Migrate!TypeOK, StoreTyped, RowsTyped, CallRecs, Ats, Ends, Calls, Hosts, Migrate!Calls
<1>q. QED BY <1>0, <1>1, <1>2, <1>5

LEMMA HostCrashes ==
  ASSUME MigrateTypes, NEW i \in Hosts, Migrate!Crash(i)
  PROVE  /\ MigrateTypes' /\ UNCHANGED <<marker, runRecord, strayed>> /\ troubles' # 0
         /\ \A c \in Calls : call'[c] = IF CallHome[c] = i /\ call[c].at # "new" THEN Migrate!Blank(c, "done") ELSE call[c]
         /\ urgent'[i] = Rows /\ newest'[i] = Nobody /\ mixed' = mixed \ {i}
         /\ \A j \in Hosts \ {i} : urgent'[j] = urgent[j] /\ priority'[j] = priority[j] /\ newest'[j] = newest[j]
<1>0. /\ Migrate!Trouble /\ UNCHANGED <<breaks, marker, runRecord, strayed>> /\ mixed' = mixed \ {i}
      /\ urgent' = [urgent EXCEPT ![i] = Rows] /\ priority' = [priority EXCEPT ![i] = {}]
      /\ columnAdded' = [columnAdded EXCEPT ![i] = FALSE] /\ newest' = [newest EXCEPT ![i] = Nobody]
      /\ ownRuns' = [ownRuns EXCEPT ![i] = [marker |-> Nobody, record |-> [r \in Runs |-> Migrate!NoRun]]]
      /\ call' = [c \in Calls |-> IF CallHome[c] = i /\ call[c].at # "new" THEN Migrate!Blank(c, "done") ELSE call[c]]
  BY AtsAre DEF Migrate!Crash, Migrate!At
<1>t. MigrateTypes /\ StoreTyped /\ RowsTyped /\ call \in [Calls -> CallRecs] BY MigrateTypesAre
<1>1. Migrate!NoRun \in Migrate!RunRecords BY DEF Migrate!NoRun, Migrate!RunRecords, Migrate!Reaches
<1>2. [marker |-> Nobody, record |-> [r \in Runs |-> Migrate!NoRun]]
        \in [marker : Runs \cup {Nobody}, record : [Runs -> Migrate!RunRecords]]
  BY <1>1
<1>3. ownRuns' \in [Hosts -> [marker : Runs \cup {Nobody}, record : [Runs -> Migrate!RunRecords]]]
  <2> DEFINE fresh == [marker |-> Nobody, record |-> [r \in Runs |-> Migrate!NoRun]]
  <2>1. fresh \in [marker : Runs \cup {Nobody}, record : [Runs -> Migrate!RunRecords]] BY <1>2
  <2>2. ownRuns' = [ownRuns EXCEPT ![i] = fresh] BY <1>0
  <2> HIDE DEF fresh
  <2>q. QED BY <1>t, <2>1, <2>2 DEF StoreTyped
<1>4. StoreTyped' /\ troubles' # 0 BY <1>0, <1>3, <1>t, Trouble DEF StoreTyped
<1>5. RowsTyped' BY <1>0, <1>t DEF RowsTyped
<1>6. \A c \in Calls : Migrate!Blank(c, "done") \in CallRecs
  <2>1. "done" \in Ats /\ "none" \in Migrate!Reaches BY AtsAre
  <2>q. QED BY <2>1 DEF Migrate!Blank, CallRecs, Ends
<1>7. call' \in [Calls -> CallRecs]
      /\ \A c \in Calls : call'[c] = IF CallHome[c] = i /\ call[c].at # "new" THEN Migrate!Blank(c, "done") ELSE call[c]
  <2> HIDE DEF Migrate!Blank
  <2>q. QED BY <1>0, <1>6, <1>t
<1>8. ASSUME NEW c \in Calls PROVE CallShape(c)'
  <2>1. CASE call'[c] = call[c] BY <2>1, MigrateTypesAre DEF CallShape
  <2>2. CASE call'[c] = Migrate!Blank(c, "done")
    BY <2>2, AtsAre, MigrationAssumption DEF CallShape, Migrate!Blank
  <2>q. QED BY <1>7, <2>1, <2>2
<1>9. breaks' \in 0 .. MaxBreaks /\ strayed' \subseteq Runs BY <1>0, MigrateTypesAre
<1>10. MigrateTypes'
  BY <1>4, <1>5, <1>7, <1>8, <1>9
     DEF MigrateTypes, Migrate!TypeOK, StoreTyped, RowsTyped, CallRecs, Ats, Ends, Calls, Hosts, Migrate!Calls
<1>11. urgent'[i] = Rows /\ newest'[i] = Nobody
       /\ \A j \in Hosts \ {i} : urgent'[j] = urgent[j] /\ priority'[j] = priority[j] /\ newest'[j] = newest[j]
  BY <1>0, <1>t DEF RowsTyped
<1>q. QED BY <1>0, <1>4, <1>7, <1>10, <1>11

----------------------------------------------------------------------------
LEMMA NextMigrateTypes == MigrateTypes /\ [Migrate!Next]_(Migrate!vars) => MigrateTypes'
<1> SUFFICES ASSUME MigrateTypes, [Migrate!Next]_(Migrate!vars) PROVE MigrateTypes'
  OBVIOUS
<1>1. ASSUME NEW c \in Calls,
             \/ Migrate!Claim(c) \/ Migrate!CreateClaimed(c) \/ Migrate!Who(c) \/ Migrate!Look(c)
             \/ Migrate!MarkActive(c) \/ Migrate!Create(c)
      PROVE  MigrateTypes'
  BY <1>1, ClaimStep, CreateClaimedStep, WhoStep, LookStep, MarkStep, CreateStep
<1>2. ASSUME NEW c \in Calls,
             \/ Migrate!Expand(c) \/ Migrate!CountPending(c) \/ Migrate!BackfillBatch(c) \/ Migrate!Contract(c)
             \/ Migrate!Complete(c) \/ Migrate!Clear(c)
      PROVE  MigrateTypes'
  BY <1>2, ExpandStep, CountStep, BackfillStep, ContractStep, CompleteStep, ClearStep
<1>3. ASSUME NEW c \in Calls,
             \/ Migrate!Rollback(c) \/ Migrate!RollbackContract(c) \/ Migrate!RollbackExpand(c)
             \/ Migrate!ClearUndone(c) \/ Migrate!SaveUndone(c)
      PROVE  MigrateTypes'
  BY <1>3, RollbackStep, RollbackContractStep, RollbackExpandStep, ClearUndoneStep, SaveUndoneStep
<1>4. ASSUME NEW r \in Runs, Migrate!Expire(r) PROVE MigrateTypes' BY <1>4, RecordExpires
<1>5. ASSUME NEW i \in Hosts, Migrate!Crash(i) PROVE MigrateTypes' BY <1>5, HostCrashes
<1>6. CASE UNCHANGED Migrate!vars
  BY <1>6 DEF Migrate!vars, Migrate!store, Migrate!rowVars, MigrateTypes, Migrate!TypeOK, CallShape
<1>q. QED BY <1>1, <1>2, <1>3, <1>4, <1>5, <1>6, AtsAre DEF Migrate!Next, Hosts

LEMMA InitMigrate == Migrate!Init => MigrateTypes
<1> SUFFICES ASSUME Migrate!Init PROVE MigrateTypes
  OBVIOUS
<1>1. \A c \in Calls : Migrate!Blank(c, "new") \in CallRecs
  <2>1. "new" \in Ats /\ "none" \in Migrate!Reaches BY AtsAre
  <2>q. QED BY <2>1 DEF Migrate!Blank, CallRecs, Ends
<1>2. call \in [Calls -> CallRecs] /\ \A c \in Calls : call[c] = Migrate!Blank(c, "new")
  <2> HIDE DEF Migrate!Blank
  <2>q. QED BY <1>1 DEF Migrate!Init, Migrate!Calls, Calls
<1>3. \A c \in Calls : CallShape(c)
  BY <1>2, AtsAre, MigrationAssumption DEF CallShape, Migrate!Blank
<1>4. Migrate!NoRun \in Migrate!RunRecords BY DEF Migrate!NoRun, Migrate!RunRecords, Migrate!Reaches
<1>5. StoreTyped BY <1>4, MigrationAssumption DEF StoreTyped, Migrate!Init, Hosts
<1>6. RowsTyped BY DEF RowsTyped, Migrate!Init, Hosts
<1>q. QED BY <1>2, <1>3, <1>5, <1>6, MigrateTypesAre, MigrationAssumption DEF Migrate!Init

LEMMA MigrateTypesHold == Migrate!Spec => []MigrateTypes
BY InitMigrate, NextMigrateTypes, PTL DEF Migrate!Spec

----------------------------------------------------------------------------
\* Where a run is that has not got, or no longer has, the slot.
Outside == {"new", "who", "look", "mark", "saveUndone", "done"}
Ended(status) == status \in {"completed", "rolled_back", "failed"}

LEMMA SlotMoves ==
  ASSUME MigrateTypes, MigrateTypes', SlotInv, NEW c \in Calls, Moves(c), strayed \subseteq strayed',
         call[c].at # "done", call[c].at = "clear" => call'[c].at = "done",
         c \in Undos /\ call'[c].at # "done" => call'[c].id \in Runs /\ Over(call'[c].id),
         call'[c].at = "create" => c \in strayed',
         \A r \in Runs : Ended(runRecord'[r].status) => Ended(runRecord[r].status) \/ (Over(r) /\ r # c) \/ Over(r)',
         marker' # marker => \A d \in Runs \ {c} : marker = d => d \in strayed' \/ ~Holding(d),
         c \in Runs \ strayed' /\ Holding(c)' => marker' = c,
         marker' \in {marker, Nobody, c}, troubles' # 0 \/ UNCHANGED troubles,
         marker' = c /\ call'[c].at \in Outside => troubles' # 0 \/ (marker = c /\ call[c].at \in Outside)
  PROVE  SlotInv'
<1>t. /\ call \in [Calls -> CallRecs] /\ Runs \subseteq Calls /\ Undos \subseteq Calls /\ Runs \cap Undos = {}
      /\ marker \in Runs \cup {Nobody} /\ Nobody \notin Runs
  BY MigrateTypesAre, MigrationAssumption DEF Calls, StoreTyped
<1>1. \A r \in Runs : Over(r) => Over(r)' BY <1>t DEF Moves, Over
<1>2. \A d \in Calls \ {c} : Holding(d)' => Holding(d)
  BY AtsAre DEF Moves, Holding, Migrate!Busy, Migrate!Phases, Migrate!Closing
<1>3. HoldersHold' BY <1>2, <1>t DEF HoldersHold, SlotInv
<1>4. ReclaimersStray' BY <1>t DEF ReclaimersStray, SlotInv, Moves
<1>5. UndosUndo'
  <2> SUFFICES ASSUME NEW d \in Undos, call'[d].at \notin {"new", "done"} PROVE Over(call[d].id)'
    BY DEF UndosUndo
  <2>1. CASE d = c BY <1>1, <2>1
  <2>2. CASE d # c
    <3>1. call'[d] = call[d] BY <1>t, <2>2 DEF Moves
    <3>2. Over(call[d].id) /\ call[d].id \in Runs
      BY <1>t, <3>1, MigrateTypesAre DEF UndosUndo, SlotInv, CallShape
    <3>q. QED BY <1>1, <3>1, <3>2
  <2>q. QED BY <2>1, <2>2
<1>6. RecordedIsOver' BY <1>1 DEF RecordedIsOver, SlotInv, Ended
<1>7. SlotIsKept'
  <2> SUFFICES ASSUME troubles' = 0, marker' # Nobody, call'[marker'].at \in Outside PROVE FALSE
    BY DEF SlotIsKept, Outside
  <2>1. marker' = marker \/ marker' = c OBVIOUS
  <2>2. CASE marker' = c BY <2>2 DEF SlotIsKept, SlotInv, Outside
  <2>3. CASE marker' = marker /\ marker # c
    BY <2>3, <1>t DEF SlotIsKept, SlotInv, Outside, Moves
  <2>q. QED BY <2>1, <2>2, <2>3
<1>q. QED BY <1>3, <1>4, <1>5, <1>6, <1>7 DEF SlotInv

HoldingAts == {"claim", "expand", "count", "backfill", "contract", "complete", "rollbackContract", "rollbackExpand",
               "clearUndone"}
LEMMA HoldingIs == \A c \in Calls : (Holding(c) <=> call[c].at \in HoldingAts) /\ (Holding(c)' <=> call'[c].at \in HoldingAts)
BY DEF Holding, HoldingAts, Migrate!Busy, Migrate!Phases, Migrate!Closing

\* What the record of a run tells after a save.
LEMMA SavedTells ==
  ASSUME MigrateTypes, NEW c \in Calls, NEW s, NEW h, call[c].id \in Runs, Saved(c, s, h), NEW r \in Runs
  PROVE  runRecord'[r] = runRecord[r] \/ (r = call[c].id /\ runRecord'[r] = [status |-> s, reach |-> h])
<1>1. runRecord \in [Runs -> Migrate!RunRecords] BY MigrateTypesAre DEF StoreTyped
<1>q. QED BY <1>1 DEF Saved

\* A step from phase to phase that leaves the slot alone.
LEMMA SlotStays ==
  ASSUME MigrateTypes, MigrateTypes', SlotInv, NEW c \in Calls, Moves(c), UNCHANGED <<marker, strayed>>,
         troubles' # 0 \/ UNCHANGED troubles,
         call[c].at \notin {"new", "clear", "done"}, call'[c].id = call[c].id,
         \/ call[c].at \in HoldingAts /\ call'[c].at \in (HoldingAts \ {"claim"}) \cup {"clear"}
         \/ call[c].at \in {"who", "look"} /\ call'[c].at \in {"look", "mark"}
         \/ call[c].at = "create" /\ call'[c].at = "expand",
         \A r \in Runs : Ended(runRecord'[r].status) => Ended(runRecord[r].status) \/ Over(r)'
  PROVE  SlotInv'
<1>t. /\ call \in [Calls -> CallRecs] /\ Runs \subseteq Calls /\ Undos \subseteq Calls /\ Runs \cap Undos = {}
      /\ marker \in Runs \cup {Nobody} /\ Nobody \notin Runs
  BY MigrateTypesAre, MigrationAssumption DEF Calls, StoreTyped
<1>1. c \in Undos /\ call'[c].at # "done" => call'[c].id \in Runs /\ Over(call'[c].id)
  BY <1>t, MigrateTypesAre DEF SlotInv, UndosUndo, CallShape
<1>2. c \in Runs \ strayed' /\ Holding(c)' => marker' = c
  BY <1>t, HoldingIs DEF SlotInv, HoldersHold, ReclaimersStray, HoldingAts
<1>3. marker' = c /\ call'[c].at \in Outside => troubles' # 0 \/ (marker = c /\ call[c].at \in Outside)
  BY DEF Outside, HoldingAts
<1>4. call'[c].at # "create" BY DEF HoldingAts
<1>q. QED BY <1>1, <1>2, <1>3, <1>4, SlotMoves

----------------------------------------------------------------------------
\* Which runs a save makes be over.
LEMMA SavedEnds ==
  ASSUME MigrateTypes, NEW c \in Calls, NEW s, NEW h, call[c].id \in Runs, Saved(c, s, h), NEW r \in Runs,
         Ended(runRecord'[r].status)
  PROVE  Ended(runRecord[r].status) \/ (r = call[c].id /\ Ended(s))
<1>1. CASE runRecord'[r] = runRecord[r] BY <1>1
<1>2. CASE r = call[c].id /\ runRecord'[r] = [status |-> s, reach |-> h] BY <1>2
<1>q. QED BY <1>1, <1>2, SavedTells

LEMMA NextSlot == MigrateTypes /\ SlotInv /\ [Migrate!Next]_(Migrate!vars) => SlotInv'
<1> SUFFICES ASSUME MigrateTypes, SlotInv, [Migrate!Next]_(Migrate!vars) PROVE SlotInv'
  OBVIOUS
<1>t. /\ call \in [Calls -> CallRecs] /\ Runs \subseteq Calls /\ Undos \subseteq Calls /\ Runs \cap Undos = {}
      /\ marker \in Runs \cup {Nobody} /\ Nobody \notin Runs \cup Undos /\ MigrateTypes'
  BY MigrateTypesAre, MigrationAssumption, NextMigrateTypes DEF Calls, StoreTyped
\* Claiming in memory, which leaves the slot to whom it is.
<1>a. ASSUME NEW c \in Runs, Moves(c), InMemory(c), call[c].at \in {"new", "claim", "who"}
      PROVE  SlotInv'
  <2>1. call[c] \in CallRecs /\ c \notin Undos /\ c \in Calls BY <1>t
  <2>2. \/ strayed' = strayed \cup {c} /\ call'[c].at = "expand"
        \/ strayed' = strayed /\ call'[c].at = "look"
    BY <1>a, <2>1 DEF InMemory, Enters, CallRecs
  <2>3. UNCHANGED <<marker, runRecord>> /\ troubles' # 0 BY <1>a DEF InMemory
  <2>q. QED BY <1>a, <1>t, <2>1, <2>2, <2>3, SlotMoves, HoldingIs DEF HoldingAts, Ended
<1>1. ASSUME NEW c \in Calls, Migrate!Claim(c) PROVE SlotInv'
  <2>1. Moves(c) /\ UNCHANGED runRecord /\ c \in Runs /\ call[c].at = "new" BY <1>1, ClaimStep
  <2>2. call[c] \in CallRecs /\ c \notin Undos BY <1>t, <2>1
  <2>3. CASE InMemory(c) BY <1>a, <2>1, <2>3
  <2>4. CASE marker = Nobody /\ marker' = c /\ Enters(c, "claim") /\ UNCHANGED <<troubles, strayed>>
    <3>1. call'[c].at = "claim" BY <2>2, <2>4 DEF Enters, CallRecs
    <3>q. QED BY <1>t, <2>1, <2>2, <2>4, <3>1, SlotMoves DEF Outside, Ended
  <2>5. CASE UNCHANGED <<marker, troubles, strayed>> /\ Enters(c, "who")
    <3>1. call'[c].at = "who" BY <2>2, <2>5 DEF Enters, CallRecs
    <3>q. QED BY <1>t, <2>1, <2>2, <2>5, <3>1, SlotMoves, HoldingIs DEF Outside, Ended, HoldingAts
  <2>q. QED BY <1>1, <2>3, <2>4, <2>5, ClaimStep
<1>2. ASSUME NEW c \in Calls, Migrate!CreateClaimed(c) PROVE SlotInv'
  <2>1. Moves(c) /\ c \in Runs /\ call[c].at = "claim" BY <1>2, CreateClaimedStep
  <2>2. call[c] \in CallRecs BY <1>t, <2>1
  <2>3. CASE InMemory(c) BY <1>a, <2>1, <2>3
  <2>4. CASE /\ UNCHANGED <<marker, strayed, troubles>> /\ Enters(c, "expand")
             /\ \A r \in Runs \ {c} : runRecord'[r] = runRecord[r]
             /\ runRecord'[c].status = "going"
    <3>1. call'[c].at = "expand" /\ call'[c].id = call[c].id BY <2>2, <2>4 DEF Enters, CallRecs
    <3>2. \A r \in Runs : Ended(runRecord'[r].status) => Ended(runRecord[r].status) BY <2>4 DEF Ended
    <3>q. QED BY <1>t, <2>1, <2>4, <3>1, <3>2, SlotStays DEF HoldingAts
  <2>q. QED BY <1>2, <2>3, <2>4, CreateClaimedStep
<1>3. ASSUME NEW c \in Calls, Migrate!Who(c) PROVE SlotInv'
  <2>1. Moves(c) /\ c \in Runs /\ call[c].at = "who" BY <1>3, WhoStep
  <2>2. call[c] \in CallRecs BY <1>t, <2>1
  <2>3. CASE InMemory(c) BY <1>a, <2>1, <2>3
  <2>4. CASE Untold /\ call'[c] = [call[c] EXCEPT !.at = "look", !.sees = marker]
    <3>1. call'[c].at = "look" /\ call'[c].id = call[c].id BY <2>2, <2>4 DEF CallRecs
    <3>q. QED BY <1>t, <2>1, <2>4, <3>1, SlotStays DEF HoldingAts, Untold
  <2>q. QED BY <1>3, <2>3, <2>4, WhoStep
<1>4. ASSUME NEW c \in Calls, Migrate!Look(c) PROVE SlotInv'
  <2>1. /\ Moves(c) /\ call[c].at = "look" /\ c \in Runs
        /\ UNCHANGED <<marker, runRecord, strayed>> /\ (UNCHANGED troubles \/ troubles' # 0)
        /\ call'[c].at \in {"mark", "done"}
    BY <1>4, LookStep
  <2>q. QED BY <1>t, <2>1, SlotMoves, HoldingIs DEF Outside, Ended, HoldingAts
<1>5. ASSUME NEW c \in Calls, Migrate!MarkActive(c) PROVE SlotInv'
  <2>1. /\ Moves(c) /\ call[c].at = "mark" /\ c \in Runs /\ Enters(c, "create")
        /\ UNCHANGED runRecord /\ strayed' = strayed \cup {c} \cup ({marker} \ {Nobody})
        /\ \/ marker' = c /\ UNCHANGED troubles
           \/ UNCHANGED marker /\ troubles' # 0
    BY <1>5, MarkStep
  <2>2. call[c] \in CallRecs BY <1>t
  <2>3. call'[c].at = "create" BY <2>1, <2>2 DEF Enters, CallRecs
  <2>q. QED BY <1>t, <2>1, <2>3, SlotMoves, HoldingIs DEF Outside, Ended, HoldingAts
<1>6. ASSUME NEW c \in Calls, Migrate!Create(c) PROVE SlotInv'
  <2>1. Moves(c) /\ call[c].at = "create" /\ c \in Runs /\ Enters(c, "expand") /\ Saved(c, "going", call[c].reach)
    BY <1>6, CreateStep
  <2>2. call[c] \in CallRecs /\ call[c].id \in Runs BY <1>t, <2>1, CallsHaveRuns
  <2>3. call'[c].at = "expand" /\ call'[c].id = call[c].id BY <2>1, <2>2 DEF Enters, CallRecs
  <2>4. \A r \in Runs : Ended(runRecord'[r].status) => Ended(runRecord[r].status)
    BY <2>1, <2>2, SavedEnds DEF Ended
  <2>q. QED BY <1>t, <2>1, <2>3, <2>4, SlotStays DEF HoldingAts, Saved
\* The phases of a run, and of what undoes one.
<1>b. ASSUME NEW c \in Calls, Moves(c), call[c].at \in HoldingAts \ {"claim"},
             call'[c].at \in HoldingAts \ {"claim"}, call'[c].id = call[c].id,
             (\E h : Saved(c, "going", h)) \/ Untold
      PROVE  SlotInv'
  <2>1. call[c].id \in Runs BY <1>b, CallsHaveRuns DEF HoldingAts
  <2>2. \A r \in Runs : Ended(runRecord'[r].status) => Ended(runRecord[r].status)
    <3>1. CASE Untold BY <3>1 DEF Untold
    <3>2. CASE \E h : Saved(c, "going", h)
      <4>1. PICK h : Saved(c, "going", h) BY <3>2
      <4>2. ~Ended("going") BY DEF Ended
      <4>q. QED BY <1>b, <2>1, <4>1, <4>2, SavedEnds
    <3>q. QED BY <1>b, <3>1, <3>2
  <2>3. UNCHANGED <<marker, strayed>> /\ (troubles' # 0 \/ UNCHANGED troubles) BY <1>b DEF Saved, Untold
  <2>q. QED BY <1>b, <1>t, <2>2, <2>3, SlotStays DEF HoldingAts
<1>7. ASSUME NEW c \in Calls, Migrate!Expand(c) PROVE SlotInv'
  <2>1. call[c] \in CallRecs BY <1>t
  <2>2. call'[c].at \in {"count", "rollbackContract"} /\ call'[c].id = call[c].id
    <3>1. CASE call'[c] = [call[c] EXCEPT !.at = "count", !.reach = "expand"] BY <2>1, <3>1 DEF CallRecs
    <3>2. CASE call'[c] = [call[c] EXCEPT !.at = "rollbackContract", !.reach = "expand"]
      BY <2>1, <3>2 DEF CallRecs
    <3>q. QED BY <1>7, <3>1, <3>2, ExpandStep
  <2>q. QED BY <1>7, <1>b, <2>2, ExpandStep DEF HoldingAts
<1>8. ASSUME NEW c \in Calls, Migrate!CountPending(c) PROVE SlotInv'
  <2>1. call[c] \in CallRecs BY <1>t
  <2>2. call'[c].at \in {"contract", "backfill", "rollbackContract"} /\ call'[c].id = call[c].id
    BY <1>8, <2>1, CountStep DEF CallRecs, Enters
  <2>q. QED BY <1>8, <1>b, <2>2, CountStep DEF HoldingAts
<1>9. ASSUME NEW c \in Calls, Migrate!BackfillBatch(c) PROVE SlotInv'
  <2>1. call[c] \in CallRecs BY <1>t
  <2>2. call'[c].at \in {"contract", "backfill", "rollbackContract"} /\ call'[c].id = call[c].id
    BY <1>9, <2>1, BackfillStep DEF CallRecs, Enters
  <2>q. QED BY <1>9, <1>b, <2>2, BackfillStep DEF HoldingAts
<1>10. ASSUME NEW c \in Calls, Migrate!Contract(c) PROVE SlotInv'
  <2>1. call[c] \in CallRecs BY <1>t
  <2>2. call'[c].at \in {"complete", "rollbackContract"} /\ call'[c].id = call[c].id
    BY <1>10, <2>1, ContractStep DEF CallRecs
  <2>q. QED BY <1>10, <1>b, <2>2, ContractStep DEF HoldingAts
<1>11. ASSUME NEW c \in Calls, Migrate!RollbackContract(c) PROVE SlotInv'
  <2>1. call[c] \in CallRecs BY <1>t
  <2>2. call'[c].at \in {"rollbackExpand", "clearUndone"} /\ call'[c].id = call[c].id
    BY <1>11, <2>1, RollbackContractStep DEF CallRecs, Enters, EndsWith
  <2>q. QED BY <1>11, <1>b, <2>2, RollbackContractStep DEF HoldingAts
<1>12. ASSUME NEW c \in Calls, Migrate!RollbackExpand(c) PROVE SlotInv'
  <2>1. call[c] \in CallRecs BY <1>t
  <2>2. call'[c].at = "clearUndone" /\ call'[c].id = call[c].id
    BY <1>12, <2>1, RollbackExpandStep DEF CallRecs, EndsWith
  <2>q. QED BY <1>12, <1>b, <2>2, RollbackExpandStep DEF HoldingAts
<1>13. ASSUME NEW c \in Calls, Migrate!Complete(c) PROVE SlotInv'
  <2>1. Moves(c) /\ call[c].at = "complete" /\ c \in Runs /\ Enters(c, "clear") /\ Saved(c, "completed", "contract")
    BY <1>13, CompleteStep
  <2>2. call[c] \in CallRecs /\ call[c].id = c BY <1>t, <2>1, MigrateTypesAre DEF CallShape
  <2>3. call'[c].at = "clear" /\ call'[c].id = call[c].id BY <2>1, <2>2 DEF Enters, CallRecs
  <2>4. \A r \in Runs : Ended(runRecord'[r].status) => Ended(runRecord[r].status) \/ Over(r)'
    <3>1. Over(c)' BY <2>3 DEF Over
    <3>q. QED BY <2>1, <2>2, <3>1, SavedEnds
  <2>5. UNCHANGED <<marker, strayed>> /\ (troubles' # 0 \/ UNCHANGED troubles) BY <2>1 DEF Saved
  <2>q. QED BY <1>t, <2>1, <2>3, <2>4, <2>5, SlotStays DEF HoldingAts
\* Whoever clears the slot takes it from the run it works for, which is over, or strays it.
<1>c. ASSUME NEW c \in Calls, Cleared(c), call[c].at \in {"clear", "clearUndone"}
      PROVE  \A d \in Runs \ {c} : marker' # marker /\ marker = d => d \in strayed' \/ ~Holding(d)
  <2> SUFFICES ASSUME NEW d \in Runs \ {c}, marker' # marker, marker = d PROVE d \in strayed' \/ ~Holding(d)
    OBVIOUS
  <2>1. CASE call[c].id # d BY <1>c, <1>t, <2>1 DEF Cleared
  <2>2. CASE call[c].id = d
    <3>1. c \in Undos BY <2>2, MigrateTypesAre DEF CallShape, Calls
    <3>2. Over(d) BY <1>c, <2>2, <3>1 DEF SlotInv, UndosUndo
    <3>q. QED BY <1>t, <3>2, HoldingIs DEF Over, HoldingAts
  <2>q. QED BY <2>1, <2>2
<1>14. ASSUME NEW c \in Calls, Migrate!Clear(c) PROVE SlotInv'
  <2>1. Moves(c) /\ call'[c] = Migrate!Blank(c, "done") /\ call[c].at = "clear" /\ c \in Runs /\ Cleared(c)
    BY <1>14, ClearStep DEF Stops
  <2>2. call'[c].at = "done" BY <2>1 DEF Migrate!Blank
  <2>3. /\ UNCHANGED runRecord /\ strayed \subseteq strayed' /\ (troubles' # 0 \/ UNCHANGED troubles)
        /\ marker' \in {marker, Nobody} /\ (marker' = c => troubles' # 0)
    BY <1>t, <2>1 DEF Cleared
  <2>q. QED BY <1>t, <1>c, <2>1, <2>2, <2>3, SlotMoves, HoldingIs DEF Outside, Ended, HoldingAts
<1>15. ASSUME NEW c \in Calls, Migrate!ClearUndone(c) PROVE SlotInv'
  <2>1. Moves(c) /\ Enters(c, "saveUndone") /\ call[c].at = "clearUndone" /\ Cleared(c)
    BY <1>15, ClearUndoneStep
  <2>2. call[c] \in CallRecs /\ call[c].id \in Runs BY <1>t, <2>1, CallsHaveRuns
  <2>3. call'[c].at = "saveUndone" /\ call'[c].id = call[c].id BY <2>1, <2>2 DEF Enters, CallRecs
  <2>4. /\ UNCHANGED runRecord /\ strayed \subseteq strayed' /\ (troubles' # 0 \/ UNCHANGED troubles)
        /\ marker' \in {marker, Nobody} /\ (marker' = c /\ c \in Runs => troubles' # 0)
    BY <1>t, <2>1 DEF Cleared
  <2>5. c \in Undos => Over(call[c].id) BY <2>1 DEF SlotInv, UndosUndo
  <2>6. c \in Undos => marker # c BY <1>t
  <2>7. c \in Undos => marker' # c BY <1>t, <2>4, <2>6
  <2>8. marker' = c => troubles' # 0 BY <2>4, <2>7 DEF Calls
  <2>9. ~Holding(c)' BY <2>3, HoldingIs DEF HoldingAts
  <2>10. marker' # marker => \A d \in Runs \ {c} : marker = d => d \in strayed' \/ ~Holding(d) BY <1>c, <2>1
  <2>q. QED BY <1>t, <2>1, <2>2, <2>3, <2>4, <2>5, <2>8, <2>9, <2>10, SlotMoves
<1>16. ASSUME NEW c \in Calls, Migrate!SaveUndone(c) PROVE SlotInv'
  <2>1. Moves(c) /\ call'[c] = Migrate!Blank(c, "done") /\ call[c].at = "saveUndone"
        /\ Saved(c, call[c].end, call[c].reach)
    BY <1>16, SaveUndoneStep DEF Stops
  <2>2. call[c].id \in Runs /\ (c \in Runs => call[c].id = c) BY <1>t, <2>1, CallsHaveRuns, MigrateTypesAre DEF CallShape
  <2>3. call'[c].at = "done" BY <2>1 DEF Migrate!Blank
  <2>4. \A r \in Runs : Ended(runRecord'[r].status) => Ended(runRecord[r].status) \/ (Over(r) /\ r # c) \/ Over(r)'
    <3>1. CASE c \in Runs BY <2>1, <2>2, <2>3, <3>1, SavedEnds DEF Over
    <3>2. CASE c \in Undos
      <4>1. Over(call[c].id) BY <2>1, <3>2 DEF SlotInv, UndosUndo
      <4>q. QED BY <1>t, <2>1, <2>2, <3>2, <4>1, SavedEnds
    <3>q. QED BY <3>1, <3>2 DEF Calls
  <2>5. UNCHANGED <<marker, strayed>> /\ (troubles' # 0 \/ UNCHANGED troubles) BY <2>1 DEF Saved
  <2>q. QED BY <1>t, <2>1, <2>3, <2>4, <2>5, SlotMoves, HoldingIs DEF Outside, HoldingAts
<1>17. ASSUME NEW c \in Calls, Migrate!Rollback(c) PROVE SlotInv'
  <2>1. Moves(c) /\ Untold /\ c \in Undos /\ call[c].at = "new" BY <1>17, RollbackStep
  <2>2. PICK r \in Runs :
          /\ runRecord[r].status \in {"completed", "failed"}
          /\ call'[c] = [call[c] EXCEPT !.at = "rollbackContract", !.id = r, !.reach = runRecord[r].reach]
    BY <1>17, RollbackStep
  <2>3. call[c] \in CallRecs /\ c \notin Runs BY <1>t, <2>1
  <2>4. call'[c].at = "rollbackContract" /\ call'[c].id = r BY <2>2, <2>3 DEF CallRecs
  <2>5. Over(r) BY <2>2 DEF SlotInv, RecordedIsOver
  <2>q. QED BY <1>t, <2>1, <2>3, <2>4, <2>5, SlotMoves DEF Outside, Ended, Untold
<1>18. ASSUME NEW r \in Runs, Migrate!Expire(r) PROVE SlotInv'
  <2>1. /\ UNCHANGED <<call, marker, troubles, strayed>>
        /\ \A q \in Runs \ {r} : runRecord'[q] = runRecord[q]
        /\ runRecord'[r].status = "none"
    BY <1>18, RecordExpires
  <2>2. RecordedIsOver' BY <2>1 DEF SlotInv, RecordedIsOver, Over
  <2>q. QED BY <2>1, <2>2 DEF SlotInv, HoldersHold, ReclaimersStray, UndosUndo, SlotIsKept, Holding, Over, Migrate!Busy
<1>19. ASSUME NEW i \in Hosts, Migrate!Crash(i) PROVE SlotInv'
  <2>1. /\ UNCHANGED <<marker, runRecord, strayed>> /\ troubles' # 0
        /\ \A c \in Calls : call'[c] = IF CallHome[c] = i /\ call[c].at # "new" THEN Migrate!Blank(c, "done") ELSE call[c]
    BY <1>19, HostCrashes
  <2>2. \A c \in Calls : call'[c] = call[c] \/ call'[c].at = "done"
    <3>1. \A c \in Calls : Migrate!Blank(c, "done").at = "done" BY DEF Migrate!Blank
    <3>q. QED BY <2>1, <3>1
  <2>3. \A r \in Runs : Over(r) => Over(r)' BY <1>t, <2>2 DEF Over
  <2>4. HoldersHold' BY <1>t, <2>1, <2>2, HoldingIs DEF SlotInv, HoldersHold, HoldingAts
  <2>5. ReclaimersStray' BY <1>t, <2>1, <2>2 DEF SlotInv, ReclaimersStray
  <2>6. UndosUndo'
    <3> SUFFICES ASSUME NEW d \in Undos, call'[d].at \notin {"new", "done"} PROVE Over(call[d].id)'
      BY DEF UndosUndo
    <3>1. call'[d] = call[d] BY <1>t, <2>2
    <3>2. Over(call[d].id) /\ call[d].id \in Runs
      BY <1>t, <3>1, MigrateTypesAre DEF UndosUndo, SlotInv, CallShape
    <3>q. QED BY <2>3, <3>1, <3>2
  <2>7. RecordedIsOver' BY <2>1, <2>3 DEF SlotInv, RecordedIsOver
  <2>8. SlotIsKept' BY <2>1 DEF SlotIsKept
  <2>q. QED BY <2>4, <2>5, <2>6, <2>7, <2>8 DEF SlotInv
<1>20. CASE UNCHANGED Migrate!vars
  BY <1>20 DEF Migrate!vars, Migrate!store, SlotInv, HoldersHold, ReclaimersStray, UndosUndo, RecordedIsOver,
               SlotIsKept, Holding, Over, Migrate!Busy
<1>q. QED BY <1>1, <1>2, <1>3, <1>4, <1>5, <1>6, <1>7, <1>8, <1>9, <1>10, <1>11, <1>12, <1>13, <1>14, <1>15,
           <1>16, <1>17, <1>18, <1>19, <1>20, AtsAre DEF Migrate!Next, Hosts

----------------------------------------------------------------------------
WorkingAts == {"count", "backfill", "contract", "complete", "rollbackContract", "rollbackExpand", "clearUndone"}
UndoAts == {"rollbackContract", "rollbackExpand", "clearUndone", "saveUndone"}
LEMMA WorkingIs == \A c \in Calls : (AtWork(c) <=> call[c].at \in WorkingAts) /\ (AtWork(c)' <=> call'[c].at \in WorkingAts)
BY DEF AtWork, WorkingAts, Migrate!Busy, Migrate!Phases, Migrate!Closing

CopiedBy(c) ==
  /\ call[c].at \in {"count", "backfill", "contract", "rollbackExpand"} => Full(CallHome[c])
  /\ call[c].at = "backfill" => \A w \in Rows : w <= call[c].cursor => w \in priority[CallHome[c]]
  /\ call[c].at \in {"contract", "complete"} => Copied(CallHome[c])
UndoneBy(c) == call[c].at \in UndoAts => CanUndo(call[c].id, call[c].reach)
Undoable(status) == status \in {"completed", "failed"}

LEMMA RowsFacts ==
  ASSUME MigrateTypes, RowsInv
  PROVE  /\ \A c \in Calls : CallHome[c] \notin mixed => CopiedBy(c)
         /\ \A c \in Calls : call[c].at \in UndoAts => CanUndo(call[c].id, call[c].reach)
         /\ \A r \in Runs : Undoable(runRecord[r].status) => CanUndo(r, runRecord[r].reach)
         /\ \A c \in Calls : AtWork(c) /\ CallHome[c] \notin mixed => newest[CallHome[c]] = call[c].id /\ call[c].id \in Runs
         /\ \A c \in Calls : AtWork(c) /\ CallHome[c] \notin mixed => CallHome[call[c].id] = CallHome[c]
         /\ \A i \in Hosts \ mixed : Rows \subseteq urgent[i] \cup priority[i]
<1>1. \A c \in Calls : AtWork(c) => call[c].id \in Runs
  BY CallsHaveRuns, WorkingIs DEF WorkingAts
<1>2. \A i \in Hosts : newest[i] # Nobody => CallHome[newest[i]] = i BY DEF RowsInv, NewestIsHome
<1>3. \A c \in Calls : AtWork(c) /\ CallHome[c] \notin mixed =>
         newest[CallHome[c]] = call[c].id /\ CallHome[call[c].id] = CallHome[c]
  BY <1>1, <1>2, HomesAreHosts, MigrationAssumption DEF RowsInv, WorksAlone
<1>4. \A i \in Hosts \ mixed : Rows \subseteq urgent[i] \cup priority[i]
  BY DEF RowsInv, Migrate!RowsKeepAValue, Hosts
<1>5. \A c \in Calls : CallHome[c] \notin mixed => CopiedBy(c) BY DEF RowsInv, CopiesSoFar, CopiedBy
<1>q. QED BY <1>1, <1>3, <1>4, <1>5 DEF RowsInv, UndoRestores, UndoAts, Undoable

LEMMA RowsMove ==
  ASSUME MigrateTypes, MigrateTypes', SlotInv, RowsInv, NEW c \in Calls, Moves(c), UNCHANGED <<newest, mixed>>,
         AtWork(c)' => AtWork(c) /\ call'[c].id = call[c].id,
         \A j \in Hosts : j # CallHome[c] \/ ~AtWork(c) => urgent'[j] = urgent[j] /\ priority'[j] = priority[j],
         CallHome[c] \notin mixed => CopiedBy(c)' /\ Rows \subseteq urgent'[CallHome[c]] \cup priority'[CallHome[c]],
         \A j \in Hosts : Full(j) => Full(j)' \/ (call[c].at = "contract" /\ j = CallHome[c]),
         call'[c].at \in UndoAts => \/ call'[c].reach = "contract"
                                    \/ CanUndo(call'[c].id, call'[c].reach) /\ call[c].at # "contract",
         \A r \in Runs : Undoable(runRecord'[r].status) =>
            \/ Undoable(runRecord[r].status) /\ runRecord'[r] = runRecord[r]
            \/ runRecord'[r].reach = "contract"
            \/ CanUndo(r, runRecord'[r].reach) /\ call[c].at # "contract"
  PROVE  RowsInv'
<1>t. /\ Runs \subseteq Calls /\ Undos \subseteq Calls /\ Calls = Runs \cup Undos /\ Runs \cap Undos = {}
      /\ Nobody \notin Runs
  BY MigrationAssumption DEF Calls
<1>h. \A d \in Calls : CallHome[d] \in Hosts BY HomesAreHosts
<1>m. \A d \in Calls \ {c} : call'[d] = call[d] BY DEF Moves
<1>1. WorksAlone'
  <2>1. \A d \in Calls : AtWork(d)' => AtWork(d) /\ call'[d].id = call[d].id
    <3>1. \A d \in Calls \ {c} : AtWork(d)' => AtWork(d) BY <1>m, WorkingIs
    <3>q. QED BY <1>m, <3>1
  <2>q. QED BY <2>1 DEF WorksAlone, RowsInv
<1>2. NewestIsHome' BY DEF NewestIsHome, RowsInv
<1>3. CopiesSoFar'
  <2>1. ASSUME NEW d \in Calls, CallHome[d] \notin mixed PROVE CopiedBy(d)'
    <3>1. CASE d = c BY <2>1, <3>1
    <3>2. CASE d # c
      <4>1. call'[d] = call[d] BY <1>m, <3>2
      <4>2. CASE ~AtWork(d)
        BY <4>1, <4>2, WorkingIs DEF CopiedBy, WorkingAts
      <4>3. CASE AtWork(d)
        <5>1. CallHome[c] # CallHome[d] \/ ~AtWork(c)
          BY <2>1, <3>2, <4>3 DEF RowsInv, WorksAlone
        <5>2. urgent'[CallHome[d]] = urgent[CallHome[d]] /\ priority'[CallHome[d]] = priority[CallHome[d]]
          BY <1>h, <5>1
        <5>3. CopiedBy(d) BY <2>1, RowsFacts
        <5>q. QED BY <4>1, <5>2, <5>3 DEF CopiedBy, Full, Copied
      <4>q. QED BY <4>2, <4>3
    <3>q. QED BY <3>1, <3>2
  <2>q. QED BY <2>1 DEF CopiesSoFar, CopiedBy
\* What a run that started last can be undone to stays, unless that very run contracts.
<1>4. ASSUME NEW r \in Runs, NEW h, CanUndo(r, h), r # c \/ call[c].at # "contract" PROVE CanUndo(r, h)'
  <2> SUFFICES ASSUME CallHome[r] \notin mixed, newest[CallHome[r]] = r, h # "contract" PROVE Full(CallHome[r])'
    BY DEF CanUndo
  <2>1. Full(CallHome[r]) BY <1>4 DEF CanUndo
  <2>2. ASSUME call[c].at = "contract", CallHome[r] = CallHome[c] PROVE FALSE
    <3>1. AtWork(c) BY <2>2, WorkingIs DEF WorkingAts
    <3>2. newest[CallHome[c]] = call[c].id BY <2>2, <3>1, RowsFacts
    <3>3. call[c].id = c BY <2>2, CallsHaveRuns, MigrateTypesAre DEF CallShape
    <3>q. QED BY <1>4, <2>2, <3>2, <3>3
  <2>q. QED BY <1>h, <1>t, <2>1, <2>2
<1>i. \A d \in Calls : call'[d].at \in UndoAts => call'[d].id \in Runs
  BY DEF UndoAts, MigrateTypes, CallShape, Calls
<1>5. ASSUME NEW d \in Calls PROVE UndoneBy(d)'
  <2> SUFFICES ASSUME call'[d].at \in UndoAts, NEW r, NEW h, r = call'[d].id, h = call'[d].reach
               PROVE  CanUndo(r, h)'
    BY DEF UndoneBy, CanUndo
  <2>0. r \in Runs BY <1>i
  <2>1. CASE d = c
    <3>1. CASE h = "contract" BY <3>1 DEF CanUndo
    <3>2. CASE h # "contract" BY <1>4, <2>0, <2>1, <3>2
    <3>q. QED BY <3>1, <3>2
  <2>2. CASE d # c
    <3>1. call[d].at \in UndoAts /\ call[d].id = r /\ call[d].reach = h BY <1>m, <2>2
    <3>2. CanUndo(r, h) BY <3>1, RowsFacts
    <3>3. ASSUME r = c PROVE call[c].at # "contract"
      <4>1. d \in Undos BY <1>t, <2>2, <3>1, <3>3, MigrateTypesAre DEF CallShape
      <4>2. Over(c) BY <3>1, <3>3, <4>1 DEF SlotInv, UndosUndo, UndoAts
      <4>q. QED BY <4>2 DEF Over
    <3>q. QED BY <1>4, <2>0, <3>2, <3>3
  <2>q. QED BY <2>1, <2>2
<1>6. ASSUME NEW r \in Runs, Undoable(runRecord'[r].status) PROVE CanUndo(r, runRecord[r].reach)'
  <2> SUFFICES ASSUME NEW h, h = runRecord'[r].reach PROVE CanUndo(r, h)'
    BY DEF CanUndo
  <2>1. CASE Undoable(runRecord[r].status) /\ runRecord'[r] = runRecord[r]
    <3>1. CanUndo(r, h) BY <2>1, RowsFacts
    <3>2. Over(r) BY <2>1 DEF SlotInv, RecordedIsOver, Undoable
    <3>q. QED BY <1>4, <3>1, <3>2 DEF Over
  <2>2. CASE h = "contract" BY <2>2 DEF CanUndo
  <2>3. CASE CanUndo(r, h) /\ call[c].at # "contract" BY <1>4, <2>3
  <2>q. QED BY <1>6, <2>1, <2>2, <2>3
<1>7. UndoRestores' BY <1>5, <1>6 DEF UndoRestores, UndoneBy, UndoAts, Undoable
<1>8. Migrate!RowsKeepAValue'
  <2> SUFFICES ASSUME NEW j \in Hosts \ mixed PROVE Rows \subseteq urgent'[j] \cup priority'[j]
    BY DEF Migrate!RowsKeepAValue, Hosts
  <2>1. CASE j = CallHome[c] BY <2>1
  <2>2. CASE j # CallHome[c]
    <3>1. Rows \subseteq urgent[j] \cup priority[j] BY RowsFacts
    <3>q. QED BY <2>2, <3>1
  <2>q. QED BY <2>1, <2>2
<1>q. QED BY <1>1, <1>2, <1>3, <1>7, <1>8 DEF RowsInv

----------------------------------------------------------------------------
\* A step that leaves the rows alone, of a call that neither starts nor stops undoing.
LEMMA RowsKept ==
  ASSUME MigrateTypes, MigrateTypes', SlotInv, RowsInv, NEW c \in Calls, Moves(c), RowsStay,
         AtWork(c)' => AtWork(c) /\ call'[c].id = call[c].id,
         CallHome[c] \notin mixed => CopiedBy(c)',
         call[c].at # "contract",
         call'[c].at \in UndoAts => call'[c].reach = "contract" \/ CanUndo(call'[c].id, call'[c].reach),
         \A r \in Runs : Undoable(runRecord'[r].status) =>
            \/ Undoable(runRecord[r].status) /\ runRecord'[r] = runRecord[r]
            \/ runRecord'[r].reach = "contract"
            \/ CanUndo(r, runRecord'[r].reach)
  PROVE  RowsInv'
<1>1. UNCHANGED <<urgent, priority, newest, mixed>> BY DEF RowsStay
<1>2. CallHome[c] \notin mixed => CopiedBy(c)' /\ Rows \subseteq urgent'[CallHome[c]] \cup priority'[CallHome[c]]
  BY <1>1, RowsFacts, HomesAreHosts
<1>3. \A j \in Hosts : Full(j) => Full(j)' BY <1>1 DEF Full
<1>q. QED BY <1>1, <1>2, <1>3, RowsMove

\* A step outside the phases.
LEMMA RowsAside ==
  ASSUME MigrateTypes, MigrateTypes', SlotInv, RowsInv, NEW c \in Calls, Moves(c), RowsStay,
         call'[c].at \notin WorkingAts \cup UndoAts, call[c].at # "contract",
         \A r \in Runs : Undoable(runRecord'[r].status) =>
            \/ Undoable(runRecord[r].status) /\ runRecord'[r] = runRecord[r]
            \/ runRecord'[r].reach = "contract"
            \/ CanUndo(r, runRecord'[r].reach)
  PROVE  RowsInv'
<1>1. ~AtWork(c)' /\ CopiedBy(c)' BY WorkingIs DEF WorkingAts, CopiedBy
<1>q. QED BY <1>1, RowsKept

\* What a save leaves of what the records say.
LEMMA SavedGoing ==
  ASSUME MigrateTypes, NEW c \in Calls, call[c].id \in Runs, (\E h : Saved(c, "going", h)) \/ Untold,
         NEW r \in Runs, Undoable(runRecord'[r].status)
  PROVE  Undoable(runRecord[r].status) /\ runRecord'[r] = runRecord[r]
<1>1. CASE Untold BY <1>1 DEF Untold
<1>2. CASE \E h : Saved(c, "going", h)
  <2>1. PICK h : Saved(c, "going", h) BY <1>2
  <2>2. CASE runRecord'[r] = runRecord[r] BY <2>2
  <2>3. CASE runRecord'[r] = [status |-> "going", reach |-> h] BY <2>3 DEF Undoable
  <2>q. QED BY <2>1, <2>2, <2>3, SavedTells
<1>q. QED BY <1>1, <1>2

LEMMA RowsOfClaims ==
  ASSUME MigrateTypes, MigrateTypes', SlotInv, RowsInv, NEW c \in Calls,
         \/ Migrate!Claim(c) \/ Migrate!CreateClaimed(c) \/ Migrate!Who(c) \/ Migrate!Look(c)
         \/ Migrate!MarkActive(c) \/ Migrate!Create(c)
  PROVE  RowsInv'
<1>t. call[c] \in CallRecs BY MigrateTypesAre
<1>a. ASSUME InMemory(c) PROVE call'[c].at \in {"expand", "look"} /\ UNCHANGED runRecord
  BY <1>a, <1>t, InMemoryAt DEF InMemory
<1>1. CASE Migrate!Claim(c)
  <2>1. call'[c].at \in {"claim", "who", "expand", "look"} BY <1>1, <1>a, <1>t, ClaimStep DEF Enters, CallRecs
  <2>q. QED BY <1>1, <2>1, ClaimStep, RowsAside DEF WorkingAts, UndoAts
<1>2. CASE Migrate!CreateClaimed(c)
  <2>1. call'[c].at \in {"expand", "look"} BY <1>2, <1>a, <1>t, CreateClaimedStep DEF Enters, CallRecs
  <2>2. \A r \in Runs : Undoable(runRecord'[r].status) => runRecord'[r] = runRecord[r]
    BY <1>2, <1>a, CreateClaimedStep DEF Undoable
  <2>q. QED BY <1>2, <2>1, <2>2, CreateClaimedStep, RowsAside DEF WorkingAts, UndoAts
<1>3. CASE Migrate!Who(c)
  <2>1. call'[c].at \in {"expand", "look"} /\ UNCHANGED runRecord BY <1>3, <1>a, <1>t, WhoStep DEF Untold, CallRecs
  <2>q. QED BY <1>3, <2>1, WhoStep, RowsAside DEF WorkingAts, UndoAts
<1>4. CASE Migrate!Look(c)
  BY <1>4, LookStep, RowsAside DEF WorkingAts, UndoAts
<1>5. CASE Migrate!MarkActive(c)
  <2>1. call'[c].at = "create" BY <1>5, <1>t, MarkStep, EnteredAt
  <2>q. QED BY <1>5, <2>1, MarkStep, RowsAside DEF WorkingAts, UndoAts
<1>6. CASE Migrate!Create(c)
  <2>1. call'[c].at = "expand" BY <1>6, <1>t, CreateStep DEF Enters, CallRecs
  <2>2. call[c].id \in Runs BY <1>6, CreateStep, CallsHaveRuns
  <2>3. \A r \in Runs : Undoable(runRecord'[r].status) => Undoable(runRecord[r].status) /\ runRecord'[r] = runRecord[r]
    BY <1>6, <2>2, CreateStep, SavedGoing
  <2>q. QED BY <1>6, <2>1, <2>3, CreateStep, RowsAside DEF WorkingAts, UndoAts
<1>q. QED BY <1>1, <1>2, <1>3, <1>4, <1>5, <1>6

LEMMA RowsOfPhases ==
  ASSUME MigrateTypes, MigrateTypes', SlotInv, RowsInv, NEW c \in Calls,
         \/ Migrate!CountPending(c) \/ Migrate!BackfillBatch(c) \/ Migrate!Contract(c)
         \/ Migrate!Complete(c) \/ Migrate!Clear(c)
  PROVE  RowsInv'
<1>t. call[c] \in CallRecs /\ CallHome[c] \in Hosts BY MigrateTypesAre, HomesAreHosts
<1>r. \A w \in Rows : w \in Nat \ {0} BY MigrationAssumption, FS_CardinalityType
<1>c. call[c].at \in {"count", "backfill", "contract", "complete", "clear"} => c \in Runs /\ call[c].id = c
  BY CallsHaveRuns, MigrateTypesAre DEF CallShape
<1>u. ASSUME call[c].at \in {"count", "backfill"} PROVE CanUndo(c, call[c].reach)
  BY <1>u, RowsFacts DEF CopiedBy, CanUndo
<1>1. CASE Migrate!CountPending(c)
  <2>0. Moves(c) /\ RowsStay /\ call[c].at = "count" /\ (Saved(c, "going", call[c].reach) \/ Untold)
    BY <1>1, CountStep
  <2>1. /\ call'[c].at \in {"contract", "backfill", "rollbackContract"} /\ call'[c].id = c
        /\ call'[c].reach = call[c].reach /\ call'[c].cursor = call[c].cursor
        /\ call'[c].at = "contract" => Copied(CallHome[c])
    BY <1>1, <1>c, <1>t, <2>0, CountStep, EnteredAt
  <2>2. call[c].cursor = 0 BY <2>0, MigrateTypesAre, AtsAre DEF CallShape
  <2>3. ASSUME CallHome[c] \notin mixed PROVE CopiedBy(c)'
    <3>1. Full(CallHome[c]) BY <2>0, <2>3, RowsFacts DEF CopiedBy
    <3>2. \A w \in Rows : ~(w <= 0) BY <1>r
    <3>q. QED BY <2>0, <2>1, <2>2, <3>1, <3>2 DEF CopiedBy, Full, Copied, RowsStay
  <2>4. AtWork(c) BY <2>0, WorkingIs DEF WorkingAts
  <2>5. \A r \in Runs : Undoable(runRecord'[r].status) => Undoable(runRecord[r].status) /\ runRecord'[r] = runRecord[r]
    BY <1>c, <2>0, SavedGoing
  <2>q. QED BY <1>c, <1>u, <2>0, <2>1, <2>3, <2>4, <2>5, RowsKept
<1>2. CASE Migrate!BackfillBatch(c)
  <2>0. /\ Moves(c) /\ UNCHANGED <<urgent, newest, mixed>> /\ call[c].at = "backfill"
        /\ Saved(c, "going", call[c].reach) \/ Untold
        /\ \A i \in Hosts : priority[i] \subseteq priority'[i]
    BY <1>2, BackfillStep
  <2>1. /\ call'[c].at \in {"contract", "backfill", "rollbackContract"} /\ call'[c].id = c
        /\ call'[c].reach = call[c].reach
    <3>1. CASE Enters(c, "rollbackContract") BY <1>c, <1>t, <2>0, <3>1, EnteredAt
    <3>2. CASE /\ call'[c].at \in {"backfill", "contract"}
               /\ call'[c] = [call[c] EXCEPT !.at = call'[c].at, !.cursor = call'[c].cursor]
      BY <1>c, <1>t, <2>0, <3>2 DEF CallRecs
    <3>q. QED BY <1>2, <3>1, <3>2, BackfillStep
  <2>2. ASSUME CallHome[c] \notin mixed PROVE CopiedBy(c)'
    <3>1. Full(CallHome[c]) /\ \A w \in Rows : w <= call[c].cursor => w \in priority[CallHome[c]]
      BY <2>0, <2>2, RowsFacts DEF CopiedBy
    <3>2. Full(CallHome[c])' BY <2>0, <3>1 DEF Full
    <3>3. CASE Enters(c, "rollbackContract")
      <4>1. call'[c].at = "rollbackContract" BY <1>t, <3>3 DEF Enters, CallRecs
      <4>q. QED BY <4>1 DEF CopiedBy
    <3>4. CASE /\ Upto(c, call'[c].cursor)
               /\ call'[c].at = "contract" => Copied(CallHome[c])'
      BY <2>1, <3>2, <3>4 DEF CopiedBy, Upto
    <3>q. QED BY <1>2, <3>1, <3>3, <3>4, BackfillStep
  <2>3. AtWork(c) BY <2>0, WorkingIs DEF WorkingAts
  <2>4. \A r \in Runs : Undoable(runRecord'[r].status) => Undoable(runRecord[r].status) /\ runRecord'[r] = runRecord[r]
    BY <1>c, <2>0, SavedGoing
  <2>5. \A j \in Hosts : j # CallHome[c] => priority'[j] = priority[j] BY <1>2, BackfillStep
  <2>6. CallHome[c] \notin mixed => Rows \subseteq urgent'[CallHome[c]] \cup priority'[CallHome[c]]
    BY <1>t, <2>0, RowsFacts
  <2>7. \A j \in Hosts : Full(j) => Full(j)' BY <2>0 DEF Full
  <2>q. QED BY <1>c, <1>u, <2>0, <2>1, <2>2, <2>3, <2>4, <2>5, <2>6, <2>7, RowsMove
<1>3. CASE Migrate!Contract(c)
  <2>0. /\ Moves(c) /\ UNCHANGED <<priority, newest, mixed>> /\ call[c].at = "contract"
        /\ Saved(c, "going", "contract") \/ Untold
        /\ \A j \in Hosts : j # CallHome[c] => urgent'[j] = urgent[j]
    BY <1>3, ContractStep
  <2>1. call'[c].at \in {"complete", "rollbackContract"} /\ call'[c].id = c /\ call'[c].reach = "contract"
    <3>1. CASE call'[c] = [call[c] EXCEPT !.at = "complete", !.cursor = 0, !.reach = "contract"]
      BY <1>c, <1>t, <2>0, <3>1 DEF CallRecs
    <3>2. CASE call'[c] = [call[c] EXCEPT !.at = "rollbackContract", !.cursor = 0, !.reach = "contract"]
      BY <1>c, <1>t, <2>0, <3>2 DEF CallRecs
    <3>q. QED BY <1>3, <3>1, <3>2, ContractStep
  <2>2. ASSUME CallHome[c] \notin mixed
        PROVE  CopiedBy(c)' /\ Rows \subseteq urgent'[CallHome[c]] \cup priority'[CallHome[c]]
    <3>1. Copied(CallHome[c]) BY <2>0, <2>2, RowsFacts DEF CopiedBy
    <3>q. QED BY <2>0, <2>1, <3>1 DEF CopiedBy, Copied
  <2>3. AtWork(c) BY <2>0, WorkingIs DEF WorkingAts
  <2>4. \A r \in Runs : Undoable(runRecord'[r].status) => Undoable(runRecord[r].status) /\ runRecord'[r] = runRecord[r]
    BY <1>c, <2>0, SavedGoing
  <2>5. \A j \in Hosts : Full(j) => Full(j)' \/ (call[c].at = "contract" /\ j = CallHome[c])
    BY <2>0 DEF Full
  <2>q. QED BY <1>c, <2>0, <2>1, <2>2, <2>3, <2>4, <2>5, RowsMove
<1>4. CASE Migrate!Complete(c)
  <2>0. Moves(c) /\ RowsStay /\ call[c].at = "complete" /\ Enters(c, "clear") /\ Saved(c, "completed", "contract")
    BY <1>4, CompleteStep
  <2>1. call'[c].at = "clear" BY <1>t, <2>0 DEF Enters, CallRecs
  <2>2. ASSUME NEW r \in Runs, Undoable(runRecord'[r].status)
        PROVE  \/ Undoable(runRecord[r].status) /\ runRecord'[r] = runRecord[r]
               \/ runRecord'[r].reach = "contract"
    <3>1. CASE runRecord'[r] = runRecord[r] BY <2>2, <3>1
    <3>2. CASE runRecord'[r] = [status |-> "completed", reach |-> "contract"] BY <3>2
    <3>q. QED BY <1>c, <2>0, <3>1, <3>2, SavedTells
  <2>q. QED BY <2>0, <2>1, <2>2, RowsAside DEF WorkingAts, UndoAts
<1>5. CASE Migrate!Clear(c)
  <2>0. Moves(c) /\ call'[c] = Migrate!Blank(c, "done") /\ RowsStay /\ call[c].at = "clear" /\ UNCHANGED runRecord
    BY <1>5, ClearStep DEF Stops, Cleared
  <2>1. call'[c].at = "done" BY <2>0 DEF Migrate!Blank
  <2>q. QED BY <2>0, <2>1, RowsAside DEF WorkingAts, UndoAts
<1>q. QED BY <1>1, <1>2, <1>3, <1>4, <1>5

----------------------------------------------------------------------------
LEMMA RowsOfUndoing ==
  ASSUME MigrateTypes, MigrateTypes', SlotInv, RowsInv, NEW c \in Calls,
         \/ Migrate!RollbackContract(c) \/ Migrate!RollbackExpand(c)
         \/ Migrate!ClearUndone(c) \/ Migrate!SaveUndone(c)
  PROVE  RowsInv'
<1>t. call[c] \in CallRecs /\ CallHome[c] \in Hosts BY MigrateTypesAre, HomesAreHosts
<1>u. /\ urgent \in [Hosts -> SUBSET Rows] /\ urgent' \in [Hosts -> SUBSET Rows]
  BY DEF MigrateTypes, Migrate!TypeOK, Hosts
<1>1. CASE Migrate!RollbackContract(c)
  <2>0. /\ Moves(c) /\ call[c].at = "rollbackContract" /\ UNCHANGED <<priority, newest, mixed>> /\ call[c].id \in Runs
        /\ Saved(c, "going", call[c].reach) \/ Untold
        /\ \A i \in Hosts : urgent[i] \subseteq urgent'[i] /\ (i # CallHome[c] => urgent'[i] = urgent[i])
    BY <1>1, RollbackContractStep, CallsHaveRuns
  <2>1. /\ call'[c].at \in {"rollbackExpand", "clearUndone"} /\ call'[c].id = call[c].id /\ call'[c].reach = call[c].reach
        /\ call'[c].at = "rollbackExpand" => urgent'[CallHome[c]] = Migrate!Restore(c)
    <3>1. CASE Enters(c, "rollbackExpand") /\ urgent'[CallHome[c]] = Migrate!Restore(c)
      BY <1>t, <3>1 DEF Enters, CallRecs
    <3>2. CASE EndsWith(c, "failed") BY <1>t, <3>2 DEF EndsWith, CallRecs
    <3>q. QED BY <1>1, <3>1, <3>2, RollbackContractStep
  <2>2. AtWork(c) BY <2>0, WorkingIs DEF WorkingAts
  <2>3. CanUndo(call[c].id, call[c].reach) BY <2>0, RowsFacts DEF UndoAts
  <2>4. ASSUME CallHome[c] \notin mixed
        PROVE  CopiedBy(c)' /\ Rows \subseteq urgent'[CallHome[c]] \cup priority'[CallHome[c]]
    <3>1. newest[CallHome[c]] = call[c].id /\ CallHome[call[c].id] = CallHome[c] BY <2>2, <2>4, RowsFacts
    <3>2. call[c].reach = "contract" \/ Full(CallHome[c]) BY <2>3, <2>4, <3>1 DEF CanUndo
    <3>3. Migrate!Restore(c) = Rows BY <3>2 DEF Migrate!Restore, Full
    <3>4. CopiedBy(c)' BY <2>1, <3>3 DEF CopiedBy, Full
    <3>q. QED BY <1>t, <2>0, <2>4, <3>4, RowsFacts
  <2>5. \A j \in Hosts : Full(j) => Full(j)' BY <1>u, <2>0 DEF Full
  <2>6. \A r \in Runs : Undoable(runRecord'[r].status) => Undoable(runRecord[r].status) /\ runRecord'[r] = runRecord[r]
    BY <2>0, SavedGoing
  <2>q. QED BY <2>0, <2>1, <2>2, <2>3, <2>4, <2>5, <2>6, RowsMove
<1>2. CASE Migrate!RollbackExpand(c)
  <2>0. /\ Moves(c) /\ call[c].at = "rollbackExpand" /\ UNCHANGED <<urgent, newest, mixed>> /\ Untold
        /\ \A i \in Hosts : i # CallHome[c] => priority'[i] = priority[i]
    BY <1>2, RollbackExpandStep
  <2>1. call'[c].at = "clearUndone" /\ call'[c].id = call[c].id /\ call'[c].reach = call[c].reach
    <3>1. CASE EndsWith(c, "rolled_back") BY <1>t, <3>1 DEF EndsWith, CallRecs
    <3>2. CASE EndsWith(c, "failed") BY <1>t, <3>2 DEF EndsWith, CallRecs
    <3>q. QED BY <1>2, <3>1, <3>2, RollbackExpandStep
  <2>2. AtWork(c) BY <2>0, WorkingIs DEF WorkingAts
  <2>3. CanUndo(call[c].id, call[c].reach) BY <2>0, RowsFacts DEF UndoAts
  <2>4. ASSUME CallHome[c] \notin mixed
        PROVE  CopiedBy(c)' /\ Rows \subseteq urgent'[CallHome[c]] \cup priority'[CallHome[c]]
    <3>1. Full(CallHome[c]) BY <2>0, <2>4, RowsFacts DEF CopiedBy
    <3>q. QED BY <2>0, <2>1, <3>1 DEF CopiedBy, Full
  <2>5. \A j \in Hosts : Full(j) => Full(j)' BY <2>0 DEF Full
  <2>q. QED BY <2>0, <2>1, <2>2, <2>3, <2>4, <2>5, RowsMove DEF Untold
<1>3. CASE Migrate!ClearUndone(c)
  <2>0. Moves(c) /\ RowsStay /\ call[c].at = "clearUndone" /\ UNCHANGED runRecord /\ Enters(c, "saveUndone")
    BY <1>3, ClearUndoneStep DEF Cleared
  <2>1. call'[c].at = "saveUndone" /\ call'[c].id = call[c].id /\ call'[c].reach = call[c].reach
    BY <1>t, <2>0 DEF Enters, CallRecs
  <2>2. CanUndo(call[c].id, call[c].reach) BY <2>0, RowsFacts DEF UndoAts
  <2>3. ~AtWork(c)' /\ CopiedBy(c)' BY <2>1, WorkingIs DEF WorkingAts, CopiedBy
  <2>q. QED BY <2>0, <2>1, <2>2, <2>3, RowsKept
<1>4. CASE Migrate!SaveUndone(c)
  <2>0. /\ Moves(c) /\ call'[c] = Migrate!Blank(c, "done") /\ RowsStay /\ call[c].at = "saveUndone"
        /\ Saved(c, call[c].end, call[c].reach) /\ call[c].id \in Runs
    BY <1>4, SaveUndoneStep, CallsHaveRuns DEF Stops
  <2>1. call'[c].at = "done" BY <2>0 DEF Migrate!Blank
  <2>2. CanUndo(call[c].id, call[c].reach) BY <2>0, RowsFacts DEF UndoAts
  <2>3. ASSUME NEW r \in Runs, Undoable(runRecord'[r].status)
        PROVE  \/ Undoable(runRecord[r].status) /\ runRecord'[r] = runRecord[r]
               \/ CanUndo(r, runRecord'[r].reach)
    <3>1. CASE runRecord'[r] = runRecord[r] BY <2>3, <3>1
    <3>2. CASE r = call[c].id /\ runRecord'[r] = [status |-> call[c].end, reach |-> call[c].reach]
      BY <2>2, <3>2
    <3>q. QED BY <2>0, <3>1, <3>2, SavedTells
  <2>q. QED BY <2>0, <2>1, <2>3, RowsAside DEF WorkingAts, UndoAts
<1>q. QED BY <1>1, <1>2, <1>3, <1>4

\* A call that starts to work on the rows: alone, or its instance is set aside.
LEMMA RowsStart ==
  ASSUME MigrateTypes, MigrateTypes', SlotInv, RowsInv, NEW c \in Calls, Moves(c), UNCHANGED <<urgent, priority>>,
         \A j \in Hosts : j # CallHome[c] => newest'[j] = newest[j],
         newest'[CallHome[c]] # newest[CallHome[c]] => newest'[CallHome[c]] = c,
         call'[c].at \in {"count", "rollbackContract"},
         \/ mixed' = mixed \cup {CallHome[c]}
         \/ mixed' = mixed /\ newest'[CallHome[c]] = call'[c].id /\ Migrate!Beside(c) = {},
         CallHome[c] \in mixed' \/ Full(CallHome[c]) \/ (UNCHANGED newest /\ call'[c].at = "rollbackContract"),
         \/ CanUndo(call'[c].id, call'[c].reach)
         \/ call'[c].id = c /\ (CallHome[c] \in mixed' \/ Full(CallHome[c])),
         \A r \in Runs : Undoable(runRecord'[r].status) => Undoable(runRecord[r].status) /\ runRecord'[r] = runRecord[r]
  PROVE  RowsInv'
<1>h. \A d \in Calls : CallHome[d] \in Hosts BY HomesAreHosts
<1>m. \A d \in Calls \ {c} : call'[d] = call[d] BY DEF Moves
<1>x. mixed \subseteq mixed' /\ mixed' \subseteq mixed \cup {CallHome[c]} OBVIOUS
<1>w. \A d \in Calls \ {c} : (AtWork(d)' <=> AtWork(d)) BY <1>m, WorkingIs
\* Where it starts alone, no other call works.
<1>a. ASSUME NEW d \in Calls \ {c}, AtWork(d), CallHome[d] = CallHome[c], CallHome[c] \notin mixed' PROVE FALSE
  <2>1. d \notin Migrate!Beside(c) BY <1>a
  <2>q. QED BY <1>a, <2>1, AtsAre DEF Migrate!Beside, AtWork
<1>1. WorksAlone'
  <2>1. ASSUME NEW d \in Calls, AtWork(d)', CallHome[d] \notin mixed'
        PROVE  /\ newest'[CallHome[d]] = call'[d].id
               /\ \A e \in Calls : AtWork(e)' /\ CallHome[e] = CallHome[d] => e = d
    <3>1. CASE CallHome[d] = CallHome[c]
      <4>1. d = c BY <1>a, <1>w, <2>1, <3>1
      <4>q. QED BY <1>a, <1>w, <2>1, <4>1
    <3>2. CASE CallHome[d] # CallHome[c]
      <4>1. d # c /\ AtWork(d) /\ CallHome[d] \notin mixed BY <1>w, <1>x, <2>1, <3>2
      <4>2. /\ newest[CallHome[d]] = call[d].id
            /\ \A e \in Calls : AtWork(e) /\ CallHome[e] = CallHome[d] => e = d
        BY <4>1 DEF RowsInv, WorksAlone
      <4>q. QED BY <1>h, <1>m, <1>w, <3>2, <4>1, <4>2
    <3>q. QED BY <3>1, <3>2
  <2>q. QED BY <2>1 DEF WorksAlone
<1>2. NewestIsHome'
  <2> SUFFICES ASSUME NEW j \in Hosts, newest'[j] # Nobody PROVE CallHome[newest'[j]] = j
    BY DEF NewestIsHome
  <2>1. CASE newest'[j] = newest[j] BY <2>1 DEF RowsInv, NewestIsHome
  <2>2. CASE newest'[j] # newest[j] BY <2>2
  <2>q. QED BY <2>1, <2>2
<1>3. CopiesSoFar'
  <2>1. ASSUME NEW d \in Calls, CallHome[d] \notin mixed' PROVE CopiedBy(d)'
    <3>1. CASE d = c BY <2>1, <3>1 DEF CopiedBy, Full
    <3>2. CASE d # c
      <4>1. CopiedBy(d) BY <1>x, <2>1, RowsFacts
      <4>q. QED BY <1>m, <3>2, <4>1 DEF CopiedBy, Full, Copied
    <3>q. QED BY <3>1, <3>2
  <2>q. QED BY <2>1 DEF CopiesSoFar, CopiedBy
<1>f. ASSUME NEW r, CallHome[r] = CallHome[c], CallHome[c] \in mixed' \/ Full(CallHome[c]), NEW h PROVE CanUndo(r, h)'
  BY <1>f DEF CanUndo, Full
<1>4. ASSUME NEW r, NEW h, CanUndo(r, h), CallHome[r] \in Hosts PROVE CanUndo(r, h)'
  <2>1. CASE CallHome[r] # CallHome[c] BY <1>4, <1>x, <2>1 DEF CanUndo, Full
  <2>2. CASE CallHome[r] = CallHome[c] /\ UNCHANGED newest BY <1>4, <1>x, <2>2 DEF CanUndo, Full
  <2>3. CASE CallHome[r] = CallHome[c] /\ (CallHome[c] \in mixed' \/ Full(CallHome[c])) BY <1>f, <2>3
  <2>q. QED BY <2>1, <2>2, <2>3
<1>i. /\ \A d \in Calls : call'[d].at \in UndoAts => call'[d].id \in Runs
      /\ \A r \in Runs : CallHome[r] \in Hosts
  BY <1>h DEF UndoAts, MigrateTypes, CallShape, Calls
<1>5. ASSUME NEW d \in Calls PROVE UndoneBy(d)'
  <2> SUFFICES ASSUME call'[d].at \in UndoAts, NEW r, NEW h, r = call'[d].id, h = call'[d].reach
               PROVE  CanUndo(r, h)'
    BY DEF UndoneBy, CanUndo
  <2>0. CallHome[r] \in Hosts BY <1>i
  <2>1. CASE d = c BY <1>4, <1>f, <2>0, <2>1
  <2>2. CASE d # c
    <3>1. CanUndo(r, h) BY <1>m, <2>2, RowsFacts
    <3>q. QED BY <1>4, <2>0, <3>1
  <2>q. QED BY <2>1, <2>2
<1>6. ASSUME NEW r \in Runs, Undoable(runRecord'[r].status) PROVE CanUndo(r, runRecord[r].reach)'
  <2> SUFFICES ASSUME NEW h, h = runRecord'[r].reach PROVE CanUndo(r, h)'
    BY DEF CanUndo
  <2>1. CanUndo(r, h) BY <1>6, RowsFacts
  <2>q. QED BY <1>4, <1>i, <2>1
<1>7. UndoRestores' BY <1>5, <1>6 DEF UndoRestores, UndoneBy, UndoAts, Undoable
<1>8. Migrate!RowsKeepAValue' BY <1>x, RowsFacts DEF Migrate!RowsKeepAValue, Hosts
<1>q. QED BY <1>1, <1>2, <1>3, <1>7, <1>8 DEF RowsInv

----------------------------------------------------------------------------
LEMMA RowsOfStarts ==
  ASSUME MigrateTypes, MigrateTypes', SlotInv, RowsInv, NEW c \in Calls, Migrate!Expand(c) \/ Migrate!Rollback(c)
  PROVE  RowsInv'
<1>t. call[c] \in CallRecs /\ CallHome[c] \in Hosts BY MigrateTypesAre, HomesAreHosts
<1>m. mixed \subseteq Hosts /\ newest \in [Hosts -> Runs \cup {Nobody}]
  BY DEF MigrateTypes, Migrate!TypeOK, Hosts
<1>1. CASE Migrate!Expand(c)
  <2>0. /\ Moves(c) /\ call[c].at = "expand" /\ c \in Runs
        /\ newest' = [newest EXCEPT ![CallHome[c]] = c] /\ UNCHANGED <<urgent, priority>>
        /\ \/ urgent[CallHome[c]] = Rows /\ Migrate!Beside(c) = {} /\ UNCHANGED mixed
           \/ mixed' = mixed \cup {CallHome[c]}
        /\ Saved(c, "going", "expand") \/ Untold
    BY <1>1, ExpandStep
  <2>1. call[c].id = c BY <2>0, MigrateTypesAre DEF CallShape
  <2>2. call'[c].at \in {"count", "rollbackContract"} /\ call'[c].id = c
    <3>1. CASE call'[c] = [call[c] EXCEPT !.at = "count", !.reach = "expand"] BY <1>t, <2>1, <3>1 DEF CallRecs
    <3>2. CASE call'[c] = [call[c] EXCEPT !.at = "rollbackContract", !.reach = "expand"]
      BY <1>t, <2>1, <3>2 DEF CallRecs
    <3>q. QED BY <1>1, <3>1, <3>2, ExpandStep
  <2>3. newest'[CallHome[c]] = c /\ \A j \in Hosts : j # CallHome[c] => newest'[j] = newest[j]
    BY <1>t, <1>m, <2>0
  <2>4. CallHome[c] \in mixed' \/ Full(CallHome[c]) BY <2>0 DEF Full
  <2>5. \A r \in Runs : Undoable(runRecord'[r].status) => Undoable(runRecord[r].status) /\ runRecord'[r] = runRecord[r]
    <3>1. CASE Untold BY <3>1 DEF Untold
    <3>2. CASE Saved(c, "going", "expand") BY <2>0, <2>1, <3>2, SavedGoing
    <3>q. QED BY <2>0, <3>1, <3>2
  <2>q. QED BY <2>0, <2>2, <2>3, <2>4, <2>5, RowsStart
<1>2. CASE Migrate!Rollback(c)
  <2>0. Moves(c) /\ UNCHANGED <<urgent, priority, newest>> /\ Untold BY <1>2, RollbackStep
  <2>1. PICK r \in Runs :
          /\ runRecord[r].status \in {"completed", "failed"}
          /\ call'[c] = [call[c] EXCEPT !.at = "rollbackContract", !.id = r, !.reach = runRecord[r].reach]
          /\ \/ r = newest[CallHome[c]] /\ Migrate!Beside(c) = {} /\ UNCHANGED mixed
             \/ mixed' = mixed \cup {CallHome[c]}
    BY <1>2, RollbackStep
  <2>2. call'[c].at = "rollbackContract" /\ call'[c].id = r /\ call'[c].reach = runRecord[r].reach
    BY <1>t, <2>1 DEF CallRecs
  <2>3. CanUndo(r, runRecord[r].reach) BY <2>1, RowsFacts DEF Undoable
  <2>q. QED BY <2>0, <2>1, <2>2, <2>3, RowsStart DEF Untold
<1>q. QED BY <1>1, <1>2

LEMMA RowsOfCrash ==
  ASSUME MigrateTypes, MigrateTypes', RowsInv, NEW i \in Hosts, Migrate!Crash(i)
  PROVE  RowsInv'
<1>0. /\ UNCHANGED <<marker, runRecord, strayed>>
      /\ \A c \in Calls : call'[c] = IF CallHome[c] = i /\ call[c].at # "new" THEN Migrate!Blank(c, "done") ELSE call[c]
      /\ urgent'[i] = Rows /\ newest'[i] = Nobody /\ mixed' = mixed \ {i}
      /\ \A j \in Hosts \ {i} : urgent'[j] = urgent[j] /\ priority'[j] = priority[j] /\ newest'[j] = newest[j]
  BY HostCrashes
<1>h. \A d \in Calls : CallHome[d] \in Hosts BY HomesAreHosts
<1>1. \A c \in Calls : CallHome[c] # i => call'[c] = call[c] BY <1>0
<1>2. ASSUME NEW c \in Calls, CallHome[c] = i PROVE call'[c].at \in {"new", "done"}
  <2>1. CASE call[c].at = "new" BY <1>0, <2>1
  <2>2. CASE call'[c] = Migrate!Blank(c, "done") BY <2>2 DEF Migrate!Blank
  <2>q. QED BY <1>0, <1>2, <2>1, <2>2
<1>3. \A c \in Calls : AtWork(c)' => CallHome[c] # i /\ AtWork(c)
  BY <1>1, <1>2, WorkingIs DEF WorkingAts
<1>4. WorksAlone' BY <1>0, <1>1, <1>3, <1>h DEF RowsInv, WorksAlone
<1>5. NewestIsHome' BY <1>0 DEF RowsInv, NewestIsHome
<1>6. CopiesSoFar'
  <2>1. ASSUME NEW c \in Calls, CallHome[c] \notin mixed' PROVE CopiedBy(c)'
    <3>1. CASE CallHome[c] = i BY <1>2, <3>1 DEF CopiedBy
    <3>2. CASE CallHome[c] # i
      <4>1. CopiedBy(c) BY <1>0, <2>1, <3>2, RowsFacts
      <4>q. QED BY <1>0, <1>1, <1>h, <3>2, <4>1 DEF CopiedBy, Full, Copied
    <3>q. QED BY <3>1, <3>2
  <2>q. QED BY <2>1 DEF CopiesSoFar, CopiedBy
<1>n. Nobody \notin Runs /\ \A r \in Runs : CallHome[r] \in Hosts BY <1>h, MigrationAssumption DEF Calls
<1>7. ASSUME NEW r \in Runs, NEW h, CanUndo(r, h) PROVE CanUndo(r, h)'
  <2>1. CASE CallHome[r] = i BY <1>0, <1>n, <2>1 DEF CanUndo
  <2>2. CASE CallHome[r] # i BY <1>0, <1>7, <1>n, <2>2 DEF CanUndo, Full
  <2>q. QED BY <2>1, <2>2
<1>i. \A d \in Calls : call'[d].at \in UndoAts => call'[d].id \in Runs
  BY DEF UndoAts, MigrateTypes, CallShape, Calls
<1>8. ASSUME NEW d \in Calls PROVE UndoneBy(d)'
  <2> SUFFICES ASSUME call'[d].at \in UndoAts, NEW r, NEW h, r = call'[d].id, h = call'[d].reach
               PROVE  CanUndo(r, h)'
    BY DEF UndoneBy, CanUndo
  <2>1. call'[d] = call[d] BY <1>1, <1>2 DEF UndoAts
  <2>2. CanUndo(r, h) BY <2>1, RowsFacts
  <2>q. QED BY <1>7, <1>i, <2>2
<1>9. ASSUME NEW r \in Runs, Undoable(runRecord'[r].status) PROVE CanUndo(r, runRecord[r].reach)'
  <2> SUFFICES ASSUME NEW h, h = runRecord'[r].reach PROVE CanUndo(r, h)'
    BY DEF CanUndo
  <2>1. CanUndo(r, h) BY <1>0, <1>9, RowsFacts
  <2>q. QED BY <1>7, <2>1
<1>10. UndoRestores' BY <1>8, <1>9 DEF UndoRestores, UndoneBy, UndoAts, Undoable
<1>11. Migrate!RowsKeepAValue' BY <1>0, RowsFacts DEF Migrate!RowsKeepAValue, Hosts
<1>q. QED BY <1>4, <1>5, <1>6, <1>10, <1>11 DEF RowsInv

LEMMA NextRows == MigrateTypes /\ SlotInv /\ RowsInv /\ [Migrate!Next]_(Migrate!vars) => RowsInv'
<1> SUFFICES ASSUME MigrateTypes, SlotInv, RowsInv, [Migrate!Next]_(Migrate!vars) PROVE RowsInv'
  OBVIOUS
<1>t. MigrateTypes' BY NextMigrateTypes
<1>1. ASSUME NEW c \in Calls,
             \/ Migrate!Claim(c) \/ Migrate!CreateClaimed(c) \/ Migrate!Who(c) \/ Migrate!Look(c)
             \/ Migrate!MarkActive(c) \/ Migrate!Create(c)
      PROVE  RowsInv'
  BY <1>1, <1>t, RowsOfClaims
<1>2. ASSUME NEW c \in Calls,
             \/ Migrate!CountPending(c) \/ Migrate!BackfillBatch(c) \/ Migrate!Contract(c)
             \/ Migrate!Complete(c) \/ Migrate!Clear(c)
      PROVE  RowsInv'
  BY <1>2, <1>t, RowsOfPhases
<1>3. ASSUME NEW c \in Calls,
             \/ Migrate!RollbackContract(c) \/ Migrate!RollbackExpand(c)
             \/ Migrate!ClearUndone(c) \/ Migrate!SaveUndone(c)
      PROVE  RowsInv'
  BY <1>3, <1>t, RowsOfUndoing
<1>4. ASSUME NEW c \in Calls, Migrate!Expand(c) \/ Migrate!Rollback(c) PROVE RowsInv'
  BY <1>4, <1>t, RowsOfStarts
<1>5. ASSUME NEW r \in Runs, Migrate!Expire(r) PROVE RowsInv'
  <2>1. /\ RowsStay /\ UNCHANGED call /\ \A q \in Runs : Undoable(runRecord'[q].status) => runRecord'[q] = runRecord[q]
    BY <1>5, RecordExpires DEF Undoable
  <2>q. QED BY <2>1 DEF RowsStay, RowsInv, WorksAlone, NewestIsHome, CopiesSoFar, UndoRestores, CanUndo, Full, Copied,
               AtWork, Migrate!Busy, Migrate!RowsKeepAValue, Undoable
<1>6. ASSUME NEW i \in Hosts, Migrate!Crash(i) PROVE RowsInv' BY <1>6, <1>t, RowsOfCrash
<1>7. CASE UNCHANGED Migrate!vars
  BY <1>7 DEF Migrate!vars, Migrate!store, Migrate!rowVars, RowsInv, WorksAlone, NewestIsHome, CopiesSoFar,
        UndoRestores, CanUndo, Full, Copied, AtWork, Migrate!Busy, Migrate!RowsKeepAValue
<1>q. QED BY <1>1, <1>2, <1>3, <1>4, <1>5, <1>6, <1>7, AtsAre DEF Migrate!Next, Hosts

LEMMA InitSafe == Migrate!Init => SlotInv /\ RowsInv
<1> SUFFICES ASSUME Migrate!Init PROVE SlotInv /\ RowsInv
  OBVIOUS
<1>0. /\ \A c \in Calls : call[c].at = "new" /\ CallHome[c] \in Hosts
      /\ marker = Nobody /\ \A r \in Runs : r \in Calls /\ runRecord[r].status = "none"
      /\ \A i \in Hosts : urgent[i] = Rows /\ newest[i] = Nobody
  BY AtsAre, HomesAreHosts DEF Migrate!Init, Migrate!Blank, Migrate!NoRun, Hosts, Calls
<1>n. Nobody \notin Runs /\ Undos \subseteq Calls BY MigrationAssumption DEF Calls
<1>1. \A c \in Calls : ~Holding(c) /\ ~AtWork(c)
  BY <1>0, AtsAre DEF Holding, AtWork
<1>2. SlotInv
  BY <1>0, <1>1, <1>n DEF SlotInv, HoldersHold, ReclaimersStray, UndosUndo, RecordedIsOver, SlotIsKept
<1>3. RowsInv
  BY <1>0, <1>1 DEF RowsInv, WorksAlone, NewestIsHome, CopiesSoFar, UndoRestores, Migrate!RowsKeepAValue, Hosts
<1>q. QED BY <1>2, <1>3

LEMMA SafeMigrations == MigrateTypes /\ SlotInv /\ RowsInv => MigrationsAreSafe
<1> SUFFICES ASSUME MigrateTypes, SlotInv, RowsInv PROVE MigrationsAreSafe
  OBVIOUS
<1>1. Migrate!OneRunUnlessUnguarded
  <2>1. \A c \in Runs \ strayed : Migrate!Busy(c) => marker = c BY DEF SlotInv, HoldersHold, Holding
  <2>q. QED BY <2>1 DEF Migrate!OneRunUnlessUnguarded
<1>2. Migrate!SlotIsReleased
  <2>1. troubles \in Nat BY MigrationAssumption, MigrateTypesAre DEF StoreTyped
  <2>q. QED BY <2>1 DEF SlotInv, SlotIsKept, Migrate!SlotIsReleased
<1>q. QED BY <1>1, <1>2 DEF MigrationsAreSafe, RowsInv

(* Whatever the instances, runs, rollbacks, rows and batch size: two runs of one   *)
(* migration work together only if one went on without the slot; the slot stays    *)
(* with no run that is over unless Redis failed or an instance crashed; and no row *)
(* is without its old and its new value where runs neither overlap nor are undone  *)
(* out of order (MigrationRunnerService.run, compensate and rollback over          *)
(* MigrationStateStore).                                                           *)
THEOREM MigrationsStaySafe == WorkersSpec => []MigrationsAreSafe
<1> DEFINE Inv == MigrateTypes /\ SlotInv /\ RowsInv
<1>1. Migrate!Init => Inv BY InitMigrate, InitSafe
<1>2. Inv /\ [Migrate!Next]_(Migrate!vars) => Inv' BY NextMigrateTypes, NextSlot, NextRows
<1>3. Inv => MigrationsAreSafe BY SafeMigrations
<1>q. QED BY <1>1, <1>2, <1>3, MigrationAlone, PTL DEF Migrate!Spec

----------------------------------------------------------------------------
(* The reminders. *)
USE RemindersAssumption

LEMMA RemindersAlone == WorkersSpec => Remind!Spec
<1>1. WorkersInit => Remind!Init BY DEF WorkersInit
<1>2. [WorkersNext]_workersVars => [Remind!Next]_(Remind!vars)
  BY DEF WorkersNext, Others, workersVars, remindVars, Remind!vars
<1>q. QED BY <1>1, <1>2, PTL DEF WorkersSpec, Remind!Spec, workersVars

Pairs == Remind!Pairs
NoPair == Remind!NoPair

LEMMA PairsArePairs ==
  /\ NoPair \notin Pairs
  /\ \A p \in Pairs : p[1] \in OpenAtFirst /\ p[2] \in Distances /\ p[2] \in Nat \ {0} /\ Deadlines[p[1]] \in Nat
  /\ \A g \in OpenAtFirst, d \in Distances : <<g, d>> \in Pairs
<1>1. \A p \in Pairs : p[1] \in OpenAtFirst /\ p[2] \in Distances /\ p = <<p[1], p[2]>> BY DEF Pairs, Remind!Pairs
<1>2. \A p \in Pairs : p[2] \in Nat \ {0} /\ Deadlines[p[1]] \in Nat BY <1>1
<1>3. NoPair \notin Pairs BY <1>1 DEF NoPair, Remind!NoPair, Pairs, Remind!Pairs
<1>4. \A g \in OpenAtFirst, d \in Distances : <<g, d>> \in Pairs BY DEF Pairs, Remind!Pairs
<1>q. QED BY <1>1, <1>2, <1>3, <1>4

LEMMA InitReminders == Remind!Init => Remind!TypeOK
BY PairsArePairs DEF Remind!Init, Remind!TypeOK, Pairs, NoPair

LEMMA NextReminders == Remind!TypeOK /\ [Remind!Next]_(Remind!vars) => Remind!TypeOK'
<1> SUFFICES ASSUME Remind!TypeOK, [Remind!Next]_(Remind!vars) PROVE Remind!TypeOK'
  OBVIOUS
<1> USE DEF Remind!TypeOK
<1>p. Pairs = Remind!Pairs /\ NoPair = Remind!NoPair BY DEF Pairs, NoPair
<1>u. Remind!Upset => upsets' \in 0 .. MaxUpsets BY DEF Remind!Upset
<1>1. CASE Remind!Tick BY <1>1 DEF Remind!Tick
<1>2. ASSUME NEW g \in OpenAtFirst, Remind!GigCloses(g) PROVE Remind!TypeOK'
  BY <1>2 DEF Remind!GigCloses
<1>3. ASSUME NEW s \in Schedulers, Remind!RunSweep(s) PROVE Remind!TypeOK'
  <2>1. UNION {{g} \X Remind!Reminded(g) : g \in open} \subseteq Remind!Pairs
    BY DEF Remind!Reminded, Remind!Pairs
  <2>2. todo' \in [Schedulers -> SUBSET Remind!Pairs] BY <1>3, <2>1 DEF Remind!RunSweep
  <2>q. QED BY <1>3, <2>2 DEF Remind!RunSweep
<1>4. ASSUME NEW s \in Schedulers, Remind!ClaimReminder(s) PROVE Remind!TypeOK'
  <2>1. PICK p \in todo[s] :
          /\ todo' = [todo EXCEPT ![s] = @ \ {p}]
          /\ \/ /\ sentKeys' = [sentKeys EXCEPT ![p] = clock + Remind!Ttl(p)]
                /\ holding' = [holding EXCEPT ![s] = p] /\ UNCHANGED <<inMemory, upsets, lost>>
             \/ UNCHANGED <<sentKeys, inMemory, holding, upsets, lost>>
             \/ /\ Remind!Upset /\ lost' = lost \cup {p} /\ UNCHANGED sentKeys
                /\ \/ UNCHANGED <<inMemory, holding>>
                   \/ /\ inMemory' = [inMemory EXCEPT ![s] = @ \cup {p}]
                      /\ holding' = [holding EXCEPT ![s] = p]
    BY <1>4 DEF Remind!ClaimReminder
  <2>2. p \in Remind!Pairs /\ clock + p[2] \in Nat BY <1>p, PairsArePairs
  <2>3. todo' \in [Schedulers -> SUBSET Remind!Pairs] BY <2>1
  <2>4. sentKeys' \in [Remind!Pairs -> Nat] BY <2>1, <2>2 DEF Remind!Ttl
  <2>5. holding' \in [Schedulers -> Remind!Pairs \cup {Remind!NoPair}] BY <2>1, <2>2
  <2>6. inMemory' \in [Schedulers -> SUBSET Remind!Pairs] /\ lost' \subseteq Remind!Pairs BY <2>1, <2>2
  <2>7. upsets' \in 0 .. MaxUpsets BY <1>u, <2>1
  <2>8. UNCHANGED <<clock, open, inSweep, sent>> BY <1>4 DEF Remind!ClaimReminder
  <2>q. QED BY <2>3, <2>4, <2>5, <2>6, <2>7, <2>8
<1>5. ASSUME NEW s \in Schedulers, Remind!Dispatch(s) PROVE Remind!TypeOK'
  <2>1. holding[s] \in Remind!Pairs BY <1>5 DEF Remind!Dispatch
  <2>2. holding' \in [Schedulers -> Remind!Pairs \cup {Remind!NoPair}] BY <1>5 DEF Remind!Dispatch
  <2>3. sent' \in [Remind!Pairs -> Nat] BY <1>5, <2>1 DEF Remind!Dispatch
  <2>4. lost' \subseteq Remind!Pairs BY <1>5, <2>1 DEF Remind!Dispatch
  <2>5. todo' \in [Schedulers -> SUBSET Remind!Pairs] /\ inSweep' \in [Schedulers -> BOOLEAN]
    BY <1>5 DEF Remind!Dispatch
  <2>6. upsets' \in 0 .. MaxUpsets BY <1>5, <1>u DEF Remind!Dispatch
  <2>7. UNCHANGED <<clock, open, sentKeys, inMemory>> BY <1>5 DEF Remind!Dispatch
  <2>q. QED BY <2>2, <2>3, <2>4, <2>5, <2>6, <2>7
<1>6. ASSUME NEW s \in Schedulers, Remind!SweepOver(s) PROVE Remind!TypeOK'
  BY <1>6 DEF Remind!SweepOver
<1>7. ASSUME NEW s \in Schedulers, Remind!Crash(s) PROVE Remind!TypeOK'
  <2>1. lost' \subseteq Remind!Pairs BY <1>7 DEF Remind!Crash
  <2>2. /\ todo' \in [Schedulers -> SUBSET Remind!Pairs] /\ inSweep' \in [Schedulers -> BOOLEAN]
        /\ inMemory' \in [Schedulers -> SUBSET Remind!Pairs]
        /\ holding' \in [Schedulers -> Remind!Pairs \cup {Remind!NoPair}]
    BY <1>7 DEF Remind!Crash
  <2>q. QED BY <1>7, <1>u, <2>1, <2>2 DEF Remind!Crash
<1>8. CASE UNCHANGED Remind!vars BY <1>8 DEF Remind!vars
<1>q. QED BY <1>1, <1>2, <1>3, <1>4, <1>5, <1>6, <1>7, <1>8 DEF Remind!Next

\* What a claim is good for: it lasts until the deadline it reminds of. So before the
\* deadline a reminder has one holder or none, and was sent by a holder before.
ClaimInv ==
  /\ \A s \in Schedulers : \A p \in todo[s] : Deadlines[p[1]] <= clock + p[2]
  /\ \A p \in Pairs \ lost :
       /\ sentKeys[p] = 0 => sent[p] = 0 /\ \A s \in Schedulers : holding[s] # p
       /\ sentKeys[p] # 0 => /\ Deadlines[p[1]] <= sentKeys[p]
                             /\ sent[p] = 1 \/ \E s \in Schedulers : holding[s] = p
       /\ sent[p] <= 1
       /\ clock < Deadlines[p[1]] =>
            \A s \in Schedulers : holding[s] = p =>
              sent[p] = 0 /\ \A t \in Schedulers : holding[t] = p => t = s

LEMMA NextClaims == Remind!TypeOK /\ ClaimInv /\ [Remind!Next]_(Remind!vars) => ClaimInv'
<1> SUFFICES ASSUME Remind!TypeOK, ClaimInv, [Remind!Next]_(Remind!vars) PROVE ClaimInv'
  OBVIOUS
<1>t. /\ clock \in Nat /\ sentKeys \in [Pairs -> Nat] /\ sent \in [Pairs -> Nat]
      /\ todo \in [Schedulers -> SUBSET Pairs] /\ holding \in [Schedulers -> Pairs \cup {NoPair}]
      /\ lost \subseteq Pairs
  BY DEF Remind!TypeOK, Pairs, NoPair
<1>1. CASE Remind!Tick
  <2>1. clock' = clock + 1 /\ UNCHANGED <<sentKeys, todo, holding, sent, lost>> BY <1>1 DEF Remind!Tick
  <2>2. \A p \in Pairs : clock' < Deadlines[p[1]] => clock < Deadlines[p[1]] BY <1>t, <2>1, PairsArePairs
  <2>3. \A s \in Schedulers : \A p \in todo[s] : Deadlines[p[1]] <= clock' + p[2]
    BY <1>t, <2>1, PairsArePairs DEF ClaimInv
  <2>q. QED BY <2>1, <2>2, <2>3 DEF ClaimInv
<1>2. CASE UNCHANGED <<clock, sentKeys, todo, holding, sent, lost>> BY <1>2 DEF ClaimInv
<1>3. ASSUME NEW s \in Schedulers, Remind!RunSweep(s) PROVE ClaimInv'
  <2>1. UNCHANGED <<clock, sentKeys, holding, sent, lost>> BY <1>3 DEF Remind!RunSweep
  <2>2. \A t \in Schedulers \ {s} : todo'[t] = todo[t] BY <1>3, <1>t DEF Remind!RunSweep
  <2>3. todo'[s] = UNION {{g} \X Remind!Reminded(g) : g \in open} BY <1>3, <1>t DEF Remind!RunSweep
  <2>4. ASSUME NEW p \in todo'[s] PROVE Deadlines[p[1]] <= clock + p[2]
    <3>1. PICK g \in open : p \in {g} \X Remind!Reminded(g) BY <2>3
    <3>2. p[1] = g /\ p[2] \in Remind!Reminded(g) BY <3>1
    <3>3. p[2] \in Distances /\ Deadlines[g] - clock <= p[2] BY <3>2 DEF Remind!Reminded
    <3>4. Deadlines[g] \in Nat /\ p[2] \in Nat BY <3>3 DEF Remind!TypeOK
    <3>q. QED BY <1>t, <3>2, <3>3, <3>4
  <2>q. QED BY <2>1, <2>2, <2>4 DEF ClaimInv
<1>4. ASSUME NEW s \in Schedulers, Remind!ClaimReminder(s) PROVE ClaimInv'
  <2>1. PICK p \in todo[s] :
          /\ todo' = [todo EXCEPT ![s] = @ \ {p}]
          /\ \/ /\ sentKeys[p] <= clock /\ sentKeys' = [sentKeys EXCEPT ![p] = clock + Remind!Ttl(p)]
                /\ holding' = [holding EXCEPT ![s] = p] /\ UNCHANGED lost
             \/ UNCHANGED <<sentKeys, holding, lost>>
             \/ /\ lost' = lost \cup {p} /\ UNCHANGED sentKeys
                /\ UNCHANGED holding \/ holding' = [holding EXCEPT ![s] = p]
    BY <1>4 DEF Remind!ClaimReminder
  <2>2. UNCHANGED <<clock, sent>> /\ holding[s] = NoPair BY <1>4 DEF Remind!ClaimReminder, NoPair
  <2>3. /\ p \in Pairs /\ Deadlines[p[1]] <= clock + p[2] /\ clock + p[2] \in Nat \ {0}
        /\ Deadlines[p[1]] \in Nat /\ sentKeys[p] \in Nat
    BY <1>t, <2>1, PairsArePairs DEF ClaimInv
  <2>4. \A t \in Schedulers : todo'[t] \subseteq todo[t] BY <1>t, <2>1
  <2>5. \A t \in Schedulers : \A r \in todo'[t] : Deadlines[r[1]] <= clock + r[2]
    BY <2>4 DEF ClaimInv
  <2>6. CASE UNCHANGED <<sentKeys, holding, lost>> BY <2>2, <2>5, <2>6 DEF ClaimInv
  <2>7. CASE lost' = lost \cup {p} /\ UNCHANGED sentKeys
             /\ (UNCHANGED holding \/ holding' = [holding EXCEPT ![s] = p])
    <3>1. ASSUME NEW r \in Pairs \ lost', NEW t \in Schedulers PROVE holding'[t] = r <=> holding[t] = r
      BY <1>t, <2>2, <2>3, <2>7, PairsArePairs
    <3>q. QED BY <2>2, <2>5, <2>7, <3>1 DEF ClaimInv
  <2>8. CASE /\ sentKeys[p] <= clock /\ sentKeys' = [sentKeys EXCEPT ![p] = clock + Remind!Ttl(p)]
             /\ holding' = [holding EXCEPT ![s] = p] /\ UNCHANGED lost
    <3>1. ASSUME NEW r \in Pairs, NEW t \in Schedulers, r # p
          PROVE sentKeys'[r] = sentKeys[r] /\ (holding'[t] = r <=> holding[t] = r)
      BY <1>t, <2>2, <2>3, <2>8, <3>1, PairsArePairs
    <3>2. sentKeys'[p] = clock + p[2] /\ holding'[s] = p
          /\ \A t \in Schedulers \ {s} : holding'[t] = holding[t]
      BY <1>t, <2>3, <2>8 DEF Remind!Ttl
    <3>3. p \notin lost => sent[p] <= 1 BY <2>3 DEF ClaimInv
    <3>4. ASSUME p \notin lost, clock < Deadlines[p[1]]
          PROVE  sent[p] = 0 /\ \A t \in Schedulers : holding[t] # p
      <4>1. sentKeys[p] = 0 BY <1>t, <2>3, <2>8, <3>4 DEF ClaimInv
      <4>q. QED BY <2>3, <3>4, <4>1 DEF ClaimInv
    <3>5. ASSUME NEW r \in Pairs \ lost', r # p
          PROVE  ClaimInv!2!(r)'
      BY <2>2, <2>8, <3>1, <3>5 DEF ClaimInv
    <3>6. p \notin lost' => ClaimInv!2!(p)'
      BY <2>2, <2>3, <2>8, <3>2, <3>3, <3>4
    <3>q. QED BY <2>2, <2>5, <3>5, <3>6 DEF ClaimInv
  <2>q. QED BY <2>1, <2>6, <2>7, <2>8
<1>5. ASSUME NEW s \in Schedulers, Remind!Dispatch(s) PROVE ClaimInv'
  <2>0. /\ holding[s] \in Pairs /\ holding' = [holding EXCEPT ![s] = NoPair] /\ UNCHANGED <<clock, sentKeys>>
        /\ \A t \in Schedulers : todo'[t] \subseteq todo[t]
        /\ lost \subseteq lost'
    BY <1>5, <1>t DEF Remind!Dispatch, NoPair
  <2>1. \A t \in Schedulers : \A r \in todo'[t] : Deadlines[r[1]] <= clock + r[2]
    BY <2>0 DEF ClaimInv
  <2>2. ASSUME NEW r \in Pairs, NEW t \in Schedulers, r # holding[s]
        PROVE holding'[t] = r <=> holding[t] = r
    BY <1>t, <2>0, <2>2, PairsArePairs
  <2>3. CASE lost' = lost \cup {holding[s]} /\ UNCHANGED sent
    BY <2>0, <2>1, <2>2, <2>3 DEF ClaimInv
  <2>4. CASE /\ sent' = [sent EXCEPT ![holding[s]] = @ + (IF clock < Deadlines[holding[s][1]] THEN 1 ELSE 0)]
             /\ lost' = IF clock < Deadlines[holding[s][1]] THEN lost ELSE lost \cup {holding[s]}
    <3>0. PICK p \in Pairs : p = holding[s] BY <2>0
    <3>1. \A r \in Pairs : r # p => sent'[r] = sent[r] BY <1>t, <2>0, <2>4, <3>0
    <3>2. CASE clock < Deadlines[p[1]]
      <4>1. sent'[p] = sent[p] + 1 /\ lost' = lost BY <1>t, <2>0, <2>4, <3>0, <3>2
      <4>2. p \notin lost => /\ sent[p] = 0 /\ sentKeys[p] # 0
                             /\ \A t \in Schedulers : holding'[t] # p
        BY <1>t, <2>0, <3>0, <3>2, PairsArePairs DEF ClaimInv
      <4>3. ASSUME NEW r \in Pairs \ lost', r # p PROVE ClaimInv!2!(r)'
        BY <2>0, <2>2, <3>0, <3>1, <4>1, <4>3 DEF ClaimInv
      <4>4. p \notin lost' => ClaimInv!2!(p)'
        BY <1>t, <2>0, <4>1, <4>2 DEF ClaimInv
      <4>q. QED BY <2>0, <2>1, <4>3, <4>4 DEF ClaimInv
    <3>3. CASE ~(clock < Deadlines[p[1]])
      <4>1. lost' = lost \cup {p} BY <2>4, <3>0, <3>3
      <4>q. QED BY <2>0, <2>1, <2>2, <3>0, <3>1, <4>1 DEF ClaimInv
    <3>q. QED BY <3>2, <3>3
  <2>q. QED BY <1>5, <2>3, <2>4 DEF Remind!Dispatch
<1>6. ASSUME NEW s \in Schedulers, Remind!Crash(s) PROVE ClaimInv'
  <2>1. /\ \A t \in Schedulers : todo'[t] \subseteq todo[t]
        /\ UNCHANGED <<clock, sentKeys, sent>> /\ lost' = lost \cup ({holding[s]} \ {NoPair})
    BY <1>6, <1>t DEF Remind!Crash, NoPair
  <2>2. ASSUME NEW r \in Pairs \ lost', NEW t \in Schedulers PROVE holding'[t] = r <=> holding[t] = r
    BY <1>6, <1>t, <2>1, PairsArePairs DEF Remind!Crash, NoPair
  <2>3. \A t \in Schedulers : \A r \in todo'[t] : Deadlines[r[1]] <= clock + r[2]
    BY <2>1 DEF ClaimInv
  <2>q. QED BY <2>1, <2>2, <2>3 DEF ClaimInv
<1>7. ASSUME \/ \E g \in OpenAtFirst : Remind!GigCloses(g)
             \/ \E s \in Schedulers : Remind!SweepOver(s)
             \/ UNCHANGED Remind!vars
      PROVE  UNCHANGED <<clock, sentKeys, todo, holding, sent, lost>>
  BY <1>7 DEF Remind!GigCloses, Remind!SweepOver, Remind!vars
<1>q. QED BY <1>1, <1>2, <1>3, <1>4, <1>5, <1>6, <1>7 DEF Remind!Next

LEMMA RemindTypesHold == Remind!Spec => []Remind!TypeOK
BY InitReminders, NextReminders, PTL DEF Remind!Spec

\* However many instances sweep and whatever gigs and distances there are, a reminder goes
\* out once before the deadline and a claimed one does go out, but for those that met a
\* failure. It rests on the claim lasting for the whole distance. (claimReminder.)
THEOREM RemindersGoOutOnce == WorkersSpec => []RemindedOnce
<1>1. Remind!Init => ClaimInv
  BY PairsArePairs DEF Remind!Init, ClaimInv, Pairs, NoPair
<1>2. Remind!Spec => []ClaimInv BY <1>1, NextClaims, RemindTypesHold, PTL DEF Remind!Spec
<1>3. ClaimInv => RemindedOnce BY DEF ClaimInv, RemindedOnce, Remind!RemindedOnce, Pairs
<1>q. QED BY <1>2, <1>3, RemindersAlone, PTL
==============================================================================

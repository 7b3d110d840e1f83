----------------------------- MODULE Migration -----------------------------
(***************************************************************************)
(* MigrationRunnerService and MigrationStateStore: runs of one registered   *)
(* migration (at every boot of an instance, or on request) and manual       *)
(* rollbacks. A run claims the slot "active-by-name", goes through expand,  *)
(* backfill and contract, and is compensated if a phase throws. Each call   *)
(* of Redis may fail: the store then uses the memory of the instance. The   *)
(* rows of the registered migration are a map of each process; its phases   *)
(* do not throw by themselves, those of a migration over a table may. Left  *)
(* out: a rollback whose reading of the run fails (MigrationStateStore.     *)
(* findById), which then looks for it in the memory of the instance.        *)
(***************************************************************************)
EXTENDS Naturals, FiniteSets

CONSTANTS
  Runs, Undos,   \* calls of run(), each its own run, and of rollback()
  Home,          \* the instance of each call
  Nobody,        \* no run in the slot
  Rows,          \* 1..n, the seeded rows of every instance
  BatchSize,
  MaxTroubles,   \* bounds Redis failures and crashes
  MaxBreaks      \* bounds phases that throw

Calls == Runs \cup Undos
Hosts == {Home[c] : c \in Calls}
NoRun == [status |-> "none", reach |-> "none"]
Reaches == {"none", "expand", "contract"}
RunRecords == [status : {"none", "going", "completed", "rolled_back", "failed"}, reach : Reaches]
Phases == {"expand", "count", "backfill", "contract", "complete", "clear",
           "rollbackContract", "rollbackExpand", "clearUndone", "saveUndone"}
Closing == {"clear", "saveUndone"}
Claiming == {"claim", "who", "look", "mark", "create"}

VARIABLES
  marker,      \* migration:active-by-name:<name>
  record,      \* migration:run:<id>
  own,         \* per instance: the fallback maps
  call,        \* per call: where it is, its run, how far that went, whom it looks at
  urgent, priority, \* per instance: the rows with a value in the old and in the new column
  columnAdded, \* per instance: priorityColumnAdded
  troubles, breaks,
  unguarded,   \* history: runs that went on without the slot, or lost it
  newest,      \* history, per instance: the run that started last
  mixed        \* history: instances where a run or a rollback met the work of another run

store == <<marker, record, own>>
rowVars == <<urgent, priority, columnAdded>>
vars == <<store, rowVars, call, troubles, breaks, unguarded, newest, mixed>>

\* A call that does nothing: its copy of the run is gone.
Blank(c, p) == [at |-> p, id |-> IF c \in Runs THEN c ELSE Nobody,
                reach |-> "none", sees |-> Nobody, cursor |-> 0, end |-> "none"]

Init ==
  /\ marker = Nobody /\ record = [r \in Runs |-> NoRun]
  /\ own = [i \in Hosts |-> [marker |-> Nobody, record |-> [r \in Runs |-> NoRun]]]
  /\ call = [c \in Calls |-> Blank(c, "new")]
  /\ urgent = [i \in Hosts |-> Rows] /\ priority = [i \in Hosts |-> {}]
  /\ columnAdded = [i \in Hosts |-> FALSE]
  /\ troubles = 0 /\ breaks = 0 /\ unguarded = {} /\ mixed = {}
  /\ newest = [i \in Hosts |-> Nobody]

----------------------------------------------------------------------------
Trouble == troubles < MaxTroubles /\ troubles' = troubles + 1
At(c, p) == call[c].at = p
Break == breaks < MaxBreaks /\ breaks' = breaks + 1
Busy(c) == call[c].at \in Phases \ Closing
Go(c, p) == call' = [call EXCEPT ![c].at = p]
Done(c) == call' = [call EXCEPT ![c] = Blank(c, "done")]
Mine(c) == own[Home[c]]
Beside(c) == {d \in Calls \ {c} : Home[d] = Home[c] /\ Busy(d)}
Mixes(c, met) == mixed' = IF met THEN mixed \cup {Home[c]} ELSE mixed
\* The rows of the instance of the call become S.
Here(f, c, S) == [f EXCEPT ![Home[c]] = S]

\* create, save: the run's record, in Redis or in memory.
SaveRun(c, status, reach) ==
  LET new == [status |-> status, reach |-> reach]
  IN \/ record' = [record EXCEPT ![call[c].id] = new] /\ UNCHANGED <<own, troubles>>
     \/ Trouble /\ own' = [own EXCEPT ![Home[c]].record[call[c].id] = new] /\ UNCHANGED record

\* clearActive, whosever run is in the slot.
ClearActive(c) ==
  \/ /\ marker' = Nobody /\ unguarded' = unguarded \cup ({marker} \ {Nobody, call[c].id})
     /\ UNCHANGED <<own, troubles>>
  \/ Trouble /\ own' = [own EXCEPT ![Home[c]].marker = Nobody] /\ UNCHANGED <<marker, unguarded>>

----------------------------------------------------------------------------
\* claimAndCreate without Redis: the maps of the instance, in one turn.
ClaimInMemory(c) ==
  /\ Trouble
  /\ IF Mine(c).marker = Nobody
     THEN /\ own' = [own EXCEPT ![Home[c]] =
                        [marker |-> c, record |-> [@.record EXCEPT ![c].status = "going"]]]
          /\ unguarded' = unguarded \cup {c} /\ Go(c, "expand")
     ELSE /\ call' = [call EXCEPT ![c].at = "look", ![c].sees = Mine(c).marker]
          /\ UNCHANGED <<own, unguarded>>
  /\ UNCHANGED <<marker, record>>

\* Variant: the slot is set whether it is free or not.
ClaimSet(c) ==
  /\ c \in Runs /\ At(c, "new") /\ marker' = c /\ Go(c, "claim")
  /\ UNCHANGED <<breaks, record, own, rowVars, troubles, unguarded, newest, mixed>>
(* claimAndCreate: SET NX, then the record; or GET to see whose the slot is. *)
Claim(c) ==
  /\ c \in Runs /\ At(c, "new")
  /\ \/ /\ marker = Nobody /\ marker' = c /\ Go(c, "claim") /\ UNCHANGED <<record, own, troubles, unguarded>>
     \/ /\ marker # Nobody /\ Go(c, "who") /\ UNCHANGED <<store, troubles, unguarded>>
     \/ ClaimInMemory(c)
  /\ UNCHANGED <<breaks, rowVars, newest, mixed>>
CreateClaimed(c) ==
  /\ At(c, "claim")
  /\ \/ /\ record' = [record EXCEPT ![c].status = "going"] /\ Go(c, "expand")
        /\ UNCHANGED <<marker, own, troubles, unguarded>>
     \/ ClaimInMemory(c)
  /\ UNCHANGED <<breaks, rowVars, newest, mixed>>
Who(c) ==
  /\ At(c, "who")
  /\ \/ /\ call' = [call EXCEPT ![c].at = "look", ![c].sees = marker]
        /\ UNCHANGED <<store, troubles, unguarded>>
     \/ ClaimInMemory(c)
  /\ UNCHANGED <<breaks, rowVars, newest, mixed>>

\* run: an active run of the name is a conflict; anything else is reclaimed.
Look(c) ==
  /\ At(c, "look")
  /\ \E found \in RunRecords :
       /\ \/ found = (IF call[c].sees = Nobody THEN NoRun ELSE record[call[c].sees]) /\ UNCHANGED troubles
          \/ call[c].sees # Nobody /\ found = Mine(c).record[call[c].sees] /\ Trouble
       /\ IF found.status = "going" THEN Done(c)
          ELSE call' = [call EXCEPT ![c].at = "mark", ![c].sees = Nobody]
  /\ UNCHANGED <<breaks, store, rowVars, unguarded, newest, mixed>>
MarkActive(c) ==
  /\ At(c, "mark") /\ Go(c, "create")
  /\ unguarded' = unguarded \cup {c} \cup ({marker} \ {Nobody})
  /\ \/ marker' = c /\ UNCHANGED <<own, troubles>>
     \/ Trouble /\ own' = [own EXCEPT ![Home[c]].marker = c] /\ UNCHANGED marker
  /\ UNCHANGED <<breaks, record, rowVars, newest, mixed>>
Create(c) ==
  /\ At(c, "create") /\ Go(c, "expand") /\ SaveRun(c, "going", call[c].reach)
  /\ UNCHANGED <<breaks, marker, rowVars, unguarded, newest, mixed>>

----------------------------------------------------------------------------
\* A phase throws, having done any part of its work: run() compensates.
Throws == Break /\ UNCHANGED <<record, own, troubles>>

(* runExpand: saves the run and calls the migration's expand(). *)
Expand(c) ==
  /\ At(c, "expand")
  /\ \/ /\ call' = [call EXCEPT ![c].at = "count", ![c].reach = "expand"]
        /\ columnAdded' = Here(columnAdded, c, TRUE) /\ SaveRun(c, "going", "expand") /\ UNCHANGED breaks
     \/ /\ call' = [call EXCEPT ![c].at = "rollbackContract", ![c].reach = "expand"]
        /\ columnAdded' \in {columnAdded, Here(columnAdded, c, TRUE)} /\ Throws
  /\ newest' = Here(newest, c, c) /\ Mixes(c, urgent[Home[c]] # Rows \/ Beside(c) # {})
  /\ UNCHANGED <<marker, urgent, priority, unguarded>>

CountPending(c) ==
  /\ At(c, "count")
  /\ \/ Go(c, IF Rows \subseteq priority[Home[c]] THEN "contract" ELSE "backfill") /\ SaveRun(c, "going", call[c].reach) /\ UNCHANGED breaks
     \/ Go(c, "rollbackContract") /\ Throws
  /\ UNCHANGED <<marker, rowVars, unguarded, newest, mixed>>

\* The next batch: at most BatchSize rows after the cursor, in order.
Pending(c) == {w \in Rows \ priority[Home[c]] : w > call[c].cursor}
Batch(c) == {w \in Pending(c) : Cardinality({v \in Pending(c) : v <= w}) <= BatchSize}
LastOf(c) == IF Batch(c) = {} THEN call[c].cursor ELSE CHOOSE w \in Batch(c) : \A v \in Batch(c) : v <= w
Filled(c) == Here(priority, c, priority[Home[c]] \cup Batch(c))
BackfillBatch(c) ==
  /\ At(c, "backfill")
  /\ \/ /\ columnAdded[Home[c]] /\ priority' = Filled(c)
        /\ call' = [call EXCEPT ![c].at = IF Batch(c) = Pending(c) THEN "contract" ELSE "backfill",
                                ![c].cursor = LastOf(c)]
        /\ SaveRun(c, "going", call[c].reach) /\ UNCHANGED breaks
     \/ ~columnAdded[Home[c]] /\ Go(c, "rollbackContract") /\ UNCHANGED <<record, own, troubles, breaks, priority>>
     \/ Go(c, "rollbackContract") /\ priority' \in {priority, Filled(c)} /\ Throws
  /\ UNCHANGED <<marker, urgent, columnAdded, unguarded, newest, mixed>>

Contract(c) ==
  /\ At(c, "contract")
  /\ \/ /\ call' = [call EXCEPT ![c] = [@ EXCEPT !.at = "complete", !.cursor = 0, !.reach = "contract"]]
        /\ urgent' = Here(urgent, c, {}) /\ SaveRun(c, "going", "contract") /\ UNCHANGED breaks
     \/ /\ call' = [call EXCEPT ![c] = [@ EXCEPT !.at = "rollbackContract", !.cursor = 0, !.reach = "contract"]]
        /\ urgent' \in {Here(urgent, c, w) : w \in SUBSET urgent[Home[c]]} /\ Throws
  /\ UNCHANGED <<marker, priority, columnAdded, unguarded, newest, mixed>>

\* The run is saved as completed; the slot is cleared in a second call.
Complete(c) ==
  /\ At(c, "complete") /\ Go(c, "clear") /\ SaveRun(c, "completed", call[c].reach)
  /\ UNCHANGED <<breaks, marker, rowVars, unguarded, newest, mixed>>
Clear(c) ==
  /\ At(c, "clear") /\ Done(c) /\ ClearActive(c)
  /\ UNCHANGED <<breaks, record, rowVars, newest, mixed>>

----------------------------------------------------------------------------
(* rollback: a run that is neither in progress nor rolled back, without a claim. *)
Rollback(c) ==
  /\ c \in Undos /\ At(c, "new")
  /\ \E r \in Runs :
       /\ record[r].status \in {"completed", "failed"}
       /\ call' = [call EXCEPT ![c] = [@ EXCEPT !.at = "rollbackContract", !.id = r, !.reach = record[r].reach]]
       /\ Mixes(c, r # newest[Home[c]] \/ Beside(c) # {})
  /\ UNCHANGED <<breaks, store, rowVars, troubles, unguarded, newest>>

\* compensate: contract is undone before expand, each only if it was attempted.
Restore(c) == IF call[c].reach = "contract" THEN Rows ELSE urgent[Home[c]]
Failed(c) == Break /\ call' = [call EXCEPT ![c].at = "clearUndone", ![c].end = "failed"]
\* Variant: expand is undone at once with contract.
RollbackBoth(c) ==
  /\ At(c, "rollbackContract") /\ SaveRun(c, "going", call[c].reach) /\ Go(c, "rollbackExpand")
  /\ priority' = Here(priority, c, {}) /\ UNCHANGED <<breaks, urgent, columnAdded, marker, unguarded, newest, mixed>>
RollbackContract(c) ==
  /\ At(c, "rollbackContract")
  /\ \/ urgent' = Here(urgent, c, Restore(c)) /\ Go(c, "rollbackExpand") /\ SaveRun(c, "going", call[c].reach) /\ UNCHANGED breaks
     \/ /\ \E w \in SUBSET Restore(c) : urgent[Home[c]] \subseteq w /\ urgent' = Here(urgent, c, w)
        /\ Failed(c) /\ UNCHANGED <<record, own, troubles>>
  /\ UNCHANGED <<marker, priority, columnAdded, unguarded, newest, mixed>>
RollbackExpand(c) ==
  /\ At(c, "rollbackExpand")
  /\ \/ /\ call' = [call EXCEPT ![c].at = "clearUndone", ![c].end = "rolled_back"]
        /\ priority' = Here(priority, c, {}) /\ columnAdded' = Here(columnAdded, c, FALSE) /\ UNCHANGED breaks
     \/ /\ priority' \in {Here(priority, c, w) : w \in SUBSET priority[Home[c]]}
        /\ columnAdded' \in {columnAdded, Here(columnAdded, c, FALSE)} /\ Failed(c)
  /\ UNCHANGED <<store, urgent, troubles, unguarded, newest, mixed>>
\* Variant: a rollback that fails leaves the slot.
ClearUndoneOnly(c) ==
  /\ At(c, "clearUndone") /\ Go(c, "saveUndone")
  /\ IF call[c].end = "failed" THEN UNCHANGED <<marker, own, troubles, unguarded>> ELSE ClearActive(c)
  /\ UNCHANGED <<breaks, record, rowVars, newest, mixed>>
ClearUndone(c) ==
  /\ At(c, "clearUndone") /\ Go(c, "saveUndone") /\ ClearActive(c)
  /\ UNCHANGED <<breaks, record, rowVars, newest, mixed>>
SaveUndone(c) ==
  /\ At(c, "saveUndone") /\ Done(c) /\ SaveRun(c, call[c].end, call[c].reach)
  /\ UNCHANGED <<breaks, marker, rowVars, unguarded, newest, mixed>>

----------------------------------------------------------------------------
\* The record of a finished run expires or is pruned.
Expire(r) ==
  /\ record[r].status \in {"completed", "rolled_back", "failed"}
  /\ record' = [record EXCEPT ![r] = NoRun]
  /\ UNCHANGED <<breaks, marker, own, rowVars, call, troubles, unguarded, newest, mixed>>
Crash(i) ==
  /\ Trouble
  /\ call' = [c \in Calls |-> IF Home[c] = i /\ ~At(c, "new") THEN Blank(c, "done") ELSE call[c]]
  /\ own' = [own EXCEPT ![i] = [marker |-> Nobody, record |-> [r \in Runs |-> NoRun]]]
  /\ urgent' = [urgent EXCEPT ![i] = Rows] /\ priority' = [priority EXCEPT ![i] = {}]
  /\ columnAdded' = [columnAdded EXCEPT ![i] = FALSE] /\ newest' = [newest EXCEPT ![i] = Nobody]
  /\ mixed' = mixed \ {i}
  /\ UNCHANGED <<breaks, marker, record, unguarded>>

Next ==
  \/ \E c \in Calls :
       \/ Claim(c) \/ CreateClaimed(c) \/ Who(c) \/ Look(c) \/ MarkActive(c) \/ Create(c)
       \/ Expand(c) \/ CountPending(c) \/ BackfillBatch(c) \/ Contract(c) \/ Complete(c) \/ Clear(c)
       \/ Rollback(c) \/ RollbackContract(c) \/ RollbackExpand(c) \/ ClearUndone(c) \/ SaveUndone(c)
  \/ \E r \in Runs : Expire(r)
  \/ \E i \in Hosts : Crash(i)

Spec == Init /\ [][Next]_vars

----------------------------------------------------------------------------
TypeOK ==
  /\ marker \in Runs \cup {Nobody} /\ record \in [Runs -> RunRecords]
  /\ own \in [Hosts -> [marker : Runs \cup {Nobody}, record : [Runs -> RunRecords]]]
  /\ call \in [Calls -> [at : {"new", "done"} \cup Claiming \cup Phases, id : Runs \cup {Nobody},
                         reach : Reaches, sees : Runs \cup {Nobody}, cursor : {0} \cup Rows,
                         end : {"none", "rolled_back", "failed"}]]
  /\ {urgent, priority} \subseteq [Hosts -> SUBSET Rows] /\ columnAdded \in [Hosts -> BOOLEAN]
  /\ troubles \in 0 .. MaxTroubles /\ breaks \in 0 .. MaxBreaks /\ unguarded \subseteq Runs /\ mixed \subseteq Hosts

(* Two runs of a migration are under way together only if one of them reclaimed   *)
(* the slot, had it cleared by another call, or claimed it in memory             *)
(* (claimAndCreate, #190).                                                       *)
OneRunUnlessUnguarded ==
  \A c, d \in Runs \ unguarded : Busy(c) /\ Busy(d) => c = d

(* Whatever phase throws, and whatever part of the rollback fails, the slot does  *)
(* not stay with a run that is over, but for a crash or a Redis failure           *)
(* (compensate, clearActive). *)
SlotIsReleased ==
  marker # Nobody /\ call[marker].at = "done" => troubles > 0

(* A row is never left without its old and its new value, when runs and rollbacks *)
(* neither overlap nor follow one another out of order, whatever throws midway.   *)
RowsKeepAValue == \A i \in Hosts \ mixed : Rows \subseteq urgent[i] \cup priority[i]
=============================================================================

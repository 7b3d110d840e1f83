------------------------------ MODULE Pinning ------------------------------
(***************************************************************************)
(* IpfsPinningService: one record per CID in Redis, read at the start of a  *)
(* request, changed while the providers answer and written back whole. A    *)
(* new pin goes on in the background: it shares the request's copy and      *)
(* writes it again. Where Redis fails the record is read from, or written   *)
(* to, the map of the instance, whose object the job and the map share from *)
(* then on; of two jobs that share it each has a copy of its own here. The  *)
(* calls to a provider pass through a circuit breaker per operation and     *)
(* provider; a breaker is made once and keeps the first function it was     *)
(* given, so it is the first CID it acts on ever after. All jobs are those  *)
(* of one instance.                                                         *)
(***************************************************************************)
EXTENDS Naturals, FiniteSets

CONSTANTS
  Cids, NoCid,
  Providers,    \* 1..n, in PIN_PROVIDER_PRIORITY
  Jobs,         \* requests and worker sweeps in flight
  MaxJobs,      \* bounds the requests
  MaxLosses,    \* bounds the failing calls of providers, lost pins and crashes
  MaxMisses     \* bounds the jobs that find Redis failing

Entries == {"none", "pinned", "failed", "unpinned"}
Statuses == {"HEALTHY", "DEGRADED", "FAILED", "UNPINNING", "UNPINNED"}
Operations == {"pin", "verify", "unpin"}
NoRecord == [status |-> "none", factor |-> 0, entry |-> [p \in Providers |-> "none"]]
NoTask == [kind |-> "none", cid |-> NoCid, copy |-> NoRecord, next |-> 0, want |-> 0,
           won |-> {}, isNew |-> FALSE, stale |-> FALSE, mapped |-> FALSE]

VARIABLES
  pins,         \* ipfs-pin:<cid>
  pinMap,       \* the map of the instance
  holds,        \* per provider: the CIDs it holds
  fires,        \* per operation and provider: the CID its breaker acts on, or NoCid
  task,         \* per job
  started, losses, misses

vars == <<pins, pinMap, holds, fires, task, started, losses, misses>>

Init ==
  /\ pins = [c \in Cids |-> NoRecord] /\ pinMap = pins /\ holds = [p \in Providers |-> {}]
  /\ fires = [o \in Operations |-> [p \in Providers |-> NoCid]]
  /\ task = [j \in Jobs |-> NoTask] /\ started = 0 /\ losses = 0 /\ misses = 0

----------------------------------------------------------------------------
Pinned(rec) == {p \in Providers : rec.entry[p] = "pinned"}
Last == Cardinality(Providers)
Loss == losses < MaxLosses /\ losses' = losses + 1 /\ UNCHANGED misses
Lossless == UNCHANGED <<losses, misses>>
Does(j, t) == task' = [task EXCEPT ![j] = t]

Counts(miss) ==
  UNCHANGED losses /\ IF miss THEN misses < MaxMisses /\ misses' = misses + 1 ELSE UNCHANGED misses

\* tryFindByCid: what GET, or else the map, has.
InMap(c) == {pinMap[c]} \cup {task[j].copy : j \in {j \in Jobs : task[j].mapped /\ task[j].cid = c}}
Found(c, missed) == IF missed THEN InMap(c) ELSE {pins[c]}

\* persist: the whole record; the copies of others are stale from then on. A transaction that
\* failed, applied or not, has the record put into the map.
Persist(j, c, rec, t, failed) ==
  /\ pins' \in {[pins EXCEPT ![c] = rec]} \cup (IF failed THEN {pins} ELSE {})
  /\ pinMap' = IF failed \/ task[j].mapped \/ t.mapped THEN [pinMap EXCEPT ![c] = rec] ELSE pinMap
  /\ task' = [k \in Jobs |->
                IF k # j THEN [task[k] EXCEPT !.stale = @ \/ (task[k].cid = c /\ pins'[c] # pins[c])]
                ELSE IF t = NoTask THEN t
                ELSE [t EXCEPT !.mapped = @ \/ failed, !.stale = pins'[c] # rec]]

\* Variant: health checks finish an unpin.
FinalizeAlways(rec) ==
  LET n == Cardinality(Pinned(rec))
  IN [rec EXCEPT !.status = IF n = 0 THEN "FAILED" ELSE IF n < rec.factor THEN "DEGRADED" ELSE "HEALTHY"]
\* finalizeStatus
Finalize(rec) ==
  LET n == Cardinality(Pinned(rec))
  IN [rec EXCEPT !.status = IF rec.status = "UNPINNING" THEN @
                            ELSE IF n = 0 THEN "FAILED" ELSE IF n < rec.factor THEN "DEGRADED" ELSE "HEALTHY"]

\* The CID a call about c reaches: CircuitBreakerService.getBreaker keeps the first.
Fired(o, p, c) == IF fires[o][p] = NoCid THEN c ELSE fires[o][p]
Fire(S, p, c) == fires' = [o \in Operations |-> [fires[o] EXCEPT ![p] = IF o \in S THEN Fired(o, p, c) ELSE @]]

\* A provider pins and confirms, or fails, with or without an effect.
Attempt(p, c, ok) ==
  LET more == [holds EXCEPT ![p] = @ \cup {Fired("pin", p, c)}] IN
  \/ /\ ok /\ Fire({"pin", "verify"}, p, c) /\ holds' = more
     /\ Fired("verify", p, c) \in more[p] /\ Lossless
  \/ /\ ~ok /\ holds' \in {holds, more} /\ (Fire({"pin"}, p, c) \/ Fire({"pin", "verify"}, p, c))
     /\ Loss \/ (holds' = more /\ Fired("verify", p, c) \notin more[p] /\ Lossless)

(* pinContent: the record is written before the first provider is tried. *)
StartPin(j) ==
  /\ task[j] = NoTask /\ started < MaxJobs /\ started' = started + 1
  /\ \E c \in Cids, f \in 1 .. Last, missed, failed \in BOOLEAN : \E old \in Found(c, missed) :
       LET rec == [old EXCEPT !.status = IF @ \in {"none", "UNPINNING"} THEN "FAILED" ELSE @,
                              !.factor = IF f > @ THEN f ELSE @]
       IN /\ Persist(j, c, rec, [NoTask EXCEPT !.kind = "pin", !.cid = c, !.copy = rec, !.next = 1, !.want = f,
                                   !.isNew = (old = NoRecord), !.mapped = missed /\ old # NoRecord], failed)
          /\ Counts(missed \/ failed)
  /\ UNCHANGED <<holds, fires>>
MorePinning(t) == t.next <= Last /\ Cardinality(t.won) < t.want
TryProvider(j) ==
  LET t == task[j] p == t.next IN
  /\ t.kind = "pin" /\ MorePinning(t)
  /\ \E ok \in BOOLEAN :
       /\ Attempt(p, t.cid, ok)
       /\ Does(j, [t EXCEPT !.next = @ + 1, !.won = IF ok THEN @ \cup {p} ELSE @,
                     !.copy.entry[p] = IF ok THEN "pinned" ELSE IF @ = "none" THEN "failed" ELSE @])
  /\ UNCHANGED <<pins, pinMap, started>>

\* Only the entries of this request's successes are kept.
FinishPin(j) ==
  LET t == task[j]
      rec == Finalize([t.copy EXCEPT !.entry = [p \in Providers |-> IF p \in t.won THEN @[p] ELSE "none"]])
  IN /\ t.kind = "pin" /\ ~MorePinning(t)
     /\ \E failed \in BOOLEAN :
          /\ Persist(j, t.cid, rec, IF t.isNew /\ t.won # {} /\ t.won # Providers
                                    THEN [t EXCEPT !.kind = "cross", !.copy = rec, !.next = 1]
                                    ELSE NoTask, failed)
          /\ Counts(failed)
     /\ UNCHANGED <<holds, fires, started>>

\* crossPinRemainingProviders, in the background.
CrossPin(j) ==
  LET t == task[j] p == t.next IN
  /\ t.kind = "cross" /\ p <= Last
  /\ \/ p \in t.won /\ Does(j, [t EXCEPT !.next = @ + 1]) /\ UNCHANGED <<holds, fires>> /\ Lossless
     \/ /\ p \notin t.won
        /\ \E ok \in BOOLEAN :
             /\ Attempt(p, t.cid, ok)
             /\ Does(j, [t EXCEPT !.next = @ + 1, !.copy.entry[p] = IF ok THEN "pinned" ELSE "failed"])
  /\ UNCHANGED <<pins, pinMap, started>>

(* reconcile: the verify endpoint takes any record, the worker those that are *)
(* DEGRADED or FAILED. The providers are asked directly.                       *)
StartVerify(j) ==
  /\ task[j] = NoTask /\ started < MaxJobs /\ started' = started + 1
  /\ \E c \in Cids, missed \in BOOLEAN : \E rec \in Found(c, missed) :
       /\ rec # NoRecord /\ Counts(missed)
       /\ Does(j, [NoTask EXCEPT !.kind = "verify", !.cid = c, !.copy = rec, !.next = 1,
                     !.mapped = missed, !.stale = rec # pins[c]])
  /\ UNCHANGED <<pins, pinMap, holds, fires>>
VerifyProvider(j) ==
  LET t == task[j] p == t.next IN
  /\ t.kind = "verify" /\ p <= Last
  /\ \/ /\ t.copy.entry[p] = "pinned" => t.cid \in holds[p]
        /\ Does(j, [t EXCEPT !.next = @ + 1]) /\ Lossless
     \/ /\ t.copy.entry[p] = "pinned" /\ ((t.cid \notin holds[p] /\ Lossless) \/ Loss)
        /\ Does(j, [t EXCEPT !.next = @ + 1, !.copy.entry[p] = "failed"])
  /\ UNCHANGED <<pins, pinMap, holds, fires, started>>
FinishRound(j) ==
  LET t == task[j] IN
  /\ t.kind \in {"verify", "cross"} /\ t.next > Last
  /\ \E failed \in BOOLEAN : Persist(j, t.cid, Finalize(t.copy), NoTask, failed) /\ Counts(failed)
  /\ UNCHANGED <<holds, fires, started>>

(* unpin: all providers at once; each releases the pin, reports it absent or fails. *)
StartUnpin(j) ==
  /\ task[j] = NoTask /\ started < MaxJobs /\ started' = started + 1
  /\ \E c \in Cids, missed \in BOOLEAN : \E rec \in Found(c, missed) :
       /\ rec.status \notin {"none", "UNPINNED"} /\ Counts(missed)
       /\ Does(j, [NoTask EXCEPT !.kind = "unpin", !.cid = c, !.copy = rec, !.won = Pinned(rec),
                     !.mapped = missed, !.stale = rec # pins[c]])
  /\ UNCHANGED <<pins, pinMap, holds, fires>>
ReleasePin(j, p) ==
  LET t == task[j] IN
  /\ t.kind = "unpin" /\ p \in t.won
  /\ \/ /\ Fire({"unpin"}, p, t.cid) /\ Lossless
        /\ holds' = [holds EXCEPT ![p] = @ \ {Fired("unpin", p, t.cid)}]
        /\ Does(j, [t EXCEPT !.won = @ \ {p}, !.copy.entry[p] = "unpinned"])
     \/ /\ Loss /\ Fire({"unpin", "verify"}, p, t.cid) /\ UNCHANGED holds
        /\ Does(j, [t EXCEPT !.won = @ \ {p},
                      !.copy.entry[p] = IF Fired("verify", p, t.cid) \in holds[p] THEN @ ELSE "unpinned"])
  /\ UNCHANGED <<pins, pinMap, started>>
FinishUnpin(j) ==
  LET t == task[j] IN
  /\ t.kind = "unpin" /\ t.won = {}
  /\ LET rec == [t.copy EXCEPT !.status = IF Pinned(t.copy) = {} THEN "UNPINNED" ELSE "UNPINNING"]
     IN \E failed \in BOOLEAN : Persist(j, t.cid, rec, NoTask, failed) /\ Counts(failed)
  /\ UNCHANGED <<holds, fires, started>>

Drop(p) == \* a provider loses a pin
  /\ Loss /\ \E c \in holds[p] : holds' = [holds EXCEPT ![p] = @ \ {c}]
  /\ UNCHANGED <<pins, pinMap, fires, task, started>>
Crash ==   \* the work in flight and the map are lost; the breakers are new
  /\ Loss /\ task' = [j \in Jobs |-> NoTask] /\ pinMap' = [c \in Cids |-> NoRecord]
  /\ fires' = [o \in Operations |-> [p \in Providers |-> NoCid]]
  /\ UNCHANGED <<pins, holds, started>>

Next ==
  \/ Crash
  \/ \E j \in Jobs : \/ StartPin(j) \/ TryProvider(j) \/ FinishPin(j) \/ CrossPin(j) \/ StartVerify(j)
                     \/ VerifyProvider(j) \/ FinishRound(j) \/ StartUnpin(j) \/ FinishUnpin(j)
  \/ \E p \in Providers : Drop(p) \/ \E j \in Jobs : ReleasePin(j, p)

Spec == Init /\ [][Next]_vars

----------------------------------------------------------------------------
RecordType == [status : Statuses \cup {"none"}, factor : {0} \cup Providers, entry : [Providers -> Entries]]
TypeOK ==
  /\ {pins, pinMap} \subseteq [Cids -> RecordType] /\ holds \in [Providers -> SUBSET Cids]
  /\ fires \in [Operations -> [Providers -> Cids \cup {NoCid}]]
  /\ \A j \in Jobs : task[j].copy \in RecordType /\ task[j].won \subseteq Providers
  /\ started \in 0 .. MaxJobs /\ losses \in 0 .. MaxLosses /\ misses \in 0 .. MaxMisses

(* An unpin that a provider refused is ended by a later unpin or by a new pin    *)
(* request, not by a health check or a background pin (finalizeStatus); only one *)
(* that writes a stale copy may overwrite it: one that had read the record       *)
(* before, or found an older one in the map of its instance.                     *)
UnpinStep ==
  \A c \in Cids : pins[c].status = "UNPINNING" /\ pins'[c].status # "UNPINNING" =>
    \E j \in Jobs : \/ task[j].kind = "unpin" /\ task[j].cid = c /\ task'[j] = NoTask
                    \/ task[j].stale /\ task'[j] # task[j]
                    \/ task[j] = NoTask /\ task'[j].kind = "pin"
UnpinningSticks == [][UnpinStep]_vars
=============================================================================

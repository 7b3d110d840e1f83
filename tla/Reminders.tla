----------------------------- MODULE Reminders -----------------------------
(***************************************************************************)
(* MilestoneExpiryScheduler: sweeps over the open gigs remind of deadlines  *)
(* at several distances; a claim in Redis that lasts as long as the         *)
(* distance keeps every reminder single, an instance's own set does while   *)
(* Redis fails. The clock is in units no claim or deadline cuts. Left out:  *)
(* an update that moves the respondBy of a gig (GigService.update), whose    *)
(* reminders then start anew under the claims made for the old one.         *)
(***************************************************************************)
EXTENDS Naturals, FiniteSets

CONSTANTS
  OpenGigs, RespondBy,  \* respondBy
  Distances,           \* REMINDER_THRESHOLDS_MS
  Schedulers,          \* one per instance
  Horizon,             \* bounds the clock
  MaxUpsets            \* bounds Redis failures, failed dispatches, drains and crashes

Pairs == OpenGigs \X Distances
NoPair == <<>>

VARIABLES
  clock,
  open,       \* gigs that are still open
  sentKeys,   \* milestone:reminder:sent:<gig>:<distance>, with its expiry
  inMemory,   \* per instance: inMemoryDedup
  todo,       \* per instance: the pairs its sweep has not come to
  inSweep,    \* per instance: `sweeping`
  holding,    \* per instance: the pair claimed and not dispatched
  upsets,
  sent,       \* history: how often each reminder went out before its deadline
  lost        \* history: pairs that met a Redis failure, a crash, a drain or a throw

vars == <<clock, open, sentKeys, inMemory, todo, inSweep, holding, upsets, sent, lost>>

Init ==
  /\ clock = 0 /\ open = OpenGigs /\ sentKeys = [p \in Pairs |-> 0]
  /\ inMemory = [s \in Schedulers |-> {}] /\ todo = [s \in Schedulers |-> {}]
  /\ inSweep = [s \in Schedulers |-> FALSE] /\ holding = [s \in Schedulers |-> NoPair]
  /\ upsets = 0 /\ sent = [p \in Pairs |-> 0] /\ lost = {}

Upset == upsets < MaxUpsets /\ upsets' = upsets + 1

Tick == /\ clock < Horizon /\ clock' = clock + 1
        /\ UNCHANGED <<open, sentKeys, inMemory, todo, inSweep, holding, upsets, sent, lost>>
GigCloses(g) == /\ g \in open /\ open' = open \ {g}
                /\ UNCHANGED <<clock, sentKeys, inMemory, todo, inSweep, holding, upsets, sent, lost>>

(* computeReminders: every distance the deadline is within, not past it. *)
Reminded(g) == {d \in Distances : clock < RespondBy[g] /\ RespondBy[g] - clock <= d}

\* runSweep: nothing while this instance sweeps; gigs and time are read once.
RunSweep(s) ==
  /\ ~inSweep[s] /\ inSweep' = [inSweep EXCEPT ![s] = TRUE]
  /\ todo' = [todo EXCEPT ![s] = UNION {{g} \X Reminded(g) : g \in open}]
  /\ UNCHANGED <<clock, open, sentKeys, inMemory, holding, upsets, sent, lost>>

\* Variant: the claim lasts half as long.
TtlShort(p) == IF p[2] > 1 THEN p[2] \div 2 ELSE 1
\* The TTL of the claim: the distance itself.
Ttl(p) == p[2]

(* claimReminder: SET NX EX; without Redis, the set of the instance. *)
ClaimReminder(s) ==
  /\ inSweep[s] /\ holding[s] = NoPair
  /\ \E p \in todo[s] :
       /\ todo' = [todo EXCEPT ![s] = @ \ {p}]
       /\ \/ /\ sentKeys[p] <= clock /\ sentKeys' = [sentKeys EXCEPT ![p] = clock + Ttl(p)]
             /\ holding' = [holding EXCEPT ![s] = p] /\ UNCHANGED <<inMemory, upsets, lost>>
          \/ sentKeys[p] > clock /\ UNCHANGED <<sentKeys, inMemory, holding, upsets, lost>>
          \/ /\ Upset /\ lost' = lost \cup {p} /\ UNCHANGED sentKeys
             /\ IF p \in inMemory[s] THEN UNCHANGED <<inMemory, holding>>
                ELSE /\ inMemory' = [inMemory EXCEPT ![s] = @ \cup {p}]
                     /\ holding' = [holding EXCEPT ![s] = p]
  /\ UNCHANGED <<clock, open, inSweep, sent>>

(* dispatchReminder: the gateway emits, or drops it while it drains; if it throws, *)
(* the sweep is over. *)
Dispatch(s) ==
  /\ holding[s] # NoPair /\ holding' = [holding EXCEPT ![s] = NoPair]
  /\ \/ /\ sent' = [sent EXCEPT ![holding[s]] = @ + (IF clock < RespondBy[holding[s][1]] THEN 1 ELSE 0)]
        /\ lost' = IF clock < RespondBy[holding[s][1]] THEN lost ELSE lost \cup {holding[s]}
        /\ UNCHANGED <<todo, inSweep, upsets>>
     \/ /\ Upset /\ lost' = lost \cup {holding[s]} /\ UNCHANGED <<sent, todo, inSweep>>
     \/ /\ Upset /\ lost' = lost \cup {holding[s]} /\ UNCHANGED sent
        /\ todo' = [todo EXCEPT ![s] = {}] /\ inSweep' = [inSweep EXCEPT ![s] = FALSE]
  /\ UNCHANGED <<clock, open, sentKeys, inMemory>>
SweepOver(s) ==
  /\ inSweep[s] /\ todo[s] = {} /\ holding[s] = NoPair
  /\ inSweep' = [inSweep EXCEPT ![s] = FALSE]
  /\ UNCHANGED <<clock, open, sentKeys, inMemory, todo, holding, upsets, sent, lost>>

Crash(s) ==
  /\ Upset /\ lost' = lost \cup ({holding[s]} \ {NoPair})
  /\ todo' = [todo EXCEPT ![s] = {}] /\ inSweep' = [inSweep EXCEPT ![s] = FALSE]
  /\ holding' = [holding EXCEPT ![s] = NoPair] /\ inMemory' = [inMemory EXCEPT ![s] = {}]
  /\ UNCHANGED <<clock, open, sentKeys, sent>>

Next ==
  \/ Tick
  \/ \E g \in OpenGigs : GigCloses(g)
  \/ \E s \in Schedulers :
       RunSweep(s) \/ ClaimReminder(s) \/ Dispatch(s) \/ SweepOver(s) \/ Crash(s)

Spec == Init /\ [][Next]_vars

----------------------------------------------------------------------------
TypeOK ==
  /\ clock \in 0 .. Horizon /\ open \subseteq OpenGigs /\ sentKeys \in [Pairs -> Nat]
  /\ inMemory \in [Schedulers -> SUBSET Pairs] /\ todo \in [Schedulers -> SUBSET Pairs]
  /\ inSweep \in [Schedulers -> BOOLEAN] /\ holding \in [Schedulers -> Pairs \cup {NoPair}]
  /\ upsets \in 0 .. MaxUpsets /\ sent \in [Pairs -> Nat] /\ lost \subseteq Pairs

(* However many instances sweep, a reminder goes out once before the deadline,    *)
(* and a claimed one does go out, unless Redis, a dispatch or the process fails   *)
(* on it (claimReminder, #799).                                                  *)
RemindedOnce ==
  \A p \in Pairs \ lost :
    /\ sent[p] <= 1
    /\ sentKeys[p] # 0 => sent[p] = 1 \/ \E s \in Schedulers : holding[s] = p
=============================================================================

----------------------------- MODULE EscrowSync -----------------------------
(***************************************************************************)
(* The escrow rows, the contract they mirror and the sweeps of              *)
(* EscrowReconciliationService that repair the rows. A sweep reads all rows, *)
(* then the chain, then writes row by row; API calls, contract events and    *)
(* other sweeps (the worker's and POST escrow-reconciliation/run) go on in   *)
(* between. One on-chain escrow is modelled, and of a drift its status only. *)
(***************************************************************************)
EXTENDS Escrow

CONSTANTS
  Sweepers,    \* sweeps in progress; each writes through a request of its own
  Extra        \* does a sweep get the contract id as extraContractEscrowIds?

ASSUME EscrowSyncAssumption == Sweepers \subseteq Requests /\ Extra \in BOOLEAN

Callers == Requests \ Sweepers

VARIABLES
  chain,       \* status of the escrow on chain, "none" before it exists
  phase,       \* per sweep: "idle", "read", "diff" or "repair"
  snap,        \* per sweep: the rows as findAll returned them
  seen,        \* per sweep: the status getEscrow returned
  todo         \* per sweep: targets not looked at yet

syncVars == <<chain, phase, snap, seen, todo>>
allVars == <<vars, syncVars>>

NoRows == [r \in Rows |-> Absent]
Linked(rows) == {r \in Rows : rows[r].linked}

SyncInit ==
  /\ Init
  /\ chain = "none"
  /\ phase = [s \in Sweepers |-> "idle"]
  /\ snap = [s \in Sweepers |-> NoRows]
  /\ seen = [s \in Sweepers |-> "none"]
  /\ todo = [s \in Sweepers |-> {}]

\* The contract moves on; modelled from the events and statuses the backend knows.
Onward == [none |-> {"pending"}, pending |-> {"active"},
           active |-> {"released", "disputed"}, disputed |-> {"released", "cancelled"},
           released |-> {}, cancelled |-> {}]

ChainMoves ==
  /\ \E c \in Onward[chain] : chain' = c
  /\ UNCHANGED <<vars, phase, snap, seen, todo>>

----------------------------------------------------------------------------
(* Callers: the contract's events, the API and the dispute saga. *)

\* handleEscrowCreated: create a row unless the contract id has one. fund, release and
\* raiseDispute follow the later events; release and raiseDispute are also API calls;
\* cancel, split and correctStatus are the saga's, which also calls applyChainState
\* without a version.
Call(q) ==
  /\ begun < MaxRequests /\ begun' = begun + 1
  /\ \E r \in Rows :
       \/ chain # "none" /\ index = NoRow /\ Seed(q, r, "pending")
       \/ chain \notin {"none", "pending"} /\ index = r /\ Transition(q, "fund", r)
       \/ \E o \in Transitions \ {"fund"} : Transition(q, o, r)
       \/ \E s \in {"active", "disputed"} : Correct(q, r, s)
       \/ chain # "none" /\ Apply(q, r, chain, 0)
  /\ UNCHANGED syncVars

----------------------------------------------------------------------------
(* One sweep: EscrowReconciliationService.reconcile. *)

\* findAll.
SweepStarts(s) ==
  /\ phase[s] = "idle" /\ step[s] = "idle"
  /\ phase' = [phase EXCEPT ![s] = "read"]
  /\ snap' = [snap EXCEPT ![s] = db]
  /\ UNCHANGED <<vars, chain, seen, todo>>

Over(s) ==
  /\ phase' = [phase EXCEPT ![s] = "idle"]
  /\ snap' = [snap EXCEPT ![s] = NoRows]
  /\ seen' = [seen EXCEPT ![s] = "none"]
  /\ todo' = [todo EXCEPT ![s] = {}]

\* Variant: rows without a contract id are not filtered out.
ChainReadUnfiltered(s) ==
  /\ phase[s] = "read" /\ chain # "none"
  /\ phase' = [phase EXCEPT ![s] = "diff"]
  /\ seen' = [seen EXCEPT ![s] = chain]
  /\ todo' = [todo EXCEPT ![s] = Rows]
  /\ UNCHANGED <<vars, chain, snap>>

\* The chain reads of all targets are over before the first row is compared. A failed
\* read, and an escrow the chain does not know, is recorded and nothing is repaired.
ChainRead(s) ==
  /\ phase[s] = "read"
  /\ \/ /\ chain # "none"
        /\ Linked(snap[s]) # {} \/ Extra
        /\ phase' = [phase EXCEPT ![s] = "diff"]
        /\ seen' = [seen EXCEPT ![s] = chain]
        /\ todo' = [todo EXCEPT ![s] = Linked(snap[s])]
        /\ UNCHANGED snap
     \/ /\ Faults \/ chain = "none" \/ (Linked(snap[s]) = {} /\ ~Extra)
        /\ Over(s)
  /\ UNCHANGED <<vars, chain>>

Drifted(s, r) == snap[s][r].status # seen[s]
Refused(e, expected) == ~Exists(e) \/ ~VersionMatches(e, expected)

Skip(s, r) ==
  /\ phase' = [phase EXCEPT ![s] = "diff"]
  /\ todo' = [todo EXCEPT ![s] = @ \ {r}]
  /\ UNCHANGED <<vars, chain, snap, seen>>

\* Variant: a missing version is passed on as 0 and compared, so a row that was never
\* persisted is never repaired.
RepairZero(s, r) ==
  /\ phase[s] = "diff" /\ r \in todo[s]
  /\ \/ /\ ~Drifted(s, r) \/ snap[s][r].version = 0
        /\ Skip(s, r)
     \/ /\ Drifted(s, r) /\ snap[s][r].version # 0
        /\ \E d \in Degraded : Refused(Found(s, r, d), snap[s][r].version)
        /\ Skip(s, r)
     \/ /\ Drifted(s, r) /\ snap[s][r].version # 0
        /\ Apply(s, r, seen[s], snap[s][r].version)
        /\ phase' = [phase EXCEPT ![s] = "repair"]
        /\ todo' = [todo EXCEPT ![s] = @ \ {r}]
        /\ UNCHANGED <<begun, chain, snap, seen>>

\* Variant: the version is not passed on.
RepairUnversioned(s, r) ==
  /\ phase[s] = "diff" /\ r \in todo[s]
  /\ \/ ~Drifted(s, r) /\ Skip(s, r)
     \/ /\ Drifted(s, r)
        /\ Apply(s, r, seen[s], 0)
        /\ phase' = [phase EXCEPT ![s] = "repair"]
        /\ todo' = [todo EXCEPT ![s] = @ \ {r}]
        /\ UNCHANGED <<begun, chain, snap, seen>>

\* The next row: no drift, or applyChainState with the version of the snapshot, which
\* refuses a row whose version has changed since.
Repair(s, r) ==
  /\ phase[s] = "diff" /\ r \in todo[s]
  /\ \/ ~Drifted(s, r) /\ Skip(s, r)
     \/ /\ Drifted(s, r)
        /\ \E d \in Degraded : Refused(Found(s, r, d), snap[s][r].version)
        /\ Skip(s, r)
     \/ /\ Drifted(s, r)
        /\ Apply(s, r, seen[s], snap[s][r].version)
        /\ phase' = [phase EXCEPT ![s] = "repair"]
        /\ todo' = [todo EXCEPT ![s] = @ \ {r}]
        /\ UNCHANGED <<begun, chain, snap, seen>>

\* An extra id without a row in the snapshot: createFromChainState, which does not
\* look for a row again. (Bounded by Rows: a sweep that finds no id left is over.)
Backfill(s, r) ==
  /\ phase[s] = "diff" /\ Extra /\ Linked(snap[s]) = {}
  /\ Seed(s, r, seen[s])
  /\ phase' = [phase EXCEPT ![s] = "repair"]
  /\ UNCHANGED <<begun, chain, snap, seen, todo>>

\* The request of the sweep is answered, with success or not.
Answered(s) ==
  /\ phase[s] = "repair" /\ step[s] = "idle"
  /\ \/ /\ Linked(snap[s]) # {}
        /\ phase' = [phase EXCEPT ![s] = "diff"]
        /\ UNCHANGED <<snap, seen, todo>>
     \/ Linked(snap[s]) = {} /\ Over(s)
  /\ UNCHANGED <<vars, chain>>

SweepEnds(s) ==
  /\ phase[s] = "diff" /\ todo[s] = {}
  /\ Linked(snap[s]) # {} \/ \A r \in Rows : ~Fresh(r)
  /\ Over(s)
  /\ UNCHANGED <<vars, chain>>

Sweep(s) ==
  \/ SweepStarts(s) \/ ChainRead(s) \/ Answered(s) \/ SweepEnds(s)
  \/ \E r \in Rows : Repair(s, r) \/ Backfill(s, r)

SyncNext ==
  \/ ChainMoves
  \/ \E q \in Callers : Call(q)
  \/ \E q \in Requests : Write(q) /\ UNCHANGED syncVars
  \/ \E s \in Sweepers : Sweep(s)

SyncSpec == SyncInit /\ [][SyncNext]_allVars

\* The worker's timer starts a sweep again and again, and every call is answered.
SyncFairSpec ==
  /\ SyncSpec
  /\ \A q \in Requests : WF_allVars(Write(q) /\ UNCHANGED syncVars)
  /\ \A s \in Sweepers : WF_allVars(Sweep(s))

----------------------------------------------------------------------------
SyncTypeOK ==
  /\ TypeOK
  /\ chain \in Statuses \cup {"none"}
  /\ phase \in [Sweepers -> {"idle", "read", "diff", "repair"}]
  /\ snap \in [Sweepers -> [Rows -> Escrows \cup {Absent}]]
  /\ seen \in [Sweepers -> Statuses \cup {"none"}]
  /\ todo \in [Sweepers -> SUBSET Rows]
  /\ \A s \in Sweepers : todo[s] \subseteq Linked(snap[s])

\* Sweep s commits the repair of r in this step.
Repairs(s, r) == op[s] = "apply" /\ row[s] = r /\ step[s] = "write" /\ db'[r] # db[r]

\* What the optimistic lock of applyChainState does give: a row that had a version when
\* the sweep read it, and that no two calls had in hand at once, is repaired only as the
\* sweep saw it: a change made since then is never overwritten.
RepairLosesNothing ==
  [][\A s \in Sweepers, r \in Rows :
       Repairs(s, r) /\ r \notin raced /\ snap[s][r].version # 0 => db[r] = snap[s][r]]_allVars

\* Once the callers are done every linked row ends up, for good, with the status of the
\* contract, whatever stale writes, duplicates and refused repairs there were.
Converges == <>[](\A r \in Linked(db) : db[r].status = chain)

\* escrow.service.ts:286-291: "if the escrow was modified between reading chain state and
\* applying the patch, the write is rejected".
RepairRejectsModified ==
  [][\A s \in Sweepers, r \in Rows : Repairs(s, r) => db[r] = snap[s][r]]_allVars
=============================================================================

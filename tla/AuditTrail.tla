----------------------------- MODULE AuditTrail -----------------------------
(***************************************************************************)
(* AuditService over DatabaseService: rows are inserted on the primary, one *)
(* statement each, whatever the caller's work comes to; an export reads     *)
(* pages by offset, each from the next replica in turn, while rows are      *)
(* being inserted and replicas lag. A row is named by its created_at, the   *)
(* start of its INSERT; it is visible from its commit, and replicas replay  *)
(* the commits in order. AuditExportService reads one snapshot instead.     *)
(***************************************************************************)
EXTENDS Naturals, Sequences, FiniteSetsExt

CONSTANTS
  MaxEntries,    \* bounds the calls of logOperation
  Exports,       \* exports asked for of one process
  PageRows,      \* BATCH_SIZE
  Replicas,      \* DATABASE_READ_REPLICAS, numbered from 1
  ConnectTries,  \* DB_RETRY_ATTEMPTS
  MaxDrops       \* bounds failed statements and connections

VARIABLES
  boot,       \* attempts to connect, then the pools the process goes on with
  inserting,  \* entries whose INSERT has started
  log,        \* the rows of the primary, in commit order
  applied,    \* per replica: how much of `log` it has replayed
  reader,     \* replicaCursor
  export,     \* per export: its phase, kind, endDate and what it has pushed
  entries,    \* calls of logOperation so far
  drops,
  atStart,    \* history: the rows committed when each export began
  straggled,  \* history: a row was committed after a later one
  lagging     \* history: exports that read a replica without the rows of their start

vars == <<boot, inserting, log, applied, reader, export, entries, drops, atStart, straggled, lagging>>

Entry == 1 .. MaxEntries
(* ORDER BY created_at, and the pools in the order of their configuration. *)
InOrder(S) ==
  CHOOSE s \in [1 .. Cardinality(S) -> S] : \A i, j \in 1 .. Cardinality(S) : i < j => s[i] < s[j]
NoExport == [phase |-> "none", kind |-> "paged", until |-> 0, pushed |-> <<>>]
Started(e) == export[e].phase # "none"

Init ==
  /\ boot = [tries |-> 0, up |-> FALSE, pools |-> <<>>]
  /\ inserting = {} /\ log = <<>> /\ applied = [r \in Replicas |-> 0] /\ reader = 0
  /\ export = [e \in Exports |-> NoExport] /\ entries = 0 /\ drops = 0
  /\ atStart = [e \in Exports |-> {}] /\ straggled = FALSE /\ lagging = {}

Drop == drops < MaxDrops /\ drops' = drops + 1

----------------------------------------------------------------------------
(* PG_POOL: the primary is tried a few times before the process gives up; then    *)
(* PG_READ_POOLS keeps the replicas that answer at that moment, or none at all.   *)
ConnectFails ==
  /\ ~boot.up /\ boot.tries < ConnectTries /\ Drop /\ boot' = [boot EXCEPT !.tries = @ + 1]
  /\ UNCHANGED <<inserting, log, applied, reader, export, entries, atStart, straggled, lagging>>
Connect ==
  /\ ~boot.up /\ boot.tries < ConnectTries
  /\ \E answering \in SUBSET Replicas : boot' = [boot EXCEPT !.up = TRUE, !.pools = InOrder(answering)]
  /\ UNCHANGED <<inserting, log, applied, reader, export, entries, drops, atStart, straggled, lagging>>

(* logOperation: an INSERT of its own on the pool, not in the caller's            *)
(* transaction; a failure is logged and the caller goes on.                       *)
LogOperation ==
  /\ boot.up /\ entries < MaxEntries /\ entries' = entries + 1
  /\ inserting' = inserting \cup {entries + 1}
  /\ UNCHANGED <<boot, log, applied, reader, export, drops, atStart, straggled, lagging>>
Insert(n) ==
  /\ n \in inserting /\ inserting' = inserting \ {n}
  /\ \/ /\ log' = Append(log, n) /\ straggled' = (straggled \/ \E m \in Range(log) : m > n)
        /\ UNCHANGED drops
     \/ Drop /\ UNCHANGED <<log, straggled>>
  /\ UNCHANGED <<boot, applied, reader, export, entries, atStart, lagging>>
Replicate(r) ==
  /\ applied[r] < Len(log) /\ applied' = [applied EXCEPT ![r] = @ + 1]
  /\ UNCHANGED <<boot, inserting, log, reader, export, entries, drops, atStart, straggled, lagging>>

(* getReadPool: the next replica in turn, the primary if there is none. *)
NextReader == IF boot.pools = <<>> THEN reader ELSE (reader + 1) % Len(boot.pools)
Visible == IF boot.pools = <<>> THEN Range(log)
           ELSE Range(SubSeq(log, 1, applied[boot.pools[reader + 1]]))

Matching(e, rows) == InOrder({n \in rows : n <= export[e].until})

Slice(rows, off) == SubSeq(rows, off + 1, Min({Len(rows), off + PageRows}))

\* Variant: the offset moves one row too far.
PagePast(e, rows) ==
  LET got == Len(export[e].pushed) IN Slice(Matching(e, rows), IF got = 0 THEN 0 ELSE got + 1)
\* buildFilterClauses, ORDER BY created_at, LIMIT and OFFSET.
Page(e, rows) == Slice(Matching(e, rows), Len(export[e].pushed))

ExportLogs(e) ==
  /\ boot.up /\ ~Started(e)
  /\ \E kind \in {"paged", "snapshot"}, until \in {entries, MaxEntries} :
       export' = [export EXCEPT ![e] = [phase |-> "reading", kind |-> kind, until |-> until, pushed |-> <<>>]]
  /\ atStart' = [atStart EXCEPT ![e] = Range(log)]
  /\ UNCHANGED <<boot, inserting, log, applied, reader, entries, drops, straggled, lagging>>

\* Variant: a full page counts as the last.
LastPageFull(page) == Len(page) <= PageRows
\* The loop goes on as long as pages are full.
LastPage(page) == Len(page) < PageRows

(* One turn of the loop of AuditService.exportLogs; a failing query destroys the  *)
(* stream and rejects the checksum.                                               *)
ReadPage(e) ==
  /\ export[e].phase = "reading" /\ export[e].kind = "paged" /\ reader' = NextReader
  /\ \/ LET page == Page(e, Visible)
        IN /\ export' = [export EXCEPT ![e].pushed = @ \o page,
                                       ![e].phase = IF LastPage(page) THEN "ended" ELSE @]
           /\ lagging' = lagging \cup (IF atStart[e] \subseteq Visible THEN {} ELSE {e})
           /\ UNCHANGED drops
     \/ Drop /\ export' = [export EXCEPT ![e].phase = "destroyed"] /\ UNCHANGED lagging
  /\ UNCHANGED <<boot, inserting, log, applied, entries, atStart, straggled>>

(* AuditExportService._produceData: one query on the primary. *)
ReadAll(e) ==
  /\ export[e].phase = "reading" /\ export[e].kind = "snapshot"
  /\ \/ export' = [export EXCEPT ![e].pushed = Matching(e, Range(log)), ![e].phase = "ended"]
        /\ UNCHANGED drops
     \/ Drop /\ export' = [export EXCEPT ![e].phase = "destroyed"]
  /\ UNCHANGED <<boot, inserting, log, applied, reader, entries, atStart, straggled, lagging>>

Next ==
  \/ ConnectFails \/ Connect \/ LogOperation
  \/ \E n \in inserting : Insert(n)
  \/ \E r \in Replicas : Replicate(r)
  \/ \E e \in Exports : ExportLogs(e) \/ ReadPage(e) \/ ReadAll(e)

Spec == Init /\ [][Next]_vars

----------------------------------------------------------------------------
TypeOK ==
  /\ boot \in [tries : 0 .. ConnectTries, up : BOOLEAN, pools : Seq(Replicas)]
  /\ inserting \subseteq Entry /\ log \in Seq(Entry) /\ entries \in 0 .. MaxEntries
  /\ \A r \in Replicas : applied[r] \in 0 .. Len(log)
  /\ reader \in Nat /\ (IF boot.pools = <<>> THEN reader = 0 ELSE reader < Len(boot.pools))
  /\ \A e \in Exports :
       export[e] \in [phase : {"none", "reading", "ended", "destroyed"}, kind : {"paged", "snapshot"},
                      until : 0 .. MaxEntries, pushed : Seq(Entry)]
  /\ drops \in 0 .. MaxDrops /\ straggled \in BOOLEAN /\ lagging \subseteq Exports

(* A finished export holds every row that was committed when it began and that    *)
(* its filter lets through, each row once and in order. Paging by offset gives    *)
(* this only while rows are committed in the order of their times and every       *)
(* replica read has the rows of the start (exportLogs, getReadPool).              *)
ExportsAreWhole ==
  \A e \in Exports :
    LET pushed == export[e].pushed IN
    export[e].phase = "ended" /\ (export[e].kind = "snapshot" \/ (~straggled /\ e \notin lagging)) =>
      /\ \A i, j \in DOMAIN pushed : i < j => pushed[i] < pushed[j]
      /\ {n \in atStart[e] : n <= export[e].until} \subseteq Range(pushed)
=============================================================================

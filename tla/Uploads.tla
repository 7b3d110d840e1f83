------------------------------ MODULE Uploads -------------------------------
(***************************************************************************)
(* DeliverableService: a freelancer's upload for one gig is checked against *)
(* the gig, its type is looked at, its content is pinned, and its row and   *)
(* its place in the gig's list are written in one MULTI whose results       *)
(* nobody reads. Without Redis the gig is looked for, and the row written,  *)
(* in the maps of the process. Of the gig there is what it may be in        *)
(* meanwhile: Gig has its mutations step by step.                           *)
(***************************************************************************)
EXTENDS Naturals, FiniteSets

CONSTANTS
  Uploaded,     \* uploads
  Freelancers,
  By, For,      \* per upload: the wallet of the request, the freelancer it names
  MaxHiccups    \* bounds failing calls and lost watches

VARIABLES
  theGig,       \* the gig: status and acceptedBy
  mapped,       \* the copy of it in the map of the process
  upload,       \* per upload: phase and the status its pin gave it
  rows,         \* deliverable:<id>
  listed,       \* deliverables:gig:<id>
  ownRows,      \* the map of the process
  hiccups,
  unread,       \* history: uploads whose MULTI did not go through as a whole
  acceptors,    \* history: those who had accepted the gig, in Redis or in the map
  overwritten   \* history: was an accepted gig written over?

gigVars == <<theGig, mapped, acceptors, overwritten>>
vars == <<gigVars, upload, rows, listed, ownRows, hiccups, unread>>

Nobody == [status |-> "none", by |-> {}]
Opened == [status |-> "open", by |-> {}]
Gigs == {Nobody, Opened, [status |-> "cancelled", by |-> {}]}
          \cup {[status |-> "accepted", by |-> {f}] : f \in Freelancers}

Init ==
  /\ theGig = Opened /\ mapped \in {Nobody, Opened}
  /\ upload = [u \in Uploaded |-> [phase |-> "new", status |-> "none"]]
  /\ rows = {} /\ listed = {} /\ ownRows = {} /\ hiccups = 0 /\ unread = {}
  /\ acceptors = {} /\ overwritten = FALSE

Hiccup == hiccups < MaxHiccups /\ hiccups' = hiccups + 1
Move(u, from, to) == upload[u].phase = from /\ upload' = [upload EXCEPT ![u].phase = to]

----------------------------------------------------------------------------
(* Accept, cancel and expire resolve an open gig, update leaves it open, remove *)
(* takes away any but an accepted one.                                          *)
MutationsOf(g) == CASE g.status = "open" -> Gigs [] g.status = "accepted" -> {} [] OTHER -> {Nobody}

Mutate ==
  /\ theGig' \in MutationsOf(theGig)
  /\ acceptors' = acceptors \cup theGig'.by
  /\ UNCHANGED <<mapped, overwritten, upload, rows, listed, ownRows, hiccups, unread>>

\* A mutation that read the gig before and whose watch another request on the connection
\* ended writes whatever became of the gig since (mutateWithRetry).
MutateUnwatched ==
  /\ Hiccup /\ theGig' \in Gigs
  /\ acceptors' = acceptors \cup theGig'.by /\ overwritten' = (overwritten \/ theGig.status = "accepted")
  /\ UNCHANGED <<mapped, upload, rows, listed, ownRows, unread>>

\* One whose EXEC fails, having been applied or not, writes the map whatever it holds
\* (persistResolved, persistGig, remove).
MutateInMemory ==
  /\ Hiccup /\ mapped' \in Gigs
  /\ theGig' = theGig \/ theGig' \in MutationsOf(theGig) \cap {mapped'}
  /\ acceptors' = acceptors \cup mapped'.by /\ overwritten' = (overwritten \/ mapped.status = "accepted")
  /\ UNCHANGED <<upload, rows, listed, ownRows, unread>>

\* Variant: whoever sends it, if it names the freelancer.
MayDeliverForAnother(u, g) == g.status = "accepted" /\ g.by = {For[u]}
\* assertMayDeliver.
MayDeliver(u, g) == g.status = "accepted" /\ g.by = {For[u]} /\ g.by = {By[u]}

Check(u) ==
  \/ /\ IF MayDeliver(u, theGig) THEN Move(u, "new", "typing") ELSE Move(u, "new", "refused")
     /\ UNCHANGED <<gigVars, rows, listed, ownRows, hiccups, unread>>
  \/ /\ Hiccup
     /\ IF MayDeliver(u, mapped) THEN Move(u, "new", "typing") ELSE Move(u, "new", "refused")
     /\ UNCHANGED <<gigVars, rows, listed, ownRows, unread>>

\* validateFileMagicBytes: a file of another kind is turned away.
ValidateFileMagicBytes(u) ==
  /\ Move(u, "typing", "pinning") \/ Move(u, "typing", "refused")
  /\ UNCHANGED <<gigVars, rows, listed, ownRows, hiccups, unread>>

\* mapPinStatusToDeliverableStatus.
DeliverableStatus(pin) ==
  CASE pin = "healthy" -> "pinned" [] pin = "degraded" -> "pending" [] OTHER -> "failed"

(* pinContent answers with the record's status, or throws. *)
PinContent(u) ==
  /\ upload[u].phase = "pinning"
  /\ \/ \E pin \in {"healthy", "degraded", "failed"} :
          /\ upload' = [upload EXCEPT ![u] = [phase |-> "storing", status |-> DeliverableStatus(pin)]]
          /\ UNCHANGED hiccups
     \/ Hiccup /\ Move(u, "pinning", "refused")
  /\ UNCHANGED <<gigVars, rows, listed, ownRows, unread>>

\* Variant: the row alone.
WrittenUnlisted(u) == rows' = rows \cup {u} /\ UNCHANGED listed
Written(u) == rows' = rows \cup {u} /\ listed' = listed \cup {u}
(* The MULTI: as a whole, in part or not at all, and all of it is taken for done; *)
(* only an error has the row stored in the map, whether or not Redis has it too.  *)
Store(u) ==
  /\ Move(u, "storing", "created")
  /\ \/ Written(u) /\ UNCHANGED <<ownRows, hiccups, unread>>
     \/ /\ Hiccup /\ unread' = unread \cup {u} /\ UNCHANGED ownRows
        /\ \/ rows' = rows \cup {u} /\ UNCHANGED listed
           \/ listed' = listed \cup {u} /\ UNCHANGED rows
           \/ UNCHANGED <<rows, listed>>
     \/ /\ Hiccup /\ unread' = unread \cup {u} /\ ownRows' = ownRows \cup {u}
        /\ Written(u) \/ UNCHANGED <<rows, listed>>
  /\ UNCHANGED gigVars

Next ==
  \/ Mutate \/ MutateUnwatched \/ MutateInMemory
  \/ \E u \in Uploaded : Check(u) \/ ValidateFileMagicBytes(u) \/ PinContent(u) \/ Store(u)

Spec == Init /\ [][Next]_vars

----------------------------------------------------------------------------
TypeOK ==
  /\ {theGig, mapped} \subseteq Gigs /\ rows \cup listed \cup ownRows \cup unread \subseteq Uploaded
  /\ upload \in [Uploaded -> [phase : {"new", "typing", "pinning", "storing", "refused", "created"},
                              status : {"none", "pinned", "pending", "failed"}]]
  /\ hiccups \in 0 .. MaxHiccups /\ acceptors \subseteq Freelancers /\ overwritten \in BOOLEAN

(* What was answered as created is found by its id and in the list of its gig, if *)
(* its MULTI went through; and whatever is stored came from a freelancer who had  *)
(* accepted the gig. The gig is not looked at again after the pin: it is still    *)
(* accepted by that freelancer as long as no mutation has written over an         *)
(* accepted gig in the meantime (upload, assertMayDeliver).                       *)
UploadsAreFound ==
  \A u \in Uploaded :
    /\ upload[u].phase = "created" =>
         u \in unread \cup (rows \cap listed) /\ upload[u].status # "none"
    /\ u \in rows \cup listed \cup ownRows =>
         /\ By[u] = For[u] /\ By[u] \in acceptors
         /\ overwritten \/ \E g \in {theGig, mapped} : g.status = "accepted" /\ g.by = {By[u]}
=============================================================================

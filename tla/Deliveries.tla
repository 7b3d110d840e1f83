----------------------------- MODULE Deliveries -----------------------------
(***************************************************************************)
(* WebhookService of one process: endpoints come and go while rows of the   *)
(* outbox are delivered to them and while the process is told to stop. One  *)
(* call of deliver checks every endpoint in turn (each check waits for the  *)
(* name service), sends to all that passed at once, retries each on its     *)
(* own, and fails when one of them failed. The order of the checks is left  *)
(* open.                                                                    *)
(***************************************************************************)
EXTENDS Naturals, FiniteSets

CONSTANTS
  Posts,          \* the calls of deliver
  Targets,        \* registrations of endpoints, each made once
  SendAttempts    \* of withRetry (3 in deliver)

VARIABLES
  registered,     \* WebhookService.endpoints
  unregistered,   \* registrations taken back
  stopping,       \* isShuttingDown, and how beforeApplicationShutdown stands
  inFlightRequests,       \* requests whose answer deliver awaits
  waitedFor,      \* the requests beforeApplicationShutdown waits for
  post,           \* per call: its phase, the endpoints checked and those valid
  sends,          \* per call and endpoint: the attempts made and the outcome
  steady,         \* history: endpoints registered ever since the call started
  atStop          \* history: calls that were sending when the process was told to stop

vars == <<registered, unregistered, stopping, inFlightRequests, waitedFor, post, sends, steady, atStop>>

NotSent == [attempts |-> 0, outcome |-> "none"]
Init ==
  /\ registered = {} /\ unregistered = {} /\ stopping = "no" /\ inFlightRequests = {} /\ waitedFor = {}
  /\ post = [d \in Posts |-> [phase |-> "new", checked |-> {}, valid |-> {}]]
  /\ sends = [d \in Posts |-> [e \in Targets |-> NotSent]]
  /\ steady = [d \in Posts |-> {}] /\ atStop = {}

Sending(d) == {e \in post[d].valid : sends[d][e].outcome = "none"}
Ended(d) == post[d].phase \in {"returned", "failed"}

----------------------------------------------------------------------------
(* register has validated the URL; an unregistered one leaves the iteration. *)
Register(e) ==
  /\ e \notin registered \cup unregistered /\ registered' = registered \cup {e}
  /\ UNCHANGED <<unregistered, stopping, inFlightRequests, waitedFor, post, sends, steady, atStop>>
Unregister(e) ==
  /\ registered' = registered \ {e} /\ e \in registered /\ unregistered' = unregistered \cup {e}
  /\ steady' = [d \in Posts |-> steady[d] \ {e}]
  /\ UNCHANGED <<stopping, inFlightRequests, waitedFor, post, sends, atStop>>

(* Once the process is stopping, deliver returns: the processor takes that   *)
(* for a delivery.                                                           *)
Deliver(d) ==
  /\ post[d].phase = "new"
  /\ post' = [post EXCEPT ![d].phase = IF stopping # "no" THEN "turnedAway" ELSE "checking"]
  /\ steady' = [steady EXCEPT ![d] = registered]
  /\ UNCHANGED <<registered, unregistered, stopping, inFlightRequests, waitedFor, sends, atStop>>

(* validateWebhookUrl answers for the next endpoint of the Map. *)
Check(d) ==
  \E e \in registered \ post[d].checked, ok \in BOOLEAN :
    /\ post[d].phase = "checking"
    /\ post' = [post EXCEPT ![d].checked = @ \cup {e}, ![d].valid = IF ok THEN @ \cup {e} ELSE @]
    /\ UNCHANGED <<registered, unregistered, stopping, inFlightRequests, waitedFor, sends, steady, atStop>>

\* Variant: the request is not put among those in flight.
TrackNone(d) == UNCHANGED inFlightRequests
Track(d) == inFlightRequests' = inFlightRequests \cup {d}
SendAll(d) ==
  /\ post[d].phase = "checking" /\ registered \subseteq post[d].checked
  /\ IF post[d].valid = {}
     THEN post' = [post EXCEPT ![d].phase = "returned"] /\ UNCHANGED inFlightRequests
     ELSE post' = [post EXCEPT ![d].phase = "sending"] /\ Track(d)
  /\ UNCHANGED <<registered, unregistered, stopping, waitedFor, sends, steady, atStop>>

(* One attempt of withRetry: accepted (a status below 400), refused for good *)
(* (another status, or the time limit of send, which isRetryable does not    *)
(* know), or worth another attempt (5xx, 429, the network).                  *)
Attempt(d, e) ==
  /\ post[d].phase = "sending" /\ e \in Sending(d)
  /\ LET made == sends[d][e].attempts + 1 IN
     \E answer \in {"accepted", "refused", "none"} :
       sends' = [sends EXCEPT ![d][e] = [attempts |-> made, outcome |->
                   IF answer = "none" /\ made = SendAttempts THEN "refused" ELSE answer]]
  /\ UNCHANGED <<registered, unregistered, stopping, inFlightRequests, waitedFor, post, steady, atStop>>

\* Variant: Promise.all, which rejects with the first failure.
SettledFirst(d) == Sending(d) = {} \/ \E e \in post[d].valid : sends[d][e].outcome = "refused"
\* Promise.allSettled
Settled(d) == Sending(d) = {}
\* Variant: the failure found among the results is not thrown.
VerdictKind(d) == "returned"
Verdict(d) == IF \E e \in post[d].valid : sends[d][e].outcome = "refused" THEN "failed" ELSE "returned"
Settle(d) ==
  /\ post[d].phase = "sending" /\ Settled(d)
  /\ post' = [post EXCEPT ![d].phase = Verdict(d)] /\ inFlightRequests' = inFlightRequests \ {d}
  /\ UNCHANGED <<registered, unregistered, stopping, waitedFor, sends, steady, atStop>>

----------------------------------------------------------------------------
(* beforeApplicationShutdown: waits for what is in flight, 15 s at most.     *)
Stop ==
  /\ stopping = "no" /\ waitedFor' = inFlightRequests
  /\ stopping' = IF inFlightRequests = {} THEN "drained" ELSE "waiting"
  /\ atStop' = {d \in Posts : post[d].phase = "sending"}
  /\ UNCHANGED <<registered, unregistered, inFlightRequests, post, sends, steady>>
Drained ==
  /\ stopping = "waiting" /\ waitedFor \cap inFlightRequests = {} /\ stopping' = "drained"
  /\ UNCHANGED <<registered, unregistered, inFlightRequests, waitedFor, post, sends, steady, atStop>>
GiveUp ==
  /\ stopping = "waiting" /\ stopping' = "timedOut"
  /\ UNCHANGED <<registered, unregistered, inFlightRequests, waitedFor, post, sends, steady, atStop>>

Next ==
  \/ \E e \in Targets : Register(e) \/ Unregister(e)
  \/ \E d \in Posts : Deliver(d) \/ Check(d) \/ SendAll(d) \/ Settle(d)
                      \/ \E e \in Targets : Attempt(d, e)
  \/ Stop \/ Drained \/ GiveUp
Spec == Init /\ [][Next]_vars

----------------------------------------------------------------------------
TypeOK ==
  /\ registered \cup unregistered \subseteq Targets
  /\ stopping \in {"no", "waiting", "drained", "timedOut"}
  /\ UNION {inFlightRequests, waitedFor, atStop} \subseteq Posts /\ steady \in [Posts -> SUBSET Targets]
  /\ post \in [Posts -> [phase : {"new", "checking", "sending", "returned", "failed", "turnedAway"},
                         checked : SUBSET Targets, valid : SUBSET Targets]]
  /\ sends \in [Posts -> [Targets -> [attempts : 0 .. SendAttempts,
                                       outcome : {"none", "accepted", "refused"}]]]

(* A call that was not turned away by a shutdown and returned has delivered to   *)
(* every endpoint that stayed registered and was found valid; one that failed    *)
(* met an endpoint that refused; and either way nothing of it is still being     *)
(* sent, so that the retry of the row never runs beside it (deliver).            *)
ReturnedIsAccepted ==
  \A d \in Posts : Ended(d) =>
    /\ Sending(d) = {} /\ steady[d] \subseteq post[d].checked
    /\ post[d].phase = "returned" <=> \A e \in post[d].valid : sends[d][e].outcome = "accepted"

(* When the process has drained in time, a call that is still sending had not    *)
(* begun to send when the process was told to stop (beforeApplicationShutdown).  *)
DrainedIsSettled ==
  stopping = "drained" => \A d \in Posts : post[d].phase = "sending" => d \notin atStop
=============================================================================

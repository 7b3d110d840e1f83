------------------------------ MODULE Failover ------------------------------
(***************************************************************************)
(* RpcFailoverService: the endpoints are checked every 30 s, all at once,   *)
(* and a check that throws on the current endpoint may switch to another    *)
(* one. Horizon and Soroban endpoints are handled alike: the model is one   *)
(* list of either kind.                                                     *)
(***************************************************************************)
EXTENDS Naturals, FiniteSetsExt

CONSTANTS
  Endpoints,     \* 1..n, in the order of the configuration
  MaxFailures,   \* MAX_FAILURES_BEFORE_UNHEALTHY
  MaxCount       \* bounds failureCount

VARIABLES
  current,       \* the endpoint requests go to
  healthy, failureCount,
  unchecked,     \* endpoints whose check of this round has not answered
  held           \* history: checks in a row that threw on the current endpoint, while
                 \* another one was healthy

vars == <<current, healthy, failureCount, unchecked, held>>

Init ==
  /\ current = 1 /\ healthy = [e \in Endpoints |-> TRUE] /\ failureCount = [e \in Endpoints |-> 0]
  /\ unchecked = {} /\ held = 0

Round == unchecked = {} /\ unchecked' = Endpoints /\ UNCHANGED <<current, healthy, failureCount, held>>

\* checkHorizonEndpoint, checkSorobanEndpoint: the answer is good, bad or none.
Answered(e, ok) ==
  /\ healthy' = [healthy EXCEPT ![e] = ok]
  /\ failureCount' = [failureCount EXCEPT ![e] = IF ok THEN 0 ELSE Min({@ + 1, MaxCount})]
  /\ unchecked' = unchecked \ {e}
Good(e) == /\ e \in unchecked /\ Answered(e, TRUE) /\ UNCHANGED current
           /\ held' = IF e = current THEN 0 ELSE held
Bad(e) ==  /\ e \in unchecked /\ Answered(e, FALSE) /\ UNCHANGED current
           /\ held' = IF e = current THEN 0 ELSE held

\* Variant: the third failure is not enough.
SwitchLate(e) ==
  current' = IF e = current /\ failureCount'[e] > MaxFailures /\ \E f \in Endpoints : healthy'[f]
             THEN Min({f \in Endpoints : healthy'[f]}) ELSE current
\* The first healthy endpoint; none, and the service stays where it is.
Switch(e) ==
  current' = IF e = current /\ failureCount'[e] >= MaxFailures /\ \E f \in Endpoints : healthy'[f]
             THEN Min({f \in Endpoints : healthy'[f]}) ELSE current
Throw(e) ==
  /\ e \in unchecked /\ Answered(e, FALSE) /\ Switch(e)
  /\ held' = IF e # current THEN held
             ELSE IF current' = e /\ \E f \in Endpoints : healthy'[f] THEN held + 1 ELSE 0

Next == Round \/ \E e \in Endpoints : Good(e) \/ Bad(e) \/ Throw(e)
Spec == Init /\ [][Next]_vars

TypeOK == /\ current \in Endpoints /\ healthy \in [Endpoints -> BOOLEAN]
          /\ failureCount \in [Endpoints -> 0 .. MaxCount] /\ unchecked \subseteq Endpoints
          /\ held \in Nat

(* An endpoint that stops answering is left before its third check in a row that *)
(* throws, if another one is healthy, whatever the order of the answers and the  *)
(* earlier failures (MAX_FAILURES_BEFORE_UNHEALTHY).                             *)
LeftInTime == held < MaxFailures
=============================================================================

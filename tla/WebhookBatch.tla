---------------------------- MODULE WebhookBatch ----------------------------
(***************************************************************************)
(* WebhookProcessor.processBatch: a hand-written promise pool on the one    *)
(* thread of the event loop. I/O may finish at any time, but the callbacks  *)
(* of a promise run only while the thread is not executing the loop.        *)
(***************************************************************************)
EXTENDS Naturals, FiniteSets

CONSTANTS
  Events,      \* the claimed rows passed in; processWebhooks claims Limit at most
  Limit        \* maxConcurrency

VARIABLES
  queue,       \* events not shifted yet
  inProgress,  \* events whose promise is in the inProgress array
  answered,    \* events whose delivery I/O and outbox write are over
  succeeded, failed,
  pc           \* "outer", "inner", "wait" (in Promise.race) or "done"

vars == <<queue, inProgress, answered, succeeded, failed, pc>>

Init ==
  /\ queue = Events
  /\ inProgress = {} /\ answered = {} /\ succeeded = {} /\ failed = {}
  /\ pc = "outer"

\* The condition of the outer while; after it Promise.all([]) and the return.
Outer ==
  /\ pc = "outer"
  /\ pc' = IF queue # {} \/ inProgress # {} THEN "inner" ELSE "done"
  /\ UNCHANGED <<queue, inProgress, answered, succeeded, failed>>

\* One turn of the inner while: shift an event and start processEvent, which
\* runs up to its first await.
Start(e) ==
  /\ pc = "inner" /\ e \in queue /\ Cardinality(inProgress) < Limit
  /\ queue' = queue \ {e}
  /\ inProgress' = inProgress \cup {e}
  /\ UNCHANGED <<answered, succeeded, failed, pc>>

\* The inner while is over: await Promise.race only when the pool is full and
\* something is left to start; otherwise straight back to the outer condition.
LeaveInner ==
  /\ pc = "inner"
  /\ queue = {} \/ Cardinality(inProgress) >= Limit
  /\ pc' = IF Cardinality(inProgress) >= Limit /\ queue # {} THEN "wait" ELSE "outer"
  /\ UNCHANGED <<queue, inProgress, answered, succeeded, failed>>

\* Outside the thread: the sockets of e are done.
Answer(e) ==
  /\ e \in inProgress \ answered
  /\ answered' = answered \cup {e}
  /\ UNCHANGED <<queue, inProgress, succeeded, failed, pc>>

\* The callbacks of e (then or catch, and finally) run while the loop awaits;
\* the settled promise also resumes the race.
Settle(e) ==
  /\ pc = "wait" /\ e \in inProgress \cap answered
  /\ inProgress' = inProgress \ {e}
  /\ \/ succeeded' = succeeded \cup {e} /\ UNCHANGED failed
     \/ failed' = failed \cup {e} /\ UNCHANGED succeeded
  /\ pc' \in {"wait", "outer"}
  /\ pc' = "wait" => inProgress' \cap answered # {}
  /\ UNCHANGED <<queue, answered>>

Next ==
  \/ Outer \/ LeaveInner
  \/ \E e \in Events : Start(e) \/ Answer(e) \/ Settle(e)

Spec == Init /\ [][Next]_vars

\* The thread runs while it has something to run, and every delivery ends: each
\* HTTP request has a timeout.
FairSpec ==
  /\ Spec
  /\ WF_vars(Outer \/ LeaveInner \/ \E e \in Events : Start(e))
  /\ \A e \in Events : WF_vars(Answer(e)) /\ WF_vars(Settle(e))

----------------------------------------------------------------------------
\* webhook.processor.spec.ts awaits processWebhooks() and then expects the
\* row marked: the call is to return once its deliveries are over.
BatchReturns == <>(pc = "done")
=============================================================================

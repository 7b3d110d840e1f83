--------------------------- MODULE Subscriptions ----------------------------
(***************************************************************************)
(* WebhookSubscriptionService: the subscriptions of one process. Creating   *)
(* one, giving one another URL and probing one wait for the name service;   *)
(* an update that does so has copied the subscription before and stores     *)
(* the copy with its changes afterwards.                                    *)
(***************************************************************************)
EXTENDS Naturals, FiniteSets

CONSTANTS Demands   \* requests; a subscription is named by the one that created it

VARIABLES
  subscription,   \* subscriptions: is it there, and the updates it carries
  demand,         \* per request: its kind, phase and subject, and the copy it holds
  answered,       \* per request: what it was answered
  shadowed        \* history: subscriptions changed while an update of theirs waited

vars == <<subscription, demand, answered, shadowed>>

Unknown == [there |-> FALSE, updates |-> {}]
NoDemand == [kind |-> "none", phase |-> "new", of |-> {}, copy |-> Unknown]
Init ==
  /\ subscription = [s \in Demands |-> Unknown] /\ demand = [q \in Demands |-> NoDemand]
  /\ answered = [q \in Demands |-> "none"] /\ shadowed = {}

Of(q) == CHOOSE s \in Demands : demand[q].of = {s}
Waiting(q, kind) == demand[q].kind = kind /\ demand[q].phase = "validating"
Answer(q, what) == answered' = [answered EXCEPT ![q] = what]
Waits(q, kind, s, copy) ==
  demand' = [demand EXCEPT ![q] = [kind |-> kind, phase |-> "validating", of |-> {s}, copy |-> copy]]
Ends(q) == demand' = [demand EXCEPT ![q].phase = "over"]
OverAtOnce(q, kind, s) ==
  demand' = [demand EXCEPT ![q] = [kind |-> kind, phase |-> "over", of |-> {s}, copy |-> Unknown]]
Shadow(s) == shadowed' = shadowed \cup {t \in {s} : \E q \in Demands : Waiting(q, "update") /\ demand[q].of = {s}}

----------------------------------------------------------------------------
\* Variant: a new subscription is stored before its URL is validated.
CreateEarly(q) ==
  /\ demand[q] = NoDemand /\ Waits(q, "create", q, Unknown)
  /\ subscription' = [subscription EXCEPT ![q].there = TRUE] /\ UNCHANGED <<answered, shadowed>>
Create(q) ==
  /\ demand[q] = NoDemand /\ Waits(q, "create", q, Unknown)
  /\ UNCHANGED <<subscription, answered, shadowed>>
Stored(q) ==
  /\ Waiting(q, "create") /\ Ends(q) /\ Answer(q, "created")
  /\ subscription' = [subscription EXCEPT ![q].there = TRUE] /\ UNCHANGED shadowed

Known(s) == subscription[s].there
(* update without a URL: read, merged and stored at once. *)
Update(q, s) ==
  /\ demand[q] = NoDemand /\ Known(s) /\ OverAtOnce(q, "update", s) /\ Answer(q, "updated")
  /\ subscription' = [subscription EXCEPT ![s].updates = @ \cup {q}]
  /\ Shadow(s)
\* Variant: the changes without the copy of before.
MergeChanges(q, copy) == [there |-> TRUE, updates |-> {q}]
Merge(q, copy) == [copy EXCEPT !.updates = @ \cup {q}]
UpdateUrl(q, s) ==
  /\ demand[q] = NoDemand /\ Known(s) /\ Waits(q, "update", s, subscription[s]) /\ Shadow(s)
  /\ UNCHANGED <<subscription, answered>>
UrlValidated(q) ==
  LET s == Of(q) IN
  /\ Waiting(q, "update") /\ Ends(q) /\ Answer(q, "updated")
  /\ subscription' = [subscription EXCEPT ![s] = Merge(q, demand[q].copy)]
  /\ UNCHANGED shadowed

Remove(q, s) ==
  /\ demand[q] = NoDemand /\ Known(s) /\ OverAtOnce(q, "remove", s) /\ Answer(q, "removed")
  /\ subscription' = [subscription EXCEPT ![s] = Unknown] /\ Shadow(s)

(* ping: posts to the URL it found, whatever became of the subscription. *)
Ping(q, s) ==
  /\ demand[q] = NoDemand /\ Known(s) /\ Waits(q, "ping", s, subscription[s])
  /\ UNCHANGED <<subscription, answered, shadowed>>
Probe(q) ==
  /\ Waiting(q, "ping") /\ Ends(q) /\ \E up \in {"reachable", "unreachable"} : Answer(q, up)
  /\ UNCHANGED <<subscription, shadowed>>

(* validateWebhookUrl throws: nothing was stored; ping reports no answer. *)
Blocked(q) ==
  /\ demand[q].phase = "validating" /\ Ends(q)
  /\ Answer(q, IF demand[q].kind = "ping" THEN "unreachable" ELSE "rejected")
  /\ UNCHANGED <<subscription, shadowed>>

Next == \E q \in Demands : \/ Create(q) \/ Stored(q) \/ UrlValidated(q) \/ Probe(q) \/ Blocked(q)
                           \/ \E s \in Demands : Update(q, s) \/ UpdateUrl(q, s) \/ Remove(q, s) \/ Ping(q, s)
Spec == Init /\ [][Next]_vars

----------------------------------------------------------------------------
TypeOK ==
  /\ subscription \in [Demands -> [there : BOOLEAN, updates : SUBSET Demands]]
  /\ demand \in [Demands -> [kind : {"none", "create", "update", "remove", "ping"}, phase : {"new", "validating", "over"},
                             of : SUBSET Demands, copy : [there : BOOLEAN, updates : SUBSET Demands]]]
  /\ answered \in [Demands -> {"none", "created", "updated", "removed", "rejected", "reachable", "unreachable"}]
  /\ shadowed \subseteq Demands

(* A subscription that is there was created and not removed, and carries every   *)
(* update that was confirmed, unless it was changed while an update of it was    *)
(* waiting for the name service (create, update, remove).                        *)
SubscriptionsAgree ==
  \A s \in Demands : Known(s) =>
    /\ answered[s] = "created"
    /\ s \in shadowed \/ \A q \in Demands : demand[q].of = {s} =>
         answered[q] # "removed" /\ (answered[q] = "updated" => q \in subscription[s].updates)
=============================================================================

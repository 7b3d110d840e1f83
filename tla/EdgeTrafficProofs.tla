------------------------- MODULE EdgeTrafficProofs --------------------------
(* Theorems of Edge, continued: what a request passes before its handler runs,  *)
(* and what becomes of the messages the backend sends; at the end, the types of *)
(* all parts.                                                                   *)
EXTENDS EdgeProofs

----------------------------------------------------------------------------
(* The requests. *)
USE RequestsAssumption

LEMMA RequestsAlone == EdgeSpec => Req!Spec
<1>1. EdgeInit => Req!Init BY DEF EdgeInit
<1>2. [EdgeNext]_edgeVars => [Req!Next]_(Req!vars)
  BY DEF EdgeNext, Others, edgeVars, requestsVars, Req!vars, Req!keyVars, Req!drainVars
<1>q. QED BY <1>1, <1>2, PTL DEF EdgeSpec, Req!Spec, edgeVars

\* The claim is that of a request it protects, from the claim until the request lapses.
Owned(r) == entry # Absent /\ entry.by = r
ClaimHeld ==
  \A r \in Calls :
    /\ r \notin lapsed /\ (phase[r] \in {"handler", "finalize"} \/ r \in effects) => Owned(r)
    /\ r \in effects => \/ phase[r] \in {"finalize", "replied", "cut"}
                        \/ phase[r] = "release" /\ r \in lapsed
    /\ r \in detached => phase[r] \in {"release", "replied", "cut"} /\ r \in lapsed
    /\ phase[r] = "finalize" => r \in effects
CompletedTrue == entry # Absent /\ entry.completed => entry.by \in effects
RepliesAre == \A r \in Calls : reply[r] # Absent => reply[r] \in effects /\ Body[reply[r]] = Body[r]
KeyInv == ClaimHeld /\ CompletedTrue /\ RepliesAre

\* The counter of an instance is the number of requests it let in and has not released.
Tracked(i) == {r \in Calls \ released : At[r] = i /\ phase[r] \notin {"new", "shed"}}
InFlightCounts == \A i \in Req!Hosts : inFlight[i] = Cardinality(Tracked(i))
ReleasedWhen == \A r \in Calls : /\ r \in released \ gone => phase[r] = "replied"
                                 /\ phase[r] \in {"new", "shed"} => r \notin released
CutWhen == \A r \in Calls : phase[r] = "cut" => \/ mode[At[r]] = "forced"
                                                \/ mode[At[r]] = "clean" /\ r \in gone
DrainInv == InFlightCounts /\ ReleasedWhen /\ CutWhen

RequestsInv == Req!TypeOK /\ KeyInv /\ DrainInv

RequestPhases == {"new", "claim", "lookup", "handler", "finalize", "release", "replied", "cut", "shed"}
LEMMA RequestTypes ==
  ASSUME Req!TypeOK
  PROVE  /\ phase \in [Calls -> RequestPhases] /\ reply \in [Calls -> Calls \cup {Absent}]
         /\ claimed \subseteq Calls /\ released \subseteq Calls /\ gone \subseteq Calls
         /\ detached \subseteq Calls /\ effects \subseteq Calls /\ lapsed \subseteq Calls
         /\ inFlight \in [Req!Hosts -> Int] /\ mode \in [Req!Hosts -> {"up", "draining", "clean", "forced"}]
         /\ mishaps \in 0 .. MaxMishaps /\ (entry # Absent => entry \in [by : Calls, completed : BOOLEAN])
         /\ Req!Owner \subseteq Calls
         /\ \A r \in Calls : At[r] \in Req!Hosts
<1>1. phase \in [Calls -> RequestPhases] BY DEF Req!TypeOK, Req!Phases, Req!Settled, RequestPhases
<1>2. entry # Absent => entry \in [by : Calls, completed : BOOLEAN] BY DEF Req!TypeOK
<1>3. Req!Owner \subseteq Calls BY <1>2 DEF Req!Owner
<1>4. \A r \in Calls : At[r] \in Req!Hosts BY DEF Req!Hosts
<1>5. UNION {claimed, released, gone, detached, effects, lapsed} \subseteq Calls BY DEF Req!TypeOK
<1>q. QED BY <1>1, <1>2, <1>3, <1>4, <1>5 DEF Req!TypeOK

LEMMA RequestTypesBack ==
  ASSUME phase' \in [Calls -> RequestPhases], reply' \in [Calls -> Calls \cup {Absent}],
         claimed' \subseteq Calls, released' \subseteq Calls, gone' \subseteq Calls,
         detached' \subseteq Calls, effects' \subseteq Calls, lapsed' \subseteq Calls,
         inFlight' \in [Req!Hosts -> Int], mode' \in [Req!Hosts -> {"up", "draining", "clean", "forced"}],
         mishaps' \in 0 .. MaxMishaps, entry' = Absent \/ entry' \in [by : Calls, completed : BOOLEAN]
  PROVE  Req!TypeOK'
<1>1. phase' \in [Calls -> Req!Phases] BY DEF Req!Phases, Req!Settled, RequestPhases
<1>q. QED BY <1>1 DEF Req!TypeOK

LEMMA PhaseSteps ==
  ASSUME Req!TypeOK, NEW r \in Calls, NEW from, NEW to \in RequestPhases, Req!Step(r, from, to)
  PROVE  /\ phase[r] = from /\ phase' \in [Calls -> RequestPhases] /\ phase'[r] = to
         /\ \A s \in Calls \ {r} : phase'[s] = phase[s]
<1>1. phase \in [Calls -> RequestPhases] BY RequestTypes
<1>q. QED BY <1>1 DEF Req!Step

LEMMA EntryIs ==
  ASSUME NEW r \in Calls, NEW b \in BOOLEAN, NEW e, e = [by |-> r, completed |-> b]
  PROVE  e \in [by : Calls, completed : BOOLEAN] /\ e # Absent /\ e.by = r /\ e.completed = b
OBVIOUS

LEMMA MishapCounts ==
  ASSUME Req!TypeOK, Req!Mishap \/ UNCHANGED mishaps
  PROVE  mishaps' \in 0 .. MaxMishaps
BY DEF Req!TypeOK, Req!Mishap

\* A step of a request that was let in, within its instance, leaves the drain alone.
LEMMA DrainKept ==
  ASSUME RequestsInv, UNCHANGED Req!drainVars, NEW r \in Calls, NEW to \in {"lookup", "handler", "finalize", "release", "replied"},
         phase[r] \in {"claim", "lookup", "handler", "finalize", "release"}, phase'[r] = to,
         \A s \in Calls \ {r} : phase'[s] = phase[s]
  PROVE  DrainInv'
<1>1. UNCHANGED <<released, gone, inFlight, mode>> BY DEF Req!drainVars
<1>2. \A i : Tracked(i)' = Tracked(i) BY <1>1 DEF Tracked
<1>3. InFlightCounts' BY <1>1, <1>2 DEF RequestsInv, DrainInv, InFlightCounts
<1>4. ReleasedWhen' BY <1>1 DEF RequestsInv, DrainInv, ReleasedWhen
<1>5. CutWhen' BY <1>1 DEF RequestsInv, DrainInv, CutWhen
<1>q. QED BY <1>3, <1>4, <1>5 DEF DrainInv

LEMMA DrainSame ==
  ASSUME RequestsInv, UNCHANGED <<Req!drainVars, phase>>
  PROVE  DrainInv'
<1>1. UNCHANGED <<released, gone, inFlight, mode>> BY DEF Req!drainVars
<1>2. \A i : Tracked(i)' = Tracked(i) BY <1>1 DEF Tracked
<1>3. InFlightCounts' BY <1>1, <1>2 DEF RequestsInv, DrainInv, InFlightCounts
<1>4. ReleasedWhen' BY <1>1 DEF RequestsInv, DrainInv, ReleasedWhen
<1>5. CutWhen' BY <1>1 DEF RequestsInv, DrainInv, CutWhen
<1>q. QED BY <1>3, <1>4, <1>5 DEF DrainInv

LEMMA ClaimSteps ==
  ASSUME RequestsInv, NEW r \in Calls, Req!Claim(r)
  PROVE  RequestsInv'
<1>1. UNCHANGED <<Req!drainVars, reply, effects, detached>> /\ phase[r] = "claim"
  BY DEF Req!Claim, Req!Step
<1>2. PICK to \in {"handler", "lookup"} : Req!Step(r, "claim", to) /\ Req!Claim(r) BY DEF Req!Claim
<1>3. phase' \in [Calls -> RequestPhases] /\ phase'[r] = to /\ \A s \in Calls \ {r} : phase'[s] = phase[s]
  BY <1>2, PhaseSteps DEF RequestsInv, RequestPhases
<1>4. DrainInv' BY <1>1, <1>3, DrainKept
<1>t. Req!TypeOK BY DEF RequestsInv
<1>5. \/ /\ entry = Absent /\ to = "handler" /\ entry' = [by |-> r, completed |-> FALSE]
         /\ claimed' = claimed \cup {r} /\ lapsed' = lapsed
      \/ to = "lookup" /\ UNCHANGED <<entry, claimed, lapsed>>
      \/ to = "handler" /\ claimed' = claimed \cup {r} /\ lapsed' = lapsed \cup {r} /\ UNCHANGED entry
  <2>1. CASE /\ entry = Absent /\ Req!Step(r, "claim", "handler")
             /\ entry' = [by |-> r, completed |-> FALSE]
             /\ claimed' = claimed \cup {r} /\ UNCHANGED <<lapsed, mishaps>>
    <3>1. phase'[r] = "handler" BY <2>1, <1>t, PhaseSteps DEF RequestPhases
    <3>q. QED BY <2>1, <3>1, <1>3
  <2>2. CASE entry # Absent /\ Req!Step(r, "claim", "lookup") /\ UNCHANGED <<entry, claimed, lapsed, mishaps>>
    <3>1. phase'[r] = "lookup" BY <2>2, <1>t, PhaseSteps DEF RequestPhases
    <3>q. QED BY <2>2, <3>1, <1>3
  <2>3. CASE /\ Req!Step(r, "claim", "handler") /\ Req!Mishap
             /\ claimed' = claimed \cup {r} /\ lapsed' = lapsed \cup {r} /\ UNCHANGED entry
    <3>1. phase'[r] = "handler" BY <2>3, <1>t, PhaseSteps DEF RequestPhases
    <3>q. QED BY <2>3, <3>1, <1>3
  <2>q. QED BY <2>1, <2>2, <2>3 DEF Req!Claim
<1>6. mishaps' \in 0 .. MaxMishaps BY <1>t, MishapCounts DEF Req!Claim
<1>e. entry' = [by |-> r, completed |-> FALSE] =>
        entry' \in [by : Calls, completed : BOOLEAN] /\ entry' # Absent /\ entry'.by = r /\ entry'.completed = FALSE
  BY EntryIs
<1>7. entry' = Absent \/ entry' \in [by : Calls, completed : BOOLEAN]
  <2>1. entry = Absent \/ entry \in [by : Calls, completed : BOOLEAN] BY <1>t, RequestTypes
  <2>q. QED BY <2>1, <1>5, <1>e
<1>8. Req!TypeOK'
  <2>1. UNCHANGED <<released, gone, inFlight, mode>> BY <1>1 DEF Req!drainVars
  <2>2. claimed' \subseteq Calls /\ lapsed' \subseteq Calls BY <1>5, <1>t, RequestTypes
  <2>q. QED BY <1>1, <2>1, <2>2, <1>3, <1>6, <1>7, <1>t, RequestTypes, RequestTypesBack
<1>9. KeyInv'
  <2>h. ClaimHeld /\ CompletedTrue /\ RepliesAre BY DEF RequestsInv, KeyInv
  <2>1. entry' # Absent \/ (entry' = Absent /\ UNCHANGED entry)
    BY <1>5
  <2>2. CompletedTrue' BY <1>1, <1>5, <1>e, <2>h DEF CompletedTrue
  <2>3. RepliesAre' BY <1>1, <2>h DEF RepliesAre
  <2>4. ClaimHeld'
    <3> SUFFICES ASSUME NEW s \in Calls PROVE
          /\ s \notin lapsed' /\ (phase'[s] \in {"handler", "finalize"} \/ s \in effects) => Owned(s)'
          /\ s \in effects => \/ phase'[s] \in {"finalize", "replied", "cut"}
                              \/ phase'[s] = "release" /\ s \in lapsed'
          /\ s \in detached => phase'[s] \in {"release", "replied", "cut"} /\ s \in lapsed'
          /\ phase'[s] = "finalize" => s \in effects
      BY <1>1 DEF ClaimHeld
    <3>1. lapsed \subseteq lapsed' BY <1>5
    <3>2. CASE s = r
      <4>1. r \notin effects /\ r \notin detached BY <1>1, <2>h DEF ClaimHeld
      <4>2. r \notin lapsed' /\ to = "handler" => Owned(r)' BY <1>5, <1>e DEF Owned
      <4>q. QED BY <3>2, <4>1, <4>2, <1>3
    <3>3. CASE s # r
      <4>1. phase'[s] = phase[s] BY <3>3, <1>3
      <4>2. Owned(s) => Owned(s)' BY <1>5 DEF Owned
      <4>q. QED BY <4>1, <4>2, <3>1, <2>h DEF ClaimHeld
    <3>q. QED BY <3>2, <3>3
  <2>q. QED BY <2>2, <2>3, <2>4 DEF KeyInv
<1>q. QED BY <1>4, <1>8, <1>9 DEF RequestsInv

ClaimHeldBy(s) ==
  /\ s \notin lapsed /\ (phase[s] \in {"handler", "finalize"} \/ s \in effects) => Owned(s)
  /\ s \in effects => \/ phase[s] \in {"finalize", "replied", "cut"}
                      \/ phase[s] = "release" /\ s \in lapsed
  /\ s \in detached => phase[s] \in {"release", "replied", "cut"} /\ s \in lapsed
  /\ phase[s] = "finalize" => s \in effects

LEMMA ClaimKept ==
  ASSUME RequestsInv, NEW r \in Calls, \A s \in Calls \ {r} : phase'[s] = phase[s],
         lapsed \subseteq lapsed', effects \subseteq effects', effects' \subseteq effects \cup {r},
         detached' \subseteq detached \cup {r}, ClaimHeldBy(r)',
         \A s \in Calls \ {r} : Owned(s) => Owned(s)' \/ s \in lapsed'
  PROVE  ClaimHeld'
<1> SUFFICES ASSUME NEW s \in Calls PROVE ClaimHeldBy(s)' BY DEF ClaimHeld, ClaimHeldBy
<1>1. CASE s = r BY <1>1
<1>2. CASE s # r
  <2>1. ClaimHeldBy(s) BY DEF RequestsInv, KeyInv, ClaimHeld, ClaimHeldBy
  <2>2. phase'[s] = phase[s] /\ (Owned(s) => Owned(s)' \/ s \in lapsed') BY <1>2
  <2>3. (s \in effects' <=> s \in effects) /\ (s \in detached' => s \in detached) BY <1>2
  <2>q. QED BY <2>1, <2>2, <2>3 DEF ClaimHeldBy
<1>q. QED BY <1>1, <1>2

LEMMA LookupSteps ==
  ASSUME RequestsInv, NEW r \in Calls, Req!Lookup(r)
  PROVE  RequestsInv'
<1>1. UNCHANGED <<Req!drainVars, entry, effects, detached>> /\ phase[r] = "lookup"
  BY DEF Req!Lookup, Req!Step
<1>t. Req!TypeOK BY DEF RequestsInv
<1>2. PICK to \in {"handler", "replied"} :
        /\ Req!Step(r, "lookup", to)
        /\ lapsed' \in {lapsed, lapsed \cup {r}} /\ (to = "handler" => r \in lapsed')
        /\ claimed' \in {claimed, claimed \cup {r}}
        /\ Req!Mishap \/ UNCHANGED mishaps
        /\ \/ reply' = reply
           \/ entry # Absent /\ Body[entry.by] = Body[r] /\ entry.completed /\ reply' = [reply EXCEPT ![r] = entry.by]
  <2>1. CASE /\ entry = Absent /\ Req!Step(r, "lookup", "handler")
             /\ lapsed' = lapsed \cup {r} /\ UNCHANGED <<claimed, reply, mishaps>>
    BY <2>1
  <2>2. CASE /\ entry # Absent /\ Req!Step(r, "lookup", "replied")
             /\ reply' = IF Body[entry.by] = Body[r] /\ entry.completed
                         THEN [reply EXCEPT ![r] = entry.by] ELSE reply
             /\ UNCHANGED <<claimed, lapsed, mishaps>>
    BY <2>2
  <2>3. CASE /\ Req!Step(r, "lookup", "handler") /\ Req!Mishap
             /\ claimed' = claimed \cup {r} /\ lapsed' = lapsed \cup {r} /\ UNCHANGED reply
    BY <2>3
  <2>q. QED BY <2>1, <2>2, <2>3 DEF Req!Lookup
<1>3. phase' \in [Calls -> RequestPhases] /\ phase'[r] = to /\ \A s \in Calls \ {r} : phase'[s] = phase[s]
  BY <1>2, <1>t, PhaseSteps DEF RequestPhases
<1>4. DrainInv' BY <1>1, <1>3, DrainKept
<1>5. mishaps' \in 0 .. MaxMishaps BY <1>2, <1>t, MishapCounts
<1>h. ClaimHeld /\ CompletedTrue /\ RepliesAre BY DEF RequestsInv, KeyInv
<1>6. /\ reply' \in [Calls -> Calls \cup {Absent}] /\ RepliesAre'
  <2>1. CASE reply' = reply BY <2>1, <1>1, <1>t, <1>h, RequestTypes DEF RepliesAre
  <2>2. CASE entry # Absent /\ Body[entry.by] = Body[r] /\ entry.completed /\ reply' = [reply EXCEPT ![r] = entry.by]
    <3>1. entry.by \in Calls /\ reply \in [Calls -> Calls \cup {Absent}] BY <2>2, <1>t, RequestTypes
    <3>2. /\ reply' \in [Calls -> Calls \cup {Absent}] /\ reply'[r] = entry.by
          /\ \A s \in Calls \ {r} : reply'[s] = reply[s]
      BY <2>2, <3>1
    <3>3. entry.by \in effects BY <2>2, <1>h DEF CompletedTrue
    <3>q. QED BY <2>2, <3>2, <3>3, <1>1, <1>h DEF RepliesAre
  <2>q. QED BY <2>1, <2>2, <1>2
<1>7. Req!TypeOK'
  <2>1. UNCHANGED <<released, gone, inFlight, mode>> BY <1>1 DEF Req!drainVars
  <2>2. claimed' \subseteq Calls /\ lapsed' \subseteq Calls BY <1>2, <1>t, RequestTypes
  <2>q. QED BY <1>1, <2>1, <2>2, <1>3, <1>5, <1>6, <1>t, RequestTypes, RequestTypesBack
<1>8. CompletedTrue' BY <1>1, <1>h DEF CompletedTrue
<1>9. ClaimHeld'
  <2>1. r \notin effects /\ r \notin detached BY <1>1, <1>h DEF ClaimHeld
  <2>2. ClaimHeldBy(r)' BY <2>1, <1>1, <1>2, <1>3 DEF ClaimHeldBy
  <2>3. \A s \in Calls \ {r} : Owned(s) => Owned(s)' BY <1>1 DEF Owned
  <2>q. QED BY <2>2, <2>3, <1>1, <1>2, <1>3, ClaimKept
<1>q. QED BY <1>4, <1>6, <1>7, <1>8, <1>9 DEF RequestsInv, KeyInv

LEMMA HandleSteps ==
  ASSUME RequestsInv, NEW r \in Calls, Req!Handle(r)
  PROVE  RequestsInv'
<1>1. UNCHANGED <<Req!drainVars, entry, claimed, reply>> /\ phase[r] = "handler"
  BY DEF Req!Handle, Req!Step
<1>t. Req!TypeOK BY DEF RequestsInv
<1>2. PICK to \in {"finalize", "release", "replied"} :
        /\ Req!Step(r, "handler", to)
        /\ Req!Mishap \/ UNCHANGED mishaps
        /\ \/ effects' = effects \cup {r} /\ to # "release" /\ UNCHANGED <<lapsed, detached>>
           \/ to # "finalize" /\ UNCHANGED <<effects, lapsed, detached>>
           \/ to # "finalize" /\ detached' = detached \cup {r} /\ lapsed' = lapsed \cup {r} /\ UNCHANGED effects
  <2>1. CASE /\ effects' = effects \cup {r}
             /\ Req!Step(r, "handler", IF r \in claimed THEN "finalize" ELSE "replied")
             /\ UNCHANGED <<lapsed, detached, mishaps>>
    BY <2>1
  <2>2. CASE /\ Req!Step(r, "handler", IF r \in claimed THEN "release" ELSE "replied")
             /\ UNCHANGED <<effects, lapsed, detached, mishaps>>
    BY <2>2
  <2>3. CASE /\ Req!Step(r, "handler", IF r \in claimed THEN "release" ELSE "replied") /\ Req!Mishap
             /\ detached' = detached \cup {r} /\ lapsed' = lapsed \cup {r} /\ UNCHANGED effects
    BY <2>3
  <2>q. QED BY <2>1, <2>2, <2>3 DEF Req!Handle
<1>3. phase' \in [Calls -> RequestPhases] /\ phase'[r] = to /\ \A s \in Calls \ {r} : phase'[s] = phase[s]
  BY <1>2, <1>t, PhaseSteps DEF RequestPhases
<1>4. DrainInv' BY <1>1, <1>3, DrainKept
<1>5. mishaps' \in 0 .. MaxMishaps BY <1>2, <1>t, MishapCounts
<1>h. ClaimHeld /\ CompletedTrue /\ RepliesAre BY DEF RequestsInv, KeyInv
<1>6. /\ lapsed \subseteq lapsed' /\ effects \subseteq effects' /\ effects' \subseteq effects \cup {r}
      /\ detached' \subseteq detached \cup {r} /\ lapsed' \subseteq lapsed \cup {r}
  BY <1>2
<1>7. Req!TypeOK'
  <2>1. UNCHANGED <<released, gone, inFlight, mode>> BY <1>1 DEF Req!drainVars
  <2>2. effects' \subseteq Calls /\ lapsed' \subseteq Calls /\ detached' \subseteq Calls BY <1>6, <1>t, RequestTypes
  <2>q. QED BY <1>1, <2>1, <2>2, <1>3, <1>5, <1>6, <1>t, RequestTypes, RequestTypesBack
<1>8. CompletedTrue' BY <1>1, <1>6, <1>h DEF CompletedTrue
<1>9. RepliesAre' BY <1>1, <1>6, <1>h DEF RepliesAre
<1>10. ClaimHeld'
  <2>1. r \notin effects /\ r \notin detached /\ (r \notin lapsed => Owned(r)) BY <1>1, <1>h DEF ClaimHeld
  <2>2. \A s : Owned(s)' <=> Owned(s) BY <1>1 DEF Owned
  <2>3. ClaimHeldBy(r)' BY <2>1, <2>2, <1>2, <1>3 DEF ClaimHeldBy
  <2>q. QED BY <2>2, <2>3, <1>6, <1>3, ClaimKept
<1>q. QED BY <1>4, <1>7, <1>8, <1>9, <1>10 DEF RequestsInv, KeyInv

LEMMA RunOnSteps ==
  ASSUME RequestsInv, NEW r \in Calls, Req!RunOn(r)
  PROVE  RequestsInv'
<1>1. /\ UNCHANGED <<Req!drainVars, entry, claimed, reply, lapsed, phase, mishaps>> /\ r \in detached
      /\ detached' = detached \ {r} /\ effects' \in {effects, effects \cup {r}}
  BY DEF Req!RunOn
<1>t. Req!TypeOK BY DEF RequestsInv
<1>4. DrainInv' BY <1>1, DrainSame
<1>h. ClaimHeld /\ CompletedTrue /\ RepliesAre BY DEF RequestsInv, KeyInv
<1>7. Req!TypeOK'
  <2>1. UNCHANGED <<released, gone, inFlight, mode>> BY <1>1 DEF Req!drainVars
  <2>2. effects' \subseteq Calls /\ detached' \subseteq Calls BY <1>1, <1>t, RequestTypes
  <2>q. QED BY <1>1, <2>1, <2>2, <1>t, RequestTypes, RequestTypesBack
<1>8. CompletedTrue' BY <1>1, <1>h DEF CompletedTrue
<1>9. RepliesAre' BY <1>1, <1>h DEF RepliesAre
<1>10. ClaimHeld'
  <2>1. phase[r] \in {"release", "replied", "cut"} /\ r \in lapsed BY <1>1, <1>h DEF ClaimHeld
  <2>2. \A s : Owned(s)' <=> Owned(s) BY <1>1 DEF Owned
  <2>3. ClaimHeldBy(r)' BY <2>1, <1>1 DEF ClaimHeldBy
  <2>q. QED BY <2>2, <2>3, <1>1, ClaimKept
<1>q. QED BY <1>4, <1>7, <1>8, <1>9, <1>10 DEF RequestsInv, KeyInv

LEMMA KeySettles ==
  ASSUME RequestsInv, NEW r \in Calls, Req!Finalize(r) \/ Req!Release(r)
  PROVE  RequestsInv'
<1>1. /\ UNCHANGED <<Req!drainVars, claimed, reply, effects, detached>>
      /\ phase[r] \in {"finalize", "release"} /\ Req!Step(r, phase[r], "replied")
      /\ Req!Mishap \/ UNCHANGED mishaps
  BY DEF Req!Finalize, Req!Release, Req!Step
<1>t. Req!TypeOK BY DEF RequestsInv
<1>2. \/ /\ phase[r] = "finalize" /\ entry' = [by |-> r, completed |-> TRUE] /\ lapsed' = lapsed \cup (Req!Owner \ {r})
      \/ /\ phase[r] = "release" /\ entry' = Absent /\ lapsed' = lapsed \cup (Req!Owner \ {r})
      \/ UNCHANGED <<entry, lapsed>>
  BY DEF Req!Finalize, Req!Release, Req!Step
<1>3. phase' \in [Calls -> RequestPhases] /\ phase'[r] = "replied" /\ \A s \in Calls \ {r} : phase'[s] = phase[s]
  BY <1>1, <1>t, PhaseSteps DEF RequestPhases
<1>4. DrainInv' BY <1>1, <1>3, DrainKept
<1>5. mishaps' \in 0 .. MaxMishaps BY <1>1, <1>t, MishapCounts
<1>h. ClaimHeld /\ CompletedTrue /\ RepliesAre BY DEF RequestsInv, KeyInv
<1>e. entry' = [by |-> r, completed |-> TRUE] =>
        entry' \in [by : Calls, completed : BOOLEAN] /\ entry' # Absent /\ entry'.by = r /\ entry'.completed = TRUE
  BY EntryIs
<1>7. Req!TypeOK'
  <2>1. UNCHANGED <<released, gone, inFlight, mode>> BY <1>1 DEF Req!drainVars
  <2>2. lapsed' \subseteq Calls BY <1>2, <1>t, RequestTypes
  <2>3. entry = Absent \/ entry \in [by : Calls, completed : BOOLEAN] BY <1>t, RequestTypes
  <2>4. entry' = Absent \/ entry' \in [by : Calls, completed : BOOLEAN] BY <2>3, <1>2, <1>e
  <2>q. QED BY <1>1, <2>1, <2>2, <2>4, <1>3, <1>5, <1>t, RequestTypes, RequestTypesBack
<1>8. CompletedTrue'
  <2>1. phase[r] = "finalize" => r \in effects BY <1>h DEF ClaimHeld
  <2>q. QED BY <2>1, <1>1, <1>2, <1>e, <1>h DEF CompletedTrue
<1>9. RepliesAre' BY <1>1, <1>h DEF RepliesAre
<1>10. ClaimHeld'
  <2>1. \A s \in Calls : Owned(s) => s \in Req!Owner BY DEF Owned, Req!Owner
  <2>2. \A s \in Calls \ {r} : Owned(s) => Owned(s)' \/ s \in lapsed'
    <3>1. CASE UNCHANGED <<entry, lapsed>> BY <3>1 DEF Owned
    <3>2. CASE lapsed' = lapsed \cup (Req!Owner \ {r}) BY <3>2, <2>1
    <3>q. QED BY <3>1, <3>2, <1>2
  <2>3. ClaimHeldBy(r) BY <1>h DEF ClaimHeld, ClaimHeldBy
  <2>4. lapsed \subseteq lapsed' BY <1>2
  <2>5. r \in effects /\ r \notin lapsed' => Owned(r)'
    <3> SUFFICES ASSUME r \in effects, r \notin lapsed' PROVE Owned(r)' OBVIOUS
    <3>1. phase[r] = "finalize" BY <2>3, <2>4, <1>1 DEF ClaimHeldBy
    <3>2. Owned(r) BY <2>3, <2>4 DEF ClaimHeldBy
    <3>q. QED BY <3>1, <3>2, <1>2, <1>e DEF Owned
  <2>6. ClaimHeldBy(r)' BY <2>3, <2>4, <2>5, <1>1, <1>3 DEF ClaimHeldBy
  <2>q. QED BY <2>2, <2>4, <2>6, <1>1, <1>3, ClaimKept
<1>q. QED BY <1>4, <1>7, <1>8, <1>9, <1>10 DEF RequestsInv, KeyInv

LEMMA KeyExpires ==
  ASSUME RequestsInv, Req!Expire
  PROVE  RequestsInv'
<1>1. /\ entry # Absent /\ Req!Mishap /\ entry' = Absent /\ lapsed' = lapsed \cup Req!Owner
      /\ UNCHANGED <<Req!drainVars, claimed, reply, effects, phase, detached>>
  BY DEF Req!Expire
<1>t. Req!TypeOK BY DEF RequestsInv
<1>h. ClaimHeld /\ CompletedTrue /\ RepliesAre BY DEF RequestsInv, KeyInv
<1>2. DrainInv' BY <1>1, DrainSame
<1>3. mishaps' \in 0 .. MaxMishaps BY <1>1, <1>t, MishapCounts
<1>4. Req!TypeOK'
  <2>1. UNCHANGED <<released, gone, inFlight, mode>> BY <1>1 DEF Req!drainVars
  <2>2. lapsed' \subseteq Calls BY <1>1, <1>t, RequestTypes
  <2>q. QED BY <1>1, <2>1, <2>2, <1>3, <1>t, RequestTypes, RequestTypesBack
<1>5. CompletedTrue' /\ RepliesAre' BY <1>1, <1>h DEF CompletedTrue, RepliesAre
<1>6. ClaimHeld'
  <2>1. \A s \in Calls : Owned(s) => s \in Req!Owner BY DEF Owned, Req!Owner
  <2>q. QED BY <2>1, <1>1, <1>h DEF ClaimHeld
<1>q. QED BY <1>2, <1>4, <1>5, <1>6 DEF RequestsInv, KeyInv

\* Neither the key nor what the handlers did changes.
LEMMA KeyKept ==
  ASSUME RequestsInv, UNCHANGED <<Req!keyVars, detached>>,
         \A r \in Calls : \/ phase'[r] = phase[r]
                          \/ phase[r] = "new" /\ phase'[r] \in {"claim", "shed"}
                          \/ phase'[r] = "cut" /\ phase[r] \notin {"new", "replied", "cut", "shed"}
  PROVE  KeyInv'
<1>0. UNCHANGED <<entry, claimed, reply, effects, lapsed>> BY DEF Req!keyVars
<1>h. ClaimHeld /\ CompletedTrue /\ RepliesAre BY DEF RequestsInv, KeyInv
<1>1. CompletedTrue' /\ RepliesAre' BY <1>0, <1>h DEF CompletedTrue, RepliesAre
<1>2. \A s \in Calls : Owned(s)' <=> Owned(s) BY <1>0 DEF Owned
<1>3. ASSUME NEW s \in Calls PROVE ClaimHeldBy(s)'
  <2>1. ClaimHeldBy(s) BY <1>h DEF ClaimHeld, ClaimHeldBy
  <2>2. CASE phase'[s] = phase[s] BY <2>1, <2>2, <1>0, <1>2 DEF ClaimHeldBy
  <2>3. CASE phase[s] = "new" /\ phase'[s] \in {"claim", "shed"} BY <2>1, <2>3, <1>0, <1>2 DEF ClaimHeldBy
  <2>4. CASE phase'[s] = "cut" /\ phase[s] \notin {"new", "replied", "cut", "shed"}
    BY <2>1, <2>4, <1>0, <1>2 DEF ClaimHeldBy
  <2>q. QED BY <2>2, <2>3, <2>4
<1>4. ClaimHeld' BY <1>3 DEF ClaimHeld, ClaimHeldBy
<1>q. QED BY <1>1, <1>4 DEF KeyInv

LEMMA TrackedFinite == \A i : IsFiniteSet(Tracked(i)) /\ Cardinality(Tracked(i)) \in Nat
BY FS_Subset, FS_CardinalityType DEF Tracked

LEMMA TrackMore ==
  ASSUME NEW i, NEW r, r \notin Tracked(i)
  PROVE  Cardinality(Tracked(i) \cup {r}) = Cardinality(Tracked(i)) + 1
BY TrackedFinite, FS_AddElement
LEMMA TrackLess ==
  ASSUME NEW i, NEW r, r \in Tracked(i)
  PROVE  Cardinality(Tracked(i) \ {r}) = Cardinality(Tracked(i)) - 1
BY TrackedFinite, FS_RemoveElement

LEMMA ArriveSteps ==
  ASSUME RequestsInv, NEW r \in Calls, Req!Arrive(r)
  PROVE  RequestsInv'
<1> DEFINE i == At[r]
<1>1. /\ UNCHANGED <<Req!keyVars, released, gone, mode, detached, mishaps>> /\ mode[i] \in {"up", "draining"}
  BY DEF Req!Arrive
<1>t. Req!TypeOK /\ DrainInv BY DEF RequestsInv
<1>2. PICK to \in {"claim", "shed"} :
        /\ Req!Step(r, "new", to)
        /\ \/ to = "claim" /\ inFlight' = [inFlight EXCEPT ![i] = inFlight[i] + 1]
           \/ to = "shed" /\ UNCHANGED inFlight
  BY DEF Req!Arrive
<1>3. /\ phase[r] = "new" /\ phase' \in [Calls -> RequestPhases] /\ phase'[r] = to
      /\ \A s \in Calls \ {r} : phase'[s] = phase[s]
  BY <1>2, <1>t, PhaseSteps DEF RequestPhases
<1>4. KeyInv' BY <1>1, <1>3, KeyKept
<1>5. inFlight \in [Req!Hosts -> Int] /\ i \in Req!Hosts BY <1>t, RequestTypes
<1>6. inFlight' \in [Req!Hosts -> Int] BY <1>2, <1>5
<1>7. Req!TypeOK'
  <2>1. UNCHANGED <<entry, claimed, reply, effects, lapsed>> BY <1>1 DEF Req!keyVars
  <2>q. QED BY <1>1, <2>1, <1>3, <1>6, <1>t, RequestTypes, RequestTypesBack
<1>8. r \notin released BY <1>3, <1>t DEF DrainInv, ReleasedWhen
<1>9. InFlightCounts'
  <2> SUFFICES ASSUME NEW h \in Req!Hosts PROVE inFlight'[h] = Cardinality(Tracked(h)')
    BY DEF InFlightCounts
  <2>1. inFlight[h] = Cardinality(Tracked(h)) BY <1>t DEF DrainInv, InFlightCounts
  <2>2. CASE h = i /\ to = "claim"
    <3>1. Tracked(h)' = Tracked(h) \cup {r} BY <2>2, <1>1, <1>3, <1>8 DEF Tracked
    <3>2. r \notin Tracked(h) BY <1>3 DEF Tracked
    <3>3. inFlight'[h] = inFlight[h] + 1 BY <2>2, <1>2, <1>5
    <3>q. QED BY <2>1, <3>1, <3>2, <3>3, TrackMore
  <2>3. CASE h # i \/ to = "shed"
    <3>1. Tracked(h)' = Tracked(h) BY <2>3, <1>1, <1>3, <1>8 DEF Tracked
    <3>2. inFlight'[h] = inFlight[h] BY <2>3, <1>2, <1>5
    <3>q. QED BY <2>1, <3>1, <3>2
  <2>q. QED BY <2>2, <2>3, <1>2
<1>10. ReleasedWhen' BY <1>1, <1>3, <1>8, <1>t DEF DrainInv, ReleasedWhen
<1>11. CutWhen' BY <1>1, <1>3, <1>t DEF DrainInv, CutWhen
<1>q. QED BY <1>4, <1>7, <1>9, <1>10, <1>11 DEF RequestsInv, DrainInv

\* A request is released once; a connection that closes later is not counted again.
LEMMA ReleaseSteps ==
  ASSUME RequestsInv, NEW r \in Calls, Req!Finish(r) \/ Req!Close(r) \/ Req!Disconnect(r)
  PROVE  RequestsInv'
<1> DEFINE i == At[r]
<1>1. /\ UNCHANGED <<Req!keyVars, mode, phase, detached>>
      /\ Req!Mishap \/ UNCHANGED mishaps
      /\ inFlight' = [inFlight EXCEPT ![i] = IF r \in released THEN inFlight[i] ELSE inFlight[i] - 1]
      /\ released' = released \cup {r}
      /\ gone' \in {gone, gone \cup {r}}
      /\ phase[r] \notin {"new", "shed"}
      /\ phase[r] # "replied" => gone' = gone \cup {r}
  BY DEF Req!Finish, Req!Close, Req!Disconnect, Req!Count, Req!Settled
<1>t. Req!TypeOK /\ DrainInv BY DEF RequestsInv
<1>4. KeyInv' BY <1>1, KeyKept
<1>5. inFlight \in [Req!Hosts -> Int] /\ i \in Req!Hosts BY <1>t, RequestTypes
<1>6. inFlight' \in [Req!Hosts -> Int] BY <1>1, <1>5
<1>m. mishaps' \in 0 .. MaxMishaps BY <1>1, <1>t, MishapCounts
<1>7. Req!TypeOK'
  <2>1. UNCHANGED <<entry, claimed, reply, effects, lapsed>> BY <1>1 DEF Req!keyVars
  <2>2. released' \subseteq Calls /\ gone' \subseteq Calls BY <1>1, <1>t, RequestTypes
  <2>q. QED BY <1>1, <2>1, <2>2, <1>m, <1>6, <1>t, RequestTypes, RequestTypesBack
<1>9. InFlightCounts'
  <2> SUFFICES ASSUME NEW h \in Req!Hosts PROVE inFlight'[h] = Cardinality(Tracked(h)')
    BY DEF InFlightCounts
  <2>1. inFlight[h] = Cardinality(Tracked(h)) BY <1>t DEF DrainInv, InFlightCounts
  <2>2. CASE h = i /\ r \notin released
    <3>1. Tracked(h)' = Tracked(h) \ {r} BY <2>2, <1>1 DEF Tracked
    <3>2. r \in Tracked(h) BY <2>2, <1>1 DEF Tracked
    <3>3. inFlight'[h] = inFlight[h] - 1 BY <2>2, <1>1, <1>5
    <3>q. QED BY <2>1, <3>1, <3>2, <3>3, TrackLess
  <2>3. CASE h # i \/ r \in released
    <3>1. Tracked(h)' = Tracked(h) BY <2>3, <1>1 DEF Tracked
    <3>2. inFlight'[h] = inFlight[h] BY <2>3, <1>1, <1>5
    <3>q. QED BY <2>1, <3>1, <3>2
  <2>q. QED BY <2>2, <2>3
<1>10. ReleasedWhen' BY <1>1, <1>t DEF DrainInv, ReleasedWhen
<1>11. CutWhen' BY <1>1, <1>t DEF DrainInv, CutWhen
<1>q. QED BY <1>4, <1>7, <1>9, <1>10, <1>11 DEF RequestsInv, DrainInv

LEMMA HostSteps ==
  ASSUME RequestsInv, NEW i \in Req!Hosts, Req!Signal(i) \/ Req!Exit(i)
  PROVE  RequestsInv'
<1>t. Req!TypeOK /\ DrainInv BY DEF RequestsInv
<1>u. mode \in [Req!Hosts -> {"up", "draining", "clean", "forced"}] /\ phase \in [Calls -> RequestPhases]
  BY <1>t, RequestTypes
<1>1. PICK m \in {"draining", "clean", "forced"} :
        /\ mode' = [mode EXCEPT ![i] = m] /\ mode[i] \in {"up", "draining"}
        /\ UNCHANGED <<Req!keyVars, released, gone, inFlight, detached>>
        /\ Req!Mishap \/ UNCHANGED mishaps
        /\ m = "clean" => inFlight[i] <= 0
        /\ \/ m = "draining" /\ UNCHANGED phase
           \/ m # "draining" /\ phase' = [r \in Calls |-> IF At[r] = i /\ phase[r] \notin Req!Settled \cup {"new"}
                                                          THEN "cut" ELSE phase[r]]
  <2>1. CASE Req!Signal(i) BY <2>1 DEF Req!Signal
  <2>2. CASE Req!Exit(i)
    <3>1. /\ mode[i] = "draining" /\ UNCHANGED <<Req!keyVars, released, gone, inFlight, detached>>
          /\ phase' = [r \in Calls |-> IF At[r] = i /\ phase[r] \notin Req!Settled \cup {"new"} THEN "cut" ELSE phase[r]]
      BY <2>2 DEF Req!Exit
    <3>2. CASE Req!Drained(i) /\ mode' = [mode EXCEPT ![i] = "clean"] /\ UNCHANGED mishaps
      BY <3>1, <3>2 DEF Req!Drained
    <3>3. CASE ~Req!Drained(i) /\ mode' = [mode EXCEPT ![i] = "forced"] /\ Req!Mishap
      BY <3>1, <3>3
    <3>q. QED BY <2>2, <3>2, <3>3 DEF Req!Exit
  <2>q. QED BY <2>1, <2>2
<1>2. /\ mode' \in [Req!Hosts -> {"up", "draining", "clean", "forced"}] /\ mode'[i] = m
      /\ \A h \in Req!Hosts \ {i} : mode'[h] = mode[h]
  BY <1>1, <1>u
<1>3. /\ phase' \in [Calls -> RequestPhases]
      /\ \A r \in Calls : \/ phase'[r] = phase[r]
                          \/ /\ phase'[r] = "cut" /\ phase[r] \notin {"new", "replied", "cut", "shed"}
                             /\ At[r] = i /\ m # "draining"
  BY <1>1, <1>u DEF Req!Settled, RequestPhases
<1>4. KeyInv' BY <1>1, <1>3, KeyKept
<1>m. mishaps' \in 0 .. MaxMishaps BY <1>1, <1>t, MishapCounts
<1>7. Req!TypeOK'
  <2>1. UNCHANGED <<entry, claimed, reply, effects, lapsed>> BY <1>1 DEF Req!keyVars
  <2>q. QED BY <1>1, <1>2, <1>3, <2>1, <1>m, <1>t, RequestTypes, RequestTypesBack
<1>8. \A h : Tracked(h)' = Tracked(h) BY <1>1, <1>3 DEF Tracked
<1>9. InFlightCounts' BY <1>1, <1>8, <1>t DEF DrainInv, InFlightCounts
<1>10. ReleasedWhen'
  <2> SUFFICES ASSUME NEW r \in Calls
               PROVE  /\ r \in released \ gone => phase'[r] = "replied"
                      /\ phase'[r] \in {"new", "shed"} => r \notin released
    BY <1>1 DEF ReleasedWhen
  <2>1. /\ r \in released \ gone => phase[r] = "replied"
        /\ phase[r] \in {"new", "shed"} => r \notin released
    BY <1>t DEF DrainInv, ReleasedWhen
  <2>q. QED BY <2>1, <1>3
<1>11. CutWhen'
  <2> SUFFICES ASSUME NEW r \in Calls, phase'[r] = "cut"
               PROVE  mode'[At[r]] = "forced" \/ (mode'[At[r]] = "clean" /\ r \in gone)
    BY <1>1 DEF CutWhen
  <2>1. CASE phase'[r] = phase[r]
    <3>1. mode[At[r]] = "forced" \/ (mode[At[r]] = "clean" /\ r \in gone) BY <2>1, <1>t DEF DrainInv, CutWhen
    <3>2. At[r] # i /\ At[r] \in Req!Hosts BY <3>1, <1>1, <1>t, RequestTypes
    <3>q. QED BY <3>1, <3>2, <1>2
  <2>2. CASE phase[r] \notin {"new", "replied", "cut", "shed"} /\ At[r] = i /\ m # "draining"
    <3>1. CASE m = "forced" BY <2>2, <3>1, <1>2
    <3>2. CASE m = "clean"
      <4>1. Cardinality(Tracked(i)) <= 0 BY <3>2, <1>1, <1>t DEF DrainInv, InFlightCounts
      <4>2. Tracked(i) = {}
        <5>1. Cardinality(Tracked(i)) = 0 BY <4>1, TrackedFinite
        <5>q. QED BY <5>1, TrackedFinite, FS_EmptySet
      <4>3. r \in released BY <4>2, <2>2 DEF Tracked
      <4>4. r \in gone BY <4>3, <2>2, <1>t DEF DrainInv, ReleasedWhen
      <4>q. QED BY <4>4, <3>2, <2>2, <1>2
    <3>q. QED BY <3>1, <3>2, <2>2
  <2>q. QED BY <2>1, <2>2, <1>3
<1>q. QED BY <1>4, <1>7, <1>9, <1>10, <1>11 DEF RequestsInv, DrainInv

LEMMA RequestsStart == Req!Init => RequestsInv
<1> SUFFICES ASSUME Req!Init PROVE RequestsInv OBVIOUS
<1>1. Req!TypeOK BY DEF Req!Init, Req!TypeOK, Req!Phases
<1>2. KeyInv BY DEF Req!Init, KeyInv, ClaimHeld, CompletedTrue, RepliesAre
<1>3. ReleasedWhen /\ CutWhen BY DEF Req!Init, ReleasedWhen, CutWhen
<1>4. InFlightCounts
  <2>1. \A i : Tracked(i) = {} BY DEF Req!Init, Tracked
  <2>q. QED BY <2>1, FS_EmptySet DEF Req!Init, InFlightCounts
<1>q. QED BY <1>1, <1>2, <1>3, <1>4 DEF RequestsInv, DrainInv

LEMMA RequestsHandled == Req!Spec => [](Req!TypeOK /\ Req!HandledOnce /\ Req!CleanExitCutsNothing)
<1>1. RequestsInv /\ [Req!Next]_(Req!vars) => RequestsInv'
  <2> SUFFICES ASSUME RequestsInv, [Req!Next]_(Req!vars) PROVE RequestsInv' OBVIOUS
  <2>1. CASE Req!Expire BY <2>1, KeyExpires
  <2>2. ASSUME NEW r \in Calls,
               \/ Req!Arrive(r) \/ Req!Claim(r) \/ Req!Lookup(r) \/ Req!Handle(r) \/ Req!RunOn(r)
               \/ Req!Finalize(r) \/ Req!Release(r) \/ Req!Finish(r) \/ Req!Close(r) \/ Req!Disconnect(r)
        PROVE  RequestsInv'
    BY <2>2, ArriveSteps, ClaimSteps, LookupSteps, HandleSteps, RunOnSteps, KeySettles, ReleaseSteps
  <2>3. ASSUME NEW i \in Req!Hosts, Req!Signal(i) \/ Req!Exit(i) PROVE RequestsInv' BY <2>3, HostSteps
  <2>4. CASE UNCHANGED Req!vars
    <3>1. UNCHANGED <<Req!keyVars, Req!drainVars, phase, detached, mishaps>> BY <2>4 DEF Req!vars
    <3>2. KeyInv' /\ DrainInv' BY <3>1, KeyKept, DrainSame
    <3>3. Req!TypeOK' BY <3>1 DEF RequestsInv, Req!TypeOK, Req!keyVars, Req!drainVars
    <3>q. QED BY <3>2, <3>3 DEF RequestsInv
  <2>q. QED BY <2>1, <2>2, <2>3, <2>4 DEF Req!Next
<1>2. RequestsInv => Req!TypeOK /\ Req!HandledOnce /\ Req!CleanExitCutsNothing
  <2> SUFFICES ASSUME RequestsInv PROVE Req!TypeOK /\ Req!HandledOnce /\ Req!CleanExitCutsNothing OBVIOUS
  <2>t. Req!TypeOK /\ effects \subseteq Calls BY RequestTypes DEF RequestsInv
  <2>1. \A r, s \in effects : r = s \/ r \in lapsed \/ s \in lapsed
    BY <2>t DEF RequestsInv, KeyInv, ClaimHeld, Owned
  <2>2. RepliesAre BY DEF RequestsInv, KeyInv
  <2>3. Req!HandledOnce BY <2>1, <2>2 DEF Req!HandledOnce, RepliesAre
  <2>4. Req!CleanExitCutsNothing BY DEF Req!CleanExitCutsNothing, RequestsInv, DrainInv, CutWhen
  <2>q. QED BY <2>t, <2>3, <2>4
<1>q. QED BY <1>1, <1>2, RequestsStart, PTL DEF Req!Spec
----------------------------------------------------------------------------
(* The rate limits. *)
HIDE RequestsAssumption
USE LimitsAssumption

LEMMA LimitsAlone == EdgeSpec => Rate!Spec
<1>1. EdgeInit => Rate!Init BY DEF EdgeInit
<1>2. [EdgeNext]_edgeVars => [Rate!Next]_(Rate!vars)
  BY DEF EdgeNext, Others, edgeVars, limitsVars, Rate!vars
<1>q. QED BY <1>1, <1>2, PTL DEF EdgeSpec, Rate!Spec, edgeVars

Ticks == 0 .. LastTick
Most == Rate!MostPoints
LEMMA MostIs ==
  /\ Most \in Nat /\ \A v \in Visits : PointsOf[v] \in Nat /\ PointsOf[v] <= Most
  /\ Refill \in Nat /\ LastTick \in Nat /\ Lockout \in Nat /\ AbuseWindow \in Nat /\ AbuseThreshold \in Nat
<1> DEFINE S == {PointsOf[v] : v \in Visits}
<1>1. \E x \in S : \A y \in S : x >= y OBVIOUS
<1>2. Rate!Max(S) \in S /\ \A y \in S : Rate!Max(S) >= y BY <1>1 DEF Rate!Max
<1>q. QED BY <1>2 DEF Most, Rate!MostPoints

LEMMA LeastOfTwo ==
  ASSUME NEW a \in Nat, NEW b \in Nat
  PROVE  Rate!Min({a, b}) \in {a, b} /\ Rate!Min({a, b}) <= a /\ Rate!Min({a, b}) <= b
<1>1. \E x \in {a, b} : \A y \in {a, b} : x <= y OBVIOUS
<1>2. Rate!Min({a, b}) \in {a, b} /\ \A y \in {a, b} : Rate!Min({a, b}) <= y BY <1>1 DEF Rate!Min
<1>q. QED BY <1>2

LEMMA TimesGrows ==
  ASSUME NEW a \in Nat, NEW b \in Nat, NEW k \in Nat, a <= b
  PROVE  a * k <= b * k /\ k * a <= k * b /\ a * k = k * a /\ b * k = k * b /\ a * k \in Nat /\ b * k \in Nat
OBVIOUS

LEMMA TimesAdds ==
  ASSUME NEW a \in Nat, NEW b \in Nat, NEW k \in Nat
  PROVE  k * (a + b) = k * a + k * b
OBVIOUS

\* What flows in at a lower rate for d ticks.
LEMMA FlowsIn ==
  ASSUME NEW M \in Nat, NEW n \in Nat, NEW R \in Nat, NEW x \in Nat, NEW tokens \in Nat, NEW d \in Nat, NEW e \in Nat,
         NEW level \in Nat, n <= M, x + tokens <= M * (R + e),
         level <= tokens + d * n \/ (d >= 2 * R /\ level <= n * R)
  PROVE  x + level <= M * (R + (e + d))
<1>1. M * (R + (e + d)) = M * (R + e) + M * d
  <2>1. M * ((R + e) + d) = M * (R + e) + M * d BY TimesAdds
  <2>q. QED BY <2>1
<1>2. d * n <= M * d BY TimesGrows
<1>3. CASE level <= tokens + d * n
  <2>1. M * (R + e) \in Nat /\ M * d \in Nat /\ d * n \in Nat OBVIOUS
  <2>q. QED BY <1>1, <1>2, <1>3, <2>1
<1>4. CASE d >= 2 * R /\ level <= n * R
  <2>1. n * R <= M * R BY TimesGrows
  <2>2. R <= d BY <1>4
  <2>3. M * R <= M * d BY <2>2, TimesGrows
  <2>4. M * (R + e) \in Nat /\ M * d \in Nat /\ n * R \in Nat /\ M * R \in Nat OBVIOUS
  <2>q. QED BY <1>1, <1>4, <2>1, <2>3, <2>4
<1>q. QED BY <1>3, <1>4

----------------------------------------------------------------------------
Ids == Rate!Identities
Since(G, from) == {g \in G : g[1] >= from}
Within(G, from, to) == {g \in G : g[1] \in from .. to}

LimitTypes ==
  /\ tick \in Ticks
  /\ bucket \in [Ids -> [tokens : Nat, updatedAt : Ticks, there : BOOLEAN]]
  /\ lockedUntil \in [Ids -> Nat]
  /\ abuse \in [Ids -> SUBSET (Ticks \X Visits)] /\ granted \in [Ids -> SUBSET (Ticks \X Visits)]
  /\ visit \in [Visits -> [passed : SUBSET Ids, refused : SUBSET Ids,
                           outcome : {"none", "served", "tooMany", "unchecked", "unavailable"}]]

\* What one bucket, its grants and its rejections say at time t.
BucketFits(b, G, t) ==
  /\ b.tokens <= Most * Refill /\ b.updatedAt <= t
  /\ \A g \in G : g[1] <= b.updatedAt
  /\ ~b.there => G = {}
  /\ IsFiniteSet(G)
  /\ b.there => \A from \in 0 .. b.updatedAt :
                  Refill * Cardinality(Since(G, from)) + b.tokens <= Most * (Refill + (b.updatedAt - from))
GrantsFit(G) ==
  \A from, to \in Ticks : from <= to => Refill * Cardinality(Within(G, from, to)) <= Most * (Refill + to - from)
LockFits(G, until) == \A g \in G : g[1] >= until \/ g[1] + Lockout <= until
AbuseFits(A, until, t) ==
  /\ IsFiniteSet(A) /\ \A r \in A : r[1] <= t
  /\ \A r \in A : Cardinality(Within(A, r[1] - AbuseWindow + 1, r[1])) >= AbuseThreshold => r[1] + Lockout <= until
PassedFits ==
  \A v \in Visits : /\ \A i \in visit[v].passed : \E t \in Ticks : <<t, v>> \in granted[i]
                    /\ visit[v].outcome = "served" => Keys[v] \subseteq visit[v].passed
LimitsInv ==
  /\ LimitTypes /\ PassedFits
  /\ \A i \in Ids : /\ BucketFits(bucket[i], granted[i], tick) /\ GrantsFit(granted[i])
                    /\ LockFits(granted[i], lockedUntil[i]) /\ AbuseFits(abuse[i], lockedUntil[i], tick)

\* A bucket at the time of a check.
LEMMA LevelIs ==
  ASSUME LimitsInv, NEW i \in Ids, NEW v \in Visits
  PROVE  LET n == PointsOf[v] level == Rate!Level(bucket[i], n) b == bucket[i] d == tick - b.updatedAt IN
         /\ level \in Nat /\ level <= n * Refill /\ level <= Most * Refill /\ d \in Nat
         /\ ~b.there \/ level <= b.tokens + d * n \/ (d >= 2 * Refill /\ level <= n * Refill)
<1> DEFINE n == PointsOf[v]
           b == bucket[i]
           d == tick - b.updatedAt
<1>1. n \in Nat /\ n <= Most /\ Most \in Nat /\ Refill \in Nat BY MostIs
<1>2. b.tokens \in Nat /\ b.updatedAt \in Nat /\ b.updatedAt <= tick /\ tick \in Nat /\ b.there \in BOOLEAN
  BY MostIs DEF LimitsInv, LimitTypes, BucketFits, Ticks
<1>3. d \in Nat BY <1>2
<1> HIDE DEF n, b, d
<1>4. n * Refill \in Nat /\ n * Refill <= Most * Refill /\ Most * Refill \in Nat BY <1>1, TimesGrows
<1>5. d * n \in Nat /\ b.tokens + d * n \in Nat BY <1>1, <1>2, <1>3
<1>6. Rate!Level(b, n) = IF ~b.there \/ d >= 2 * Refill THEN n * Refill ELSE Rate!Min({n * Refill, b.tokens + d * n})
  BY DEF Rate!Level, b, d
<1>7. /\ Rate!Min({n * Refill, b.tokens + d * n}) \in {n * Refill, b.tokens + d * n}
      /\ Rate!Min({n * Refill, b.tokens + d * n}) <= n * Refill
      /\ Rate!Min({n * Refill, b.tokens + d * n}) <= b.tokens + d * n
  BY <1>4, <1>5, LeastOfTwo
<1> DEFINE level == Rate!Level(b, n)
<1> HIDE DEF level
<1>8. /\ level \in Nat /\ level <= n * Refill
      /\ ~b.there \/ level <= b.tokens + d * n \/ (d >= 2 * Refill /\ level <= n * Refill)
  BY <1>4, <1>5, <1>6, <1>7 DEF level
<1>9. level <= Most * Refill BY <1>4, <1>8
<1>q. QED BY <1>3, <1>8, <1>9 DEF n, b, d, level

LEMMA SinceCounts ==
  ASSUME NEW G, IsFiniteSet(G), NEW g, NEW from
  PROVE  /\ IsFiniteSet(Since(G, from)) /\ IsFiniteSet(Since(G \cup {g}, from)) /\ IsFiniteSet(G \cup {g})
         /\ Cardinality(Since(G, from)) \in Nat /\ Cardinality(Since(G \cup {g}, from)) \in Nat
         /\ Cardinality(Since(G \cup {g}, from)) <= Cardinality(Since(G, from)) + 1
<1>1. IsFiniteSet(G \cup {g}) BY FS_AddElement
<1>2. IsFiniteSet(Since(G, from)) BY FS_Subset DEF Since
<1>3. IsFiniteSet(Since(G \cup {g}, from)) BY <1>1, FS_Subset DEF Since
<1>4. IsFiniteSet(Since(G, from) \cup {g}) /\ Cardinality(Since(G, from) \cup {g}) <= Cardinality(Since(G, from)) + 1
  <2>1. /\ IsFiniteSet(Since(G, from) \cup {g})
        /\ Cardinality(Since(G, from) \cup {g}) = IF g \in Since(G, from) THEN Cardinality(Since(G, from))
                                                  ELSE Cardinality(Since(G, from)) + 1
    BY <1>2, FS_AddElement
  <2>2. Cardinality(Since(G, from)) \in Nat BY <1>2, FS_CardinalityType
  <2>q. QED BY <2>1, <2>2
<1>5. Since(G \cup {g}, from) \subseteq Since(G, from) \cup {g} BY DEF Since
<1>6. Cardinality(Since(G \cup {g}, from)) <= Cardinality(Since(G, from) \cup {g}) BY <1>4, <1>5, FS_Subset
<1>7. /\ Cardinality(Since(G, from)) \in Nat /\ Cardinality(Since(G \cup {g}, from)) \in Nat
      /\ Cardinality(Since(G, from) \cup {g}) \in Nat
  BY <1>2, <1>3, <1>4, FS_CardinalityType
<1>q. QED BY <1>1, <1>2, <1>3, <1>4, <1>6, <1>7

\* A level that BucketFits allows at time t.
LevelFits(G, level, t) ==
  \A from \in 0 .. t : Refill * Cardinality(Since(G, from)) + level <= Most * (Refill + (t - from))

LEMMA LevelsFit ==
  ASSUME NEW b \in [tokens : Nat, updatedAt : Ticks, there : BOOLEAN], NEW G \in SUBSET (Ticks \X Visits),
         NEW t \in Ticks, NEW n \in Nat, n <= Most, NEW level \in Nat, BucketFits(b, G, t), level <= Most * Refill,
         LET d == t - b.updatedAt IN ~b.there \/ level <= b.tokens + d * n \/ (d >= 2 * Refill /\ level <= n * Refill)
  PROVE  LevelFits(G, level, t)
<1> SUFFICES ASSUME NEW from \in 0 .. t
             PROVE  Refill * Cardinality(Since(G, from)) + level <= Most * (Refill + (t - from))
  BY DEF LevelFits
<1>1. Most \in Nat /\ Refill \in Nat /\ t \in Nat /\ from \in Nat /\ t - from \in Nat BY MostIs DEF Ticks
<1>2. CASE Since(G, from) = {}
  <2>1. Cardinality(Since(G, from)) = 0 BY <1>2, FS_EmptySet
  <2>2. Most * Refill <= Most * (Refill + (t - from)) BY <1>1, TimesGrows
  <2>3. Refill * 0 = 0 BY <1>1
  <2>4. Most * Refill \in Nat /\ Most * (Refill + (t - from)) \in Nat BY <1>1
  <2>q. QED BY <2>1, <2>2, <2>3, <2>4
<1>3. CASE Since(G, from) # {}
  <2>1. b.there /\ from <= b.updatedAt
    <3>1. PICK g \in G : g[1] >= from BY <1>3 DEF Since
    <3>2. g[1] \in Nat /\ b.updatedAt \in Nat /\ g[1] <= b.updatedAt BY <3>1, MostIs DEF BucketFits, Ticks
    <3>q. QED BY <1>1, <3>1, <3>2 DEF BucketFits
  <2> DEFINE e == b.updatedAt - from
             d == t - b.updatedAt
             x == Refill * Cardinality(Since(G, from))
  <2>2. b.updatedAt \in Nat /\ b.updatedAt <= t /\ b.tokens \in Nat BY MostIs DEF BucketFits, Ticks
  <2>3. e \in Nat /\ d \in Nat /\ e + d = t - from BY <1>1, <2>1, <2>2
  <2>4. Cardinality(Since(G, from)) \in Nat BY SinceCounts DEF BucketFits
  <2>5. x \in Nat BY <1>1, <2>4
  <2>6. x + b.tokens <= Most * (Refill + e) BY <1>1, <2>1, <2>2 DEF BucketFits
  <2>7. level <= b.tokens + d * n \/ (d >= 2 * Refill /\ level <= n * Refill) BY <2>1
  <2> HIDE DEF e, d, x
  <2>8. x + level <= Most * (Refill + (e + d)) BY <1>1, <2>2, <2>3, <2>5, <2>6, <2>7, FlowsIn
  <2>q. QED BY <2>3, <2>8 DEF x
<1>q. QED BY <1>2, <1>3

LEMMA RefusalFits ==
  ASSUME NEW G \in SUBSET (Ticks \X Visits), NEW t \in Ticks, NEW level \in Nat, level <= Most * Refill,
         LevelFits(G, level, t), IsFiniteSet(G), \A g \in G : g[1] <= t
  PROVE  BucketFits([tokens |-> level, updatedAt |-> t, there |-> TRUE], G, t)
<1>1. t \in Nat BY MostIs DEF Ticks
<1>q. QED BY <1>1 DEF BucketFits, LevelFits

LEMMA GrantFits ==
  ASSUME NEW G \in SUBSET (Ticks \X Visits), NEW t \in Ticks, NEW v \in Visits, NEW level \in Nat, level <= Most * Refill,
         level >= Refill, LevelFits(G, level, t), IsFiniteSet(G), \A g \in G : g[1] <= t, GrantsFit(G)
  PROVE  /\ BucketFits([tokens |-> level - Refill, updatedAt |-> t, there |-> TRUE], G \cup {<<t, v>>}, t)
         /\ GrantsFit(G \cup {<<t, v>>})
<1> DEFINE H == G \cup {<<t, v>>}
<1>1. Most \in Nat /\ Refill \in Nat /\ t \in Nat /\ LastTick \in Nat /\ Most * Refill \in Nat BY MostIs DEF Ticks
<1>2. IsFiniteSet(H) /\ \A g \in H : g[1] <= t
  <2>1. IsFiniteSet(H) BY SinceCounts
  <2>2. <<t, v>>[1] <= t BY <1>1
  <2>q. QED BY <2>1, <2>2
<1>3. ASSUME NEW from \in 0 .. t
      PROVE  /\ Cardinality(Since(H, from)) \in Nat
             /\ Refill * Cardinality(Since(H, from)) + (level - Refill) <= Most * (Refill + (t - from))
             /\ Refill * Cardinality(Since(H, from)) <= Most * (Refill + (t - from))
  <2> DEFINE C == Cardinality(Since(G, from))
             D == Cardinality(Since(H, from))
  <2>1. C \in Nat /\ D \in Nat /\ D <= C + 1 BY SinceCounts
  <2>2. Refill * C + level <= Most * (Refill + (t - from)) BY DEF LevelFits
  <2> HIDE DEF C, D
  <2>3. Refill * D <= Refill * (C + 1) BY <2>1, <1>1, TimesGrows
  <2>4. Refill * (C + 1) = Refill * C + Refill * 1 BY <2>1, <1>1, TimesAdds
  <2>5. Refill * D \in Nat /\ Refill * C \in Nat /\ Refill * 1 = Refill /\ Most * (Refill + (t - from)) \in Nat
    BY <2>1, <1>1
  <2>q. QED BY <2>1, <2>2, <2>3, <2>4, <2>5, <1>1 DEF D
<1>4. BucketFits([tokens |-> level - Refill, updatedAt |-> t, there |-> TRUE], H, t)
  <2>1. level - Refill <= Most * Refill BY <1>1
  <2> HIDE DEF H
  <2>q. QED BY <1>1, <1>2, <1>3, <2>1 DEF BucketFits
<1>5. GrantsFit(H)
  <2> SUFFICES ASSUME NEW from \in Ticks, NEW to \in Ticks, from <= to
               PROVE  Refill * Cardinality(Within(H, from, to)) <= Most * (Refill + to - from)
    BY DEF GrantsFit
  <2>0. from \in Nat /\ to \in Nat /\ Refill + to - from \in Nat /\ Refill + to - from = Refill + (to - from)
        /\ to - from \in Nat
    BY <1>1 DEF Ticks
  <2>1. CASE to < t
    <3>1. Within(H, from, to) = Within(G, from, to)
      <4>1. <<t, v>>[1] \notin from .. to BY <2>0, <2>1, <1>1
      <4>q. QED BY <4>1 DEF Within
    <3>q. QED BY <3>1 DEF GrantsFit
  <2>2. CASE from > t
    <3>1. Within(H, from, to) = {}
      <4>1. \A g \in H : g[1] \in Nat BY <1>1 DEF Ticks
      <4>q. QED BY <1>1, <1>2, <2>0, <2>2, <4>1 DEF Within
    <3>2. Cardinality(Within(H, from, to)) = 0 BY <3>1, FS_EmptySet
    <3>3. Refill * 0 = 0 /\ Most * (Refill + to - from) \in Nat BY <1>1, <2>0
    <3>q. QED BY <3>2, <3>3
  <2>3. CASE from <= t /\ t <= to
    <3>1. from \in 0 .. t /\ t - from \in Nat BY <2>0, <2>3, <1>1
    <3>2. Within(H, from, to) \subseteq Since(H, from) /\ IsFiniteSet(Since(H, from))
      <4>1. IsFiniteSet(Since(H, from)) BY SinceCounts
      <4>q. QED BY <4>1, <2>0 DEF Within, Since
    <3>3. /\ IsFiniteSet(Within(H, from, to))
          /\ Cardinality(Within(H, from, to)) <= Cardinality(Since(H, from)) BY <3>2, FS_Subset
    <3>4. Cardinality(Within(H, from, to)) \in Nat /\ Cardinality(Since(H, from)) \in Nat
      BY <3>2, <3>3, FS_CardinalityType
    <3>5. Refill * Cardinality(Within(H, from, to)) <= Refill * Cardinality(Since(H, from))
      BY <3>3, <3>4, <1>1, TimesGrows
    <3>6. Refill * Cardinality(Since(H, from)) <= Most * (Refill + (t - from)) BY <1>3, <3>1
    <3>7. Most * (Refill + (t - from)) <= Most * (Refill + to - from)
      <4>1. Refill + (t - from) \in Nat /\ Refill + (t - from) <= Refill + to - from BY <3>1, <2>0, <2>3, <1>1
      <4>q. QED BY <4>1, <2>0, <1>1, TimesGrows
    <3>8. /\ Refill * Cardinality(Within(H, from, to)) \in Nat /\ Refill * Cardinality(Since(H, from)) \in Nat
          /\ Most * (Refill + (t - from)) \in Nat /\ Most * (Refill + to - from) \in Nat
      BY <3>4, <3>1, <2>0, <1>1
    <3> HIDE DEF H
    <3>q. QED BY <3>5, <3>6, <3>7, <3>8
  <2>q. QED BY <2>0, <2>1, <2>2, <2>3, <1>1
<1>q. QED BY <1>4, <1>5

\* Rejections: those of late and one of now.
LEMMA RejectionFits ==
  ASSUME NEW A \in SUBSET (Ticks \X Visits), NEW until \in Nat, NEW t \in Ticks, AbuseFits(A, until, t), until <= t,
         NEW B \in SUBSET (Ticks \X Visits), NEW v \in Visits, B \subseteq A \cup {<<t, v>>},
         NEW later \in Nat, later = IF Cardinality(B) >= AbuseThreshold THEN t + Lockout ELSE until
  PROVE  AbuseFits(B, later, t)
<1>1. t \in Nat /\ LastTick \in Nat /\ Lockout \in Nat /\ AbuseWindow \in Nat /\ AbuseThreshold \in Nat BY MostIs DEF Ticks
<1>2. IsFiniteSet(A) /\ IsFiniteSet(A \cup {<<t, v>>}) BY FS_AddElement DEF AbuseFits
<1>3. IsFiniteSet(B) BY <1>2, FS_Subset
<1>4. \A r \in A \cup {<<t, v>>} : r[1] <= t /\ r[1] \in Nat
  <2>1. <<t, v>>[1] = t OBVIOUS
  <2>2. \A r \in A : r[1] \in Nat BY <1>1 DEF Ticks
  <2>q. QED BY <1>1, <2>1, <2>2 DEF AbuseFits
<1>5. later >= until BY <1>1
<1>6. ASSUME NEW r \in B, Cardinality(Within(B, r[1] - AbuseWindow + 1, r[1])) >= AbuseThreshold
      PROVE  r[1] + Lockout <= later
  <2> DEFINE W == Within(B, r[1] - AbuseWindow + 1, r[1])
  <2>1. r[1] \in Nat /\ r[1] <= t BY <1>4
  <2>2. CASE r[1] = t
    <3>1. W \subseteq B BY DEF Within
    <3>2. IsFiniteSet(W) /\ Cardinality(W) <= Cardinality(B) BY <3>1, <1>3, FS_Subset
    <3>3. Cardinality(W) \in Nat /\ Cardinality(B) \in Nat BY <3>2, <1>3, FS_CardinalityType
    <3>4. Cardinality(B) >= AbuseThreshold BY <3>2, <3>3, <1>6, <1>1
    <3>q. QED BY <3>4, <2>2, <1>1
  <2>3. CASE r[1] < t
    <3> DEFINE V == Within(A, r[1] - AbuseWindow + 1, r[1])
    <3>0. <<t, v>>[1] = t OBVIOUS
    <3>1. r \in A BY <2>3, <2>1, <1>1, <3>0
    <3>2. <<t, v>>[1] \notin r[1] - AbuseWindow + 1 .. r[1] BY <2>1, <2>3, <1>1, <3>0
    <3>3. W \subseteq V BY <3>2 DEF Within
    <3>4. IsFiniteSet(V) BY <1>2, FS_Subset DEF Within
    <3>5. IsFiniteSet(W) /\ Cardinality(W) <= Cardinality(V) BY <3>3, <3>4, FS_Subset
    <3>6. Cardinality(W) \in Nat /\ Cardinality(V) \in Nat BY <3>4, <3>5, FS_CardinalityType
    <3>7. Cardinality(V) >= AbuseThreshold BY <3>5, <3>6, <1>6, <1>1
    <3>8. r[1] + Lockout <= until BY <3>1, <3>7 DEF AbuseFits
    <3>q. QED BY <3>8, <1>5, <2>1, <1>1
  <2>q. QED BY <2>1, <2>2, <2>3, <1>1
<1>7. \A r \in B : r[1] <= t BY <1>4
<1>q. QED BY <1>3, <1>6, <1>7 DEF AbuseFits

LEMMA Decided ==
  ASSUME LimitsInv, NEW v \in Visits, NEW S \in SUBSET Ids, NEW T \in SUBSET Ids, Rate!Decide(v, S, T)
  PROVE  /\ visit' \in [Visits -> [passed : SUBSET Ids, refused : SUBSET Ids,
                                   outcome : {"none", "served", "tooMany", "unchecked", "unavailable"}]]
         /\ visit'[v].passed = visit[v].passed \cup S
         /\ \A w \in Visits : /\ w # v => visit'[w] = visit[w]
                              /\ visit'[w].outcome = visit[w].outcome
<1> DEFINE old == visit[v]
           new == [old EXCEPT !.passed = old.passed \cup S, !.refused = old.refused \cup T]
           Type == [passed : SUBSET Ids, refused : SUBSET Ids,
                    outcome : {"none", "served", "tooMany", "unchecked", "unavailable"}]
<1>1. visit \in [Visits -> Type] /\ old \in Type BY DEF LimitsInv, LimitTypes
<1>2. visit' = [visit EXCEPT ![v] = new] BY <1>1 DEF Rate!Decide
<1>3. new \in Type /\ new.passed = old.passed \cup S /\ new.outcome = old.outcome BY <1>1
<1> HIDE DEF Type, new
<1>4. visit' \in [Visits -> Type] /\ visit'[v] = new /\ \A w \in Visits \ {v} : visit'[w] = visit[w] BY <1>1, <1>2, <1>3
<1>5. \A w \in Visits : w # v => visit'[w] = visit[w] BY <1>4
<1>6. \A w \in Visits : visit'[w].outcome = visit[w].outcome
  <2> TAKE w \in Visits
  <2>1. CASE w = v BY <2>1, <1>3, <1>4
  <2>2. CASE w # v BY <2>2, <1>4
  <2>q. QED BY <2>1, <2>2
<1>q. QED BY <1>3, <1>4, <1>5, <1>6 DEF Type

LEMMA PassedKept ==
  ASSUME LimitsInv, NEW v \in Visits, NEW S \in SUBSET Ids, NEW T \in SUBSET Ids, Rate!Decide(v, S, T),
         \A i \in Ids : granted[i] \subseteq granted'[i],
         \A i \in S : \E t \in Ticks : <<t, v>> \in granted'[i]
  PROVE  PassedFits'
<1> SUFFICES ASSUME NEW w \in Visits
             PROVE  /\ \A i \in visit'[w].passed : \E t \in Ticks : <<t, w>> \in granted'[i]
                    /\ visit'[w].outcome = "served" => Keys[w] \subseteq visit'[w].passed
  BY DEF PassedFits
<1>1. /\ \A i \in visit[w].passed : \E t \in Ticks : <<t, w>> \in granted[i]
      /\ visit[w].outcome = "served" => Keys[w] \subseteq visit[w].passed
      /\ visit[w].passed \subseteq Ids
  BY DEF LimitsInv, LimitTypes, PassedFits
<1>2. /\ visit'[v].passed = visit[v].passed \cup S
      /\ w # v => visit'[w] = visit[w]
      /\ visit'[w].outcome = visit[w].outcome
  BY Decided
<1>3. CASE w = v BY <1>1, <1>2, <1>3
<1>4. CASE w # v BY <1>1, <1>2, <1>4
<1>q. QED BY <1>3, <1>4

LEMMA Asked ==
  ASSUME LimitsInv, NEW v \in Visits, NEW i \in Keys[v]
  PROVE  /\ i \in Ids /\ bucket[i] \in [tokens : Nat, updatedAt : Ticks, there : BOOLEAN]
         /\ granted[i] \in SUBSET (Ticks \X Visits) /\ abuse[i] \in SUBSET (Ticks \X Visits)
         /\ lockedUntil[i] \in Nat /\ tick \in Ticks /\ tick \in Nat
         /\ BucketFits(bucket[i], granted[i], tick) /\ GrantsFit(granted[i])
         /\ LockFits(granted[i], lockedUntil[i]) /\ AbuseFits(abuse[i], lockedUntil[i], tick)
         /\ IsFiniteSet(granted[i]) /\ \A g \in granted[i] : g[1] <= tick /\ g[1] \in Nat
<1>1. i \in Ids BY DEF Ids, Rate!Identities
<1>2. /\ bucket[i] \in [tokens : Nat, updatedAt : Ticks, there : BOOLEAN]
      /\ granted[i] \in SUBSET (Ticks \X Visits) /\ abuse[i] \in SUBSET (Ticks \X Visits)
      /\ lockedUntil[i] \in Nat /\ tick \in Ticks
  BY <1>1 DEF LimitsInv, LimitTypes
<1>3. tick \in Nat BY <1>2, MostIs DEF Ticks
<1>4. /\ BucketFits(bucket[i], granted[i], tick) /\ GrantsFit(granted[i])
      /\ LockFits(granted[i], lockedUntil[i]) /\ AbuseFits(abuse[i], lockedUntil[i], tick)
  BY <1>1 DEF LimitsInv
<1>5. IsFiniteSet(granted[i]) BY <1>4 DEF BucketFits
<1>6. \A g \in granted[i] : g[1] <= tick /\ g[1] \in Nat
  <2> TAKE g \in granted[i]
  <2>1. g[1] \in Nat /\ bucket[i].updatedAt \in Nat BY <1>2, MostIs DEF Ticks
  <2>2. g[1] <= bucket[i].updatedAt /\ bucket[i].updatedAt <= tick BY <1>4 DEF BucketFits
  <2>q. QED BY <2>1, <2>2, <1>3
<1>q. QED BY <1>1, <1>2, <1>3, <1>4, <1>5, <1>6

\* One identity changes.
LEMMA OneIdentity ==
  ASSUME LimitsInv, UNCHANGED tick, NEW i \in Ids,
         NEW b \in [tokens : Nat, updatedAt : Ticks, there : BOOLEAN], bucket' = [bucket EXCEPT ![i] = b],
         NEW G \in SUBSET (Ticks \X Visits), granted' = [granted EXCEPT ![i] = G],
         NEW A \in SUBSET (Ticks \X Visits), abuse' = [abuse EXCEPT ![i] = A],
         NEW u \in Nat, lockedUntil' = [lockedUntil EXCEPT ![i] = u],
         BucketFits(b, G, tick), GrantsFit(G), LockFits(G, u), AbuseFits(A, u, tick), PassedFits',
         visit' \in [Visits -> [passed : SUBSET Ids, refused : SUBSET Ids,
                                outcome : {"none", "served", "tooMany", "unchecked", "unavailable"}]]
  PROVE  LimitsInv'
<1>1. /\ bucket' \in [Ids -> [tokens : Nat, updatedAt : Ticks, there : BOOLEAN]] /\ bucket'[i] = b
      /\ \A j \in Ids \ {i} : bucket'[j] = bucket[j]
  BY DEF LimitsInv, LimitTypes
<1>2. /\ granted' \in [Ids -> SUBSET (Ticks \X Visits)] /\ granted'[i] = G
      /\ \A j \in Ids \ {i} : granted'[j] = granted[j]
  BY DEF LimitsInv, LimitTypes
<1>3. /\ abuse' \in [Ids -> SUBSET (Ticks \X Visits)] /\ abuse'[i] = A
      /\ \A j \in Ids \ {i} : abuse'[j] = abuse[j]
  BY DEF LimitsInv, LimitTypes
<1>4. /\ lockedUntil' \in [Ids -> Nat] /\ lockedUntil'[i] = u
      /\ \A j \in Ids \ {i} : lockedUntil'[j] = lockedUntil[j]
  BY DEF LimitsInv, LimitTypes
<1>5. LimitTypes' BY <1>1, <1>2, <1>3, <1>4 DEF LimitsInv, LimitTypes
<1>6. ASSUME NEW j \in Ids
      PROVE  /\ BucketFits(bucket'[j], granted'[j], tick') /\ GrantsFit(granted'[j])
             /\ LockFits(granted'[j], lockedUntil'[j]) /\ AbuseFits(abuse'[j], lockedUntil'[j], tick')
  <2>1. CASE j = i BY <2>1, <1>1, <1>2, <1>3, <1>4
  <2>2. CASE j # i BY <2>2, <1>1, <1>2, <1>3, <1>4 DEF LimitsInv
  <2>q. QED BY <2>1, <2>2
<1>q. QED BY <1>5, <1>6 DEF LimitsInv

LEMMA Unwritten ==
  ASSUME NEW X, NEW Y, NEW f \in [X -> Y], NEW x \in X
  PROVE  f = [f EXCEPT ![x] = f[x]]
OBVIOUS

LEMMA ScriptSteps ==
  ASSUME LimitsInv, NEW v \in Visits, NEW i \in Keys[v], Rate!Script(v, i)
  PROVE  LimitsInv'
<1> DEFINE n == PointsOf[v]
           level == Rate!Level(bucket[i], n)
<1>a. /\ i \in Ids /\ bucket[i] \in [tokens : Nat, updatedAt : Ticks, there : BOOLEAN]
      /\ granted[i] \in SUBSET (Ticks \X Visits) /\ abuse[i] \in SUBSET (Ticks \X Visits)
      /\ lockedUntil[i] \in Nat /\ tick \in Ticks /\ tick \in Nat
      /\ BucketFits(bucket[i], granted[i], tick) /\ GrantsFit(granted[i])
      /\ LockFits(granted[i], lockedUntil[i]) /\ AbuseFits(abuse[i], lockedUntil[i], tick)
      /\ IsFiniteSet(granted[i]) /\ \A g \in granted[i] : g[1] <= tick /\ g[1] \in Nat
  BY Asked
<1>f. /\ bucket \in [Ids -> [tokens : Nat, updatedAt : Ticks, there : BOOLEAN]]
      /\ lockedUntil \in [Ids -> Nat]
      /\ abuse \in [Ids -> SUBSET (Ticks \X Visits)] /\ granted \in [Ids -> SUBSET (Ticks \X Visits)]
      /\ {i} \in SUBSET Ids /\ {} \in SUBSET Ids
  BY <1>a DEF LimitsInv, LimitTypes
<1>l. /\ level \in Nat /\ level <= n * Refill /\ level <= Most * Refill
      /\ LET d == tick - bucket[i].updatedAt IN
         ~bucket[i].there \/ level <= bucket[i].tokens + d * n \/ (d >= 2 * Refill /\ level <= n * Refill)
  BY <1>a, LevelIs
<1>n. n \in Nat /\ n <= Most /\ Refill \in Nat /\ Lockout \in Nat /\ AbuseThreshold \in Nat BY MostIs
<1>u. UNCHANGED tick BY DEF Rate!Script
<1> HIDE DEF n, level
<1>s. LevelFits(granted[i], level, tick) BY <1>a, <1>l, <1>n, LevelsFit
<1>w. /\ bucket = [bucket EXCEPT ![i] = bucket[i]] /\ granted = [granted EXCEPT ![i] = granted[i]]
      /\ abuse = [abuse EXCEPT ![i] = abuse[i]] /\ lockedUntil = [lockedUntil EXCEPT ![i] = lockedUntil[i]]
  BY <1>a, <1>f, Unwritten
<1>1. CASE Rate!Locked(i) /\ Rate!Decide(v, {}, {i}) /\ UNCHANGED <<bucket, lockedUntil, abuse, granted>>
  <2>1. PassedFits' BY <1>1, <1>f, PassedKept
  <2>2. visit' \in [Visits -> [passed : SUBSET Ids, refused : SUBSET Ids,
                                outcome : {"none", "served", "tooMany", "unchecked", "unavailable"}]]
    BY <1>1, <1>f, Decided
  <2>3. /\ bucket' = [bucket EXCEPT ![i] = bucket[i]] /\ granted' = [granted EXCEPT ![i] = granted[i]]
        /\ abuse' = [abuse EXCEPT ![i] = abuse[i]] /\ lockedUntil' = [lockedUntil EXCEPT ![i] = lockedUntil[i]]
    BY <1>1, <1>w
  <2>q. QED BY <1>a, <1>u, <2>1, <2>2, <2>3, OneIdentity
<1>2. CASE /\ ~Rate!Locked(i) /\ level >= Refill /\ Rate!Decide(v, {i}, {})
           /\ bucket' = [bucket EXCEPT ![i] = [tokens |-> level - Refill, updatedAt |-> tick, there |-> TRUE]]
           /\ granted' = [granted EXCEPT ![i] = granted[i] \cup {<<tick, v>>}]
           /\ UNCHANGED <<lockedUntil, abuse>>
  <2> DEFINE b == [tokens |-> level - Refill, updatedAt |-> tick, there |-> TRUE]
             G == granted[i] \cup {<<tick, v>>}
  <2>1. BucketFits(b, G, tick) /\ GrantsFit(G) BY <1>2, <1>a, <1>l, <1>s, GrantFits
  <2>2. b \in [tokens : Nat, updatedAt : Ticks, there : BOOLEAN] BY <1>2, <1>a, <1>l, <1>n
  <2>3. G \in SUBSET (Ticks \X Visits) BY <1>a
  <2>4. LockFits(G, lockedUntil[i])
    <3>1. lockedUntil[i] <= tick BY <1>2, <1>a DEF Rate!Locked
    <3>2. <<tick, v>>[1] = tick OBVIOUS
    <3>q. QED BY <3>1, <3>2, <1>a DEF LockFits
  <2>5. PassedFits'
    <3>1. \A j \in Ids : granted[j] \subseteq granted'[j] BY <1>2, <1>f
    <3>2. \A j \in {i} : \E t \in Ticks : <<t, v>> \in granted'[j]
      <4>1. <<tick, v>> \in granted'[i] BY <1>2, <1>f, <1>a
      <4>q. QED BY <4>1, <1>a
    <3>3. Rate!Decide(v, {i}, {}) BY <1>2
    <3>q. QED BY <3>1, <3>2, <3>3, <1>f, PassedKept
  <2>6. visit' \in [Visits -> [passed : SUBSET Ids, refused : SUBSET Ids,
                                outcome : {"none", "served", "tooMany", "unchecked", "unavailable"}]]
    BY <1>2, <1>f, Decided
  <2>7. bucket' = [bucket EXCEPT ![i] = b] /\ granted' = [granted EXCEPT ![i] = G]
        /\ abuse' = [abuse EXCEPT ![i] = abuse[i]] /\ lockedUntil' = [lockedUntil EXCEPT ![i] = lockedUntil[i]]
    BY <1>2, <1>w
  <2> HIDE DEF b, G
  <2>q. QED BY <1>a, <1>u, <2>1, <2>2, <2>3, <2>4, <2>5, <2>6, <2>7, OneIdentity
<1>3. CASE /\ ~Rate!Locked(i) /\ level < Refill /\ Rate!Decide(v, {}, {i})
           /\ bucket' = [bucket EXCEPT ![i] = [tokens |-> level, updatedAt |-> tick, there |-> TRUE]]
           /\ abuse' = [abuse EXCEPT ![i] = Rate!Rejections(i) \cup {<<tick, v>>}]
           /\ lockedUntil' = IF Rate!Cardinality(abuse'[i]) >= AbuseThreshold
                             THEN [lockedUntil EXCEPT ![i] = tick + Lockout] ELSE lockedUntil
           /\ UNCHANGED granted
  <2> DEFINE b == [tokens |-> level, updatedAt |-> tick, there |-> TRUE]
             B == Rate!Rejections(i) \cup {<<tick, v>>}
             u == IF Cardinality(B) >= AbuseThreshold THEN tick + Lockout ELSE lockedUntil[i]
  <2>1. BucketFits(b, granted[i], tick) BY <1>a, <1>l, <1>s, RefusalFits
  <2>2. b \in [tokens : Nat, updatedAt : Ticks, there : BOOLEAN] BY <1>a, <1>l
  <2>3. B \in SUBSET (Ticks \X Visits) /\ B \subseteq abuse[i] \cup {<<tick, v>>} BY <1>a DEF Rate!Rejections
  <2>4. u \in Nat BY <1>a, <1>n
  <2>5. lockedUntil[i] <= tick BY <1>3, <1>a DEF Rate!Locked
  <2>6. abuse' = [abuse EXCEPT ![i] = B] /\ abuse'[i] = B BY <1>3, <1>f, <1>a
  <2>7. lockedUntil' = [lockedUntil EXCEPT ![i] = u]
    <3>1. Rate!Cardinality(abuse'[i]) = Cardinality(B) BY <2>6 DEF Rate!Cardinality, Cardinality
    <3> HIDE DEF B
    <3>q. QED BY <3>1, <1>3, <1>w
  <2> HIDE DEF B
  <2>8. AbuseFits(B, u, tick) BY <1>a, <2>3, <2>4, <2>5, RejectionFits
  <2>9. LockFits(granted[i], u) BY <1>a, <1>n DEF LockFits
  <2>10. PassedFits' BY <1>3, <1>f, PassedKept
  <2>11. visit' \in [Visits -> [passed : SUBSET Ids, refused : SUBSET Ids,
                                outcome : {"none", "served", "tooMany", "unchecked", "unavailable"}]]
    BY <1>3, <1>f, Decided
  <2>12. bucket' = [bucket EXCEPT ![i] = b] /\ granted' = [granted EXCEPT ![i] = granted[i]] BY <1>3, <1>w
  <2> HIDE DEF b, u
  <2>q. QED BY <1>a, <1>u, <2>1, <2>2, <2>3, <2>4, <2>6, <2>7, <2>8, <2>9, <2>10, <2>11, <2>12, OneIdentity
<1>q. QED BY <1>1, <1>2, <1>3 DEF Rate!Script, level, n

LEMMA TimePasses ==
  ASSUME LimitsInv, Rate!Tick
  PROVE  LimitsInv'
<1>1. tick < LastTick /\ tick' = tick + 1 /\ UNCHANGED <<bucket, lockedUntil, abuse, visit, granted>>
  BY DEF Rate!Tick
<1>2. tick \in Nat /\ tick' \in Ticks /\ LastTick \in Nat BY <1>1, MostIs DEF LimitsInv, LimitTypes, Ticks
<1>3. LimitTypes' BY <1>1, <1>2 DEF LimitsInv, LimitTypes
<1>4. PassedFits' BY <1>1 DEF LimitsInv, PassedFits
<1>5. ASSUME NEW i \in Ids PROVE BucketFits(bucket[i], granted[i], tick') /\ AbuseFits(abuse[i], lockedUntil[i], tick')
  <2>1. BucketFits(bucket[i], granted[i], tick) /\ AbuseFits(abuse[i], lockedUntil[i], tick) BY DEF LimitsInv
  <2>2. bucket[i].updatedAt \in Nat BY MostIs DEF LimitsInv, LimitTypes, Ticks
  <2>3. \A r \in abuse[i] : r[1] \in Nat BY MostIs DEF LimitsInv, LimitTypes, Ticks
  <2>4. bucket[i].updatedAt <= tick' BY <2>1, <2>2, <1>1, <1>2 DEF BucketFits
  <2>5. \A r \in abuse[i] : r[1] <= tick' BY <2>1, <2>3, <1>1, <1>2 DEF AbuseFits
  <2>6. BucketFits(bucket[i], granted[i], tick') BY <2>1, <2>4 DEF BucketFits
  <2>7. AbuseFits(abuse[i], lockedUntil[i], tick') BY <2>1, <2>5 DEF AbuseFits
  <2>q. QED BY <2>6, <2>7
<1>q. QED BY <1>1, <1>3, <1>4, <1>5 DEF LimitsInv

LEMMA AnswerSteps ==
  ASSUME LimitsInv, NEW v \in Visits, Rate!Answer(v) \/ Rate!RedisFails(v)
  PROVE  LimitsInv'
<1> DEFINE Out == {"none", "served", "tooMany", "unchecked", "unavailable"}
           Type == [passed : SUBSET Ids, refused : SUBSET Ids, outcome : Out]
<1>1. PICK x \in Out :
        /\ visit' = [visit EXCEPT ![v].outcome = x] /\ UNCHANGED <<tick, bucket, lockedUntil, abuse, granted>>
        /\ x = "served" => visit[v].passed \cup visit[v].refused = Keys[v] /\ visit[v].refused = {}
  <2>1. CASE Rate!Answer(v) BY <2>1 DEF Rate!Answer, Rate!Admitted
  <2>2. CASE Rate!RedisFails(v) BY <2>2 DEF Rate!RedisFails
  <2>q. QED BY <2>1, <2>2
<1>2. visit \in [Visits -> Type] /\ visit[v] \in Type BY DEF LimitsInv, LimitTypes
<1>3. [visit[v] EXCEPT !.outcome = x] \in Type /\ [visit[v] EXCEPT !.outcome = x].passed = visit[v].passed
      /\ [visit[v] EXCEPT !.outcome = x].outcome = x
  BY <1>2
<1>4. visit' = [visit EXCEPT ![v] = [visit[v] EXCEPT !.outcome = x]] BY <1>1
<1> HIDE DEF Type
<1>5. /\ visit' \in [Visits -> Type] /\ visit'[v].passed = visit[v].passed /\ visit'[v].outcome = x
      /\ \A w \in Visits \ {v} : visit'[w] = visit[w]
  BY <1>2, <1>3, <1>4
<1>6. LimitTypes' BY <1>1, <1>5 DEF LimitsInv, LimitTypes, Type
<1>7. PassedFits'
  <2> SUFFICES ASSUME NEW w \in Visits
               PROVE  /\ \A i \in visit'[w].passed : \E t \in Ticks : <<t, w>> \in granted[i]
                      /\ visit'[w].outcome = "served" => Keys[w] \subseteq visit'[w].passed
    BY <1>1 DEF PassedFits
  <2>1. /\ \A i \in visit[w].passed : \E t \in Ticks : <<t, w>> \in granted[i]
        /\ visit[w].outcome = "served" => Keys[w] \subseteq visit[w].passed
    BY DEF LimitsInv, PassedFits
  <2>2. CASE w = v BY <2>1, <2>2, <1>1, <1>5
  <2>3. CASE w # v BY <2>1, <2>3, <1>5
  <2>q. QED BY <2>2, <2>3
<1>q. QED BY <1>1, <1>6, <1>7 DEF LimitsInv

LEMMA LimitsStart == Rate!Init => LimitsInv
<1> SUFFICES ASSUME Rate!Init PROVE LimitsInv OBVIOUS
<1>0. 0 \in Ticks /\ Most * Refill \in Nat BY MostIs DEF Ticks
<1>1. LimitTypes
  <2>1. bucket \in [Ids -> [tokens : Nat, updatedAt : Ticks, there : BOOLEAN]] BY <1>0 DEF Rate!Init, Ids
  <2>2. visit \in [Visits -> [passed : SUBSET Ids, refused : SUBSET Ids,
                              outcome : {"none", "served", "tooMany", "unchecked", "unavailable"}]]
    BY DEF Rate!Init
  <2>3. /\ tick \in Ticks /\ lockedUntil \in [Ids -> Nat]
        /\ abuse \in [Ids -> SUBSET (Ticks \X Visits)] /\ granted \in [Ids -> SUBSET (Ticks \X Visits)]
    BY <1>0 DEF Rate!Init, Ids
  <2>q. QED BY <2>1, <2>2, <2>3 DEF LimitTypes
<1>2. PassedFits BY DEF Rate!Init, PassedFits
<1>3. ASSUME NEW i \in Ids PROVE BucketFits(bucket[i], granted[i], tick)
  <2>1. bucket[i].tokens = 0 /\ bucket[i].updatedAt = 0 /\ bucket[i].there = FALSE /\ granted[i] = {} /\ tick = 0
    BY DEF Rate!Init, Ids
  <2>q. QED BY <2>1, <1>0, FS_EmptySet DEF BucketFits
<1>4. ASSUME NEW i \in Ids PROVE GrantsFit(granted[i]) /\ LockFits(granted[i], lockedUntil[i])
  <2>1. granted[i] = {} BY DEF Rate!Init, Ids
  <2>2. LockFits(granted[i], lockedUntil[i]) BY <2>1 DEF LockFits
  <2>3. GrantsFit({})
    <3> SUFFICES ASSUME NEW from \in Ticks, NEW to \in Ticks, from <= to
                 PROVE  Refill * Cardinality(Within({}, from, to)) <= Most * (Refill + to - from)
      BY DEF GrantsFit
    <3>1. Within({}, from, to) = {} BY DEF Within
    <3>2. Cardinality({}) = 0 BY FS_EmptySet
    <3>3. Refill + to - from \in Nat /\ Refill * 0 = 0 /\ Most * (Refill + to - from) \in Nat BY MostIs DEF Ticks
    <3>4. Cardinality(Within({}, from, to)) = 0 BY <3>1, <3>2
    <3> DEFINE C == Cardinality(Within({}, from, to))
               m == Most * (Refill + to - from)
    <3>5. C = 0 /\ m \in Nat BY <3>3, <3>4
    <3> HIDE DEF C, m
    <3>6. Refill * C = 0 BY <3>3, <3>5
    <3>7. Refill * C <= m BY <3>5, <3>6
    <3>q. QED BY <3>7 DEF C, m
  <2>q. QED BY <2>1, <2>2, <2>3
<1>5. ASSUME NEW i \in Ids PROVE AbuseFits(abuse[i], lockedUntil[i], tick)
  <2>1. abuse[i] = {} BY DEF Rate!Init, Ids
  <2>q. QED BY <2>1, FS_EmptySet DEF AbuseFits
<1>q. QED BY <1>1, <1>2, <1>3, <1>4, <1>5 DEF LimitsInv

LEMMA LimitsCounted == \A S : Rate!Cardinality(S) = Cardinality(S)
BY DEF Rate!Cardinality, Cardinality

LEMMA LimitsKept == Rate!Spec => [](Rate!TypeOK /\ Rate!WithinLimits)
<1>1. LimitsInv /\ [Rate!Next]_(Rate!vars) => LimitsInv'
  <2> SUFFICES ASSUME LimitsInv, [Rate!Next]_(Rate!vars) PROVE LimitsInv' OBVIOUS
  <2>1. CASE Rate!Tick BY <2>1, TimePasses
  <2>2. ASSUME NEW v \in Visits, Rate!Answer(v) \/ Rate!RedisFails(v) PROVE LimitsInv' BY <2>2, AnswerSteps
  <2>3. ASSUME NEW v \in Visits, NEW i \in Keys[v], Rate!Script(v, i) PROVE LimitsInv' BY <2>3, ScriptSteps
  <2>4. CASE UNCHANGED Rate!vars
    <3>1. LimitTypes' BY <2>4 DEF LimitsInv, LimitTypes, Rate!vars
    <3>2. PassedFits' BY <2>4 DEF LimitsInv, PassedFits, Rate!vars
    <3>3. UNCHANGED <<bucket, granted, abuse, lockedUntil, tick>> BY <2>4 DEF Rate!vars
    <3>q. QED BY <3>1, <3>2, <3>3 DEF LimitsInv
  <2>q. QED BY <2>1, <2>2, <2>3, <2>4 DEF Rate!Next
<1>2. LimitsInv => Rate!TypeOK
  <2> SUFFICES ASSUME LimitsInv PROVE Rate!TypeOK OBVIOUS
  <2>1. tick \in 0 .. LastTick /\ DOMAIN visit = Visits BY DEF LimitsInv, LimitTypes, Ticks
  <2>2. ASSUME NEW i \in Ids
        PROVE  /\ bucket[i].tokens \in 0 .. Rate!MostPoints * Refill
               /\ abuse[i] \cup granted[i] \subseteq (0 .. LastTick) \X Visits
    <3>1. bucket[i].tokens \in Nat /\ bucket[i].tokens <= Most * Refill /\ Most * Refill \in Nat
      BY MostIs DEF LimitsInv, LimitTypes, BucketFits
    <3>2. bucket[i].tokens \in 0 .. Most * Refill BY <3>1
    <3>3. abuse[i] \cup granted[i] \subseteq Ticks \X Visits BY DEF LimitsInv, LimitTypes
    <3>q. QED BY <3>2, <3>3 DEF Most, Ticks
  <2>3. \A v \in Visits : visit[v].outcome \in {"none", "served", "tooMany", "unchecked", "unavailable"}
    BY DEF LimitsInv, LimitTypes
  <2>q. QED BY <2>1, <2>2, <2>3 DEF Rate!TypeOK, Ids
<1>3. LimitsInv => Rate!WithinLimits
  <2> SUFFICES ASSUME LimitsInv PROVE Rate!WithinLimits OBVIOUS
  <2>1. ASSUME NEW i \in Ids, NEW from \in 0 .. LastTick, NEW to \in 0 .. LastTick, from <= to
        PROVE  Refill * Rate!Cardinality({g \in granted[i] : g[1] \in from .. to}) <= Rate!MostPoints * (Refill + to - from)
    <3>1. GrantsFit(granted[i]) BY DEF LimitsInv
    <3>2. Refill * Cardinality(Within(granted[i], from, to)) <= Most * (Refill + to - from)
      BY <2>1, <3>1 DEF GrantsFit, Ticks
    <3>q. QED BY <3>2, LimitsCounted DEF Within, Most
  <2>2. \A i \in Ids : \A g \in granted[i] : g[1] >= lockedUntil[i] \/ g[1] + Lockout <= lockedUntil[i]
    BY DEF LimitsInv, LockFits
  <2>3. ASSUME NEW i \in Ids, NEW r \in abuse[i],
               Rate!Cardinality({x \in abuse[i] : x[1] \in r[1] - AbuseWindow + 1 .. r[1]}) >= AbuseThreshold
        PROVE  r[1] + Lockout <= lockedUntil[i]
    <3>1. AbuseFits(abuse[i], lockedUntil[i], tick) BY DEF LimitsInv
    <3>2. Cardinality(Within(abuse[i], r[1] - AbuseWindow + 1, r[1])) >= AbuseThreshold
      BY <2>3, LimitsCounted DEF Within
    <3>q. QED BY <3>1, <3>2 DEF AbuseFits
  <2>4. ASSUME NEW v \in Visits, visit[v].outcome = "served", NEW i \in Keys[v]
        PROVE  \E t \in 0 .. LastTick : <<t, v>> \in granted[i]
    BY <2>4 DEF LimitsInv, PassedFits, Ticks
  <2>q. QED BY <2>1, <2>2, <2>3, <2>4 DEF Rate!WithinLimits, Ids
<1>q. QED BY <1>1, <1>2, <1>3, LimitsStart, PTL DEF Rate!Spec

----------------------------------------------------------------------------
(* Of the requests and the rate limits of Edge: the handler of a request runs once       *)
(* under its key, a clean drain cuts none, and no identity is granted more than its      *)
(* bucket gives (IdempotencyKeyInterceptor, drain.middleware, RateLimitGuard).           *)
THEOREM RequestsStayHandled == EdgeSpec => []RequestsHandledOnce
<1>1. (Req!TypeOK /\ Req!HandledOnce /\ Req!CleanExitCutsNothing) /\ (Rate!TypeOK /\ Rate!WithinLimits) => RequestsHandledOnce
  BY DEF RequestsHandledOnce
<1>q. QED BY <1>1, RequestsAlone, LimitsAlone, RequestsHandled, LimitsKept, PTL

----------------------------------------------------------------------------
(* The gateway. *)
HIDE LimitsAssumption
USE GatewayAssumption

LEMMA GatewayAlone == EdgeSpec => Gate!Spec
<1>1. EdgeInit => Gate!Init BY DEF EdgeInit
<1>2. [EdgeNext]_edgeVars => [Gate!Next]_(Gate!vars)
  BY DEF EdgeNext, Others, edgeVars, gatewayVars, Gate!vars, Gate!socketVars, Gate!dedupVars
<1>q. QED BY <1>1, <1>2, PTL DEF EdgeSpec, Gate!Spec, edgeVars

GatewayTypes ==
  /\ published \in Nat /\ 1 .. published \subseteq Updates /\ published \in {0} \cup Updates
  /\ publications \in 0 .. MaxPublished /\ lapses \in 0 .. MaxLapses
  /\ inbox \in [Gate!Hosts -> Seq(Updates)] /\ deciding \in [Gate!Hosts -> {"no", "won", "lost"}]
  /\ claims \subseteq Updates /\ local \in [Gate!Hosts -> SUBSET Updates]
  /\ connected \subseteq Sockets /\ rooms \in [Sockets -> SUBSET Gate!Gigs] /\ told \subseteq Sockets
  /\ draining \in [Gate!Hosts -> {"no", "told", "done"}]
  /\ heard \in [Sockets -> Seq(Updates)] /\ emitted \in [Updates -> Nat] /\ loose \subseteq Updates

\* The events somebody has decided on, or will not decide on alone.
Taken == claims \cup loose

\* Every instance has an event in its queue, ahead of all later ones, until it is taken.
Queued(h, u) == \E i \in DOMAIN inbox[h] : inbox[h][i] = u
QueuesInOrder ==
  \A h \in Gate!Hosts :
    /\ \A u \in 1 .. published : u \in Taken \/ Queued(h, u)
    /\ \A i \in DOMAIN inbox[h] : \A u \in 1 .. inbox[h][i] - 1 :
         u \in Taken \/ \E j \in 1 .. i - 1 : inbox[h][j] = u
    /\ \A i \in DOMAIN inbox[h] : inbox[h][i] <= published

\* Who awaits the answer of a claim, of what.
Winning(h, u) == deciding[h] = "won" /\ Head(inbox[h]) = u
ClaimsAre ==
  \A h \in Gate!Hosts :
    /\ local[h] \subseteq Taken
    /\ deciding[h] # "no" => inbox[h] # <<>> /\ Head(inbox[h]) \in Taken
    /\ \A u \in Updates \ loose : Winning(h, u) =>
         emitted[u] = 0 /\ \A k \in Gate!Hosts : Winning(k, u) => k = h
EmittedAre ==
  \A u \in Updates : /\ u \notin loose => emitted[u] <= 1
                     /\ emitted[u] > 0 => u \in Taken
                     /\ u \in Taken => \/ emitted[u] > 0 \/ \E h \in Gate!Hosts : Winning(h, u)
                                       \/ \E h \in Gate!Hosts : draining[h] # "no"

\* What a socket was sent, and what its instance is about to send it.
HeardInOrder ==
  \A s \in Sockets : \A i \in DOMAIN heard[s] :
    /\ \A u \in 1 .. heard[s][i] - 1 : u \in Taken /\ (Winning(Replica[s], u) => u \in loose)
    /\ \A j \in DOMAIN heard[s] : i < j /\ heard[s][i] > heard[s][j] => heard[s][j] \in loose

GatewayInv ==
  GatewayTypes /\ QueuesInOrder /\ ClaimsAre /\ EmittedAre /\ HeardInOrder /\ Gate!DrainReachesAll

LEMMA UpdatesAre == Updates \subseteq Nat \ {0} /\ \A u \in Updates : 1 .. u \subseteq Updates
<1>1. Cardinality(Updates) \in Nat BY FS_CardinalityType
<1>q. QED BY <1>1

LEMMA HostsAre == Gate!Hosts # {} /\ \A s \in Sockets : Replica[s] \in Gate!Hosts
BY DEF Gate!Hosts

LEMMA GatewayStarts == Gate!Init => GatewayInv
<1> SUFFICES ASSUME Gate!Init PROVE GatewayInv OBVIOUS
<1>1. GatewayTypes
  BY UpdatesAre DEF Gate!Init, GatewayTypes
<1>2. QueuesInOrder
  BY DEF Gate!Init, QueuesInOrder
<1>3. ClaimsAre BY DEF Gate!Init, ClaimsAre, Winning
<1>4. EmittedAre BY DEF Gate!Init, EmittedAre, Taken
<1>5. HeardInOrder BY DEF Gate!Init, HeardInOrder
<1>6. Gate!DrainReachesAll BY DEF Gate!Init, Gate!DrainReachesAll
<1>q. QED BY <1>1, <1>2, <1>3, <1>4, <1>5, <1>6 DEF GatewayInv

----------------------------------------------------------------------------
LEMMA Fronts ==
  ASSUME NEW S, NEW s \in Seq(S), s # <<>>
  PROVE  /\ DOMAIN s = 1 .. Len(s) /\ Len(s) \in Nat \ {0} /\ Head(s) = s[1] /\ Head(s) \in S
         /\ Tail(s) \in Seq(S) /\ DOMAIN Tail(s) = 1 .. Len(s) - 1
         /\ \A i \in 1 .. Len(s) - 1 : Tail(s)[i] = s[i + 1]
         /\ SubSeq(s, 1, 1 - 1) \o SubSeq(s, 1 + 1, Len(s)) = Tail(s)
         /\ <<s[1]>> \o Tail(s) = s
<1>1. Len(s) \in Nat \ {0} /\ DOMAIN s = 1 .. Len(s) BY EmptySeq, LenProperties
<1>2. Head(s) = s[1] OBVIOUS
<1>3. /\ Head(s) \in S /\ Tail(s) \in Seq(S) /\ Len(Tail(s)) = Len(s) - 1
      /\ \A i \in 1 .. Len(Tail(s)) : Tail(s)[i] = s[i + 1]
  BY HeadTailProperties
<1>4. DOMAIN Tail(s) = 1 .. Len(s) - 1 BY <1>3, LenProperties
<1>5. Tail(s) = SubSeq(s, 2, Len(s)) BY TailIsSubSeq
<1>6. SubSeq(s, 1, 0) = <<>> BY SubSeqEmpty
<1>7. <<>> \o Tail(s) = Tail(s) BY <1>3, ConcatEmptySeq
<1>8. <<s[1]>> \o Tail(s) = s
  <2>1. <<s[1]>> \in Seq(S) /\ Len(<<s[1]>>) = 1 BY <1>2, <1>3
  <2> DEFINE t == <<s[1]>> \o Tail(s)
  <2>2. t \in Seq(S) /\ Len(t) = Len(s) /\ \A i \in 1 .. Len(s) : t[i] = IF i <= 1 THEN <<s[1]>>[i] ELSE Tail(s)[i - 1]
    BY <2>1, <1>1, <1>3, ConcatProperties
  <2>3. \A i \in 1 .. Len(s) : t[i] = s[i] BY <2>2, <1>1, <1>3
  <2> HIDE DEF t
  <2>4. t = s BY <2>2, <2>3, SeqEqual
  <2>q. QED BY <2>4 DEF t
<1>q. QED BY <1>1, <1>2, <1>3, <1>4, <1>5, <1>6, <1>7, <1>8

LEMMA Backs ==
  ASSUME NEW S, NEW s \in Seq(S), NEW x \in S
  PROVE  /\ Append(s, x) \in Seq(S) /\ DOMAIN s = 1 .. Len(s) /\ Len(s) \in Nat
         /\ DOMAIN Append(s, x) = 1 .. Len(s) + 1 /\ Append(s, x) # <<>>
         /\ Append(s, x)[Len(s) + 1] = x /\ \A i \in 1 .. Len(s) : Append(s, x)[i] = s[i]
         /\ s # <<>> => Head(Append(s, x)) = Head(s)
<1>1. Append(s, x) \in Seq(S) /\ Len(Append(s, x)) = Len(s) + 1 /\ Len(s) \in Nat /\ DOMAIN s = 1 .. Len(s)
  BY AppendProperties, LenProperties
<1>2. /\ Append(s, x)[Len(s) + 1] = x /\ \A i \in 1 .. Len(s) : Append(s, x)[i] = s[i]
  BY AppendProperties
<1>3. DOMAIN Append(s, x) = 1 .. Len(s) + 1 BY <1>1, LenProperties
<1>4. Append(s, x) # <<>> BY <1>1, EmptySeq
<1>5. s # <<>> => Head(Append(s, x)) = Head(s) BY HeadTailAppend
<1>q. QED BY <1>1, <1>2, <1>3, <1>4, <1>5

Pops(h) == inbox[h] # <<>> /\ inbox' = [inbox EXCEPT ![h] = Tail(@)]
LEMMA PopsKeepOrder ==
  ASSUME GatewayTypes, QueuesInOrder, NEW h \in Gate!Hosts, Pops(h), Head(inbox[h]) \in Taken,
         Taken \subseteq Taken', published' = published
  PROVE  QueuesInOrder' /\ inbox' \in [Gate!Hosts -> Seq(Updates)]
<1>1. /\ inbox' \in [Gate!Hosts -> Seq(Updates)] /\ inbox'[h] = Tail(inbox[h])
      /\ \A k \in Gate!Hosts \ {h} : inbox'[k] = inbox[k]
  BY Fronts DEF Pops, GatewayTypes
<1>2. ASSUME NEW k \in Gate!Hosts \ {h}
      PROVE  /\ \A u \in 1 .. published : u \in Taken \/ Queued(k, u)'
             /\ \A i \in DOMAIN inbox'[k] : \A u \in 1 .. inbox'[k][i] - 1 :
                  u \in Taken \/ \E j \in 1 .. i - 1 : inbox'[k][j] = u
             /\ \A i \in DOMAIN inbox'[k] : inbox'[k][i] <= published
  <2>1. inbox'[k] = inbox[k] BY <1>1
  <2>2. /\ \A u \in 1 .. published : u \in Taken \/ Queued(k, u)
        /\ \A i \in DOMAIN inbox[k] : \A u \in 1 .. inbox[k][i] - 1 :
             u \in Taken \/ \E j \in 1 .. i - 1 : inbox[k][j] = u
        /\ \A i \in DOMAIN inbox[k] : inbox[k][i] <= published
    BY DEF QueuesInOrder
  <2>3. \A u : Queued(k, u)' <=> Queued(k, u) BY <2>1 DEF Queued
  <2>q. QED BY <2>1, <2>2, <2>3
<1>3. inbox[h] \in Seq(Updates) /\ inbox[h] # <<>> BY DEF Pops, GatewayTypes
<1> DEFINE s == inbox[h]
<1>4. /\ DOMAIN s = 1 .. Len(s) /\ Len(s) \in Nat \ {0} /\ s[1] \in Taken
      /\ DOMAIN Tail(s) = 1 .. Len(s) - 1 /\ \A i \in 1 .. Len(s) - 1 : Tail(s)[i] = s[i + 1]
  BY <1>3, Fronts
<1>5. /\ \A u \in 1 .. published : u \in Taken \/ \E i \in DOMAIN s : s[i] = u
      /\ \A i \in DOMAIN s : \A u \in 1 .. s[i] - 1 : u \in Taken \/ \E j \in 1 .. i - 1 : s[j] = u
      /\ \A i \in DOMAIN s : s[i] <= published
  BY DEF QueuesInOrder, Queued
<1> HIDE DEF s
<1>6. ASSUME NEW u \in 1 .. published, u \notin Taken PROVE \E i \in 1 .. Len(s) - 1 : Tail(s)[i] = u
  <2>1. PICK i \in 1 .. Len(s) : s[i] = u BY <1>4, <1>5, <1>6
  <2>2. i # 1 BY <1>4, <1>6, <2>1
  <2>3. i - 1 \in 1 .. Len(s) - 1 /\ Tail(s)[i - 1] = u BY <1>4, <2>1, <2>2
  <2>q. QED BY <2>3
<1>7. ASSUME NEW i \in 1 .. Len(s) - 1, NEW u \in 1 .. Tail(s)[i] - 1, u \notin Taken
      PROVE  \E j \in 1 .. i - 1 : Tail(s)[j] = u
  <2>1. u \in 1 .. s[i + 1] - 1 /\ i + 1 \in DOMAIN s BY <1>4
  <2>2. PICK j \in 1 .. (i + 1) - 1 : s[j] = u BY <1>5, <1>7, <2>1
  <2>3. j # 1 BY <1>4, <1>7, <2>2
  <2>4. j - 1 \in 1 .. i - 1 /\ j - 1 \in 1 .. Len(s) - 1 BY <1>4, <2>2, <2>3
  <2>5. Tail(s)[j - 1] = s[(j - 1) + 1] BY <1>4, <2>4
  <2>6. (j - 1) + 1 = j BY <2>2
  <2>q. QED BY <2>2, <2>4, <2>5, <2>6
<1>8. \A i \in 1 .. Len(s) - 1 : Tail(s)[i] <= published
  <2> TAKE i \in 1 .. Len(s) - 1
  <2>1. i + 1 \in DOMAIN s BY <1>4
  <2>q. QED BY <1>4, <1>5, <2>1
<1>9. inbox'[h] = Tail(s) BY <1>1 DEF s
<1>10. /\ \A u \in 1 .. published : u \in Taken \/ Queued(h, u)'
       /\ \A i \in DOMAIN inbox'[h] : \A u \in 1 .. inbox'[h][i] - 1 :
            u \in Taken \/ \E j \in 1 .. i - 1 : inbox'[h][j] = u
       /\ \A i \in DOMAIN inbox'[h] : inbox'[h][i] <= published
  <2>1. DOMAIN inbox'[h] = 1 .. Len(s) - 1 BY <1>4, <1>9
  <2>2. \A u \in 1 .. published : u \in Taken \/ Queued(h, u)' BY <1>6, <1>9, <2>1 DEF Queued
  <2>3. \A i \in DOMAIN inbox'[h] : \A u \in 1 .. inbox'[h][i] - 1 :
            u \in Taken \/ \E j \in 1 .. i - 1 : inbox'[h][j] = u
    BY <1>7, <1>9, <2>1
  <2>4. \A i \in DOMAIN inbox'[h] : inbox'[h][i] <= published BY <1>8, <1>9, <2>1
  <2>q. QED BY <2>2, <2>3, <2>4
<1>11. ASSUME NEW k \in Gate!Hosts
       PROVE  /\ \A u \in 1 .. published : u \in Taken' \/ Queued(k, u)'
              /\ \A i \in DOMAIN inbox'[k] : \A u \in 1 .. inbox'[k][i] - 1 :
                   u \in Taken' \/ \E j \in 1 .. i - 1 : inbox'[k][j] = u
              /\ \A i \in DOMAIN inbox'[k] : inbox'[k][i] <= published
  <2>1. CASE k = h BY <1>10, <2>1
  <2>2. CASE k # h BY <1>2, <2>2
  <2>q. QED BY <2>1, <2>2
<1>q. QED BY <1>1, <1>11 DEF QueuesInOrder

LEMMA PublishesInOrder ==
  ASSUME GatewayInv, NEW u \in Updates, Gate!Publish(u)
  PROVE  GatewayInv'
<1>1. /\ UNCHANGED <<deciding, lapses, heard, connected, rooms, told, draining, claims, local, emitted, loose>>
      /\ publications' \in 0 .. MaxPublished
      /\ published' = IF u > published THEN u ELSE published
      /\ u <= published + 1 /\ inbox' = [h \in Gate!Hosts |-> Append(inbox[h], u)]
  BY DEF Gate!Publish, GatewayInv, GatewayTypes, Gate!socketVars, Gate!dedupVars
<1>2. Taken' = Taken BY <1>1 DEF Taken
<1>3. published \in Nat /\ published' \in {0} \cup Updates /\ u \in Nat \ {0}
  BY <1>1, UpdatesAre DEF GatewayInv, GatewayTypes
<1>4. published' \in Nat /\ 1 .. published' \subseteq Updates BY <1>3, UpdatesAre
<1>5. published <= published' /\ u <= published' /\ published' \in {published, published + 1}
      /\ (published' = published \/ published' = u)
  BY <1>1, <1>3
<1>6. ASSUME NEW h \in Gate!Hosts
      PROVE  /\ inbox'[h] \in Seq(Updates) /\ DOMAIN inbox[h] = 1 .. Len(inbox[h]) /\ Len(inbox[h]) \in Nat
             /\ DOMAIN inbox'[h] = 1 .. Len(inbox[h]) + 1 /\ inbox'[h] # <<>>
             /\ inbox'[h][Len(inbox[h]) + 1] = u /\ \A i \in 1 .. Len(inbox[h]) : inbox'[h][i] = inbox[h][i]
             /\ inbox[h] # <<>> => Head(inbox'[h]) = Head(inbox[h])
  <2>1. inbox[h] \in Seq(Updates) /\ inbox'[h] = Append(inbox[h], u) BY <1>1 DEF GatewayInv, GatewayTypes
  <2>q. QED BY <2>1, Backs
<1>7. GatewayTypes' BY <1>1, <1>3, <1>4, <1>6 DEF GatewayInv, GatewayTypes
<1>8. QueuesInOrder'
  <2> SUFFICES ASSUME NEW h \in Gate!Hosts
               PROVE  /\ \A v \in 1 .. published' : v \in Taken \/ Queued(h, v)'
                      /\ \A i \in DOMAIN inbox'[h] : \A v \in 1 .. inbox'[h][i] - 1 :
                           v \in Taken \/ \E j \in 1 .. i - 1 : inbox'[h][j] = v
                      /\ \A i \in DOMAIN inbox'[h] : inbox'[h][i] <= published'
    BY <1>2 DEF QueuesInOrder
  <2> DEFINE s == inbox[h]  t == inbox'[h]
  <2>1. /\ DOMAIN s = 1 .. Len(s) /\ Len(s) \in Nat /\ DOMAIN t = 1 .. Len(s) + 1
        /\ t[Len(s) + 1] = u /\ \A i \in 1 .. Len(s) : t[i] = s[i]
    BY <1>6
  <2>2. /\ \A v \in 1 .. published : v \in Taken \/ \E i \in 1 .. Len(s) : s[i] = v
        /\ \A i \in 1 .. Len(s) : \A v \in 1 .. s[i] - 1 : v \in Taken \/ \E j \in 1 .. i - 1 : s[j] = v
        /\ \A i \in 1 .. Len(s) : s[i] <= published
    BY <2>1 DEF GatewayInv, QueuesInOrder, Queued
  <2>3. \A i \in 1 .. Len(s) : s[i] \in Nat
    BY <2>1, UpdatesAre, ElementOfSeq DEF GatewayInv, GatewayTypes
  <2> HIDE DEF s, t
  <2>4. ASSUME NEW v \in 1 .. published', v \notin Taken PROVE \E i \in DOMAIN t : t[i] = v
    <3>1. CASE v <= published
      <4>1. PICK i \in 1 .. Len(s) : s[i] = v BY <1>3, <2>2, <2>4, <3>1
      <4>q. QED BY <2>1, <4>1
    <3>2. CASE ~(v <= published)
      <4>1. v = u BY <1>3, <1>5, <3>2
      <4>q. QED BY <2>1, <4>1
    <3>q. QED BY <3>1, <3>2
  <2>5. ASSUME NEW i \in DOMAIN t, NEW v \in 1 .. t[i] - 1, v \notin Taken PROVE \E j \in 1 .. i - 1 : t[j] = v
    <3>1. CASE i \in 1 .. Len(s)
      <4>1. PICK j \in 1 .. i - 1 : s[j] = v BY <2>1, <2>2, <2>5, <3>1
      <4>2. j \in 1 .. Len(s) BY <2>1, <3>1, <4>1
      <4>q. QED BY <2>1, <4>1, <4>2
    <3>2. CASE i = Len(s) + 1
      <4>1. v \in 1 .. published BY <1>1, <1>3, <2>1, <3>2
      <4>2. PICK j \in 1 .. Len(s) : s[j] = v BY <2>2, <2>5, <4>1
      <4>q. QED BY <2>1, <3>2, <4>2
    <3>q. QED BY <2>1, <3>1, <3>2
  <2>6. \A i \in DOMAIN t : t[i] <= published' BY <1>3, <1>5, <2>1, <2>2, <2>3
  <2>q. QED BY <2>4, <2>5, <2>6 DEF Queued, t
<1>9. \A h \in Gate!Hosts : \A v : Winning(h, v)' <=> Winning(h, v)
  <2> SUFFICES ASSUME NEW h \in Gate!Hosts, deciding[h] = "won" PROVE Head(inbox'[h]) = Head(inbox[h])
    BY <1>1 DEF Winning
  <2>1. inbox[h] # <<>> BY DEF GatewayInv, ClaimsAre
  <2>q. QED BY <1>6, <2>1
<1>10. ClaimsAre'
  <2>1. \A h \in Gate!Hosts : deciding[h] # "no" => inbox'[h] # <<>> /\ Head(inbox'[h]) = Head(inbox[h])
    BY <1>6 DEF GatewayInv, ClaimsAre
  <2>q. QED BY <1>1, <1>2, <1>9, <2>1 DEF GatewayInv, ClaimsAre
<1>11. EmittedAre' BY <1>1, <1>2, <1>9 DEF GatewayInv, EmittedAre
<1>12. HeardInOrder' BY <1>1, <1>2, <1>9, HostsAre DEF GatewayInv, HeardInOrder
<1>13. Gate!DrainReachesAll' BY <1>1 DEF GatewayInv, Gate!DrainReachesAll
<1>q. QED BY <1>7, <1>8, <1>10, <1>11, <1>12, <1>13 DEF GatewayInv

LEMMA ClaimsInOrder ==
  ASSUME GatewayInv, NEW h \in Gate!Hosts, Gate!Claim(h)
  PROVE  GatewayInv'
<1>1. /\ UNCHANGED <<published, publications, heard, local, emitted, connected, rooms, told, draining>>
      /\ deciding[h] = "no"
  BY DEF Gate!Claim, Gate!socketVars
<1>2. PICK i \in DOMAIN inbox[h] : i = 1 /\
        LET u == inbox[h][i]
            rest == SubSeq(inbox[h], 1, i - 1) \o SubSeq(inbox[h], i + 1, Len(inbox[h])) IN
        IF u \in local[h]
        THEN inbox' = [inbox EXCEPT ![h] = rest] /\ UNCHANGED <<deciding, claims, loose, lapses>>
        ELSE /\ inbox' = [inbox EXCEPT ![h] = <<u>> \o rest]
             /\ \E won \in BOOLEAN :
                  \/ /\ claims' = claims \cup {u} /\ won = (u \notin claims)
                     /\ deciding' = [deciding EXCEPT ![h] = IF won THEN "won" ELSE "lost"]
                     /\ UNCHANGED <<loose, lapses>>
                  \/ /\ Gate!Lapse /\ deciding' = [deciding EXCEPT ![h] = "won"]
                     /\ loose' = loose \cup {u} /\ claims' \in {claims, claims \cup {u}}
  BY DEF Gate!Claim, Gate!Take, Gate!SetNX
<1>3. inbox \in [Gate!Hosts -> Seq(Updates)] /\ inbox[h] \in Seq(Updates) /\ inbox[h] # <<>>
  BY <1>2, EmptySeq, LenProperties DEF GatewayInv, GatewayTypes
<1>4. PICK u \in Updates :
        /\ u = inbox[h][1] /\ Head(inbox[h]) = u
        /\ SubSeq(inbox[h], 1, 1 - 1) \o SubSeq(inbox[h], 1 + 1, Len(inbox[h])) = Tail(inbox[h])
        /\ <<u>> \o Tail(inbox[h]) = inbox[h]
  BY <1>3, Fronts
<1>5. CASE u \in local[h]
  <2>1. Pops(h) /\ UNCHANGED <<deciding, claims, loose, lapses>>
    BY <1>2, <1>3, <1>4, <1>5 DEF Pops
  <2>2. Taken' = Taken /\ Head(inbox[h]) \in Taken
    BY <1>4, <1>5, <2>1 DEF Taken, GatewayInv, ClaimsAre
  <2>3. QueuesInOrder' /\ inbox' \in [Gate!Hosts -> Seq(Updates)]
    BY <1>1, <2>1, <2>2, PopsKeepOrder DEF GatewayInv
  <2>4. \A k \in Gate!Hosts : k # h => inbox'[k] = inbox[k] BY <1>3, <2>1 DEF Pops
  <2>5. \A k \in Gate!Hosts : \A v : Winning(k, v)' <=> Winning(k, v)
    BY <1>1, <2>1, <2>4 DEF Winning
  <2>6. GatewayTypes' BY <1>1, <2>1, <2>3 DEF GatewayInv, GatewayTypes
  <2>7. ClaimsAre' BY <1>1, <2>1, <2>2, <2>4, <2>5 DEF GatewayInv, ClaimsAre
  <2>8. EmittedAre' BY <1>1, <2>1, <2>2, <2>5 DEF GatewayInv, EmittedAre
  <2>9. HeardInOrder' BY <1>1, <2>1, <2>2, <2>5, HostsAre DEF GatewayInv, HeardInOrder
  <2>10. Gate!DrainReachesAll' BY <1>1 DEF GatewayInv, Gate!DrainReachesAll
  <2>q. QED BY <2>3, <2>6, <2>7, <2>8, <2>9, <2>10 DEF GatewayInv
<1>6. CASE u \notin local[h]
  <2>1. inbox' = inbox BY <1>2, <1>3, <1>4, <1>6, ZenonT(60)
  <2>2. /\ claims' \subseteq Updates /\ loose' \subseteq Updates /\ lapses' \in 0 .. MaxLapses
        /\ deciding' \in [Gate!Hosts -> {"no", "won", "lost"}] /\ deciding'[h] # "no"
        /\ \A k \in Gate!Hosts : k # h => deciding'[k] = deciding[k]
        /\ Taken' = Taken \cup {u} /\ loose \subseteq loose' /\ loose' \subseteq loose \cup {u}
        /\ deciding'[h] = "won" => u \notin Taken \/ u \in loose'
        /\ u \notin Taken => deciding'[h] = "won"
    <3>1. CASE \E won \in BOOLEAN :
                 /\ claims' = claims \cup {u} /\ won = (u \notin claims)
                 /\ deciding' = [deciding EXCEPT ![h] = IF won THEN "won" ELSE "lost"]
                 /\ UNCHANGED <<loose, lapses>>
      BY <1>4, <3>1, ZenonT(60) DEF GatewayInv, GatewayTypes, Taken
    <3>2. CASE /\ Gate!Lapse /\ deciding' = [deciding EXCEPT ![h] = "won"]
               /\ loose' = loose \cup {u} /\ claims' \in {claims, claims \cup {u}}
      BY <1>4, <3>2, SMTT(30) DEF GatewayInv, GatewayTypes, Taken, Gate!Lapse
    <3>q. QED BY <1>2, <1>4, <1>6, <3>1, <3>2
  <2>3. \A k \in Gate!Hosts : k # h => \A v : Winning(k, v)' <=> Winning(k, v)
    BY <2>1, <2>2 DEF Winning
  <2>4. \A v : Winning(h, v)' => v = u /\ deciding'[h] = "won" BY <1>4, <2>1 DEF Winning
  <2>5. deciding'[h] = "won" => Winning(h, u)' BY <1>4, <2>1 DEF Winning
  <2>6. GatewayTypes' BY <1>1, <2>1, <2>2 DEF GatewayInv, GatewayTypes
  <2>7. QueuesInOrder'
    <3>1. \A k \in Gate!Hosts : \A v : Queued(k, v)' <=> Queued(k, v) BY <2>1 DEF Queued
    <3>q. QED BY <1>1, <2>1, <2>2, <3>1 DEF GatewayInv, QueuesInOrder
  <2>8. ClaimsAre'
    <3>1. \A k \in Gate!Hosts : /\ local'[k] \subseteq Taken'
                                /\ deciding'[k] # "no" => inbox'[k] # <<>> /\ Head(inbox'[k]) \in Taken'
      BY <1>1, <1>3, <1>4, <2>1, <2>2 DEF GatewayInv, ClaimsAre
    <3>2. ASSUME NEW k \in Gate!Hosts, NEW v \in Updates \ loose', Winning(k, v)'
          PROVE  emitted'[v] = 0 /\ \A l \in Gate!Hosts : Winning(l, v)' => l = k
      <4>1. CASE v = u /\ u \notin Taken
        <5>1. ASSUME NEW l \in Gate!Hosts, l # h, Winning(l, u)' PROVE FALSE
          <6>1. Winning(l, u) BY <2>3, <5>1
          <6>q. QED BY <4>1, <6>1 DEF GatewayInv, ClaimsAre, Winning
        <5>2. emitted[u] = 0 BY <1>4, <4>1 DEF GatewayInv, EmittedAre, GatewayTypes
        <5>q. QED BY <1>1, <3>2, <4>1, <5>1, <5>2
      <4>2. CASE v = u /\ u \in Taken
        <5>1. ~Winning(h, u)' BY <2>2, <2>4, <3>2, <4>2
        <5>2. u \notin loose BY <2>2, <3>2, <4>2
        <5>q. QED BY <1>1, <1>4, <2>3, <3>2, <4>2, <5>1, <5>2 DEF GatewayInv, ClaimsAre
      <4>3. CASE v # u
        <5>1. \A l \in Gate!Hosts : Winning(l, v)' => l # h /\ Winning(l, v) BY <2>3, <2>4, <4>3
        <5>2. v \in Updates \ loose BY <2>2, <3>2
        <5>q. QED BY <1>1, <3>2, <5>1, <5>2 DEF GatewayInv, ClaimsAre
      <4>q. QED BY <4>1, <4>2, <4>3
    <3>q. QED BY <3>1, <3>2 DEF ClaimsAre
  <2>9. EmittedAre'
    <3>1. ASSUME NEW v \in Taken
          PROVE  v \in Updates => \/ emitted[v] > 0 \/ \E k \in Gate!Hosts : Winning(k, v)'
                                  \/ \E k \in Gate!Hosts : draining[k] # "no"
      <4>1. ~Winning(h, v) BY <1>1 DEF Winning
      <4>q. QED BY <2>3, <4>1 DEF GatewayInv, EmittedAre
    <3>2. u \notin Taken => \E k \in Gate!Hosts : Winning(k, u)' BY <2>2, <2>5
    <3>3. \A v \in Updates : /\ v \notin loose' => emitted'[v] <= 1
                             /\ emitted'[v] > 0 => v \in Taken'
      BY <1>1, <2>2 DEF GatewayInv, EmittedAre
    <3>4. \A v \in Updates : v \in Taken' => \/ emitted'[v] > 0 \/ \E k \in Gate!Hosts : Winning(k, v)'
                                             \/ \E k \in Gate!Hosts : draining'[k] # "no"
      BY <1>1, <2>2, <3>1, <3>2
    <3>q. QED BY <3>3, <3>4 DEF EmittedAre
  <2>10. HeardInOrder'
    <3> SUFFICES ASSUME NEW s \in Sockets, NEW j \in DOMAIN heard[s]
                 PROVE  /\ \A v \in 1 .. heard[s][j] - 1 : v \in Taken' /\ (Winning(Replica[s], v)' => v \in loose')
                        /\ \A k \in DOMAIN heard[s] : j < k /\ heard[s][j] > heard[s][k] => heard[s][k] \in loose'
      BY <1>1 DEF HeardInOrder
    <3>1. /\ \A v \in 1 .. heard[s][j] - 1 : v \in Taken /\ (Winning(Replica[s], v) => v \in loose)
          /\ \A k \in DOMAIN heard[s] : j < k /\ heard[s][j] > heard[s][k] => heard[s][k] \in loose
      BY DEF GatewayInv, HeardInOrder
    <3>2. ASSUME NEW v \in 1 .. heard[s][j] - 1, Winning(Replica[s], v)' PROVE v \in loose'
      <4>1. CASE Replica[s] = h BY <2>2, <2>4, <3>1, <3>2, <4>1
      <4>2. CASE Replica[s] # h BY <2>2, <2>3, <3>1, <3>2, <4>2, HostsAre
      <4>q. QED BY <4>1, <4>2
    <3>q. QED BY <2>2, <3>1, <3>2
  <2>11. Gate!DrainReachesAll' BY <1>1 DEF GatewayInv, Gate!DrainReachesAll
  <2>q. QED BY <2>6, <2>7, <2>8, <2>9, <2>10, <2>11 DEF GatewayInv
<1>q. QED BY <1>5, <1>6

LEMMA AnswersInOrder ==
  ASSUME GatewayInv, NEW h \in Gate!Hosts, Gate!Answer(h)
  PROVE  GatewayInv'
<1>1. /\ UNCHANGED <<published, publications, lapses, claims, loose, connected, rooms, told, draining>>
      /\ deciding[h] # "no" /\ deciding' = [deciding EXCEPT ![h] = "no"] /\ Taken' = Taken
  BY DEF Gate!Answer, Gate!socketVars, Taken
<1>2. inbox \in [Gate!Hosts -> Seq(Updates)] /\ inbox[h] \in Seq(Updates) /\ Pops(h)
  BY <1>1 DEF GatewayInv, GatewayTypes, ClaimsAre, Gate!Answer, Pops
<1>3. PICK u \in Updates : u = Head(inbox[h]) /\ u = inbox[h][1] /\ 1 \in DOMAIN inbox[h]
  BY <1>2, Fronts DEF Pops
<1>4. u \in Taken /\ \A v \in 1 .. u - 1 : v \in Taken
  <2>1. u \in Taken BY <1>1, <1>3 DEF GatewayInv, ClaimsAre
  <2>2. ASSUME NEW v \in 1 .. u - 1, v \notin Taken PROVE FALSE
    <3>1. \E j \in 1 .. 1 - 1 : inbox[h][j] = v BY <1>3, <2>2 DEF GatewayInv, QueuesInOrder
    <3>q. QED BY <3>1
  <2>q. QED BY <2>1, <2>2
<1>5. QueuesInOrder' /\ inbox' \in [Gate!Hosts -> Seq(Updates)]
  BY <1>1, <1>2, <1>3, <1>4, PopsKeepOrder DEF GatewayInv
<1>6. \A k \in Gate!Hosts : \A v : Winning(k, v)' <=> k # h /\ Winning(k, v)
  <2>1. \A k \in Gate!Hosts : k # h => inbox'[k] = inbox[k] BY <1>2 DEF Pops
  <2>2. \A k \in Gate!Hosts : deciding'[k] = IF k = h THEN "no" ELSE deciding[k]
    BY <1>1 DEF GatewayInv, GatewayTypes
  <2>q. QED BY <2>1, <2>2 DEF Winning
<1>7. \A k \in Gate!Hosts : deciding'[k] # "no" => k # h /\ inbox'[k] = inbox[k] /\ deciding[k] # "no"
  BY <1>1, <1>2 DEF GatewayInv, GatewayTypes, Pops
<1>8. /\ local' \in [Gate!Hosts -> SUBSET Updates] /\ \A k \in Gate!Hosts : local'[k] \subseteq local[k] \cup {u}
  <2>1. local' = local \/ local' = [local EXCEPT ![h] = @ \cup {u}] BY <1>3 DEF Gate!Answer
  <2>2. local \in [Gate!Hosts -> SUBSET Updates] BY DEF GatewayInv, GatewayTypes
  <2>q. QED BY <2>1, <2>2
<1>9. Gate!DrainReachesAll' BY <1>1 DEF GatewayInv, Gate!DrainReachesAll
<1>10. deciding' \in [Gate!Hosts -> {"no", "won", "lost"}] BY <1>1 DEF GatewayInv, GatewayTypes
<1>11. CASE deciding[h] = "won" /\ draining[h] = "no"
  <2>1. /\ heard' = [s \in Sockets |-> IF s \in Gate!On(h) /\ GigOf[u] \in rooms[s] THEN Append(heard[s], u) ELSE heard[s]]
        /\ emitted' = [emitted EXCEPT ![u] = @ + 1]
    BY <1>3, <1>11 DEF Gate!Answer, Gate!Emit
  <2>2. Winning(h, u) BY <1>3, <1>11 DEF Winning
  <2>3. /\ emitted' \in [Updates -> Nat] /\ emitted'[u] = emitted[u] + 1 /\ emitted[u] \in Nat
        /\ \A v \in Updates : v # u => emitted'[v] = emitted[v]
    BY <2>1 DEF GatewayInv, GatewayTypes
  <2>4. u \notin loose => emitted[u] = 0 /\ \A k \in Gate!Hosts : Winning(k, u) => k = h
    BY <2>2 DEF GatewayInv, ClaimsAre
  <2>5. ClaimsAre'
    <3>1. \A k \in Gate!Hosts : /\ local'[k] \subseteq Taken'
                                /\ deciding'[k] # "no" => inbox'[k] # <<>> /\ Head(inbox'[k]) \in Taken'
      BY <1>1, <1>4, <1>7, <1>8 DEF GatewayInv, ClaimsAre
    <3>2. ASSUME NEW k \in Gate!Hosts, NEW v \in Updates \ loose', Winning(k, v)'
          PROVE  emitted'[v] = 0 /\ \A l \in Gate!Hosts : Winning(l, v)' => l = k
      <4>1. k # h /\ Winning(k, v) /\ v \in Updates \ loose BY <1>1, <1>6, <3>2
      <4>2. v # u BY <2>4, <4>1
      <4>3. emitted[v] = 0 /\ \A l \in Gate!Hosts : Winning(l, v) => l = k
        BY <4>1 DEF GatewayInv, ClaimsAre
      <4>q. QED BY <1>6, <2>3, <4>1, <4>2, <4>3
    <3>q. QED BY <3>1, <3>2 DEF ClaimsAre
  <2>6. EmittedAre'
    <3>1. ASSUME NEW v \in Updates, v # u
          PROVE  /\ v \notin loose' => emitted'[v] <= 1
                 /\ emitted'[v] > 0 => v \in Taken'
                 /\ v \in Taken' => \/ emitted'[v] > 0 \/ \E k \in Gate!Hosts : Winning(k, v)'
                                    \/ \E k \in Gate!Hosts : draining'[k] # "no"
      <4>1. \A k \in Gate!Hosts : Winning(k, v) => Winning(k, v)'
        <5>1. ~Winning(h, v) BY <1>3, <3>1 DEF Winning
        <5>q. QED BY <1>6, <5>1
      <4>2. emitted'[v] = emitted[v] BY <2>3, <3>1
      <4>q. QED BY <1>1, <4>1, <4>2 DEF GatewayInv, EmittedAre
    <3>2. (u \notin loose' => emitted'[u] <= 1) /\ emitted'[u] > 0 /\ u \in Taken'
      BY <1>1, <1>4, <2>3, <2>4
    <3>q. QED BY <3>1, <3>2 DEF EmittedAre
  <2>7. ASSUME NEW s \in Sockets
        PROVE  /\ heard'[s] \in Seq(Updates)
               /\ \A i \in DOMAIN heard'[s] :
                   /\ \A v \in 1 .. heard'[s][i] - 1 : v \in Taken' /\ (Winning(Replica[s], v)' => v \in loose')
                   /\ \A j \in DOMAIN heard'[s] : i < j /\ heard'[s][i] > heard'[s][j] => heard'[s][j] \in loose'
    <3> DEFINE q == heard[s]
    <3>1. q \in Seq(Updates) BY DEF GatewayInv, GatewayTypes
    <3>2. \A i \in DOMAIN q :
            /\ \A v \in 1 .. q[i] - 1 : v \in Taken /\ (Winning(Replica[s], v) => v \in loose)
            /\ \A j \in DOMAIN q : i < j /\ q[i] > q[j] => q[j] \in loose
      BY DEF GatewayInv, HeardInOrder
    <3>3. \A v : Winning(Replica[s], v)' => Winning(Replica[s], v) /\ Replica[s] # h BY <1>6, HostsAre
    <3>4. CASE ~(s \in Gate!On(h) /\ GigOf[u] \in rooms[s])
      <4>1. heard'[s] = q BY <2>1, <3>4
      <4> HIDE DEF q
      <4>q. QED BY <1>1, <3>1, <3>2, <3>3, <4>1
    <3>5. CASE s \in Gate!On(h) /\ GigOf[u] \in rooms[s]
      <4>1. heard'[s] = Append(q, u) /\ Replica[s] = h BY <2>1, <3>5 DEF Gate!On
      <4>2. /\ heard'[s] \in Seq(Updates) /\ DOMAIN q = 1 .. Len(q) /\ Len(q) \in Nat
            /\ DOMAIN heard'[s] = 1 .. Len(q) + 1
            /\ heard'[s][Len(q) + 1] = u /\ \A i \in 1 .. Len(q) : heard'[s][i] = q[i]
        BY <3>1, <4>1, Backs
      <4> DEFINE p == heard'[s]
      <4>3. \A i \in 1 .. Len(q) : q[i] \in Nat /\ q[i] \in Updates
        BY <3>1, <4>2, UpdatesAre, ElementOfSeq
      <4>4. u \in Nat \ {0} BY UpdatesAre
      <4>5. \A i \in 1 .. Len(q) : q[i] > u => u \in loose
        <5> TAKE i \in 1 .. Len(q)
        <5>1. q[i] > u => u \in 1 .. q[i] - 1 BY <4>3, <4>4
        <5>q. QED BY <2>2, <3>2, <4>1, <4>2, <5>1
      <4>6. \A i \in 1 .. Len(q) + 1 : \A v \in 1 .. p[i] - 1 : v \in Taken
        <5> HIDE DEF q
        <5> TAKE i \in 1 .. Len(q) + 1
        <5>1. CASE i = Len(q) + 1 BY <1>4, <4>2, <5>1
        <5>2. CASE i \in 1 .. Len(q) BY <3>2, <4>2, <5>2
        <5>q. QED BY <4>2, <5>1, <5>2
      <4>7. ASSUME NEW i \in 1 .. Len(q) + 1, NEW j \in 1 .. Len(q) + 1, i < j, p[i] > p[j] PROVE p[j] \in loose
        <5> HIDE DEF q
        <5>1. i \in 1 .. Len(q) BY <4>2, <4>7
        <5>2. CASE j = Len(q) + 1 BY <4>2, <4>5, <4>7, <5>1, <5>2
        <5>3. CASE j \in 1 .. Len(q)
          <6>1. p[i] = q[i] /\ p[j] = q[j] BY <4>2, <5>1, <5>3
          <6> HIDE DEF p
          <6>q. QED BY <3>2, <4>2, <4>7, <5>1, <5>3, <6>1
        <5>q. QED BY <4>2, <5>2, <5>3
      <4> HIDE DEF q
      <4>q. QED BY <1>1, <3>3, <4>1, <4>2, <4>6, <4>7
    <3>q. QED BY <3>4, <3>5
  <2>8. HeardInOrder' BY <2>7 DEF HeardInOrder
  <2>9. GatewayTypes'
    <3>1. heard' \in [Sockets -> Seq(Updates)] BY <2>1, <2>7
    <3>q. QED BY <1>1, <1>5, <1>8, <1>10, <2>3, <3>1 DEF GatewayInv, GatewayTypes
  <2>q. QED BY <1>5, <1>9, <2>5, <2>6, <2>8, <2>9 DEF GatewayInv
<1>12. CASE ~(deciding[h] = "won" /\ draining[h] = "no")
  <2>1. heard' = heard /\ emitted' = emitted BY <1>12 DEF Gate!Answer, Gate!Emit
  <2>2. GatewayTypes' BY <1>1, <1>5, <1>8, <1>10, <2>1 DEF GatewayInv, GatewayTypes
  <2>3. ClaimsAre'
    <3>1. \A k \in Gate!Hosts : /\ local'[k] \subseteq Taken'
                                /\ deciding'[k] # "no" => inbox'[k] # <<>> /\ Head(inbox'[k]) \in Taken'
      BY <1>1, <1>4, <1>7, <1>8 DEF GatewayInv, ClaimsAre
    <3>q. QED BY <1>1, <1>6, <2>1, <3>1 DEF GatewayInv, ClaimsAre
  <2>4. EmittedAre'
    <3>1. \A v \in Updates : Winning(h, v) => draining[h] # "no" BY <1>12 DEF Winning
    <3>q. QED BY <1>1, <1>6, <2>1, <3>1 DEF GatewayInv, EmittedAre
  <2>5. HeardInOrder' BY <1>1, <1>6, <2>1, HostsAre DEF GatewayInv, HeardInOrder
  <2>q. QED BY <1>5, <1>9, <2>2, <2>3, <2>4, <2>5 DEF GatewayInv
<1>q. QED BY <1>11, <1>12

LEMMA ExpiriesInOrder ==
  ASSUME GatewayInv, NEW u \in Updates, Gate!ClaimExpires(u)
  PROVE  GatewayInv'
<1>1. /\ UNCHANGED <<published, publications, inbox, deciding, heard, emitted, connected, rooms, told, draining>>
      /\ u \in claims /\ claims' = claims \ {u} /\ loose' = loose \cup {u} /\ lapses' \in 0 .. MaxLapses
      /\ local' = [k \in Gate!Hosts |-> local[k] \ {u}]
  BY DEF Gate!ClaimExpires, Gate!Lapse, Gate!socketVars, GatewayInv, GatewayTypes
<1>2. Taken' = Taken /\ loose \subseteq loose' BY <1>1 DEF Taken
<1>3. \A k, v : Winning(k, v)' <=> Winning(k, v) BY <1>1 DEF Winning
<1>4. \A k, v : Queued(k, v)' <=> Queued(k, v) BY <1>1 DEF Queued
<1>5. GatewayTypes' BY <1>1 DEF GatewayInv, GatewayTypes
<1>6. QueuesInOrder' BY <1>1, <1>2, <1>4 DEF GatewayInv, QueuesInOrder
<1>7. ClaimsAre' BY <1>1, <1>2, <1>3 DEF GatewayInv, GatewayTypes, ClaimsAre
<1>8. EmittedAre' BY <1>1, <1>2, <1>3 DEF GatewayInv, EmittedAre
<1>9. HeardInOrder' BY <1>1, <1>2, <1>3 DEF GatewayInv, HeardInOrder
<1>10. Gate!DrainReachesAll' BY <1>1 DEF GatewayInv, Gate!DrainReachesAll
<1>q. QED BY <1>5, <1>6, <1>7, <1>8, <1>9, <1>10 DEF GatewayInv

LEMMA SocketsInOrder ==
  ASSUME GatewayInv,
         UNCHANGED <<published, publications, inbox, deciding, heard, claims, local, emitted, loose>>,
         lapses' \in 0 .. MaxLapses, connected' \subseteq Sockets, told' \subseteq Sockets,
         rooms' \in [Sockets -> SUBSET Gate!Gigs], draining' \in [Gate!Hosts -> {"no", "told", "done"}],
         \A h \in Gate!Hosts : draining[h] # "no" => draining'[h] # "no", Gate!DrainReachesAll'
  PROVE  GatewayInv'
<1>1. Taken' = Taken BY DEF Taken
<1>2. \A k, v : Winning(k, v)' <=> Winning(k, v) BY DEF Winning
<1>3. \A k, v : Queued(k, v)' <=> Queued(k, v) BY DEF Queued
<1>4. GatewayTypes' BY DEF GatewayInv, GatewayTypes
<1>5. QueuesInOrder' BY <1>1, <1>3 DEF GatewayInv, QueuesInOrder
<1>6. ClaimsAre' BY <1>1, <1>2 DEF GatewayInv, ClaimsAre
<1>7. EmittedAre'
  <2>1. \A u \in Updates : /\ u \notin loose' => emitted'[u] <= 1
                           /\ emitted'[u] > 0 => u \in Taken'
    BY <1>1 DEF GatewayInv, EmittedAre
  <2>2. \A u \in Updates : u \in Taken' => \/ emitted'[u] > 0 \/ \E h \in Gate!Hosts : Winning(h, u)'
                                           \/ \E h \in Gate!Hosts : draining'[h] # "no"
    BY <1>1, <1>2 DEF GatewayInv, EmittedAre
  <2>q. QED BY <2>1, <2>2 DEF EmittedAre
<1>8. HeardInOrder' BY <1>1, <1>2 DEF GatewayInv, HeardInOrder
<1>q. QED BY <1>4, <1>5, <1>6, <1>7, <1>8 DEF GatewayInv

LEMMA SocketsStep ==
  ASSUME GatewayInv,
         \/ \E h \in Gate!Hosts : Gate!DrainClients(h) \/ Gate!CloseClients(h)
         \/ \E s \in Sockets : Gate!Connect(s) \/ Gate!Disconnect(s)
         \/ \E s \in Sockets, g \in Gate!Gigs : Gate!Subscribe(s, g) \/ Gate!Unsubscribe(s, g)
  PROVE  GatewayInv'
<1> USE DEF GatewayInv, GatewayTypes, Gate!DrainReachesAll, Gate!dedupVars
<1>1. ASSUME NEW h \in Gate!Hosts, Gate!DrainClients(h) PROVE GatewayInv'
  <2>1. /\ UNCHANGED <<published, publications, inbox, deciding, heard, claims, local, emitted, loose,
                       lapses, connected, rooms>>
        /\ draining' = [draining EXCEPT ![h] = IF Gate!On(h) = {} THEN "done" ELSE "told"]
        /\ told' = told \cup Gate!On(h)
    BY <1>1 DEF Gate!DrainClients
  <2>2. Gate!On(h) \subseteq Sockets /\ \A s \in connected : Replica[s] = h => s \in Gate!On(h) BY DEF Gate!On
  <2>3. /\ draining' \in [Gate!Hosts -> {"no", "told", "done"}]
        /\ \A k \in Gate!Hosts : draining'[k] = IF k # h THEN draining[k]
                                                ELSE IF Gate!On(h) = {} THEN "done" ELSE "told"
    BY <2>1
  <2>4. Gate!DrainReachesAll' BY <2>1, <2>2, <2>3, HostsAre
  <2>q. QED BY <2>1, <2>2, <2>3, <2>4, SocketsInOrder
<1>2. ASSUME NEW h \in Gate!Hosts, Gate!CloseClients(h) PROVE GatewayInv'
  <2>1. /\ UNCHANGED <<published, publications, inbox, deciding, heard, claims, local, emitted, loose,
                       lapses, told>>
        /\ draining[h] = "told" /\ draining' = [draining EXCEPT ![h] = "done"]
        /\ connected' = connected \ Gate!On(h)
        /\ rooms' = [s \in Sockets |-> IF s \in Gate!On(h) THEN {} ELSE rooms[s]]
    BY <1>2 DEF Gate!CloseClients
  <2>2. \A s \in connected : Replica[s] = h => s \in Gate!On(h) BY DEF Gate!On
  <2>3. /\ draining' \in [Gate!Hosts -> {"no", "told", "done"}]
        /\ \A k \in Gate!Hosts : draining'[k] = IF k = h THEN "done" ELSE draining[k]
    BY <2>1
  <2>4. Gate!DrainReachesAll' BY <2>1, <2>2, <2>3, HostsAre
  <2>q. QED BY <2>1, <2>3, <2>4, SocketsInOrder
<1>3. ASSUME NEW s \in Sockets, Gate!Connect(s) PROVE GatewayInv'
  <2>1. Gate!DrainReachesAll' BY <1>3, HostsAre DEF Gate!Connect, Gate!Admit
  <2>q. QED BY <1>3, <2>1, SocketsInOrder DEF Gate!Connect, Gate!Admit
<1>4. ASSUME NEW s \in Sockets, Gate!Disconnect(s) PROVE GatewayInv'
  <2>1. Gate!DrainReachesAll' BY <1>4 DEF Gate!Disconnect
  <2>q. QED BY <1>4, <2>1, SocketsInOrder, SMTT(30) DEF Gate!Disconnect, Gate!Lapse
<1>5. ASSUME NEW s \in Sockets, NEW g \in Gate!Gigs, Gate!Subscribe(s, g) \/ Gate!Unsubscribe(s, g)
      PROVE  GatewayInv'
  <2>1. Gate!DrainReachesAll' BY <1>5 DEF Gate!Subscribe, Gate!Unsubscribe
  <2>2. rooms' = [rooms EXCEPT ![s] = @ \cup {g}] \/ rooms' = [rooms EXCEPT ![s] = @ \ {g}]
    BY <1>5 DEF Gate!Subscribe, Gate!Unsubscribe
  <2>3. rooms' \in [Sockets -> SUBSET Gate!Gigs]
    <3>1. rooms \in [Sockets -> SUBSET Gate!Gigs] OBVIOUS
    <3> HIDE DEF GatewayInv
    <3>2. rooms[s] \cup {g} \in SUBSET Gate!Gigs /\ rooms[s] \ {g} \in SUBSET Gate!Gigs BY <3>1
    <3>q. QED BY <2>2, <3>1, <3>2
  <2>q. QED BY <1>5, <2>1, <2>3, SocketsInOrder DEF Gate!Subscribe, Gate!Unsubscribe
<1>q. QED BY <1>1, <1>2, <1>3, <1>4, <1>5

LEMMA GatewayKept == Gate!Spec => [](Gate!TypeOK /\ Gate!BroadcastOnceInOrder /\ Gate!DrainReachesAll)
<1>1. GatewayInv /\ [Gate!Next]_(Gate!vars) => GatewayInv'
  <2> SUFFICES ASSUME GatewayInv, [Gate!Next]_(Gate!vars) PROVE GatewayInv' OBVIOUS
  <2>1. CASE UNCHANGED Gate!vars
    <3>1. UNCHANGED <<published, publications, inbox, deciding, heard, claims, local, emitted, loose,
                      lapses, connected, told, rooms, draining>>
      BY <2>1 DEF Gate!vars, Gate!socketVars, Gate!dedupVars
    <3>2. Gate!DrainReachesAll' BY <3>1 DEF GatewayInv, Gate!DrainReachesAll
    <3>q. QED BY <3>1, <3>2, SocketsInOrder DEF GatewayInv, GatewayTypes
  <2>q. QED BY <2>1, PublishesInOrder, ClaimsInOrder, AnswersInOrder, ExpiriesInOrder, SocketsStep DEF Gate!Next
<1>2. GatewayInv => Gate!TypeOK
  BY DEF GatewayInv, GatewayTypes, Gate!TypeOK
<1>3. GatewayInv => Gate!BroadcastOnceInOrder /\ Gate!DrainReachesAll
  <2> SUFFICES ASSUME GatewayInv PROVE Gate!BroadcastOnceInOrder BY DEF GatewayInv
  <2>1. \A u \in Updates \ loose : emitted[u] <= 1 BY DEF GatewayInv, EmittedAre
  <2>2. ASSUME Gate!Idle, NEW u \in 1 .. published PROVE emitted[u] >= 1
    <3>1. PICK h \in Gate!Hosts : TRUE BY HostsAre
    <3>2. u \in Taken /\ u \in Updates
      BY <2>2, <3>1, EmptySeq DEF GatewayInv, GatewayTypes, QueuesInOrder, Queued, Gate!Idle
    <3>3. \A k \in Gate!Hosts : draining[k] = "no" /\ ~Winning(k, u)
      BY <2>2 DEF Gate!Idle, GatewayInv, ClaimsAre, Winning
    <3>4. emitted[u] \in Nat /\ emitted[u] > 0
      <4>1. emitted[u] > 0 BY <3>2, <3>3 DEF GatewayInv, EmittedAre
      <4>q. QED BY <3>2, <4>1 DEF GatewayInv, GatewayTypes
    <3>q. QED BY <3>4
  <2>3. \A s \in Sockets : \A i, j \in DOMAIN heard[s] :
          i < j /\ heard[s][i] > heard[s][j] => heard[s][j] \in loose
    BY DEF GatewayInv, HeardInOrder
  <2>q. QED BY <2>1, <2>2, <2>3 DEF Gate!BroadcastOnceInOrder
<1>q. QED BY <1>1, <1>2, <1>3, GatewayStarts, PTL DEF Gate!Spec

----------------------------------------------------------------------------
(* An event is emitted once and in the order of its gig, and a drain tells every socket  *)
(* before it closes it (MilestoneNotificationsGateway).                                  *)
THEOREM UpdatesReachTheirSockets == EdgeSpec => []GatewayDelivers
<1>1. Gate!TypeOK /\ Gate!BroadcastOnceInOrder /\ Gate!DrainReachesAll => GatewayDelivers
  BY DEF GatewayDelivers
<1>q. QED BY <1>1, GatewayAlone, GatewayKept, PTL

----------------------------------------------------------------------------
(* The deliveries. *)
HIDE GatewayAssumption
USE MessagesAssumption

LEMMA DeliveriesAlone == EdgeSpec => Del!Spec
<1>1. EdgeInit => Del!Init BY DEF EdgeInit
<1>2. [EdgeNext]_edgeVars => [Del!Next]_(Del!vars)
  BY DEF EdgeNext, Others, edgeVars, deliveriesVars, Del!vars
<1>q. QED BY <1>1, <1>2, PTL DEF EdgeSpec, Del!Spec, edgeVars

PostPhases == {"new", "checking", "sending", "returned", "failed", "turnedAway"}
PostRecords == [phase : PostPhases, checked : SUBSET Targets, valid : SUBSET Targets]
SendRecords == [attempts : 0 .. SendAttempts, outcome : {"none", "accepted", "refused"}]
DeliveryTypes ==
  /\ registered \subseteq Targets /\ unregistered \subseteq Targets
  /\ stopping \in {"no", "waiting", "drained", "timedOut"}
  /\ inFlightRequests \subseteq Posts /\ waitedFor \subseteq Posts /\ atStop \subseteq Posts
  /\ steady \in [Posts -> SUBSET Targets] /\ post \in [Posts -> PostRecords]
  /\ sends \in [Posts -> [Targets -> SendRecords]]

\* A try is left as long as an endpoint has neither accepted nor refused.
TriesLeft == \A d \in Posts : \A e \in Targets : sends[d][e].outcome = "none" => sends[d][e].attempts < SendAttempts
\* The requests in flight are those of the calls that send, which have checked whoever
\* stayed registered.
SendersAre ==
  /\ inFlightRequests = {d \in Posts : post[d].phase = "sending"}
  /\ \A d \in Posts : /\ steady[d] \subseteq registered
                      /\ post[d].phase = "sending" => steady[d] \subseteq post[d].checked
\* A shutdown waits for the calls that were sending; none of them sends again.
StoppedAre ==
  /\ stopping = "no" => atStop = {}
  /\ stopping # "no" => waitedFor = atStop
  /\ \A d \in atStop : post[d].phase \in {"sending", "returned", "failed"}
DeliveryInv ==
  DeliveryTypes /\ TriesLeft /\ SendersAre /\ StoppedAre /\ Del!ReturnedIsAccepted /\ Del!DrainedIsSettled

LEMMA DeliveriesStart == Del!Init => DeliveryInv
<1> SUFFICES ASSUME Del!Init PROVE DeliveryInv OBVIOUS
<1>1. /\ post = [d \in Posts |-> [phase |-> "new", checked |-> {}, valid |-> {}]]
      /\ sends = [d \in Posts |-> [e \in Targets |-> [attempts |-> 0, outcome |-> "none"]]]
      /\ steady = [d \in Posts |-> {}] /\ atStop = {} /\ waitedFor = {} /\ inFlightRequests = {} /\ stopping = "no"
      /\ registered = {} /\ unregistered = {}
  BY DEF Del!Init, Del!NotSent
<1>2. DeliveryTypes BY <1>1 DEF DeliveryTypes, PostRecords, PostPhases, SendRecords
<1>3. TriesLeft BY <1>1 DEF TriesLeft
<1>4. SendersAre /\ StoppedAre BY <1>1 DEF SendersAre, StoppedAre
<1>5. Del!ReturnedIsAccepted BY <1>1 DEF Del!ReturnedIsAccepted, Del!Ended
<1>6. Del!DrainedIsSettled BY <1>1 DEF Del!DrainedIsSettled
<1>q. QED BY <1>2, <1>3, <1>4, <1>5, <1>6 DEF DeliveryInv

\* What is kept of the calls that a step does not touch.
Untouched(d) == post'[d] = post[d] /\ sends'[d] = sends[d] /\ steady'[d] \subseteq steady[d]
LEMMA UntouchedCalls ==
  ASSUME DeliveryInv, NEW d \in Posts, Untouched(d)
  PROVE  /\ Del!Ended(d)' =>
              /\ Del!Sending(d)' = {} /\ steady'[d] \subseteq post'[d].checked
              /\ post'[d].phase = "returned" <=> \A e \in post'[d].valid : sends'[d][e].outcome = "accepted"
         /\ \A e \in Targets : sends'[d][e].outcome = "none" => sends'[d][e].attempts < SendAttempts
         /\ post'[d].phase = "sending" => steady'[d] \subseteq post'[d].checked
<1>1. (Del!Ended(d)' <=> Del!Ended(d)) /\ Del!Sending(d)' = Del!Sending(d)
  BY DEF Untouched, Del!Ended, Del!Sending
<1>q. QED BY <1>1 DEF DeliveryInv, TriesLeft, SendersAre, Del!ReturnedIsAccepted, Untouched

\* A call moves on, and the process is not told to stop.
LEMMA OneCallMoves ==
  ASSUME DeliveryInv, DeliveryTypes', NEW d \in Posts,
         \A c \in Posts \ {d} : Untouched(c),
         UNCHANGED <<registered, stopping, waitedFor, atStop>>,
         inFlightRequests' = IF post'[d].phase = "sending" THEN inFlightRequests \cup {d} ELSE inFlightRequests \ {d},
         steady'[d] \subseteq registered,
         \A e \in Targets : sends'[d][e].outcome = "none" => sends'[d][e].attempts < SendAttempts,
         post'[d].phase = "sending" => steady'[d] \subseteq post'[d].checked,
         Del!Ended(d)' => /\ Del!Sending(d)' = {} /\ steady'[d] \subseteq post'[d].checked
                          /\ post'[d].phase = "returned" <=> \A e \in post'[d].valid : sends'[d][e].outcome = "accepted",
         d \in atStop => post'[d].phase \in {"sending", "returned", "failed"}
                         /\ (post'[d].phase = "sending" => post[d].phase = "sending")
  PROVE  DeliveryInv'
<1>1. TriesLeft'
  <2>1. ASSUME NEW c \in Posts, NEW e \in Targets, sends'[c][e].outcome = "none" PROVE sends'[c][e].attempts < SendAttempts
    <3>1. CASE c = d BY <2>1, <3>1
    <3>2. CASE c # d BY <2>1, <3>2, UntouchedCalls
    <3>q. QED BY <3>1, <3>2
  <2>q. QED BY <2>1 DEF TriesLeft
<1>2. SendersAre'
  <2>1. \A c \in Posts \ {d} : post'[c] = post[c] BY DEF Untouched
  <2>2. inFlightRequests' = {c \in Posts : post'[c].phase = "sending"}
    BY <2>1 DEF DeliveryInv, SendersAre
  <2>3. ASSUME NEW c \in Posts PROVE steady'[c] \subseteq registered' /\ (post'[c].phase = "sending" => steady'[c] \subseteq post'[c].checked)
    <3>1. CASE c = d BY <3>1
    <3>2. CASE c # d
      <4>1. Untouched(c) BY <3>2
      <4>2. steady'[c] \subseteq registered BY <4>1 DEF DeliveryInv, SendersAre, Untouched
      <4>q. QED BY <4>1, <4>2, UntouchedCalls
    <3>q. QED BY <3>1, <3>2
  <2>q. QED BY <2>2, <2>3 DEF SendersAre
<1>3. StoppedAre'
  <2>1. ASSUME NEW c \in atStop PROVE post'[c].phase \in {"sending", "returned", "failed"}
    <3>1. CASE c = d BY <2>1, <3>1
    <3>2. CASE c # d BY <2>1, <3>2 DEF DeliveryInv, DeliveryTypes, StoppedAre, Untouched
    <3>q. QED BY <3>1, <3>2
  <2>q. QED BY <2>1 DEF DeliveryInv, StoppedAre
<1>4. Del!ReturnedIsAccepted'
  <2>1. ASSUME NEW c \in Posts, Del!Ended(c)'
        PROVE  /\ Del!Sending(c)' = {} /\ steady'[c] \subseteq post'[c].checked
               /\ post'[c].phase = "returned" <=> \A e \in post'[c].valid : sends'[c][e].outcome = "accepted"
    <3>1. CASE c = d BY <2>1, <3>1
    <3>2. CASE c # d
      <4>1. Untouched(c) BY <3>2
      <4>q. QED BY <2>1, <4>1, UntouchedCalls
    <3>q. QED BY <3>1, <3>2
  <2>q. QED BY <2>1 DEF Del!ReturnedIsAccepted
<1>5. Del!DrainedIsSettled'
  <2>1. ASSUME stopping = "drained", NEW c \in Posts, post'[c].phase = "sending", c \in atStop PROVE FALSE
    <3>1. post[c].phase = "sending" BY <2>1 DEF Untouched
    <3>q. QED BY <2>1, <3>1 DEF DeliveryInv, Del!DrainedIsSettled
  <2>q. QED BY <2>1 DEF Del!DrainedIsSettled
<1>q. QED BY <1>1, <1>2, <1>3, <1>4, <1>5 DEF DeliveryInv

LEMMA DeliversKept == ASSUME DeliveryInv, NEW d \in Posts, Del!Deliver(d) PROVE DeliveryInv'
<1> DEFINE next == IF stopping # "no" THEN "turnedAway" ELSE "checking"
<1>1. /\ post' = [post EXCEPT ![d].phase = next] /\ steady' = [steady EXCEPT ![d] = registered]
      /\ UNCHANGED <<registered, unregistered, stopping, inFlightRequests, waitedFor, sends, atStop>>
      /\ post[d].phase = "new"
  BY DEF Del!Deliver
<1>2. /\ post'[d].phase \in {"turnedAway", "checking"} /\ post'[d] \in PostRecords /\ steady'[d] = registered
      /\ \A c \in Posts \ {d} : Untouched(c)
  <2>1. post[d] \in PostRecords /\ post \in [Posts -> PostRecords] /\ steady \in [Posts -> SUBSET Targets]
    BY DEF DeliveryInv, DeliveryTypes
  <2>q. QED BY <1>1, <2>1 DEF Untouched, PostRecords, PostPhases
<1>3. DeliveryTypes'
  <2>1. post' \in [Posts -> PostRecords] BY <1>1, <1>2 DEF DeliveryInv, DeliveryTypes
  <2>q. QED BY <1>1, <2>1 DEF DeliveryInv, DeliveryTypes
<1>4. inFlightRequests' = inFlightRequests \ {d} BY <1>1 DEF DeliveryInv, SendersAre
<1>5. \A e \in Targets : sends'[d][e].outcome = "none" => sends'[d][e].attempts < SendAttempts
  BY <1>1 DEF DeliveryInv, TriesLeft
<1>6. d \notin atStop BY <1>1 DEF DeliveryInv, StoppedAre
<1>7. ~Del!Ended(d)' BY <1>2 DEF Del!Ended
<1>q. QED BY <1>1, <1>2, <1>3, <1>4, <1>5, <1>6, <1>7, OneCallMoves

LEMMA ChecksKept == ASSUME DeliveryInv, NEW d \in Posts, Del!Check(d) PROVE DeliveryInv'
<1>1. PICK e \in registered \ post[d].checked, ok \in BOOLEAN :
        /\ post[d].phase = "checking"
        /\ post' = [post EXCEPT ![d].checked = @ \cup {e}, ![d].valid = IF ok THEN @ \cup {e} ELSE @]
        /\ UNCHANGED <<registered, unregistered, stopping, inFlightRequests, waitedFor, sends, steady, atStop>>
  BY DEF Del!Check
<1>2. /\ post'[d].phase = "checking" /\ post'[d] \in PostRecords
      /\ \A c \in Posts \ {d} : Untouched(c)
  <2>1. post[d] \in PostRecords /\ post \in [Posts -> PostRecords] /\ e \in Targets
    BY DEF DeliveryInv, DeliveryTypes
  <2>q. QED BY <1>1, <2>1 DEF Untouched, PostRecords, PostPhases
<1>3. DeliveryTypes'
  <2>1. post' \in [Posts -> PostRecords] BY <1>1, <1>2 DEF DeliveryInv, DeliveryTypes
  <2>q. QED BY <1>1, <2>1 DEF DeliveryInv, DeliveryTypes
<1>4. inFlightRequests' = inFlightRequests \ {d} /\ steady'[d] \subseteq registered
  BY <1>1 DEF DeliveryInv, SendersAre
<1>5. \A x \in Targets : sends'[d][x].outcome = "none" => sends'[d][x].attempts < SendAttempts
  BY <1>1 DEF DeliveryInv, TriesLeft
<1>6. d \notin atStop BY <1>1 DEF DeliveryInv, StoppedAre
<1>7. ~Del!Ended(d)' BY <1>2 DEF Del!Ended
<1>q. QED BY <1>1, <1>2, <1>3, <1>4, <1>5, <1>6, <1>7, OneCallMoves

LEMMA SendAllKept == ASSUME DeliveryInv, NEW d \in Posts, Del!SendAll(d) PROVE DeliveryInv'
<1> DEFINE next == IF post[d].valid = {} THEN "returned" ELSE "sending"
<1>1. /\ post[d].phase = "checking" /\ registered \subseteq post[d].checked
      /\ post' = [post EXCEPT ![d].phase = next]
      /\ inFlightRequests' = IF post[d].valid = {} THEN inFlightRequests ELSE inFlightRequests \cup {d}
      /\ UNCHANGED <<registered, unregistered, stopping, waitedFor, sends, steady, atStop>>
  BY DEF Del!SendAll, Del!Track
<1>2. /\ post'[d].phase = next /\ post'[d].valid = post[d].valid /\ post'[d].checked = post[d].checked
      /\ post'[d] \in PostRecords
      /\ \A c \in Posts \ {d} : Untouched(c)
  <2>1. post[d] \in PostRecords /\ post \in [Posts -> PostRecords]
    BY DEF DeliveryInv, DeliveryTypes
  <2>q. QED BY <1>1, <2>1 DEF Untouched, PostRecords, PostPhases
<1>3. DeliveryTypes'
  <2>1. post' \in [Posts -> PostRecords] BY <1>1, <1>2 DEF DeliveryInv, DeliveryTypes
  <2>q. QED BY <1>1, <2>1 DEF DeliveryInv, DeliveryTypes
<1>4. inFlightRequests' = IF post'[d].phase = "sending" THEN inFlightRequests \cup {d} ELSE inFlightRequests \ {d}
  BY <1>1, <1>2 DEF DeliveryInv, SendersAre
<1>5. \A x \in Targets : sends'[d][x].outcome = "none" => sends'[d][x].attempts < SendAttempts
  BY <1>1 DEF DeliveryInv, TriesLeft
<1>6. d \notin atStop BY <1>1 DEF DeliveryInv, StoppedAre
<1>7. steady'[d] \subseteq registered /\ steady'[d] \subseteq post'[d].checked
  BY <1>1, <1>2 DEF DeliveryInv, SendersAre
<1>8. Del!Ended(d)' => /\ Del!Sending(d)' = {}
                       /\ post'[d].phase = "returned" <=> \A x \in post'[d].valid : sends'[d][x].outcome = "accepted"
  BY <1>1, <1>2 DEF Del!Ended, Del!Sending
<1>q. QED BY <1>1, <1>2, <1>3, <1>4, <1>5, <1>6, <1>7, <1>8, OneCallMoves

LEMMA AttemptsKept == ASSUME DeliveryInv, NEW d \in Posts, NEW e \in Targets, Del!Attempt(d, e) PROVE DeliveryInv'
<1> DEFINE nth == sends[d][e].attempts + 1
<1>1. PICK reply_ \in {"accepted", "refused", "none"} :
        sends' = [sends EXCEPT ![d][e] = [attempts |-> nth, outcome |->
                    IF reply_ = "none" /\ nth = SendAttempts THEN "refused" ELSE reply_]]
  BY DEF Del!Attempt
<1>2. /\ post[d].phase = "sending" /\ sends[d][e].outcome = "none"
      /\ UNCHANGED <<registered, unregistered, stopping, inFlightRequests, waitedFor, post, steady, atStop>>
  BY DEF Del!Attempt, Del!Sending
<1>3. /\ sends \in [Posts -> [Targets -> SendRecords]] /\ sends[d] \in [Targets -> SendRecords]
      /\ nth \in 1 .. SendAttempts
  BY <1>2 DEF DeliveryInv, DeliveryTypes, TriesLeft, SendRecords
<1> HIDE DEF nth
<1>0. sends'[d][e] = [attempts |-> nth, outcome |->
                        IF reply_ = "none" /\ nth = SendAttempts THEN "refused" ELSE reply_]
  BY <1>1, <1>3
<1>4. /\ sends'[d][e] \in SendRecords
      /\ sends'[d][e].outcome = "none" => sends'[d][e].attempts < SendAttempts
  <2> DEFINE outcome_ == IF reply_ = "none" /\ nth = SendAttempts THEN "refused" ELSE reply_
  <2>1. /\ outcome_ \in {"none", "accepted", "refused"}
        /\ outcome_ = "none" => nth # SendAttempts
    OBVIOUS
  <2>2. nth \in Nat /\ nth <= SendAttempts /\ SendAttempts \in Nat BY <1>3
  <2>3. sends'[d][e] = [attempts |-> nth, outcome |-> outcome_] BY <1>0
  <2> HIDE DEF outcome_
  <2>4. sends'[d][e].attempts = nth /\ sends'[d][e].outcome = outcome_ BY <2>3
  <2>5. nth \in 0 .. SendAttempts BY <2>2
  <2>6. sends'[d][e] \in SendRecords BY <2>1, <2>3, <2>5 DEF SendRecords
  <2>q. QED BY <2>1, <2>2, <2>4, <2>6
<1>5. \A x \in Targets : x # e => sends'[d][x] = sends[d][x] BY <1>1, <1>3
<1>6. sends'[d] \in [Targets -> SendRecords] /\ \A c \in Posts \ {d} : sends'[c] = sends[c]
  BY <1>1, <1>3, <1>4
<1>7. sends' \in [Posts -> [Targets -> SendRecords]] BY <1>1, <1>3, <1>6
<1>8. DeliveryTypes' BY <1>2, <1>7 DEF DeliveryInv, DeliveryTypes
<1>9. \A c \in Posts \ {d} : Untouched(c) BY <1>2, <1>6 DEF Untouched
<1>10. \A x \in Targets : sends'[d][x].outcome = "none" => sends'[d][x].attempts < SendAttempts
  BY <1>4, <1>5 DEF DeliveryInv, TriesLeft
<1>11. /\ inFlightRequests' = inFlightRequests \cup {d} /\ steady'[d] \subseteq registered
       /\ steady'[d] \subseteq post'[d].checked
  BY <1>2 DEF DeliveryInv, SendersAre
<1>12. ~Del!Ended(d)' BY <1>2 DEF Del!Ended
<1>q. QED BY <1>2, <1>8, <1>9, <1>10, <1>11, <1>12, OneCallMoves

LEMMA SettlesKept == ASSUME DeliveryInv, NEW d \in Posts, Del!Settle(d) PROVE DeliveryInv'
<1> DEFINE next == IF \E e \in post[d].valid : sends[d][e].outcome = "refused" THEN "failed" ELSE "returned"
<1>1. /\ post[d].phase = "sending" /\ Del!Sending(d) = {} /\ post' = [post EXCEPT ![d].phase = next]
      /\ inFlightRequests' = inFlightRequests \ {d}
      /\ UNCHANGED <<registered, unregistered, stopping, waitedFor, sends, steady, atStop>>
  BY DEF Del!Settle, Del!Settled, Del!Verdict
<1>2. /\ post'[d].phase = next /\ post'[d].valid = post[d].valid /\ post'[d].checked = post[d].checked
      /\ post'[d] \in PostRecords
      /\ \A c \in Posts \ {d} : Untouched(c)
  <2>1. post[d] \in PostRecords /\ post \in [Posts -> PostRecords]
    BY DEF DeliveryInv, DeliveryTypes
  <2>q. QED BY <1>1, <2>1 DEF Untouched, PostRecords, PostPhases
<1>3. DeliveryTypes'
  <2>1. post' \in [Posts -> PostRecords] BY <1>1, <1>2 DEF DeliveryInv, DeliveryTypes
  <2>q. QED BY <1>1, <2>1 DEF DeliveryInv, DeliveryTypes
<1>4. \A e \in post[d].valid : sends[d][e].outcome \in {"accepted", "refused"}
  <2>1. post[d].valid \subseteq Targets BY DEF DeliveryInv, DeliveryTypes, PostRecords
  <2>2. \A e \in Targets : sends[d][e].outcome \in {"none", "accepted", "refused"}
    BY DEF DeliveryInv, DeliveryTypes, SendRecords
  <2>q. QED BY <1>1, <2>1, <2>2 DEF Del!Sending
<1>5. \A x \in Targets : sends'[d][x].outcome = "none" => sends'[d][x].attempts < SendAttempts
  BY <1>1 DEF DeliveryInv, TriesLeft
<1>6. steady'[d] \subseteq registered /\ steady'[d] \subseteq post'[d].checked
  BY <1>1, <1>2 DEF DeliveryInv, SendersAre
<1>7. /\ Del!Sending(d)' = {}
      /\ post'[d].phase = "returned" <=> \A x \in post'[d].valid : sends'[d][x].outcome = "accepted"
  BY <1>1, <1>2, <1>4 DEF Del!Sending
<1>q. QED BY <1>1, <1>2, <1>3, <1>5, <1>6, <1>7, OneCallMoves

LEMMA EndpointsKept ==
  ASSUME DeliveryInv, NEW e \in Targets, Del!Register(e) \/ Del!Unregister(e)
  PROVE  DeliveryInv'
<1>1. /\ UNCHANGED <<stopping, inFlightRequests, waitedFor, post, sends, atStop>>
      /\ registered' \subseteq Targets /\ unregistered' \subseteq Targets
      /\ steady' \in [Posts -> SUBSET Targets]
      /\ \A d \in Posts : steady'[d] \subseteq steady[d] /\ steady'[d] \subseteq registered'
  <2>1. CASE Del!Register(e) BY <2>1 DEF Del!Register, DeliveryInv, DeliveryTypes, SendersAre
  <2>2. CASE Del!Unregister(e) BY <2>2 DEF Del!Unregister, DeliveryInv, DeliveryTypes, SendersAre
  <2>q. QED BY <2>1, <2>2
<1>2. \A d \in Posts : Untouched(d) BY <1>1 DEF Untouched
<1>3. DeliveryTypes' BY <1>1 DEF DeliveryInv, DeliveryTypes
<1>4. TriesLeft' BY <1>1 DEF DeliveryInv, TriesLeft
<1>5. SendersAre' BY <1>1, <1>2, UntouchedCalls DEF DeliveryInv, SendersAre
<1>6. StoppedAre' BY <1>1 DEF DeliveryInv, StoppedAre
<1>7. Del!ReturnedIsAccepted' BY <1>2, UntouchedCalls DEF Del!ReturnedIsAccepted
<1>8. Del!DrainedIsSettled' BY <1>1 DEF DeliveryInv, Del!DrainedIsSettled
<1>q. QED BY <1>3, <1>4, <1>5, <1>6, <1>7, <1>8 DEF DeliveryInv

LEMMA StopsKept == ASSUME DeliveryInv, Del!Stop \/ Del!Drained \/ Del!GiveUp PROVE DeliveryInv'
<1>1. /\ UNCHANGED <<registered, unregistered, inFlightRequests, post, sends, steady>>
      /\ stopping' \in {"waiting", "drained", "timedOut"}
  BY DEF Del!Stop, Del!Drained, Del!GiveUp
<1>2. /\ waitedFor' = atStop' /\ atStop' \subseteq Posts
      /\ \A d \in atStop' : post[d].phase \in {"sending", "returned", "failed"}
      /\ stopping' = "drained" => atStop' \cap inFlightRequests = {}
  <2>1. CASE Del!Stop BY <2>1 DEF Del!Stop, DeliveryInv, SendersAre
  <2>2. CASE Del!Drained \/ Del!GiveUp
    BY <2>2 DEF Del!Drained, Del!GiveUp, DeliveryInv, DeliveryTypes, StoppedAre
  <2>q. QED BY <2>1, <2>2
<1>3. \A d \in Posts : Untouched(d) BY <1>1 DEF Untouched
<1>4. DeliveryTypes' BY <1>1, <1>2 DEF DeliveryInv, DeliveryTypes
<1>5. TriesLeft' BY <1>1 DEF DeliveryInv, TriesLeft
<1>6. SendersAre' BY <1>1 DEF DeliveryInv, SendersAre
<1>7. StoppedAre' BY <1>1, <1>2 DEF StoppedAre
<1>8. Del!ReturnedIsAccepted' BY <1>3, UntouchedCalls DEF Del!ReturnedIsAccepted
<1>9. Del!DrainedIsSettled' BY <1>1, <1>2 DEF DeliveryInv, SendersAre, Del!DrainedIsSettled
<1>q. QED BY <1>4, <1>5, <1>6, <1>7, <1>8, <1>9 DEF DeliveryInv

LEMMA DeliveriesKept == Del!Spec => [](Del!TypeOK /\ Del!ReturnedIsAccepted /\ Del!DrainedIsSettled)
<1>1. DeliveryInv /\ [Del!Next]_(Del!vars) => DeliveryInv'
  <2> SUFFICES ASSUME DeliveryInv, [Del!Next]_(Del!vars) PROVE DeliveryInv' OBVIOUS
  <2>1. CASE UNCHANGED Del!vars
    <3>1. UNCHANGED <<registered, unregistered, stopping, inFlightRequests, waitedFor, post, sends, steady, atStop>>
      BY <2>1 DEF Del!vars
    <3>2. \A d \in Posts : Untouched(d) BY <3>1 DEF Untouched
    <3>3. DeliveryTypes' /\ TriesLeft' /\ SendersAre' /\ StoppedAre' /\ Del!DrainedIsSettled'
      BY <3>1 DEF DeliveryInv, DeliveryTypes, TriesLeft, SendersAre, StoppedAre, Del!DrainedIsSettled
    <3>4. Del!ReturnedIsAccepted' BY <3>2, UntouchedCalls DEF Del!ReturnedIsAccepted
    <3>q. QED BY <3>3, <3>4 DEF DeliveryInv
  <2>q. QED BY <2>1, DeliversKept, ChecksKept, SendAllKept, AttemptsKept, SettlesKept, EndpointsKept, StopsKept
        DEF Del!Next
<1>2. DeliveryInv => Del!TypeOK
  <2> SUFFICES ASSUME DeliveryInv PROVE Del!TypeOK OBVIOUS
  <2>1. UNION {inFlightRequests, waitedFor, atStop} \subseteq Posts /\ registered \cup unregistered \subseteq Targets
    BY DEF DeliveryInv, DeliveryTypes
  <2>q. QED BY <2>1 DEF DeliveryInv, DeliveryTypes, PostRecords, PostPhases, SendRecords, Del!TypeOK
<1>3. DeliveryInv => Del!ReturnedIsAccepted /\ Del!DrainedIsSettled BY DEF DeliveryInv
<1>q. QED BY <1>1, <1>2, <1>3, DeliveriesStart, PTL DEF Del!Spec

----------------------------------------------------------------------------
(* The alerts. *)
LEMMA AlertsAlone == EdgeSpec => Note!Spec
<1>1. EdgeInit => Note!Init BY DEF EdgeInit
<1>2. [EdgeNext]_edgeVars => [Note!Next]_(Note!vars)
  BY DEF EdgeNext, Others, edgeVars, alertsVars, Note!vars, Note!Next
<1>q. QED BY <1>1, <1>2, PTL DEF EdgeSpec, Note!Spec, edgeVars

Disputes == {DisputeOf[e] : e \in Escalations}

\* s without d: what is left stands where it stood, counted from the end, or closer to it.
LEMMA Removing ==
  ASSUME NEW S, NEW s \in Seq(S), Note!IsInjective(s), NEW d \in S
  PROVE  LET r == Note!RemoveFirst(s, d) IN
         /\ r \in Seq(S) /\ Note!IsInjective(r) /\ Len(r) \in Nat /\ Len(s) \in Nat /\ Len(r) <= Len(s)
         /\ \A i \in 1 .. Len(r) : r[i] # d /\ \E j \in 1 .. Len(s) : r[i] = s[j] /\ j - Len(s) <= i - Len(r)
         /\ \A j \in 1 .. Len(s) : s[j] # d => \E i \in 1 .. Len(r) : r[i] = s[j]
<1> DEFINE r == Note!RemoveFirst(s, d)
<1>1. Len(s) \in Nat /\ DOMAIN s = 1 .. Len(s) /\ \A i \in 1 .. Len(s) : s[i] \in S
  BY LenProperties, ElementOfSeq
<1>2. CASE ~\E i \in 1 .. Len(s) : s[i] = d
  <2>1. r = s BY <1>2 DEF Note!RemoveFirst
  <2>2. \A i \in 1 .. Len(s) : i - Len(s) <= i - Len(s) BY <1>1
  <2> HIDE DEF r
  <2>q. QED BY <1>1, <1>2, <2>1, <2>2 DEF r
<1>3. CASE \E i \in 1 .. Len(s) : s[i] = d
  <2> DEFINE I == {i \in 1 .. Len(s) : s[i] = d}
  <2>1. PICK p \in 1 .. Len(s) : s[p] = d BY <1>3
  <2>2. I = {p} BY <1>1, <2>1 DEF Note!IsInjective
  <2>3. Note!Min({p}) = p BY <2>1 DEF Note!Min
  <2>4. Note!SelectInSeq(s, LAMBDA v : v = d) = p BY <2>2, <2>3 DEF Note!SelectInSeq
  <2>5. r = SubSeq(s, 1, p - 1) \o SubSeq(s, p + 1, Len(s))
    BY <1>3, <2>4 DEF Note!RemoveFirst, Note!RemoveAt
  <2> DEFINE a == SubSeq(s, 1, p - 1)  b == SubSeq(s, p + 1, Len(s))
  <2>6. a \in Seq(S) /\ Len(a) = p - 1 /\ \A i \in 1 .. p - 1 : a[i] = s[i]
    <3>1. p - 1 \in Int /\ 1 \in Int /\ \A i \in 1 .. p - 1 : s[i] \in S BY <1>1, <2>1
    <3>2. /\ a \in Seq(S) /\ Len(a) = IF 1 <= p - 1 THEN (p - 1) - 1 + 1 ELSE 0
          /\ \A i \in 1 .. (p - 1) - 1 + 1 : a[i] = s[1 + i - 1]
      BY <3>1, SubSeqProperties
    <3>q. QED BY <2>1, <3>2
  <2>7. b \in Seq(S) /\ Len(b) = Len(s) - p /\ \A i \in 1 .. Len(s) - p : b[i] = s[p + i]
    <3>1. p + 1 \in Int /\ Len(s) \in Int /\ \A i \in p + 1 .. Len(s) : s[i] \in S BY <1>1, <2>1
    <3>2. /\ b \in Seq(S) /\ Len(b) = IF p + 1 <= Len(s) THEN Len(s) - (p + 1) + 1 ELSE 0
          /\ \A i \in 1 .. Len(s) - (p + 1) + 1 : b[i] = s[(p + 1) + i - 1]
      BY <3>1, SubSeqProperties
    <3>3. \A i \in 1 .. Len(s) - p : (p + 1) + i - 1 = p + i /\ Len(s) - (p + 1) + 1 = Len(s) - p BY <1>1, <2>1
    <3>4. Len(b) = Len(s) - p
      <4>1. Len(b) = IF p + 1 <= Len(s) THEN Len(s) - (p + 1) + 1 ELSE 0 BY <3>2
      <4> HIDE DEF b
      <4>2. Len(s) \in Nat /\ p \in 1 .. Len(s) BY <1>1
      <4>3. \A n \in Nat : \A m \in 1 .. n : (IF m + 1 <= n THEN n - (m + 1) + 1 ELSE 0) = n - m OBVIOUS
      <4>q. QED BY <4>1, <4>2, <4>3
    <3>5. ASSUME NEW i \in 1 .. Len(s) - p PROVE b[i] = s[p + i]
      <4>1. b[i] = s[(p + 1) + i - 1] BY <3>2, <3>3
      <4>q. QED BY <3>3, <4>1
    <3>q. QED BY <3>2, <3>4, <3>5
  <2> HIDE DEF a, b
  <2>8. /\ a \o b \in Seq(S) /\ Len(a \o b) = Len(a) + Len(b)
        /\ \A i \in 1 .. Len(a) + Len(b) : (a \o b)[i] = IF i <= Len(a) THEN a[i] ELSE b[i - Len(a)]
    BY <2>6, <2>7, ConcatProperties
  <2>9. r = a \o b BY <2>5 DEF a, b
  <2> HIDE DEF r
  <2>10. r \in Seq(S) /\ Len(r) = Len(s) - 1
    <3>1. Len(r) = (p - 1) + (Len(s) - p) BY <2>6, <2>7, <2>8, <2>9
    <3>2. \A n \in Nat : \A m \in 1 .. n : (m - 1) + (n - m) = n - 1 OBVIOUS
    <3>3. Len(s) \in Nat /\ p \in 1 .. Len(s) BY <1>1
    <3>q. QED BY <2>8, <2>9, <3>1, <3>2, <3>3
  <2>11. \A i \in 1 .. Len(r) : r[i] = IF i < p THEN s[i] ELSE s[i + 1]
    <3> TAKE i \in 1 .. Len(r)
    <3>1. CASE i < p BY <1>1, <2>1, <2>6, <2>7, <2>8, <2>9, <2>10, <3>1
    <3>2. CASE ~(i < p)
      <4>1. i - (p - 1) \in 1 .. Len(s) - p /\ p + (i - (p - 1)) = i + 1 BY <1>1, <2>1, <2>10, <3>2
      <4>2. b[i - (p - 1)] = s[i + 1] BY <2>7, <4>1
      <4>3. r[i] = b[i - (p - 1)]
        <5>1. Len(a) = p - 1 /\ i \in 1 .. Len(a) + Len(b) /\ ~(i <= Len(a)) BY <1>1, <2>1, <2>6, <2>7, <2>10, <3>2
        <5>2. r[i] = b[i - Len(a)] BY <2>8, <2>9, <5>1
        <5>q. QED BY <5>1, <5>2
      <4>q. QED BY <3>2, <4>2, <4>3
    <3>q. QED BY <3>1, <3>2
  <2>12. \A i, j \in 1 .. Len(s) : s[i] = s[j] => i = j BY <1>1 DEF Note!IsInjective
  <2>13. ASSUME NEW i \in 1 .. Len(r)
         PROVE  r[i] # d /\ \E j \in 1 .. Len(s) : r[i] = s[j] /\ j - Len(s) <= i - Len(r)
    <3>1. CASE i < p
      <4>1. i \in 1 .. Len(s) /\ i - Len(s) <= i - Len(r) /\ i # p BY <1>1, <2>1, <2>10, <3>1, SMTT(30)
      <4>2. r[i] = s[i] BY <2>11, <3>1
      <4>q. QED BY <2>1, <2>12, <4>1, <4>2
    <3>2. CASE ~(i < p)
      <4>1. i + 1 \in 1 .. Len(s) /\ (i + 1) - Len(s) <= i - Len(r) /\ i + 1 # p BY <1>1, <2>1, <2>10, <3>2
      <4>2. r[i] = s[i + 1] BY <2>11, <3>2
      <4>q. QED BY <2>1, <2>12, <4>1, <4>2
    <3>q. QED BY <3>1, <3>2
  <2>14. ASSUME NEW j \in 1 .. Len(s), s[j] # d PROVE \E i \in 1 .. Len(r) : r[i] = s[j]
    <3>1. CASE j < p
      <4>1. j \in 1 .. Len(r) BY <1>1, <2>1, <2>10, <3>1
      <4>q. QED BY <2>11, <3>1, <4>1
    <3>2. CASE j > p
      <4>1. j - 1 \in 1 .. Len(r) /\ ~(j - 1 < p) /\ (j - 1) + 1 = j BY <1>1, <2>1, <2>10, <3>2
      <4>2. r[j - 1] = s[(j - 1) + 1] BY <2>11, <4>1
      <4>q. QED BY <4>1, <4>2
    <3>q. QED BY <2>1, <2>14, <3>1, <3>2
  <2>15. Note!IsInjective(r)
    <3>1. DOMAIN r = 1 .. Len(r) BY <2>10, LenProperties
    <3>2. ASSUME NEW i \in 1 .. Len(r), NEW j \in 1 .. Len(r), r[i] = r[j] PROVE i = j
      <4> DEFINE x == IF i < p THEN i ELSE i + 1  y == IF j < p THEN j ELSE j + 1
      <4>1. x \in 1 .. Len(s) /\ y \in 1 .. Len(s) BY <1>1, <2>1, <2>10
      <4>2. r[i] = s[x] /\ r[j] = s[y] BY <2>11
      <4>3. x = y
        <5> HIDE DEF x, y
        <5>q. QED BY <2>12, <3>2, <4>1, <4>2
      <4>q. QED BY <2>1, <4>3, SMTT(30)
    <3>q. QED BY <3>1, <3>2 DEF Note!IsInjective
  <2>16. Len(r) \in Nat /\ Len(r) <= Len(s) BY <1>1, <2>1, <2>10
  <2>q. QED BY <1>1, <2>10, <2>13, <2>14, <2>15, <2>16 DEF r
<1>q. QED BY <1>2, <1>3

\* F, the failures; L, the list; X, the disputes gone for their age. A dispute stands in the
\* list no farther from its end than its failures stand from theirs, and one that neither
\* stands there nor is too old failed long ago.
Latest(F, X, L) ==
  \A k \in 1 .. Len(F) :
    /\ \A i \in 1 .. Len(L) : L[i] = F[k] => k <= Len(F) - Len(L) + i
    /\ F[k] \in X \/ (\E i \in 1 .. Len(L) : L[i] = F[k]) \/ k <= Len(F) - MaxFailed

\* The first m of the list go, for their age or because the list is too long.
LEMMA Dropping ==
  ASSUME NEW F \in Seq(Disputes), NEW L \in Seq(Disputes), NEW X, NEW Y, NEW m \in 0 .. Len(L), NEW K \in Seq(Disputes),
         Latest(F, X, L), Note!IsInjective(L), X \subseteq Y, Len(K) = Len(L) - m,
         \A i \in 1 .. Len(K) : K[i] = L[m + i],
         \A j \in 1 .. m : L[j] \in Y \/ Len(L) - j >= MaxFailed
  PROVE  Latest(F, Y, K) /\ Note!IsInjective(K)
<1>1. /\ Len(F) \in Nat /\ Len(L) \in Nat /\ Len(K) \in Nat /\ m \in Nat /\ MaxFailed \in Nat
      /\ DOMAIN L = 1 .. Len(L) /\ DOMAIN K = 1 .. Len(K)
  BY LenProperties
<1>2. Note!IsInjective(K)
  <2>1. ASSUME NEW i \in 1 .. Len(K), NEW j \in 1 .. Len(K), K[i] = K[j] PROVE i = j
    <3>1. m + i \in 1 .. Len(L) /\ m + j \in 1 .. Len(L) BY <1>1, SMTT(30)
    <3>2. m + i = m + j BY <1>1, <2>1, <3>1 DEF Note!IsInjective
    <3>q. QED BY <1>1, <3>2
  <2>q. QED BY <1>1, <2>1 DEF Note!IsInjective
<1>3. ASSUME NEW k \in 1 .. Len(F), NEW i \in 1 .. Len(K), K[i] = F[k] PROVE k <= Len(F) - Len(K) + i
  <2>0. K[i] = L[m + i] /\ i \in 1 .. Len(K) /\ Len(K) = Len(L) - m OBVIOUS
  <2>1. m + i \in 1 .. Len(L) /\ L[m + i] = F[k]
    <3>1. m + i \in 1 .. Len(L) BY <1>1, <2>0
    <3>q. QED BY <1>3, <2>0, <3>1
  <2>2. k <= Len(F) - Len(L) + (m + i) BY <2>1 DEF Latest
  <2>3. \A f, l, n, x, y \in Nat : n = l - m => (x <= f - l + (m + y) => x <= f - n + y) BY <1>1
  <2>4. k \in Nat /\ i \in Nat BY <1>1
  <2>q. QED BY <1>1, <2>0, <2>2, <2>3, <2>4
<1>4. ASSUME NEW k \in 1 .. Len(F), F[k] \notin Y, ~(k <= Len(F) - MaxFailed)
      PROVE  \E i \in 1 .. Len(K) : K[i] = F[k]
  <2>1. PICK j \in 1 .. Len(L) : L[j] = F[k] BY <1>4 DEF Latest
  <2>2. k <= Len(F) - Len(L) + j BY <2>1 DEF Latest
  <2>3. ~(j <= m)
    <3>1. j \in Nat /\ k \in Nat BY <1>1
    <3>2. L[j] \notin Y BY <1>4, <2>1
    <3>3. j <= m => Len(L) - j >= MaxFailed BY <3>1, <3>2, <1>1
    <3>4. \A f, l, c, x, y \in Nat : x <= f - l + y /\ l - y >= c => x <= f - c OBVIOUS
    <3>q. QED BY <1>1, <1>4, <2>2, <3>1, <3>3, <3>4
  <2>4. j - m \in 1 .. Len(K) /\ m + (j - m) = j BY <1>1, <2>1, <2>3
  <2>5. K[j - m] = F[k] BY <2>1, <2>4
  <2>q. QED BY <2>4, <2>5
<1>q. QED BY <1>2, <1>3, <1>4 DEF Latest

LEMMA Recording ==
  ASSUME NEW F \in Seq(Disputes), NEW L \in Seq(Disputes), NEW X, NEW d \in Disputes,
         Latest(F, X, L), Note!IsInjective(L), Len(L) <= MaxFailed
  PROVE  LET all == Append(Note!RemoveFirst(L, d), d)
             K == IF Len(all) > MaxFailed THEN Tail(all) ELSE all IN
         K \in Seq(Disputes) /\ Len(K) <= MaxFailed /\ Note!IsInjective(K) /\ Latest(Append(F, d), X \ {d}, K)
<1> DEFINE r == Note!RemoveFirst(L, d)
           all == Append(r, d)
           G == Append(F, d)
           K == IF Len(all) > MaxFailed THEN Tail(all) ELSE all
<1>1. /\ r \in Seq(Disputes) /\ Note!IsInjective(r) /\ Len(r) \in Nat /\ Len(L) \in Nat /\ Len(r) <= Len(L)
      /\ \A i \in 1 .. Len(r) : r[i] # d /\ \E j \in 1 .. Len(L) : r[i] = L[j] /\ j - Len(L) <= i - Len(r)
      /\ \A j \in 1 .. Len(L) : L[j] # d => \E i \in 1 .. Len(r) : r[i] = L[j]
  BY Removing, SMTT(30)
<1> HIDE DEF r
<1>2. /\ all \in Seq(Disputes) /\ Len(all) = Len(r) + 1 /\ all[Len(r) + 1] = d
      /\ \A i \in 1 .. Len(r) : all[i] = r[i]
      /\ G \in Seq(Disputes) /\ Len(G) = Len(F) + 1 /\ G[Len(F) + 1] = d /\ Len(F) \in Nat
      /\ \A i \in 1 .. Len(F) : G[i] = F[i]
  BY <1>1, AppendProperties, LenProperties
<1> HIDE DEF all, G
<1>3. MaxFailed \in Nat OBVIOUS
<1>4. Note!IsInjective(all)
  <2>1. DOMAIN all = 1 .. Len(r) + 1 /\ DOMAIN r = 1 .. Len(r) BY <1>1, <1>2, LenProperties
  <2>2. \A i, j \in 1 .. Len(r) : r[i] = r[j] => i = j BY <1>1, <2>1 DEF Note!IsInjective
  <2>3. ASSUME NEW i \in 1 .. Len(r) + 1, NEW j \in 1 .. Len(r) + 1, all[i] = all[j] PROVE i = j
    <3>1. CASE i \in 1 .. Len(r) /\ j \in 1 .. Len(r) BY <1>2, <2>2, <2>3, <3>1
    <3>2. CASE i = Len(r) + 1 /\ j \in 1 .. Len(r) BY <1>1, <1>2, <2>3, <3>2
    <3>3. CASE j = Len(r) + 1 /\ i \in 1 .. Len(r) BY <1>1, <1>2, <2>3, <3>3
    <3>4. CASE i = Len(r) + 1 /\ j = Len(r) + 1 BY <3>4
    <3>q. QED BY <1>1, <3>1, <3>2, <3>3, <3>4, SMTT(30)
  <2>q. QED BY <2>1, <2>3 DEF Note!IsInjective
<1>5. Latest(G, X \ {d}, all)
  <2>1. ASSUME NEW k \in 1 .. Len(G), NEW i \in 1 .. Len(all), all[i] = G[k]
        PROVE  k <= Len(G) - Len(all) + i
    <3>1. CASE i = Len(r) + 1 BY <1>1, <1>2, <3>1
    <3>2. CASE i \in 1 .. Len(r)
      <4>1. G[k] = r[i] /\ r[i] # d BY <1>1, <1>2, <2>1, <3>2
      <4>2. k \in 1 .. Len(F) /\ F[k] = r[i] BY <1>2, <4>1, SMTT(30)
      <4>3. PICK j \in 1 .. Len(L) : r[i] = L[j] /\ j - Len(L) <= i - Len(r) BY <1>1, <3>2
      <4>4. k <= Len(F) - Len(L) + j BY <4>2, <4>3 DEF Latest
      <4>q. QED BY <1>1, <1>2, <3>2, <4>3, <4>4
    <3>q. QED BY <1>1, <1>2, <3>1, <3>2
  <2>2. ASSUME NEW k \in 1 .. Len(G), G[k] \notin X \ {d}, ~(k <= Len(G) - MaxFailed)
        PROVE  \E i \in 1 .. Len(all) : all[i] = G[k]
    <3>0. Len(r) + 1 \in 1 .. Len(all) BY <1>1, <1>2
    <3>1. CASE G[k] = d BY <1>2, <3>0, <3>1
    <3>2. CASE G[k] # d
      <4>1. k \in 1 .. Len(F) /\ F[k] = G[k] BY <1>2, <3>2, SMTT(30)
      <4>2. ~(k <= Len(F) - MaxFailed) BY <1>2, <1>3, <2>2
      <4>3. PICK j \in 1 .. Len(L) : L[j] = F[k] BY <2>2, <3>2, <4>1, <4>2 DEF Latest
      <4>4. PICK i \in 1 .. Len(r) : r[i] = L[j] BY <1>1, <3>2, <4>1, <4>3
      <4>5. i \in 1 .. Len(all) BY <1>1, <1>2
      <4>6. all[i] = G[k] BY <1>2, <4>1, <4>3, <4>4
      <4>q. QED BY <4>5, <4>6
    <3>q. QED BY <3>1, <3>2
  <2>q. QED BY <2>1, <2>2 DEF Latest
<1>6. CASE ~(Len(all) > MaxFailed)
  <2>1. K = all /\ Len(all) <= MaxFailed BY <1>1, <1>2, <1>3, <1>6
  <2> HIDE DEF K
  <2>q. QED BY <1>2, <1>4, <1>5, <2>1 DEF K, all, G, r
<1>7. CASE Len(all) > MaxFailed
  <2>1. K = Tail(all) BY <1>7
  <2> HIDE DEF K
  <2>2. all # <<>> BY <1>1, <1>2, EmptySeq
  <2>3. K \in Seq(Disputes) /\ Len(K) = Len(all) - 1 /\ \A i \in 1 .. Len(K) : K[i] = all[i + 1]
    BY <1>2, <2>1, <2>2, HeadTailProperties
  <2>4. Len(all) \in Nat /\ Len(all) = MaxFailed + 1
    <3>1. Len(L) <= MaxFailed OBVIOUS
    <3>2. \A l, n, x \in Nat : n <= l /\ l <= x /\ n + 1 > x => n + 1 = x + 1 OBVIOUS
    <3>3. Len(r) \in Nat /\ Len(L) \in Nat /\ Len(r) <= Len(L) /\ Len(all) = Len(r) + 1 BY <1>1, <1>2
    <3>q. QED BY <1>3, <1>7, <3>1, <3>2, <3>3
  <2>5. 1 \in 0 .. Len(all) /\ Len(K) <= MaxFailed /\ \A j \in 1 .. 1 : Len(all) - j >= MaxFailed
    BY <1>3, <2>3, <2>4
  <2>6. \A i \in 1 .. Len(K) : K[i] = all[1 + i] BY <2>3
  <2>7. Latest(G, X \ {d}, K) /\ Note!IsInjective(K)
    <3>1. \A j \in 1 .. 1 : all[j] \in X \ {d} \/ Len(all) - j >= MaxFailed BY <2>5
    <3> DEFINE Y == X \ {d}
    <3>2. Y \subseteq Y /\ Latest(G, Y, all) BY <1>5
    <3>3. \A j \in 1 .. 1 : all[j] \in Y \/ Len(all) - j >= MaxFailed BY <3>1
    <3>4. /\ G \in Seq(Disputes) /\ all \in Seq(Disputes) /\ K \in Seq(Disputes) /\ 1 \in 0 .. Len(all)
          /\ Note!IsInjective(all) /\ Len(K) = Len(all) - 1
      BY <1>2, <1>4, <2>3, <2>5
    <3> HIDE DEF Y
    <3>5. Latest(G, Y, K) /\ Note!IsInjective(K) BY <2>6, <3>2, <3>3, <3>4, Dropping
    <3>q. QED BY <3>5 DEF Y
  <2>q. QED BY <2>3, <2>5, <2>7 DEF K, all, G, r
<1>q. QED BY <1>6, <1>7

AlertRecords == [posts : 0 .. MaxPosts, state : {"posting", "sent", "failed"}]
LetterRecords == [state : {"new", "writing", "over"}, wanted : SUBSET {"mail", "push"},
                  tries : [{"mail", "push"} -> Nat], took : SUBSET {"mail", "push"}, told : BOOLEAN]
AlertInv ==
  /\ alert \in [Escalations -> AlertRecords]
  /\ \A e \in Escalations : alert[e].state = "posting" => alert[e].posts < MaxPosts
  /\ failures \in Seq(Disputes) /\ failedNotifications \in Seq(Disputes) /\ expired \subseteq Disputes
  /\ Note!IsInjective(failedNotifications) /\ Len(failedNotifications) <= MaxFailed
  /\ Latest(failures, expired, failedNotifications)
  /\ \A e \in Escalations : alert[e].state = "failed" => \E k \in 1 .. Len(failures) : failures[k] = DisputeOf[e]
LetterInv ==
  /\ preferences \subseteq {"mail", "push"} /\ letter \in [Letters -> LetterRecords]
  /\ \A n \in Letters : letter[n].state = "new" => letter[n].took = {} /\ ~letter[n].told
  /\ Note!ReportedAsTaken

LEMMA AlertsStart == Note!Init => AlertInv /\ LetterInv
<1> SUFFICES ASSUME Note!Init PROVE AlertInv /\ LetterInv OBVIOUS
<1>1. /\ alert = [e \in Escalations |-> [posts |-> 0, state |-> "posting"]]
      /\ failedNotifications = <<>> /\ failures = <<>> /\ expired = {}
      /\ preferences = {"mail", "push"}
      /\ letter = [n \in Letters |-> [state |-> "new", wanted |-> {}, tries |-> [c \in {"mail", "push"} |-> 0],
                                      took |-> {}, told |-> FALSE]]
  BY DEF Note!Init, Note!NoLetter, Note!Channels
<1>2. AlertInv
  <2>1. <<>> \in Seq(Disputes) /\ Len(<<>>) = 0 /\ DOMAIN <<>> = {} BY EmptySeq, LenProperties
  <2>2. Note!IsInjective(<<>>) BY <2>1 DEF Note!IsInjective
  <2>3. Latest(<<>>, {}, <<>>) BY <2>1 DEF Latest
  <2>4. alert \in [Escalations -> AlertRecords] /\ \A e \in Escalations : alert[e].state = "posting" /\ alert[e].posts < MaxPosts
    BY <1>1 DEF AlertRecords
  <2>q. QED BY <1>1, <2>1, <2>2, <2>3, <2>4 DEF AlertInv
<1>3. LetterInv BY <1>1 DEF LetterInv, LetterRecords, Note!ReportedAsTaken
<1>q. QED BY <1>2, <1>3

LEMMA PostsKept == ASSUME AlertInv, NEW e \in Escalations, Note!PostAlert(e) PROVE AlertInv'
<1>1. PICK reply_ \in {"accepted", "lost", "status"} :
        LET final == reply_ = "status" \/ (reply_ = "lost" /\ alert[e].posts + 1 = MaxPosts) IN
        /\ alert' = [alert EXCEPT ![e] = [posts |-> @.posts + 1,
             state |-> IF final THEN "failed" ELSE IF reply_ = "accepted" THEN "sent" ELSE "posting"]]
        /\ IF final THEN /\ Note!Record(DisputeOf[e]) /\ failures' = Append(failures, DisputeOf[e])
                         /\ expired' = expired \ {DisputeOf[e]}
                    ELSE UNCHANGED <<failedNotifications, failures, expired>>
  BY DEF Note!PostAlert
<1> DEFINE final == reply_ = "status" \/ (reply_ = "lost" /\ alert[e].posts + 1 = MaxPosts)
           next == IF final THEN "failed" ELSE IF reply_ = "accepted" THEN "sent" ELSE "posting"
<1>2. alert[e].posts + 1 \in 0 .. MaxPosts /\ alert \in [Escalations -> AlertRecords]
  BY DEF AlertInv, AlertRecords, Note!PostAlert
<1>3. /\ next \in {"posting", "sent", "failed"}
      /\ next = "posting" => alert[e].posts + 1 # MaxPosts
      /\ next = "failed" => final
  OBVIOUS
<1>4. alert' = [alert EXCEPT ![e] = [posts |-> alert[e].posts + 1, state |-> next]] BY <1>1
<1>5. IF final THEN /\ Note!Record(DisputeOf[e]) /\ failures' = Append(failures, DisputeOf[e])
                    /\ expired' = expired \ {DisputeOf[e]}
      ELSE UNCHANGED <<failedNotifications, failures, expired>>
  BY <1>1
<1> HIDE DEF final, next
<1>6. /\ alert' \in [Escalations -> AlertRecords]
      /\ alert'[e].state = next /\ alert'[e].posts = alert[e].posts + 1
      /\ \A x \in Escalations : x # e => alert'[x] = alert[x]
  BY <1>2, <1>3, <1>4 DEF AlertRecords
<1>7. \A x \in Escalations : alert'[x].state = "posting" => alert'[x].posts < MaxPosts
  <2>1. alert'[e].state = "posting" => alert'[e].posts < MaxPosts BY <1>2, <1>3, <1>6
  <2>q. QED BY <1>6, <2>1 DEF AlertInv
<1>8. CASE final
  <2>1. DisputeOf[e] \in Disputes BY DEF Disputes
  <2>2. failedNotifications' = (LET all == Append(Note!RemoveFirst(failedNotifications, DisputeOf[e]), DisputeOf[e]) IN
                                IF Len(all) > MaxFailed THEN Tail(all) ELSE all)
    BY <1>5, <1>8 DEF Note!Record
  <2>3. /\ failedNotifications' \in Seq(Disputes) /\ Len(failedNotifications') <= MaxFailed
        /\ Note!IsInjective(failedNotifications')
        /\ Latest(Append(failures, DisputeOf[e]), expired \ {DisputeOf[e]}, failedNotifications')
    BY <2>1, <2>2, Recording DEF AlertInv
  <2>4. failures' = Append(failures, DisputeOf[e]) /\ expired' = expired \ {DisputeOf[e]} BY <1>5, <1>8
  <2>5. /\ failures' \in Seq(Disputes) /\ Len(failures') = Len(failures) + 1 /\ Len(failures) \in Nat
        /\ failures'[Len(failures) + 1] = DisputeOf[e] /\ \A k \in 1 .. Len(failures) : failures'[k] = failures[k]
    BY <2>1, <2>4, AppendProperties, LenProperties DEF AlertInv
  <2>6. ASSUME NEW x \in Escalations, alert'[x].state = "failed" PROVE \E k \in 1 .. Len(failures') : failures'[k] = DisputeOf[x]
    <3>1. CASE x = e
      <4>1. Len(failures) + 1 \in 1 .. Len(failures') BY <2>5
      <4>q. QED BY <2>5, <3>1, <4>1
    <3>2. CASE x # e
      <4>1. PICK k \in 1 .. Len(failures) : failures[k] = DisputeOf[x] BY <1>6, <2>6, <3>2 DEF AlertInv
      <4>2. k \in 1 .. Len(failures') BY <2>5
      <4>q. QED BY <2>5, <4>1, <4>2
    <3>q. QED BY <3>1, <3>2
  <2>7. expired' \subseteq Disputes BY <2>4 DEF AlertInv
  <2>8. Latest(failures', expired', failedNotifications') BY <2>3, <2>4
  <2>q. QED BY <1>6, <1>7, <2>3, <2>5, <2>6, <2>7, <2>8 DEF AlertInv, Latest, Note!IsInjective
<1>9. CASE ~final
  <2>1. UNCHANGED <<failedNotifications, failures, expired>> BY <1>5, <1>9
  <2>2. \A x \in Escalations : alert'[x].state = "failed" => alert[x].state = "failed" BY <1>3, <1>6, <1>9
  <2>q. QED BY <1>6, <1>7, <2>1, <2>2 DEF AlertInv, Latest, Note!IsInjective
<1>q. QED BY <1>8, <1>9

LEMMA EvictionsKept == ASSUME AlertInv, Note!EvictExpired PROVE AlertInv'
<1>1. PICK k \in 1 .. Len(failedNotifications) :
        /\ expired' = expired \cup Note!ToSet(SubSeq(failedNotifications, 1, k))
        /\ failedNotifications' = SubSeq(failedNotifications, k + 1, Len(failedNotifications))
  BY DEF Note!EvictExpired
<1>2. UNCHANGED <<alert, failures>> BY DEF Note!EvictExpired
<1> DEFINE L == failedNotifications  K == SubSeq(L, k + 1, Len(L))  P == SubSeq(L, 1, k)
<1>3. Len(L) \in Nat /\ k \in 1 .. Len(L) /\ k \in Nat /\ L \in Seq(Disputes) /\ \A i \in 1 .. Len(L) : L[i] \in Disputes
  BY LenProperties, ElementOfSeq DEF AlertInv
<1>4. P \in Seq(Disputes) /\ Len(P) = k /\ \A i \in 1 .. k : P[i] = L[i]
  <2>1. \A i \in 1 .. k : L[i] \in Disputes BY <1>3
  <2>2. /\ P \in Seq(Disputes) /\ Len(P) = IF 1 <= k THEN k - 1 + 1 ELSE 0
        /\ \A i \in 1 .. k - 1 + 1 : P[i] = L[1 + i - 1]
    BY <2>1, <1>3, SubSeqProperties
  <2> HIDE DEF P, L
  <2>3. \A i \in 1 .. k : 1 + i - 1 = i /\ i \in 1 .. k - 1 + 1 BY <1>3
  <2>4. Len(P) = k BY <1>3, <2>2
  <2>5. ASSUME NEW i \in 1 .. k PROVE P[i] = L[i]
    <3>1. P[i] = L[1 + i - 1] BY <2>2, <2>3
    <3>q. QED BY <2>3, <3>1
  <2>q. QED BY <2>2, <2>4, <2>5
<1>5. K \in Seq(Disputes) /\ Len(K) = Len(L) - k /\ \A i \in 1 .. Len(K) : K[i] = L[k + i]
  <2>1. \A i \in k + 1 .. Len(L) : L[i] \in Disputes BY <1>3
  <2>2. /\ K \in Seq(Disputes) /\ Len(K) = IF k + 1 <= Len(L) THEN Len(L) - (k + 1) + 1 ELSE 0
        /\ \A i \in 1 .. Len(L) - (k + 1) + 1 : K[i] = L[(k + 1) + i - 1]
    BY <2>1, <1>3, SubSeqProperties
  <2> HIDE DEF K, L
  <2>3. \A n \in Nat : \A m \in 1 .. n : (IF m + 1 <= n THEN n - (m + 1) + 1 ELSE 0) = n - m OBVIOUS
  <2>4. Len(K) = Len(L) - k BY <1>3, <2>2, <2>3
  <2>5. \A i \in 1 .. Len(K) : i \in 1 .. Len(L) - (k + 1) + 1 /\ (k + 1) + i - 1 = k + i BY <1>3, <2>4
  <2>6. ASSUME NEW i \in 1 .. Len(K) PROVE K[i] = L[k + i]
    <3>1. K[i] = L[(k + 1) + i - 1] BY <2>2, <2>5
    <3>q. QED BY <2>5, <3>1
  <2>q. QED BY <2>2, <2>4, <2>6
<1>6. Note!ToSet(P) \subseteq Disputes /\ \A j \in 1 .. k : L[j] \in Note!ToSet(P)
  <2>1. DOMAIN P = 1 .. k BY <1>4, LenProperties
  <2>2. \A j \in 1 .. k : j \in 1 .. Len(L) BY <1>3
  <2> HIDE DEF P, L
  <2>q. QED BY <1>3, <1>4, <2>1, <2>2 DEF Note!ToSet
<1>7. k \in 0 .. Len(L) BY <1>3
<1>8. expired' = expired \cup Note!ToSet(P) /\ failedNotifications' = K BY <1>1
<1> HIDE DEF K, P
<1>9. Latest(failures, expired', K) /\ Note!IsInjective(K)
  <2>1. \A j \in 1 .. k : L[j] \in expired' \/ Len(L) - j >= MaxFailed BY <1>6, <1>8
  <2>2. expired \subseteq expired' BY <1>8
  <2>3. failures \in Seq(Disputes) /\ Latest(failures, expired, L) /\ Note!IsInjective(L) BY DEF AlertInv
  <2> HIDE DEF L
  <2>4. PICK Y : Y = expired' OBVIOUS
  <2>5. /\ failures \in Seq(Disputes) /\ L \in Seq(Disputes) /\ K \in Seq(Disputes) /\ k \in 0 .. Len(L)
        /\ Latest(failures, expired, L) /\ Note!IsInjective(L) /\ expired \subseteq Y
        /\ Len(K) = Len(L) - k /\ \A i \in 1 .. Len(K) : K[i] = L[k + i]
        /\ \A j \in 1 .. k : L[j] \in Y \/ Len(L) - j >= MaxFailed
    BY <1>3, <1>5, <1>7, <2>1, <2>2, <2>3, <2>4
  <2>6. Latest(failures, Y, K) /\ Note!IsInjective(K) BY <2>5, Dropping, ZenonT(60)
  <2>q. QED BY <2>4, <2>6
<1>10. Len(K) <= MaxFailed BY <1>3, <1>5 DEF AlertInv
<1>q. QED BY <1>2, <1>5, <1>6, <1>8, <1>9, <1>10 DEF AlertInv, Latest, Note!IsInjective

LEMMA LettersKept ==
  ASSUME LetterInv, Note!UpdatePreferences \/ \E n \in Letters : Note!Begin(n) \/ Note!Try(n) \/ Note!End(n)
  PROVE  LetterInv'
<1> USE DEF Note!Channels
<1>1. CASE Note!UpdatePreferences
  <2>1. UNCHANGED letter /\ preferences' \subseteq {"mail", "push"} BY <1>1 DEF Note!UpdatePreferences, LetterInv
  <2>q. QED BY <2>1 DEF LetterInv, Note!ReportedAsTaken
<1>2. ASSUME NEW n \in Letters, letter' \in [Letters -> LetterRecords], UNCHANGED preferences,
             \A m \in Letters \ {n} : letter'[m] = letter[m],
             letter'[n].state = "new" => letter'[n].took = {} /\ ~letter'[n].told,
             letter'[n].state = "over" =>
               /\ letter'[n].told = (letter'[n].took # {})
               /\ letter'[n].told \/ \A c \in letter'[n].wanted : letter'[n].tries[c] = Note!Triable[c]
      PROVE  LetterInv'
  <2>1. \A m \in Letters : letter'[m].state = "new" => letter'[m].took = {} /\ ~letter'[m].told
    BY <1>2 DEF LetterInv
  <2>2. ASSUME NEW m \in Letters, letter'[m].state = "over"
        PROVE  /\ letter'[m].told = (letter'[m].took # {})
               /\ letter'[m].told \/ \A c \in letter'[m].wanted : letter'[m].tries[c] = Note!Triable[c]
    <3>1. CASE m = n BY <1>2, <2>2, <3>1
    <3>2. CASE m # n
      <4>1. letter'[m] = letter[m] BY <1>2, <3>2
      <4>q. QED BY <2>2, <4>1 DEF LetterInv, Note!ReportedAsTaken
    <3>q. QED BY <3>1, <3>2
  <2>3. Note!ReportedAsTaken' BY <2>2 DEF Note!ReportedAsTaken
  <2>q. QED BY <1>2, <2>1, <2>3 DEF LetterInv
<1>3. ASSUME NEW n \in Letters, Note!Begin(n) PROVE LetterInv'
  <2> DEFINE next == IF preferences = {} THEN "over" ELSE "writing"
  <2>1. /\ letter[n].state = "new" /\ UNCHANGED preferences
        /\ letter' = [letter EXCEPT ![n].state = next, ![n].wanted = preferences]
    BY <1>3 DEF Note!Begin
  <2>2. /\ letter \in [Letters -> LetterRecords] /\ letter[n] \in LetterRecords
        /\ letter[n].took = {} /\ ~letter[n].told /\ preferences \in SUBSET {"mail", "push"}
    BY <2>1 DEF LetterInv
  <2>3. next \in {"over", "writing"} /\ (next = "over" => preferences = {}) OBVIOUS
  <2> HIDE DEF next
  <2>4. /\ letter'[n] = [letter[n] EXCEPT !.state = next, !.wanted = preferences]
        /\ \A m \in Letters \ {n} : letter'[m] = letter[m]
    BY <2>1, <2>2
  <2>5. /\ letter'[n] \in LetterRecords /\ letter'[n].state = next /\ letter'[n].wanted = preferences
        /\ letter'[n].took = letter[n].took /\ letter'[n].told = letter[n].told
    BY <2>2, <2>3, <2>4 DEF LetterRecords
  <2>6. letter' \in [Letters -> LetterRecords] BY <2>1, <2>2, <2>5
  <2>7. letter'[n].told = FALSE /\ letter'[n].took = {} BY <2>2, <2>5 DEF LetterRecords
  <2>8. letter'[n].state # "new" /\ (letter'[n].state = "over" => letter'[n].wanted = {}) BY <2>3, <2>5
  <2>9. letter'[n].state = "over" =>
          /\ letter'[n].told = (letter'[n].took # {})
          /\ letter'[n].told \/ \A c \in letter'[n].wanted : letter'[n].tries[c] = Note!Triable[c]
    <3>1. ASSUME letter'[n].state = "over" PROVE letter'[n].told = (letter'[n].took # {}) BY <2>7
    <3>2. ASSUME letter'[n].state = "over"
          PROVE  \A c \in letter'[n].wanted : letter'[n].tries[c] = Note!Triable[c] BY <2>8, <3>2
    <3>q. QED BY <3>1, <3>2
  <2>10. letter'[n].state = "new" => letter'[n].took = {} /\ ~letter'[n].told BY <2>8
  <2>11. UNCHANGED preferences BY <2>1
  <2>q. QED BY <1>2, <2>4, <2>6, <2>9, <2>10, <2>11
<1>4. ASSUME NEW n \in Letters, Note!Try(n) PROVE LetterInv'
  <2>1. PICK c \in {"mail", "push"}, taken \in BOOLEAN :
          letter' = [letter EXCEPT ![n].tries[c] = @ + 1, ![n].took = IF taken THEN @ \cup {c} ELSE @]
    BY <1>4 DEF Note!Try
  <2>2. letter[n].state = "writing" /\ UNCHANGED preferences BY <1>4 DEF Note!Try
  <2>3. /\ letter \in [Letters -> LetterRecords] /\ letter[n] \in LetterRecords BY DEF LetterInv
  <2>4. /\ letter'[n] = [letter[n] EXCEPT !.tries[c] = @ + 1, !.took = IF taken THEN @ \cup {c} ELSE @]
        /\ \A m \in Letters \ {n} : letter'[m] = letter[m]
    BY <2>1, <2>3
  <2> DEFINE tried == [letter[n].tries EXCEPT ![c] = @ + 1]
             took == IF taken THEN letter[n].took \cup {c} ELSE letter[n].took
  <2>5. tried \in [{"mail", "push"} -> Nat] /\ took \in SUBSET {"mail", "push"} BY <2>3 DEF LetterRecords
  <2>6. letter'[n] = [letter[n] EXCEPT !.tries = tried, !.took = took] BY <2>3, <2>4 DEF LetterRecords
  <2> HIDE DEF tried, took
  <2>7. letter'[n] \in LetterRecords /\ letter'[n].state = "writing" BY <2>2, <2>3, <2>5, <2>6 DEF LetterRecords
  <2>8. letter' \in [Letters -> LetterRecords] BY <2>1, <2>3, <2>7
  <2>q. QED BY <1>2, <2>2, <2>4, <2>7, <2>8
<1>5. ASSUME NEW n \in Letters, Note!End(n) PROVE LetterInv'
  <2>1. /\ letter[n].state = "writing" /\ UNCHANGED preferences
        /\ \A c \in {"mail", "push"} : c \notin letter[n].wanted \/ c \in letter[n].took \/ letter[n].tries[c] = Note!Triable[c]
        /\ letter' = [letter EXCEPT ![n].state = "over", ![n].told = (letter[n].took # {})]
    BY <1>5 DEF Note!End, Note!Over, Note!Told
  <2>2. letter \in [Letters -> LetterRecords] /\ letter[n] \in LetterRecords BY DEF LetterInv
  <2>3. PICK t \in BOOLEAN : t <=> letter[n].took # {} OBVIOUS
  <2>4. /\ letter'[n] = [letter[n] EXCEPT !.state = "over", !.told = (letter[n].took # {})]
        /\ \A m \in Letters \ {n} : letter'[m] = letter[m]
    BY <2>1, <2>2
  <2>5. /\ letter'[n].state = "over" /\ letter'[n].took = letter[n].took /\ letter'[n].tries = letter[n].tries
        /\ letter'[n].wanted = letter[n].wanted /\ letter'[n].told = (letter[n].took # {})
    BY <2>2, <2>4 DEF LetterRecords
  <2>6. letter'[n] \in LetterRecords BY <2>2, <2>4 DEF LetterRecords
  <2>7. letter' \in [Letters -> LetterRecords] BY <2>1, <2>2, <2>6
  <2>8. letter'[n].told = (letter'[n].took # {}) BY <2>5
  <2>9. ~letter'[n].told => \A c \in letter'[n].wanted : letter'[n].tries[c] = Note!Triable[c]
    <3>1. letter[n].wanted \subseteq {"mail", "push"} BY <2>2 DEF LetterRecords
    <3>2. ~letter'[n].told => letter[n].took = {} BY <2>5
    <3>q. QED BY <2>1, <2>5, <3>1, <3>2
  <2>q. QED BY <1>2, <2>1, <2>4, <2>5, <2>7, <2>8, <2>9
<1>q. QED BY <1>1, <1>3, <1>4, <1>5

LEMMA AlertsKept == Note!Spec => [](Note!TypeOK /\ Note!LatestFailuresListed /\ Note!ReportedAsTaken)
<1>1. AlertInv /\ LetterInv /\ [Note!Next]_(Note!vars) => AlertInv' /\ LetterInv'
  <2> SUFFICES ASSUME AlertInv, LetterInv, [Note!Next]_(Note!vars) PROVE AlertInv' /\ LetterInv' OBVIOUS
  <2>1. ASSUME UNCHANGED <<preferences, letter>> PROVE LetterInv'
    BY <2>1 DEF LetterInv, Note!ReportedAsTaken
  <2>2. ASSUME UNCHANGED <<alert, failedNotifications, failures, expired>> PROVE AlertInv'
    BY <2>2 DEF AlertInv, Latest, Note!IsInjective
  <2>3. CASE Note!NextAlert
    <3>1. UNCHANGED <<preferences, letter>> BY <2>3 DEF Note!NextAlert, Note!PostAlert, Note!EvictExpired
    <3>q. QED BY <2>1, <2>3, <3>1, PostsKept, EvictionsKept DEF Note!NextAlert
  <2>4. CASE Note!NextLetter
    <3>1. UNCHANGED <<alert, failedNotifications, failures, expired>>
      BY <2>4 DEF Note!NextLetter, Note!UpdatePreferences, Note!Begin, Note!Try, Note!End
    <3>q. QED BY <2>2, <2>4, <3>1, LettersKept DEF Note!NextLetter
  <2>5. CASE UNCHANGED Note!vars BY <2>1, <2>2, <2>5 DEF Note!vars
  <2>q. QED BY <2>3, <2>4, <2>5 DEF Note!Next
<1>2. AlertInv /\ LetterInv => Note!TypeOK
  <2> SUFFICES ASSUME AlertInv, LetterInv PROVE Note!TypeOK OBVIOUS
  <2>1. Note!ToSet(failures) \subseteq Disputes
    <3>1. DOMAIN failures = 1 .. Len(failures) /\ \A i \in 1 .. Len(failures) : failures[i] \in Disputes
      BY LenProperties, ElementOfSeq DEF AlertInv
    <3>q. QED BY <3>1 DEF Note!ToSet
  <2>2. \A n \in Letters : /\ letter[n].state \in {"new", "writing", "over"}
                           /\ UNION {letter[n].wanted, letter[n].took} \subseteq {"mail", "push"}
    BY DEF LetterInv, LetterRecords
  <2>3. Note!ToSet(failures) \cup expired \subseteq {DisputeOf[e] : e \in Escalations}
    BY <2>1 DEF AlertInv, Disputes
  <2>q. QED BY <2>2, <2>3 DEF AlertInv, AlertRecords, LetterInv, Note!TypeOK, Note!Channels
<1>3. AlertInv /\ LetterInv => Note!LatestFailuresListed /\ Note!ReportedAsTaken
  <2> SUFFICES ASSUME AlertInv, LetterInv PROVE Note!LatestFailuresListed BY DEF LetterInv
  <2>1. /\ DOMAIN failures = 1 .. Len(failures) /\ Len(failures) \in Nat
        /\ DOMAIN failedNotifications = 1 .. Len(failedNotifications)
    BY LenProperties DEF AlertInv
  <2>2. \A e \in Escalations : alert[e].state = "failed" => DisputeOf[e] \in Note!ToSet(failures)
    BY <2>1 DEF AlertInv, Note!ToSet
  <2>3. ASSUME NEW k \in 1 .. Len(failures), k > Len(failures) - MaxFailed
        PROVE  failures[k] \in Note!ToSet(failedNotifications) \cup expired
    <3>1. ~(k <= Len(failures) - MaxFailed) BY <2>1, <2>3
    <3>2. failures[k] \in expired \/ \E i \in 1 .. Len(failedNotifications) : failedNotifications[i] = failures[k]
      BY <3>1 DEF AlertInv, Latest
    <3>q. QED BY <2>1, <3>2 DEF Note!ToSet
  <2>4. Len(failedNotifications) <= MaxFailed BY DEF AlertInv
  <2>q. QED BY <2>2, <2>3, <2>4 DEF Note!LatestFailuresListed
<1>q. QED BY <1>1, <1>2, <1>3, AlertsStart, PTL DEF Note!Spec

----------------------------------------------------------------------------
(* The balance of the platform. *)

LEMMA BalanceAlone == EdgeSpec => Bal!Spec
<1>1. EdgeInit => Bal!Init BY DEF EdgeInit
<1>2. [EdgeNext]_edgeVars => [Bal!Next]_(Bal!vars)
  BY DEF EdgeNext, Others, edgeVars, balanceVars, Bal!vars
<1>q. QED BY <1>1, <1>2, PTL DEF EdgeSpec, Bal!Spec, edgeVars

Levels == {"CRITICAL", "WARNING"}
BalanceAlerts == [by : Watchers, level : Levels, at : 0 .. LastLook, sent : BOOLEAN]
BalanceTypes ==
  /\ time \in 0 .. LastLook /\ time >= Cooldown /\ balance \in {"CRITICAL", "WARNING", "healthy"}
  /\ unsent \in 0 .. MaxUnsent
  /\ looks \in [Watchers -> Nat] /\ \A w \in Watchers : looks[w] <= time
  /\ lastAlert \in [Watchers -> [Levels -> Nat]]
  /\ alerts \subseteq BalanceAlerts /\ seen \subseteq [by : Watchers, level : Levels, at : 0 .. LastLook]
\* The stamp of a level is the time of its latest alert.
StampsAre ==
  /\ \A a \in alerts : a.at <= lastAlert[a.by][a.level] /\ a.at # 0
  /\ \A w \in Watchers : \A l \in Levels :
       /\ lastAlert[w][l] <= time
       /\ lastAlert[w][l] # 0 => \E a \in alerts : a.by = w /\ a.level = l /\ a.at = lastAlert[w][l]
BalanceInv == BalanceTypes /\ StampsAre /\ Bal!AlertsArePaced

LEMMA BalanceStarts == Bal!Init => BalanceInv
BY DEF Bal!Init, Bal!Levels, Levels, BalanceInv, BalanceTypes, StampsAre, Bal!AlertsArePaced

Alerted(w, l) == \E a \in alerts : a.by = w /\ a.level = l /\ a.at <= time /\ time < a.at + Cooldown
LEMMA TriggersPaced ==
  ASSUME BalanceInv, NEW w \in Watchers, NEW l \in Levels, NEW sent \in BOOLEAN,
         Bal!TriggerAlert(w, l, sent), UNCHANGED time
  PROVE  /\ alerts \subseteq alerts' /\ alerts' \subseteq BalanceAlerts /\ Alerted(w, l)'
         /\ lastAlert' \in [Watchers -> [Levels -> Nat]] /\ StampsAre'
         /\ \A a, b \in alerts' : a.by = b.by /\ a.level = b.level /\ a # b =>
              a.at >= b.at + Cooldown \/ b.at >= a.at + Cooldown
<1>0. /\ time \in Nat /\ time # 0 /\ time \in 0 .. LastLook /\ Cooldown \in Nat \ {0} /\ alerts \subseteq BalanceAlerts
      /\ lastAlert \in [Watchers -> [Levels -> Nat]] /\ lastAlert[w][l] \in Nat
  BY DEF BalanceInv, BalanceTypes
<1>1. CASE Bal!Cooling(w, l)
  <2>1. UNCHANGED <<lastAlert, alerts>> BY <1>1 DEF Bal!TriggerAlert
  <2>2. lastAlert[w][l] # 0 /\ time - lastAlert[w][l] < Cooldown BY <1>1 DEF Bal!Cooling
  <2>3. PICK a \in alerts : a.by = w /\ a.level = l /\ a.at = lastAlert[w][l] BY <2>2 DEF BalanceInv, StampsAre
  <2>4. a.at <= time /\ time < a.at + Cooldown BY <1>0, <2>2, <2>3 DEF BalanceInv, StampsAre
  <2>5. Alerted(w, l)' BY <2>1, <2>3, <2>4 DEF Alerted
  <2>6. StampsAre' BY <2>1 DEF BalanceInv, StampsAre
  <2>q. QED BY <1>0, <2>1, <2>5, <2>6 DEF BalanceInv, Bal!AlertsArePaced
<1>2. CASE ~Bal!Cooling(w, l)
  <2> DEFINE new == [by |-> w, level |-> l, at |-> time, sent |-> sent]
  <2>1. lastAlert' = [lastAlert EXCEPT ![w][l] = time] /\ alerts' = alerts \cup {new}
    BY <1>2 DEF Bal!TriggerAlert, Bal!Stamp
  <2>2. lastAlert[w][l] = 0 \/ lastAlert[w][l] + Cooldown <= time BY <1>0, <1>2 DEF Bal!Cooling
  <2>3. /\ lastAlert' \in [Watchers -> [Levels -> Nat]] /\ lastAlert'[w][l] = time
        /\ \A v \in Watchers, k \in Levels : v # w \/ k # l => lastAlert'[v][k] = lastAlert[v][k]
    BY <1>0, <2>1
  <2>4. new \in BalanceAlerts /\ new.by = w /\ new.level = l /\ new.at = time BY <1>0 DEF BalanceAlerts
  <2> HIDE DEF new
  <2>5. \A a \in alerts : a.by \in Watchers /\ a.level \in Levels /\ a.at \in Nat BY <1>0 DEF BalanceAlerts
  <2>6. \A a \in alerts : a.by = w /\ a.level = l => a.at + Cooldown <= time
    <3> TAKE a \in alerts
    <3>1. a.by = w /\ a.level = l => a.at <= lastAlert[w][l] /\ a.at # 0 BY DEF BalanceInv, StampsAre
    <3>2. a.at \in Nat BY <2>5
    <3>q. QED BY <1>0, <2>2, <3>1, <3>2
  <2>7. Alerted(w, l)' BY <1>0, <2>1, <2>4 DEF Alerted
  <2>8. StampsAre'
    <3>1. ASSUME NEW a \in alerts' PROVE a.at <= lastAlert'[a.by][a.level] /\ a.at # 0
      <4>1. CASE a = new BY <1>0, <2>3, <2>4, <4>1
      <4>2. CASE a \in alerts
        <5>1. a.at <= lastAlert[a.by][a.level] /\ a.at # 0 BY <4>2 DEF BalanceInv, StampsAre
        <5>2. CASE a.by = w /\ a.level = l BY <1>0, <2>3, <2>5, <2>6, <4>2, <5>1, <5>2
        <5>3. CASE ~(a.by = w /\ a.level = l) BY <2>3, <2>5, <4>2, <5>1, <5>3
        <5>q. QED BY <5>2, <5>3
      <4>q. QED BY <2>1, <4>1, <4>2
    <3>2. ASSUME NEW v \in Watchers, NEW k \in Levels
          PROVE  /\ lastAlert'[v][k] <= time
                 /\ lastAlert'[v][k] # 0 => \E a \in alerts' : a.by = v /\ a.level = k /\ a.at = lastAlert'[v][k]
      <4>1. CASE v = w /\ k = l BY <1>0, <2>1, <2>3, <2>4, <4>1
      <4>2. CASE ~(v = w /\ k = l)
        <5>1. lastAlert'[v][k] = lastAlert[v][k] BY <2>3, <4>2
        <5>q. QED BY <2>1, <5>1 DEF BalanceInv, StampsAre
      <4>q. QED BY <4>1, <4>2
    <3>q. QED BY <3>1, <3>2 DEF StampsAre
  <2>9. ASSUME NEW a \in alerts', NEW b \in alerts', a.by = b.by, a.level = b.level, a # b
        PROVE  a.at >= b.at + Cooldown \/ b.at >= a.at + Cooldown
    <3>1. CASE a \in alerts /\ b \in alerts BY <2>9, <3>1 DEF BalanceInv, Bal!AlertsArePaced
    <3>2. CASE a = new /\ b \in alerts BY <1>0, <2>4, <2>5, <2>6, <2>9, <3>2
    <3>3. CASE b = new /\ a \in alerts BY <1>0, <2>4, <2>5, <2>6, <2>9, <3>3
    <3>q. QED BY <2>1, <2>9, <3>1, <3>2, <3>3
  <2>q. QED BY <1>0, <2>1, <2>3, <2>4, <2>7, <2>8, <2>9
<1>q. QED BY <1>1, <1>2

LEMMA ChecksPaced == ASSUME BalanceInv, NEW w \in Watchers, Bal!CheckPlatformBalance(w) PROVE BalanceInv'
<1>1. /\ looks[w] > 0 /\ looks' = [looks EXCEPT ![w] = @ - 1] /\ UNCHANGED <<time, balance>>
      /\ \/ UNCHANGED <<lastAlert, alerts, seen>> /\ unsent' \in 0 .. MaxUnsent
         \/ /\ balance # "healthy" /\ seen' = seen \cup {[by |-> w, level |-> balance, at |-> time]}
            /\ unsent' \in 0 .. MaxUnsent
            /\ \E sent \in BOOLEAN : Bal!TriggerAlert(w, balance, sent)
  <2>1. unsent \in Nat /\ unsent <= MaxUnsent BY DEF BalanceInv, BalanceTypes
  <2>2. /\ looks[w] > 0 /\ looks' = [looks EXCEPT ![w] = @ - 1] /\ UNCHANGED <<time, balance>>
        /\ \/ UNCHANGED <<lastAlert, alerts, unsent, seen>>
           \/ /\ balance # "healthy" /\ seen' = seen \cup {[by |-> w, level |-> balance, at |-> time]}
              /\ \/ Bal!TriggerAlert(w, balance, TRUE) /\ UNCHANGED unsent
                 \/ unsent < MaxUnsent /\ unsent' = unsent + 1 /\ Bal!TriggerAlert(w, balance, FALSE)
           \/ unsent < MaxUnsent /\ unsent' = unsent + 1 /\ UNCHANGED <<lastAlert, alerts, seen>>
    BY DEF Bal!CheckPlatformBalance
  <2>3. UNCHANGED unsent => unsent' \in 0 .. MaxUnsent BY <2>1
  <2>4. unsent < MaxUnsent /\ unsent' = unsent + 1 => unsent' \in 0 .. MaxUnsent BY <2>1
  <2>q. QED BY <2>2, <2>3, <2>4, Zenon
<1>2. looks' \in [Watchers -> Nat] /\ \A v \in Watchers : looks'[v] <= time'
  BY <1>1 DEF BalanceInv, BalanceTypes
<1>3. CASE UNCHANGED <<lastAlert, alerts, seen>> /\ unsent' \in 0 .. MaxUnsent
  <2>1. BalanceTypes' /\ StampsAre' BY <1>1, <1>2, <1>3 DEF BalanceInv, BalanceTypes, StampsAre
  <2>2. Bal!AlertsArePaced' BY <1>1, <1>3 DEF BalanceInv, Bal!AlertsArePaced
  <2>q. QED BY <2>1, <2>2 DEF BalanceInv
<1>4. CASE /\ balance # "healthy" /\ seen' = seen \cup {[by |-> w, level |-> balance, at |-> time]}
           /\ unsent' \in 0 .. MaxUnsent
           /\ \E sent \in BOOLEAN : Bal!TriggerAlert(w, balance, sent)
  <2>1. PICK sent \in BOOLEAN : Bal!TriggerAlert(w, balance, sent) BY <1>4
  <2>2. PICK l \in Levels : l = balance BY <1>4 DEF BalanceInv, BalanceTypes, Levels
  <2> DEFINE look == [by |-> w, level |-> l, at |-> time]
  <2>3. seen' = seen \cup {look} /\ UNCHANGED time BY <1>1, <1>4, <2>2
  <2>4. look \in [by : Watchers, level : Levels, at : 0 .. LastLook] /\ look.by = w /\ look.level = l /\ look.at = time
    BY DEF BalanceInv, BalanceTypes
  <2> HIDE DEF look
  <2>5. /\ alerts \subseteq alerts' /\ alerts' \subseteq BalanceAlerts /\ Alerted(w, l)'
        /\ lastAlert' \in [Watchers -> [Levels -> Nat]] /\ StampsAre'
        /\ \A a, b \in alerts' : a.by = b.by /\ a.level = b.level /\ a # b =>
             a.at >= b.at + Cooldown \/ b.at >= a.at + Cooldown
    BY <2>1, <2>2, <2>3, TriggersPaced
  <2>6. BalanceTypes' BY <1>1, <1>2, <1>4, <2>3, <2>4, <2>5 DEF BalanceInv, BalanceTypes
  <2>7. ASSUME NEW s \in seen'
        PROVE  \E a \in alerts' : a.by = s.by /\ a.level = s.level /\ a.at <= s.at /\ s.at < a.at + Cooldown
    <3>1. CASE s \in seen BY <2>5, <3>1 DEF BalanceInv, Bal!AlertsArePaced
    <3>2. CASE s = look BY <2>3, <2>4, <2>5, <3>2 DEF Alerted
    <3>q. QED BY <2>3, <3>1, <3>2
  <2>8. Bal!AlertsArePaced' BY <2>5, <2>7 DEF Bal!AlertsArePaced
  <2>q. QED BY <2>5, <2>6, <2>8 DEF BalanceInv
<1>q. QED BY <1>1, <1>3, <1>4

LEMMA BalanceKept == Bal!Spec => [](Bal!TypeOK /\ Bal!AlertsArePaced)
<1>1. BalanceInv /\ [Bal!Next]_(Bal!vars) => BalanceInv'
  <2> SUFFICES ASSUME BalanceInv, [Bal!Next]_(Bal!vars) PROVE BalanceInv' OBVIOUS
  <2>1. ASSUME UNCHANGED <<lastAlert, alerts, seen>>, BalanceTypes', time' >= time PROVE BalanceInv'
    <3>1. Bal!AlertsArePaced' BY <2>1 DEF BalanceInv, Bal!AlertsArePaced
    <3>2. \A w \in Watchers : \A l \in Levels : lastAlert[w][l] <= time'
      BY <2>1 DEF BalanceInv, BalanceTypes, StampsAre
    <3>3. StampsAre' BY <2>1, <3>2 DEF BalanceInv, StampsAre
    <3>q. QED BY <2>1, <3>1, <3>3 DEF BalanceInv
  <2>2. CASE Bal!Tick
    <3>1. BalanceTypes' /\ time' >= time BY <2>2 DEF Bal!Tick, BalanceInv, BalanceTypes
    <3>q. QED BY <2>1, <2>2, <3>1 DEF Bal!Tick
  <2>3. CASE Bal!Spend
    <3>1. BalanceTypes' /\ time' >= time BY <2>3 DEF Bal!Spend, Bal!Levels, BalanceInv, BalanceTypes
    <3>q. QED BY <2>1, <2>3, <3>1 DEF Bal!Spend
  <2>4. CASE UNCHANGED Bal!vars
    <3>1. BalanceTypes' /\ time' >= time BY <2>4 DEF Bal!vars, BalanceInv, BalanceTypes
    <3>q. QED BY <2>1, <2>4, <3>1 DEF Bal!vars
  <2>q. QED BY <2>2, <2>3, <2>4, ChecksPaced DEF Bal!Next
<1>2. BalanceInv => Bal!TypeOK
  <2> SUFFICES ASSUME BalanceInv PROVE Bal!TypeOK OBVIOUS
  <2>1. looks \in [Watchers -> 0 .. LastLook] BY DEF BalanceInv, BalanceTypes
  <2>2. \A w \in Watchers : lastAlert[w] \in [Levels -> 0 .. LastLook]
    BY DEF BalanceInv, BalanceTypes, StampsAre
  <2>3. lastAlert \in [Watchers -> [Levels -> 0 .. LastLook]] BY <2>2 DEF BalanceInv, BalanceTypes
  <2>q. QED BY <2>1, <2>3 DEF BalanceInv, BalanceTypes, BalanceAlerts, Bal!TypeOK, Bal!Clock, Bal!Levels, Levels
<1>3. BalanceInv => Bal!AlertsArePaced BY DEF BalanceInv
<1>q. QED BY <1>1, <1>2, <1>3, BalanceStarts, PTL DEF Bal!Spec

----------------------------------------------------------------------------
(* What is reported as delivered was accepted by every endpoint that stayed registered,  *)
(* a failed alert stays listed as far as the list reaches, a letter is reported as taken *)
(* just when a channel took it, and a low balance is alerted once a cooldown             *)
(* (WebhookService, DiscordService, NotificationService, PlatformBalanceService).        *)
THEOREM MessagesStayAccountedFor == EdgeSpec => []MessagesAccountedFor
<1>1. /\ Del!ReturnedIsAccepted /\ Del!DrainedIsSettled
      /\ Note!LatestFailuresListed /\ Note!ReportedAsTaken
      /\ Bal!AlertsArePaced
      => MessagesAccountedFor
  BY DEF MessagesAccountedFor
<1>q. QED BY <1>1, DeliveriesAlone, DeliveriesKept, AlertsAlone, AlertsKept, BalanceAlone, BalanceKept, PTL

----------------------------------------------------------------------------
(* The parts together. *)
HIDE MessagesAssumption

LEMMA DeskStays == EdgeSpec => [](desk \in Desks)
<1>1. EdgeInit => desk \in Desks BY DEF EdgeInit
<1>2. desk \in Desks /\ [EdgeNext]_edgeVars => (desk \in Desks)'
  <2>1. [EdgeNext]_edgeVars => desk' = desk BY DEF EdgeNext, Only, edgeVars
  <2>q. QED BY <2>1
<1>q. QED BY <1>1, <1>2, PTL DEF EdgeSpec

(* Each part of Edge keeps its state within its types, whatever its calls, messages and *)
(* failures.                                                                            *)
THEOREM EdgeTypesHold == EdgeSpec => []EdgeTypeOK
<1>1. EdgeSpec => [](Tok!TypeOK /\ Log!TypeOK) BY TokensAlone, TokensSpent, LoginsAlone, LoggedIn, PTL
<1>2. EdgeSpec => []Pin!TypeOK
  <2>q. QED BY PinTyped, PinningAlone, PinInit, PinSteps, PTL DEF Pin!Spec
<1>3. EdgeSpec => [](Req!TypeOK /\ Rate!TypeOK) BY RequestsAlone, RequestsHandled, LimitsAlone, LimitsKept, PTL
<1>4. EdgeSpec => [](Gate!TypeOK /\ Del!TypeOK) BY GatewayAlone, GatewayKept, DeliveriesAlone, DeliveriesKept, PTL
<1>5. EdgeSpec => [](Note!TypeOK /\ Bal!TypeOK) BY AlertsAlone, AlertsKept, BalanceAlone, BalanceKept, PTL
<1>6. EdgeSpec => [](Prof!TypeOK /\ Rep!TypeOK) BY ProfilesAlone, ProfilesKept, ReputationAlone, ScoresKept, PTL
<1>7. EdgeSpec => [](Sub!TypeOK /\ Upl!TypeOK) BY SubscriptionsAlone, SubscriptionsKept, UploadsAlone, UploadsKept, PTL
<1>8. EdgeSpec => [](Audit!TypeOK /\ Cache!TypeOK) BY AuditAlone, ExportsKept, CacheAlone, CacheKept, PTL
<1>9. /\ Tok!TypeOK /\ Log!TypeOK /\ Pin!TypeOK /\ Req!TypeOK /\ Rate!TypeOK /\ Gate!TypeOK /\ Del!TypeOK
      /\ Note!TypeOK /\ Bal!TypeOK /\ Prof!TypeOK /\ Rep!TypeOK /\ Sub!TypeOK /\ Upl!TypeOK
      /\ Audit!TypeOK /\ Cache!TypeOK /\ desk \in Desks
      => EdgeTypeOK
  BY DEF EdgeTypeOK
<1>q. QED BY <1>1, <1>2, <1>3, <1>4, <1>5, <1>6, <1>7, <1>8, <1>9, DeskStays, PTL
=============================================================================

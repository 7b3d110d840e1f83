------------------------------ MODULE Requests ------------------------------
(***************************************************************************)
(* Mutating requests with one Idempotency-Key on their way through an       *)
(* instance: the drain middleware counts or sheds them, the idempotency     *)
(* interceptor claims the key, the timeout interceptor (inside the former)  *)
(* ends the response but not the handler, and a shutdown waits for the      *)
(* requests counted. Redis may fail on any call, and the key may expire.    *)
(***************************************************************************)
EXTENDS Integers, FiniteSets

CONSTANTS
  Calls,        \* the requests
  Body,         \* the body of each
  At,           \* the instance that serves each
  Absent,       \* no record under the key; no request
  MaxMishaps    \* bounds Redis failures, timeouts, disconnects, expiries and forced exits

Hosts == {At[r] : r \in Calls}
Settled == {"replied", "cut", "shed"}
Phases == {"new", "claim", "lookup", "handler", "finalize", "release"} \cup Settled

VARIABLES
  entry,        \* idempotency:<endpoint>:<key>: Absent, or [by, completed]
  phase,        \* per request
  claimed,      \* requests that will finalize or release the key
  reply,        \* per request: whose response it replays, or Absent
  released,     \* requests whose release function ran
  gone,         \* requests whose client disconnected before the response
  detached,     \* requests answered 408 whose handler still runs
  inFlight,     \* per instance: DrainStateService's counter
  mode,         \* per instance: "up", "draining", "clean" or "forced" (exited)
  mishaps,
  effects,      \* history: requests whose handler succeeded
  lapsed        \* history: requests the claim no longer protects

keyVars == <<entry, claimed, reply, effects, lapsed>>
drainVars == <<released, gone, inFlight, mode>>
vars == <<keyVars, drainVars, phase, detached, mishaps>>

Init ==
  /\ entry = Absent /\ phase = [r \in Calls |-> "new"] /\ claimed = {}
  /\ reply = [r \in Calls |-> Absent] /\ released = {} /\ gone = {} /\ detached = {}
  /\ inFlight = [i \in Hosts |-> 0] /\ mode = [i \in Hosts |-> "up"]
  /\ mishaps = 0 /\ effects = {} /\ lapsed = {}

Mishap == mishaps < MaxMishaps /\ mishaps' = mishaps + 1
Step(r, from, to) == phase[r] = from /\ phase' = [phase EXCEPT ![r] = to]
Owner == IF entry = Absent THEN {} ELSE {entry.by}

----------------------------------------------------------------------------
(* DrainMiddleware.use: shed while draining, counted otherwise. *)
Arrive(r) ==
  /\ mode[At[r]] \in {"up", "draining"}
  /\ \/ /\ mode[At[r]] = "up" /\ Step(r, "new", "claim")
        /\ inFlight' = [inFlight EXCEPT ![At[r]] = @ + 1]
     \/ mode[At[r]] = "draining" /\ Step(r, "new", "shed") /\ UNCHANGED inFlight
  /\ UNCHANGED <<keyVars, released, gone, mode, detached, mishaps>>

(* IdempotencyKeyService.claim: SET NX; on an error the request goes on without. *)
(* One that took effect and failed leaves things as one that succeeded does: the  *)
(* code says `claimed` of both. So it is with finalize and release.               *)
Claim(r) ==
  /\ \/ /\ entry = Absent /\ Step(r, "claim", "handler")
        /\ entry' = [by |-> r, completed |-> FALSE]
        /\ claimed' = claimed \cup {r} /\ UNCHANGED <<lapsed, mishaps>>
     \/ /\ entry # Absent /\ Step(r, "claim", "lookup") /\ UNCHANGED <<entry, claimed, lapsed, mishaps>>
     \/ /\ Step(r, "claim", "handler") /\ Mishap
        /\ claimed' = claimed \cup {r} /\ lapsed' = lapsed \cup {r} /\ UNCHANGED entry
  /\ UNCHANGED <<drainVars, reply, effects, detached>>

\* Variant: the request hash is not compared.
LookupAnyBody(r) ==
  /\ \/ /\ entry = Absent /\ Step(r, "lookup", "handler")
        /\ lapsed' = lapsed \cup {r} /\ UNCHANGED <<claimed, reply, mishaps>>
     \/ /\ entry # Absent /\ Step(r, "lookup", "replied")
        /\ reply' = IF entry.completed
                    THEN [reply EXCEPT ![r] = entry.by] ELSE reply
        /\ UNCHANGED <<claimed, lapsed, mishaps>>
     \/ /\ Step(r, "lookup", "handler") /\ Mishap
        /\ claimed' = claimed \cup {r} /\ lapsed' = lapsed \cup {r} /\ UNCHANGED reply
  /\ UNCHANGED <<drainVars, entry, effects, detached>>

\* The record of the request that came first: 422, 409, a replay, or nothing.
Lookup(r) ==
  /\ \/ /\ entry = Absent /\ Step(r, "lookup", "handler")
        /\ lapsed' = lapsed \cup {r} /\ UNCHANGED <<claimed, reply, mishaps>>
     \/ /\ entry # Absent /\ Step(r, "lookup", "replied")
        /\ reply' = IF Body[entry.by] = Body[r] /\ entry.completed
                    THEN [reply EXCEPT ![r] = entry.by] ELSE reply
        /\ UNCHANGED <<claimed, lapsed, mishaps>>
     \/ /\ Step(r, "lookup", "handler") /\ Mishap
        /\ claimed' = claimed \cup {r} /\ lapsed' = lapsed \cup {r} /\ UNCHANGED reply
  /\ UNCHANGED <<drainVars, entry, effects, detached>>

\* The handler succeeds or fails, or the timeout answers 408 while it runs on.
Handle(r) ==
  /\ \/ /\ effects' = effects \cup {r}
        /\ Step(r, "handler", IF r \in claimed THEN "finalize" ELSE "replied")
        /\ UNCHANGED <<lapsed, detached, mishaps>>
     \/ /\ Step(r, "handler", IF r \in claimed THEN "release" ELSE "replied")
        /\ UNCHANGED <<effects, lapsed, detached, mishaps>>
     \/ /\ Step(r, "handler", IF r \in claimed THEN "release" ELSE "replied") /\ Mishap
        /\ detached' = detached \cup {r} /\ lapsed' = lapsed \cup {r} /\ UNCHANGED effects
  /\ UNCHANGED <<drainVars, entry, claimed, reply>>
RunOn(r) ==
  /\ r \in detached /\ mode[At[r]] \in {"up", "draining"}
  /\ detached' = detached \ {r} /\ effects' \in {effects, effects \cup {r}}
  /\ UNCHANGED <<drainVars, entry, claimed, reply, lapsed, phase, mishaps>>

\* finalize, release: whoever holds the key now.
Finalize(r) ==
  /\ Step(r, "finalize", "replied")
  /\ \/ /\ entry' = [by |-> r, completed |-> TRUE] /\ lapsed' = lapsed \cup (Owner \ {r})
        /\ UNCHANGED mishaps
     \/ Mishap /\ UNCHANGED <<entry, lapsed>>
  /\ UNCHANGED <<drainVars, claimed, reply, effects, detached>>
Release(r) ==
  /\ Step(r, "release", "replied")
  /\ \/ /\ entry' = Absent /\ lapsed' = lapsed \cup (Owner \ {r}) /\ UNCHANGED mishaps
     \/ Mishap /\ UNCHANGED <<entry, lapsed>>
  /\ UNCHANGED <<drainVars, claimed, reply, effects, detached>>
Expire ==
  /\ entry # Absent /\ Mishap /\ entry' = Absent /\ lapsed' = lapsed \cup Owner
  /\ UNCHANGED <<drainVars, claimed, reply, effects, phase, detached>>

\* Variant: a response that finishes and then closes is counted twice.
CountTwice(r) == inFlight' = [inFlight EXCEPT ![At[r]] = @ - 1]
(* trackRequest's function: 'finish' and 'close' both call it. *)
Count(r) == inFlight' = [inFlight EXCEPT ![At[r]] = IF r \in released THEN @ ELSE @ - 1]
Finish(r) == /\ phase[r] = "replied" /\ r \notin released /\ Count(r) /\ released' = released \cup {r}
             /\ mode[At[r]] \in {"up", "draining"}
             /\ UNCHANGED <<keyVars, gone, mode, phase, detached, mishaps>>
Close(r) == /\ phase[r] = "replied" /\ r \in released \ gone /\ Count(r) /\ gone' = gone \cup {r}
            /\ mode[At[r]] \in {"up", "draining"}
            /\ UNCHANGED <<keyVars, released, mode, phase, detached, mishaps>>
Disconnect(r) == /\ phase[r] \notin Settled \cup {"new"} /\ r \notin released /\ Mishap
                 /\ Count(r) /\ released' = released \cup {r} /\ gone' = gone \cup {r}
                 /\ UNCHANGED <<keyVars, mode, phase, detached>>

(* ShutdownService.run, on the first signal; then the exit. *)
Signal(i) == /\ mode[i] = "up" /\ mode' = [mode EXCEPT ![i] = "draining"]
             /\ UNCHANGED <<keyVars, released, gone, inFlight, phase, detached, mishaps>>
Drained(i) == inFlight[i] <= 0
Exit(i) ==
  /\ mode[i] = "draining"
  /\ \/ Drained(i) /\ mode' = [mode EXCEPT ![i] = "clean"] /\ UNCHANGED mishaps
     \/ ~Drained(i) /\ mode' = [mode EXCEPT ![i] = "forced"] /\ Mishap
  /\ phase' = [r \in Calls |-> IF At[r] = i /\ phase[r] \notin Settled \cup {"new"} THEN "cut" ELSE phase[r]]
  /\ UNCHANGED <<keyVars, released, gone, inFlight, detached>>

Next ==
  \/ Expire
  \/ \E r \in Calls :
       \/ Arrive(r) \/ Claim(r) \/ Lookup(r) \/ Handle(r) \/ RunOn(r) \/ Finalize(r) \/ Release(r)
       \/ Finish(r) \/ Close(r) \/ Disconnect(r)
  \/ \E i \in Hosts : Signal(i) \/ Exit(i)

Spec == Init /\ [][Next]_vars

----------------------------------------------------------------------------
TypeOK ==
  /\ entry \in {Absent} \cup [by : Calls, completed : BOOLEAN]
  /\ phase \in [Calls -> Phases] /\ reply \in [Calls -> Calls \cup {Absent}]
  /\ UNION {claimed, released, gone, detached, effects, lapsed} \subseteq Calls
  /\ inFlight \in [Hosts -> Int] /\ mode \in [Hosts -> {"up", "draining", "clean", "forced"}]
  /\ mishaps \in 0 .. MaxMishaps

(* Of the requests with one key the handlers of two succeed only if one of them  *)
(* had lost the claim's protection: to a Redis error, a timeout, an expiry, or a *)
(* release in the middle (claim, release). A replayed response is that of a      *)
(* request that succeeded with the same body (intercept).                        *)
HandledOnce ==
  /\ \A r, s \in effects : r = s \/ r \in lapsed \/ s \in lapsed
  /\ \A r \in Calls : reply[r] # Absent => reply[r] \in effects /\ Body[reply[r]] = Body[r]

(* A shutdown that reports a clean drain cuts no request whose client waits for  *)
(* it, in whatever order responses finish and connections close (trackRequest).  *)
CleanExitCutsNothing ==
  \A r \in Calls : phase[r] = "cut" /\ mode[At[r]] = "clean" => r \in gone
=============================================================================

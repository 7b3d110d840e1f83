----------------------------- MODULE RateLimit ------------------------------
(***************************************************************************)
(* RateLimitGuard: a request is checked for its address and, when its token *)
(* names one, for its wallet; each check is one run of a script in Redis    *)
(* over a token bucket, a lockout and the rejections of late. The points of *)
(* the bucket are those of the tier of the request (its reputation, if it   *)
(* has a wallet), not of the bucket.                                         *)
(* Tokens are counted in parts of 1/Refill, time in ticks of Redis' clock.  *)
(***************************************************************************)
EXTENDS Integers, FiniteSets, FiniteSetsExt

CONSTANTS
  Visits,         \* requests
  Keys,           \* of each: the identities it is checked for
  PointsOf,       \* of each: tierConfig.points of its tier (one duration for all)
  OnRedisError,   \* of each: the outcome its route prescribes (unchecked, unavailable)
  Refill,         \* tierConfig.duration, in ticks
  AbuseWindow, AbuseThreshold, Lockout,
  LastTick, MaxTimeouts \* bound the clock, and the pipelines that fail

Identities == UNION {Keys[v] : v \in Visits}
MostPoints == Max({PointsOf[v] : v \in Visits})

VARIABLES
  tick,
  bucket,         \* per identity: tokens and updatedAt
  lockedUntil,    \* per identity: when its lockout expires
  abuse,          \* per identity: the rejections recorded, with their times
  visit,          \* per request: the decisions, and its outcome
  granted         \* history: the requests the script let through, with their times

vars == <<tick, bucket, lockedUntil, abuse, visit, granted>>

Init ==
  /\ tick = 0 /\ bucket = [i \in Identities |-> [tokens |-> 0, updatedAt |-> 0, there |-> FALSE]]
  /\ lockedUntil = [i \in Identities |-> 0] /\ abuse = [i \in Identities |-> {}]
  /\ visit = [v \in Visits |-> [passed |-> {}, refused |-> {}, outcome |-> "none"]]
  /\ granted = [i \in Identities |-> {}]

Tick ==
  /\ tick < LastTick /\ tick' = tick + 1
  /\ UNCHANGED <<bucket, lockedUntil, abuse, visit, granted>>

----------------------------------------------------------------------------
\* Variant: what has flown in since is not capped.
LevelUncapped(b, n) == IF ~b.there THEN n * Refill ELSE b.tokens + (tick - b.updatedAt) * n
(* The tokens of a bucket now: full if it is missing or has expired, which     *)
(* it does two durations after the last check, when it is full anyway.         *)
Level(b, n) ==
  IF ~b.there \/ tick - b.updatedAt >= 2 * Refill THEN n * Refill
  ELSE Min({n * Refill, b.tokens + (tick - b.updatedAt) * n})
\* Variant: a lockout does not keep the bucket from being asked.
LockedNever(i) == FALSE
Locked(i) == lockedUntil[i] > tick
Rejections(i) == {r \in abuse[i] : r[1] > tick - AbuseWindow}
Decide(v, passed, refused) ==
  visit' = [visit EXCEPT ![v].passed = @ \cup passed, ![v].refused = @ \cup refused]

(* RATE_LIMIT_SCRIPT for one identity of a request. *)
Script(v, i) ==
  LET n == PointsOf[v] level == Level(bucket[i], n) IN
  /\ i \in Keys[v] \ (visit[v].passed \cup visit[v].refused)
  /\ \/ Locked(i) /\ Decide(v, {}, {i}) /\ UNCHANGED <<bucket, lockedUntil, abuse, granted>>
     \/ /\ ~Locked(i) /\ level >= Refill /\ Decide(v, {i}, {})
        /\ bucket' = [bucket EXCEPT ![i] = [tokens |-> level - Refill, updatedAt |-> tick, there |-> TRUE]]
        /\ granted' = [granted EXCEPT ![i] = @ \cup {<<tick, v>>}]
        /\ UNCHANGED <<lockedUntil, abuse>>
     \/ /\ ~Locked(i) /\ level < Refill /\ Decide(v, {}, {i})
        /\ bucket' = [bucket EXCEPT ![i] = [tokens |-> level, updatedAt |-> tick, there |-> TRUE]]
        /\ abuse' = [abuse EXCEPT ![i] = Rejections(i) \cup {<<tick, v>>}]
        /\ lockedUntil' = IF Cardinality(abuse'[i]) >= AbuseThreshold
                          THEN [lockedUntil EXCEPT ![i] = tick + Lockout] ELSE lockedUntil
        /\ UNCHANGED granted
  /\ UNCHANGED tick

\* Variant: one identity in order is enough.
AdmittedByOne(v) == visit[v].passed # {}
Admitted(v) == visit[v].refused = {}
(* All replies are in: the first refusal is a 429, none means the handler.     *)
Answer(v) ==
  /\ visit[v].outcome = "none"
  /\ visit[v].passed \cup visit[v].refused = Keys[v]
  /\ visit' = [visit EXCEPT ![v].outcome = IF Admitted(v) THEN "served" ELSE "tooMany"]
  /\ UNCHANGED <<tick, bucket, lockedUntil, abuse, granted>>
(* A command failed, or the replies took too long (the scripts sent run all    *)
(* the same): onRedisError lets it through or turns it away, as the route says.*)
RedisFails(v) ==
  /\ visit[v].outcome = "none"
  /\ visit' = [visit EXCEPT ![v].outcome = OnRedisError[v]]
  /\ Cardinality({w \in Visits : visit[w].outcome = OnRedisError[w]}) < MaxTimeouts
  /\ UNCHANGED <<tick, bucket, lockedUntil, abuse, granted>>

Next == Tick \/ \E v \in Visits : Answer(v) \/ RedisFails(v) \/ \E i \in Keys[v] : Script(v, i)
Spec == Init /\ [][Next]_vars

----------------------------------------------------------------------------
TypeOK ==
  /\ tick \in 0 .. LastTick /\ DOMAIN visit = Visits
  /\ \A i \in Identities : /\ bucket[i].tokens \in 0 .. MostPoints * Refill
                           /\ abuse[i] \cup granted[i] \subseteq (0 .. LastTick) \X Visits
  /\ \A v \in Visits : visit[v].outcome \in {"none", "served", "tooMany", "unchecked", "unavailable"}

(* Between any two moments no identity is granted more than one full bucket and   *)
(* what flows in meanwhile, at the points of the best tier; none is granted a     *)
(* request in the lockout that too many rejections bring about; and only a request that passed for every one   *)
(* of its identities is served (RATE_LIMIT_SCRIPT, canActivate).                  *)
WithinLimits ==
  /\ \A i \in Identities : \A from, to \in 0 .. LastTick : from <= to =>
       Refill * Cardinality({g \in granted[i] : g[1] \in from .. to}) <= MostPoints * (Refill + to - from)
  /\ \A i \in Identities : \A g \in granted[i] : g[1] >= lockedUntil[i] \/ g[1] + Lockout <= lockedUntil[i]
  /\ \A i \in Identities, r \in UNION {abuse[j] : j \in Identities} :
       r \in abuse[i] /\ Cardinality({x \in abuse[i] : x[1] \in r[1] - AbuseWindow + 1 .. r[1]}) >= AbuseThreshold
         => r[1] + Lockout <= lockedUntil[i]
  /\ \A v \in Visits : visit[v].outcome = "served" => \A i \in Keys[v] : \E t \in 0 .. LastTick : <<t, v>> \in granted[i]
=============================================================================

-------------------------- MODULE DistributedLock --------------------------
(***************************************************************************)
(* DistributedLockService: SET key token NX PX ttl, a compare-and-delete    *)
(* and a compare-and-extend. One key. An instance has one token at a time,  *)
(* so the key's value is the instance whose token it is.                    *)
(***************************************************************************)
CONSTANTS
  Contenders,  \* the instances that compete for the key
  Nobody

ASSUME LockAssumption == Nobody \notin Contenders

VARIABLES
  lock,    \* the key in Redis
  token,   \* the instances that believe they hold it
  lapsed   \* history: those whose lease ran out, or whose release failed, since they took it

lockVars == <<lock, token, lapsed>>

LockInit == lock = Nobody /\ token = {} /\ lapsed = {}

\* Variant: SET without NX.
TryAcquireAnyway(i) ==
  lock' = i /\ token' = token \cup {i} /\ lapsed' = lapsed \ {i}

TryAcquire(i) ==
  /\ lock = Nobody
  /\ lock' = i /\ token' = token \cup {i} /\ lapsed' = lapsed \ {i}

\* Variant: whoever holds it now.
ReleaseBlindly(i) ==
  /\ lock' = IF i \in token THEN Nobody ELSE lock
  /\ token' = token \ {i} /\ UNCHANGED lapsed

\* RELEASE_LUA: only its own token. An error is swallowed and leaves the key to its TTL.
Release(i) ==
  /\ lock' \in IF i \in token /\ lock = i THEN {Nobody, lock} ELSE {lock}
  /\ token' = token \ {i} /\ UNCHANGED lapsed

\* RENEW_LUA found another token, or none; when it finds its own nothing changes but the TTL.
RenewFails(i) ==
  /\ i \in token /\ lock # i
  /\ token' = token \ {i} /\ UNCHANGED <<lock, lapsed>>

LeaseEnds ==
  /\ lock # Nobody
  /\ lock' = Nobody /\ lapsed' = lapsed \cup {lock} /\ UNCHANGED token

LockTypeOK ==
  /\ lock \in Contenders \cup {Nobody} /\ token \subseteq Contenders /\ lapsed \subseteq Contenders

\* Whoever believes to hold the lock, and whose lease never ran out, holds it: nobody
\* else's release takes it away. (RELEASE_LUA and RENEW_LUA compare the token.)
HolderHolds == \A i \in token \ lapsed : lock = i
=============================================================================

------------------------------- MODULE Logins -------------------------------
(***************************************************************************)
(* The login of one wallet: requests for a challenge and verifications of   *)
(* its signature race in several instances over one pending challenge in    *)
(* Redis (NonceStoreService). Each call of Redis may fail, having taken     *)
(* effect or not; the instance then goes on with its own maps.              *)
(***************************************************************************)
EXTENDS Naturals, FiniteSets

CONSTANTS
  Askers,       \* challenge requests; each brings a challenge of its own
  Verifiers,    \* verifications
  Desk,         \* the instance of each
  NoChallenge,
  MaxGlitches   \* bounds the failing calls

Desks == {Desk[x] : x \in Askers \cup Verifiers}
MaybeChallenge == Askers \cup {NoChallenge}

VARIABLES
  pending,      \* auth:nonce:<address>
  pendingOwn,   \* per instance: inMemoryChallenges
  nonces,       \* auth:nonce:used:<nonce>
  noncesOwn,    \* per instance: inMemoryConsumed
  ask,          \* per asker: its phase in store
  answer,       \* per asker: the challenge it handed out
  verify,       \* per verifier: its phase in verifySignature
  signed,       \* per verifier: the challenge its signature is of
  glitches,
  logins,       \* history: the verifications each challenge let in
  ended,        \* history: challenges that expired or were consumed
  unstored      \* history: challenges handed out though the store kept another one

vars == <<pending, pendingOwn, nonces, noncesOwn, ask, answer, verify, signed, glitches,
          logins, ended, unstored>>

Init ==
  /\ pending = NoChallenge /\ pendingOwn = [d \in Desks |-> NoChallenge]
  /\ nonces = {} /\ noncesOwn = [d \in Desks |-> {}]
  /\ ask = [a \in Askers |-> "new"] /\ answer = [a \in Askers |-> NoChallenge]
  /\ verify = [v \in Verifiers |-> "new"] /\ signed = [v \in Verifiers |-> NoChallenge]
  /\ glitches = 0 /\ logins = [c \in Askers |-> {}] /\ ended = {} /\ unstored = {}

Glitch == glitches < MaxGlitches /\ glitches' = glitches + 1
Hand(a, c) == ask' = [ask EXCEPT ![a] = "done"] /\ answer' = [answer EXCEPT ![a] = c]
Asks(a, from, to) == ask[a] = from /\ ask' = [ask EXCEPT ![a] = to]

----------------------------------------------------------------------------
\* Variant: the challenge is stored without NX.
SetAnew(a) == pending' = a /\ Hand(a, a)
\* SET NX: the challenge is stored unless one is pending.
SetIfNone(a) == pending = NoChallenge /\ pending' = a /\ Hand(a, a)

\* The catch block of store, with the SET done or not: this instance's challenge.
StoreOwn(a) ==
  LET own == pendingOwn[Desk[a]] IN
  /\ Glitch /\ pending' \in {pending, IF pending = NoChallenge THEN a ELSE pending}
  /\ Hand(a, IF own = NoChallenge THEN a ELSE own)
  /\ pendingOwn' = [pendingOwn EXCEPT ![Desk[a]] = IF own = NoChallenge THEN a ELSE own]

(* store (generateChallenge): SET NX, GET, and both again if it expired between. *)
Store(a) ==
  /\ ask[a] \in {"new", "again"}
  /\ \/ SetIfNone(a) /\ UNCHANGED <<pendingOwn, glitches>>
     \/ /\ pending # NoChallenge /\ UNCHANGED <<pending, pendingOwn, answer, glitches>>
        /\ ask' = [ask EXCEPT ![a] = IF @ = "new" THEN "get" ELSE "last"]
     \/ StoreOwn(a)
  /\ UNCHANGED <<nonces, noncesOwn, verify, signed, logins, ended, unstored>>
GetPending(a) ==
  /\ ask[a] \in {"get", "last"}
  /\ \/ /\ pending # NoChallenge /\ Hand(a, pending) /\ UNCHANGED <<pending, pendingOwn, glitches, unstored>>
     \/ /\ pending = NoChallenge /\ Asks(a, "get", "again")
        /\ UNCHANGED <<pending, pendingOwn, answer, glitches, unstored>>
     \/ /\ pending = NoChallenge /\ ask[a] = "last" /\ Hand(a, a) /\ unstored' = unstored \cup {a}
        /\ UNCHANGED <<pending, pendingOwn, glitches>>
     \/ StoreOwn(a) /\ UNCHANGED unstored
  /\ UNCHANGED <<nonces, noncesOwn, verify, signed, logins, ended>>

----------------------------------------------------------------------------
(* consume: GETDEL. A signature of another challenge, or of none, is refused, *)
(* and the pending challenge is gone all the same. *)
Consume(v) ==
  /\ verify[v] = "new"
  /\ \E c \in {answer[a] : a \in Askers} \cup {NoChallenge}, got \in MaybeChallenge :
       /\ \/ got = pending /\ pending' = NoChallenge /\ UNCHANGED <<pendingOwn, glitches>>
          \/ /\ Glitch /\ got = pendingOwn[Desk[v]] /\ pending' \in {pending, NoChallenge}
             /\ pendingOwn' = [pendingOwn EXCEPT ![Desk[v]] = NoChallenge]
       /\ signed' = [signed EXCEPT ![v] = c]
       /\ verify' = [verify EXCEPT ![v] = IF got # NoChallenge /\ got = c THEN "mark" ELSE "refused"]
       /\ ended' = ended \cup (({got} \cup (IF pending' = pending THEN {} ELSE {pending})) \ {NoChallenge})
  /\ UNCHANGED <<nonces, noncesOwn, ask, answer, logins, unstored>>

Admit(v, firstUse) ==
  /\ verify' = [verify EXCEPT ![v] = IF firstUse THEN "in" ELSE "refused"]
  /\ logins' = [logins EXCEPT ![signed[v]] = IF firstUse THEN @ \cup {v} ELSE @]
\* Variant: the answer of markNonceUsed is not looked at.
MarkAlways(v) ==
  /\ verify[v] = "mark" /\ Admit(v, TRUE) /\ nonces' = nonces \cup {signed[v]}
  /\ UNCHANGED <<pending, pendingOwn, noncesOwn, ask, answer, signed, glitches, ended, unstored>>
(* markNonceUsed: SET NX; a challenge used before is a replay. *)
MarkNonceUsed(v) ==
  LET c == signed[v] IN
  /\ verify[v] = "mark"
  /\ \/ Admit(v, c \notin nonces) /\ nonces' = nonces \cup {c} /\ UNCHANGED <<noncesOwn, glitches>>
     \/ /\ Glitch /\ Admit(v, c \notin noncesOwn[Desk[v]]) /\ nonces' \in {nonces, nonces \cup {c}}
        /\ noncesOwn' = [noncesOwn EXCEPT ![Desk[v]] = @ \cup {c}]
  /\ UNCHANGED <<pending, pendingOwn, ask, answer, signed, ended, unstored>>

\* 60 s after it was stored; a used nonce is remembered for longer.
ChallengeExpires ==
  /\ \/ pending # NoChallenge /\ pending' = NoChallenge /\ ended' = ended \cup {pending} /\ UNCHANGED pendingOwn
     \/ \E d \in Desks :
          /\ pendingOwn[d] # NoChallenge /\ pendingOwn' = [pendingOwn EXCEPT ![d] = NoChallenge]
          /\ ended' = ended \cup {pendingOwn[d]} /\ UNCHANGED pending
  /\ UNCHANGED <<nonces, noncesOwn, ask, answer, verify, signed, glitches, logins, unstored>>

Next ==
  \/ ChallengeExpires
  \/ \E a \in Askers : Store(a) \/ GetPending(a)
  \/ \E v \in Verifiers : Consume(v) \/ MarkNonceUsed(v)

Spec == Init /\ [][Next]_vars

----------------------------------------------------------------------------
TypeOK ==
  /\ pending \in MaybeChallenge /\ pendingOwn \in [Desks -> MaybeChallenge]
  /\ nonces \subseteq Askers /\ noncesOwn \in [Desks -> SUBSET Askers]
  /\ ask \in [Askers -> {"new", "get", "again", "last", "done"}] /\ answer \in [Askers -> MaybeChallenge]
  /\ verify \in [Verifiers -> {"new", "mark", "in", "refused"}] /\ signed \in [Verifiers -> MaybeChallenge]
  /\ glitches \in 0 .. MaxGlitches /\ logins \in [Askers -> SUBSET Verifiers]
  /\ ended \subseteq Askers /\ unstored \subseteq Askers

(* A challenge logs in once while at most two calls have failed: not when one left *)
(* it both in Redis and in an instance's memory and another sent a verification    *)
(* there; it takes a third to miss its nonce in Redis too (markNonceUsed).         *)
(* A challenge that was handed out is there to be signed until it expires or a    *)
(* verification consumes it: no other request for one takes it away (store, #369). *)
LoggedInOnce ==
  /\ glitches <= 2 => \A c \in Askers : Cardinality(logins[c]) <= 1
  /\ \A a \in Askers : answer[a] \in {NoChallenge, pending, pendingOwn[Desk[a]]} \cup ended \cup unstored
=============================================================================

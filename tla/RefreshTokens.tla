--------------------------- MODULE RefreshTokens ---------------------------
(***************************************************************************)
(* RefreshTokenStoreService: a session is a family of refresh tokens, each  *)
(* good for one exchange. A refresh looks for the token's tombstone, takes  *)
(* the token, leaves a tombstone and stores the next token; a token that is *)
(* presented again within five minutes revokes the family. Each of these is *)
(* a Redis call of its own. One that fails, having taken effect or not,     *)
(* sends the request to the tokens in its instance's memory, where a login  *)
(* whose transaction reported a failure has left the first one. A next      *)
(* token that was stored so and handed to nobody is left out.               *)
(***************************************************************************)
EXTENDS Naturals, FiniteSets

CONSTANTS
  Refreshes,    \* the requests
  MaxTroubles   \* bounds the failures, crashes, expiries and wrong addresses

Tokens == 1 .. Cardinality(Refreshes) + 1   \* in the order they are made
Free == 0

VARIABLES
  live,         \* refresh-token:<token>
  tombs,        \* refresh-tombstone:<token>
  family,       \* refresh-family:<address>:<family>: its tokens
  inMemoryTokens,   \* those of the instance that served the login, with their family
  made,         \* the number of tokens made so far
  at,           \* per request: its phase
  presented,    \* per request: the token it presents
  members,      \* per request: the family as the revocation read it
  troubles,
  successors,   \* history: per token, the tokens it was exchanged for in Redis
  ownSuccessors,    \* and those in memory
  doubled,      \* history: did the login leave its token in Redis and in memory?
  revoked,      \* history: was the family revoked, with no exchange in flight?
  interrupted   \* history: did a failure, crash, expiry or address end an exchange?

ownVars == <<inMemoryTokens, ownSuccessors, doubled>>
vars == <<live, tombs, family, made, at, presented, members, troubles, successors, revoked, interrupted,
          ownVars>>

\* issueRefreshToken, at the login, has made the first token. If its transaction reported a
\* failure the token is in memory, and in Redis too if it was applied all the same; a command
\* of it that failed alone goes unnoticed.
Init ==
  /\ \/ live = {1} /\ family = {1} /\ inMemoryTokens = {} /\ troubles = 0 /\ interrupted = FALSE
     \/ /\ troubles = 1 /\ troubles <= MaxTroubles /\ interrupted = TRUE
        /\ live \in SUBSET {1} /\ family \in SUBSET {1} /\ inMemoryTokens \in SUBSET {1}
        /\ IF inMemoryTokens = {1} THEN live = family ELSE {live, family} # {{1}}
  /\ doubled = (inMemoryTokens = {1} /\ live = {1})
  /\ tombs = {} /\ made = 1 /\ revoked = FALSE
  /\ at = [r \in Refreshes |-> "new"] /\ presented = [r \in Refreshes |-> Free]
  /\ members = [r \in Refreshes |-> {}]
  /\ successors = [t \in Tokens |-> {}] /\ ownSuccessors = [t \in Tokens |-> {}]

Trouble == troubles < MaxTroubles /\ troubles' = troubles + 1
Moves(r, from, to) == at[r] = from /\ at' = [at EXCEPT ![r] = to]
Exchanging == {r \in Refreshes : at[r] \in {"tomb", "store"}}

----------------------------------------------------------------------------
(* validateAndRotateRefreshToken: is there a tombstone? *)
Present(r) ==
  /\ \E t \in 1 .. made :
       /\ presented' = [presented EXCEPT ![r] = t]
       /\ Moves(r, "new", IF t \in tombs THEN "members" ELSE "take")
  /\ UNCHANGED <<live, tombs, family, made, members, troubles, successors, revoked, interrupted, ownVars>>

\* getdel: the token is gone, also when the address turns out to be another one.
Take(r) ==
  /\ IF presented[r] \in live
     THEN /\ live' = live \ {presented[r]}
          /\ \/ Moves(r, "take", "tomb") /\ UNCHANGED <<troubles, interrupted>>
             \/ Moves(r, "take", "done") /\ Trouble /\ interrupted' = TRUE
     ELSE Moves(r, "take", "done") /\ UNCHANGED <<live, troubles, interrupted>>
  /\ UNCHANGED <<tombs, family, made, presented, members, successors, revoked, ownVars>>

LeaveTombstone(r) ==
  /\ Moves(r, "tomb", "store") /\ tombs' = tombs \cup {presented[r]}
  /\ UNCHANGED <<live, family, made, presented, members, troubles, successors, revoked, interrupted, ownVars>>

\* Variant: the next token is not added to the family.
StoreAlone(r) ==
  /\ Moves(r, "store", "done")
  /\ made' = made + 1 /\ live' = live \cup {made + 1} /\ UNCHANGED family
  /\ successors' = [successors EXCEPT ![presented[r]] = @ \cup {made + 1}]
  /\ UNCHANGED <<tombs, presented, members, troubles, revoked, interrupted, ownVars>>
\* The transaction that stores the next token and adds it to the family; that one command
\* of it failed goes unnoticed.
StoreNext(r) ==
  /\ Moves(r, "store", "done")
  /\ made' = made + 1
  /\ \/ live' = live \cup {made + 1} /\ family' = family \cup {made + 1} /\ UNCHANGED <<troubles, interrupted>>
     \/ /\ Trouble /\ interrupted' = TRUE
        /\ \/ live' = live \cup {made + 1} /\ UNCHANGED family
           \/ family' = family \cup {made + 1} /\ UNCHANGED live
  /\ successors' = [successors EXCEPT ![presented[r]] = @ \cup {made + 1}]
  /\ UNCHANGED <<tombs, presented, members, revoked, ownVars>>

(* revokeTokenFamily: the members are read, then deleted one by one (pipeline). *)
ReadMembers(r) ==
  /\ Moves(r, "members", IF family = {} THEN "done" ELSE "delete")
  /\ members' = [members EXCEPT ![r] = family]
  /\ UNCHANGED <<live, tombs, family, made, presented, troubles, successors, revoked, interrupted, ownVars>>
DeleteMembers(r) ==
  /\ Moves(r, "delete", "done")
  /\ live' = live \ members[r] /\ family' = {} /\ members' = [members EXCEPT ![r] = {}]
  /\ revoked' = (revoked \/ (Exchanging = {} /\ family = members[r]))
  /\ interrupted' = (interrupted \/ Exchanging # {} \/ family # members[r])
  /\ UNCHANGED <<tombs, made, presented, troubles, successors, ownVars>>

\* Variant: the token exchanged stays in memory.
ExchangedInMemoryKept(t) == inMemoryTokens \cup {made + 1}
ExchangedInMemory(t) == (inMemoryTokens \ {t}) \cup {made + 1}

\* The catch of the rotation: the request, on the instance of the login or on another one,
\* goes on in memory. Or the instance dies.
RotateInMemory(r) ==
  /\ at[r] \in {"new", "take", "tomb", "store"} /\ at' = [at EXCEPT ![r] = "done"]
  /\ Trouble /\ interrupted' = TRUE
  /\ \E t \in 1 .. made :
       /\ at[r] # "new" => t = presented[r]
       /\ presented' = [presented EXCEPT ![r] = t]
       /\ live' \in {live, IF at[r] = "take" THEN live \ {t} ELSE live}
       /\ tombs' \in {tombs, IF at[r] = "tomb" THEN tombs \cup {t} ELSE tombs}
       /\ \/ /\ t \in inMemoryTokens /\ made' = made + 1
             /\ inMemoryTokens' = ExchangedInMemory(t)
             /\ ownSuccessors' = [ownSuccessors EXCEPT ![t] = @ \cup {made + 1}]
          \/ UNCHANGED <<made, inMemoryTokens, ownSuccessors>>
  /\ UNCHANGED <<family, members, successors, revoked, doubled>>

\* A call of the revocation, or some of the pipeline, fails: the family in memory goes.
RevokeInMemory(r) ==
  /\ at[r] \in {"members", "delete"} /\ at' = [at EXCEPT ![r] = "done"] /\ Trouble
  /\ interrupted' = TRUE /\ inMemoryTokens' \in {inMemoryTokens, {}}
  /\ IF at[r] = "delete" THEN family' \in {family, {}} /\ \E gone \in SUBSET members[r] : live' = live \ gone
                         ELSE UNCHANGED <<live, family>>
  /\ UNCHANGED <<tombs, made, presented, members, successors, revoked, ownSuccessors, doubled>>

\* A tombstone or the family's key expires, or the instance of the login restarts.
Expire ==
  /\ Trouble
  /\ \/ \E t \in tombs : tombs' = tombs \ {t} /\ UNCHANGED <<family, interrupted, inMemoryTokens>>
     \/ family # {} /\ family' = {} /\ interrupted' = TRUE /\ UNCHANGED <<tombs, inMemoryTokens>>
     \/ inMemoryTokens # {} /\ inMemoryTokens' = {} /\ UNCHANGED <<tombs, family, interrupted>>
  /\ UNCHANGED <<live, made, at, presented, members, successors, revoked, ownSuccessors, doubled>>

Next == \/ Expire
        \/ \E r \in Refreshes : \/ Present(r) \/ Take(r) \/ LeaveTombstone(r) \/ StoreNext(r)
                                \/ ReadMembers(r) \/ DeleteMembers(r)
                                \/ RotateInMemory(r) \/ RevokeInMemory(r)

Spec == Init /\ [][Next]_vars

----------------------------------------------------------------------------
TypeOK ==
  /\ made \in Tokens
  /\ {live, tombs, family, inMemoryTokens} \subseteq SUBSET (1 .. made)
  /\ at \in [Refreshes -> {"new", "take", "tomb", "store", "members", "delete", "done"}]
  /\ presented \in [Refreshes -> {Free} \cup Tokens] /\ members \in [Refreshes -> SUBSET Tokens]
  /\ troubles \in 0 .. MaxTroubles /\ {successors, ownSuccessors} \subseteq [Tokens -> SUBSET Tokens]
  /\ {revoked, interrupted, doubled} \subseteq BOOLEAN

(* Requests that race with one token exchange it once, in Redis or in memory,    *)
(* whatever calls fail; only the token of a login that was applied and reported  *)
(* as failed can be exchanged once in each. Unless something failed midway, the  *)
(* newest token stays good until it is presented, and none is good any more once *)
(* a reuse has revoked the family (validateAndRotateRefreshToken).               *)
TokensSpentOnce ==
  /\ \A t \in Tokens : /\ Cardinality(successors[t]) <= 1 /\ Cardinality(ownSuccessors[t]) <= 1
                       /\ successors[t] = {} \/ ownSuccessors[t] = {} \/ (doubled /\ t = 1)
  /\ interrupted \/ revoked \/ made \in live \/ Exchanging # {}
  /\ revoked /\ ~interrupted => live = {}
=============================================================================

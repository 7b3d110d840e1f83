-------------------------------- MODULE EdgeProofs -----------------------------
(* Theorems of Edge. A behaviour of Edge is, part by part, a behaviour of that part    *)
(* alone; what a part promises is proved of its own Init and Next. Here are the parts   *)
(* that keep something: sessions, pins, cached copies, files, subscriptions, scores,    *)
(* profiles and the audit trail.                                                        *)
EXTENDS Edge, FiniteSetTheorems, SequenceTheorems, TLAPS

----------------------------------------------------------------------------
(* The refresh tokens. *)
USE TokensAssumption

LEMMA TokensAlone == EdgeSpec => Tok!Spec
<1>1. EdgeInit => Tok!Init BY DEF EdgeInit
<1>2. [EdgeNext]_edgeVars => [Tok!Next]_(Tok!vars)
  BY DEF EdgeNext, Others, edgeVars, tokensVars, Tok!vars, Tok!ownVars
<1>q. QED BY <1>1, <1>2, PTL DEF EdgeSpec, Tok!Spec, edgeVars

\* A token is good, in exchange by one request, or exchanged for one other.
TokensHeld ==
  /\ \A t \in live : successors[t] = {}
  /\ \A r \in Tok!Exchanging : presented[r] \in 1 .. made /\ presented[r] \notin live /\ successors[presented[r]] = {}
  /\ \A r, s \in Tok!Exchanging : presented[r] = presented[s] => r = s
  /\ \A t \in Tok!Tokens : /\ t > made => successors[t] = {}
                           /\ Cardinality(successors[t]) <= 1

\* So it is in the memory of the login's instance; there and in Redis is only the first one.
Own(t) == t \in inMemoryTokens \/ ownSuccessors[t] # {}
Elsewhere(t) == t \in live \/ successors[t] # {} \/ \E r \in Tok!Exchanging : presented[r] = t
OwnHeld ==
  /\ \A t \in inMemoryTokens : ownSuccessors[t] = {}
  /\ \A t \in Tok!Tokens : /\ t > made => ownSuccessors[t] = {}
                           /\ Cardinality(ownSuccessors[t]) <= 1
                           /\ Own(t) /\ Elsewhere(t) => doubled /\ t = 1

\* Unless an exchange was interrupted the newest token is the only one, and in its family.
NewestHolds ==
  ~interrupted =>
    /\ live \subseteq {made} /\ live \subseteq family
    /\ \A r \in Tok!Exchanging : presented[r] = made
    /\ revoked => live = {} /\ Tok!Exchanging = {}
    /\ ~revoked => made \in live \/ Tok!Exchanging # {}

Answered == {r \in Refreshes : at[r] = "done"}
MadeInTurn == made <= 1 + Cardinality(Answered)

Ats == {"new", "take", "tomb", "store", "members", "delete", "done"}

TokenTypes ==
  /\ made \in Nat /\ made \in Tok!Tokens /\ live \subseteq 1 .. made /\ tombs \subseteq 1 .. made
  /\ family \subseteq 1 .. made /\ inMemoryTokens \subseteq 1 .. made
  /\ at \in [Refreshes -> Ats] /\ presented \in [Refreshes -> {0} \cup Tok!Tokens]
  /\ members \in [Refreshes -> SUBSET Tok!Tokens] /\ troubles \in 0 .. MaxTroubles
  /\ successors \in [Tok!Tokens -> SUBSET Tok!Tokens] /\ ownSuccessors \in [Tok!Tokens -> SUBSET Tok!Tokens]
  /\ revoked \in BOOLEAN /\ interrupted \in BOOLEAN /\ doubled \in BOOLEAN
TokensInv == TokenTypes /\ TokensHeld /\ OwnHeld /\ NewestHolds /\ MadeInTurn

LEMMA RefreshMoves ==
  ASSUME at \in [Refreshes -> Ats], NEW r \in Refreshes, NEW x \in Ats, NEW y, Tok!Moves(r, y, x)
  PROVE  /\ at' \in [Refreshes -> Ats] /\ at'[r] = x /\ \A s \in Refreshes \ {r} : at'[s] = at[s]
         /\ Tok!Exchanging \subseteq Refreshes
         /\ r \in Tok!Exchanging <=> at[r] \in {"tomb", "store"}
         /\ Tok!Exchanging' = IF x \in {"tomb", "store"} THEN Tok!Exchanging \cup {r} ELSE Tok!Exchanging \ {r}
         /\ y = at[r]
BY DEF Tok!Exchanging, Tok!Moves

LEMMA TokensCounted == \A S : Tok!Cardinality(S) = Cardinality(S)
BY DEF Tok!Cardinality, Cardinality

LEMMA TokensAre ==
  /\ Cardinality(Refreshes) \in Nat /\ Tok!Tokens = 1 .. Cardinality(Refreshes) + 1
  /\ Cardinality({}) = 0 /\ \A x : Cardinality({x}) = 1
<1>1. Cardinality(Refreshes) \in Nat BY FS_CardinalityType
<1>2. \A x : Cardinality({x}) = 1 BY FS_Singleton
<1>3. Cardinality({}) = 0 BY FS_EmptySet
<1>4. Tok!Tokens = 1 .. Cardinality(Refreshes) + 1 BY TokensCounted DEF Tok!Tokens
<1>q. QED BY <1>1, <1>2, <1>3, <1>4

\* Requests that are answered stay so; each makes at most one token, and then it is answered.
LEMMA AnswersCount ==
  ASSUME at \in [Refreshes -> Ats], NEW r \in Refreshes, NEW x \in Ats, NEW y, Tok!Moves(r, y, x), y # "done"
  PROVE  /\ Cardinality(Answered) \in Nat /\ Cardinality(Answered) + 1 <= Cardinality(Refreshes)
         /\ Cardinality(Answered)' \in Nat
         /\ Cardinality(Answered)' = Cardinality(Answered) + (IF x = "done" THEN 1 ELSE 0)
<1>1. IsFiniteSet(Answered) /\ Cardinality(Answered) \in Nat
  BY FS_Subset, FS_CardinalityType DEF Answered
<1>0. at' \in [Refreshes -> Ats] /\ at'[r] = x /\ y = at[r] /\ \A s \in Refreshes \ {r} : at'[s] = at[s]
  BY RefreshMoves
<1>2. Answered' = IF x = "done" THEN Answered \cup {r} ELSE Answered BY <1>0 DEF Answered
<1>3. r \notin Answered /\ Answered \cup {r} \subseteq Refreshes BY <1>0 DEF Answered
<1>4. Cardinality(Answered \cup {r}) = Cardinality(Answered) + 1 BY <1>1, <1>3, FS_AddElement
<1>5. Cardinality(Answered \cup {r}) <= Cardinality(Refreshes) BY <1>3, FS_Subset
<1>q. QED BY <1>1, <1>2, <1>4, <1>5

LEMMA TokensTyped == TokenTypes <=> Tok!TypeOK
<1>1. \A t \in Tok!Tokens : t \in Nat BY TokensAre
<1>q. QED BY <1>1 DEF TokenTypes, Tok!TypeOK, Ats, Tok!Free

\* Where tokens only go away, what is in memory stays apart from what is in Redis.
LEMMA OwnKept ==
  ASSUME OwnHeld, live' \subseteq live, inMemoryTokens' \subseteq inMemoryTokens,
         UNCHANGED <<made, successors, ownSuccessors, doubled>>,
         \A s \in Tok!Exchanging' : s \in Tok!Exchanging /\ presented'[s] = presented[s]
  PROVE  OwnHeld'
<1>1. \A t \in Tok!Tokens : (Own(t) /\ Elsewhere(t))' => Own(t) /\ Elsewhere(t) BY DEF Own, Elsewhere
<1>q. QED BY <1>1 DEF OwnHeld

LEMMA TokensNext == TokensInv /\ [Tok!Next]_(Tok!vars) => TokensInv'
<1> SUFFICES ASSUME TokensInv, [Tok!Next]_(Tok!vars) PROVE TokensInv'
  OBVIOUS
<1>v. TokenTypes BY DEF TokensInv
<1>t. /\ made \in Nat /\ made \in Tok!Tokens /\ live \subseteq 1 .. made /\ tombs \subseteq 1 .. made
      /\ family \subseteq 1 .. made /\ inMemoryTokens \subseteq 1 .. made
      /\ at \in [Refreshes -> Ats] /\ presented \in [Refreshes -> {0} \cup Tok!Tokens]
      /\ members \in [Refreshes -> SUBSET Tok!Tokens] /\ troubles \in 0 .. MaxTroubles
      /\ successors \in [Tok!Tokens -> SUBSET Tok!Tokens] /\ ownSuccessors \in [Tok!Tokens -> SUBSET Tok!Tokens]
      /\ revoked \in BOOLEAN /\ interrupted \in BOOLEAN /\ doubled \in BOOLEAN
  BY <1>v DEF TokenTypes
<1>h. TokensHeld /\ NewestHolds /\ MadeInTurn /\ OwnHeld BY DEF TokensInv
<1>a. at \in [Refreshes -> Ats] BY <1>t
<1>r. 1 .. made \subseteq Tok!Tokens BY <1>t, TokensAre
<1>1. ASSUME NEW r \in Refreshes, Tok!Present(r) PROVE TokensInv'
  <2>1. PICK t \in 1 .. made : /\ presented' = [presented EXCEPT ![r] = t]
                               /\ Tok!Moves(r, "new", IF t \in tombs THEN "members" ELSE "take")
    BY <1>1 DEF Tok!Present
  <2>2. PICK x \in {"members", "take"} : Tok!Moves(r, "new", x) BY <2>1
  <2>3. UNCHANGED <<live, tombs, family, made, members, troubles, successors, revoked, interrupted, Tok!ownVars>>
    BY <1>1 DEF Tok!Present
  <2>x. x \in Ats /\ x \notin {"tomb", "store"} BY <2>2 DEF Ats
  <2>4. at' \in [Refreshes -> Ats] /\ Tok!Exchanging' = Tok!Exchanging /\ r \notin Tok!Exchanging
        /\ Tok!Exchanging \subseteq Refreshes
    BY <1>a, <2>2, <2>x, RefreshMoves
  <2>5. presented' \in [Refreshes -> {0} \cup Tok!Tokens] /\ \A s \in Refreshes \ {r} : presented'[s] = presented[s]
    BY <1>r, <1>t, <2>1
  <2>6. TokenTypes' BY <1>t, <2>3, <2>4, <2>5 DEF TokenTypes, Tok!ownVars
  <2>7. \A s \in Tok!Exchanging : presented'[s] = presented[s] BY <2>4, <2>5
  <2>8. TokensHeld' BY <1>h, <2>3, <2>4, <2>7 DEF TokensHeld
  <2>o. OwnHeld' BY <1>h, <2>3, <2>4, <2>7, OwnKept DEF Tok!ownVars
  <2>9. NewestHolds' BY <1>h, <2>3, <2>4, <2>7 DEF NewestHolds
  <2>10. MadeInTurn' BY <1>h, <1>t, <2>2, <2>3, AnswersCount DEF MadeInTurn, Ats
  <2>q. QED BY <2>6, <2>8, <2>9, <2>10, <2>o DEF TokensInv
<1>2. ASSUME NEW r \in Refreshes, Tok!Take(r) PROVE TokensInv'
  <2>1. PICK x \in {"tomb", "done"} : Tok!Moves(r, "take", x)
    BY <1>2 DEF Tok!Take
  <2>2. UNCHANGED <<tombs, family, made, presented, members, successors, revoked, Tok!ownVars>> BY <1>2 DEF Tok!Take
  <2>x. x \in Ats /\ x \in {"tomb", "done"} BY <2>1 DEF Ats
  <2>3. /\ at' \in [Refreshes -> Ats] /\ at'[r] = x /\ Tok!Exchanging \subseteq Refreshes /\ r \notin Tok!Exchanging
        /\ Tok!Exchanging' = IF x = "tomb" THEN Tok!Exchanging \cup {r} ELSE Tok!Exchanging
    BY <1>a, <2>1, <2>x, RefreshMoves
  <2>a. \A z \in {"tomb", "done"} : Tok!Moves(r, "take", z) => z = x
    BY <1>t, <2>1, RefreshMoves DEF Ats
  <2>4. \/ x = "tomb" /\ presented[r] \in live /\ live' = live \ {presented[r]} /\ UNCHANGED <<troubles, interrupted>>
        \/ x = "done" /\ live' \subseteq live /\ Tok!Trouble /\ interrupted'
        \/ x = "done" /\ UNCHANGED <<live, troubles, interrupted>>
    BY <1>2, <1>t, <2>a DEF Tok!Take
  <2>b. troubles' \in 0 .. MaxTroubles /\ live' \subseteq live /\ interrupted' \in BOOLEAN
    <3>1. Tok!Trouble => troubles' \in 0 .. MaxTroubles BY <1>t DEF Tok!Trouble
    <3>q. QED BY <1>t, <2>4, <3>1
  <2>5. TokenTypes' BY <1>t, <2>2, <2>3, <2>b DEF TokenTypes, Tok!ownVars
  <2>6. TokensHeld'
    <3>1. CASE x = "tomb"
      <4>1. Tok!Exchanging' = Tok!Exchanging \cup {r} BY <2>3, <3>1
      <4>2. presented[r] \in live /\ live' = live \ {presented[r]} BY <2>4, <3>1
      <4>3. \A s \in Tok!Exchanging : presented[s] # presented[r] BY <1>h, <4>2 DEF TokensHeld
      <4>q. QED BY <1>h, <1>t, <2>2, <4>1, <4>2, <4>3 DEF TokensHeld
    <3>2. CASE x = "done"
      <4>1. Tok!Exchanging' = Tok!Exchanging /\ live' \subseteq live BY <2>3, <2>4, <3>2
      <4>q. QED BY <1>h, <2>2, <4>1 DEF TokensHeld
    <3>q. QED BY <3>1, <3>2
  <2>o. OwnHeld'
    <3>1. CASE x = "tomb"
      <4>1. \A u \in Tok!Tokens : (Own(u) /\ Elsewhere(u))' => Own(u) /\ Elsewhere(u)
        BY <2>2, <2>3, <2>4, <3>1 DEF Own, Elsewhere, Tok!ownVars
      <4>q. QED BY <1>h, <2>2, <4>1 DEF OwnHeld, Tok!ownVars
    <3>2. CASE x = "done" BY <1>h, <2>2, <2>3, <2>b, <3>2, OwnKept DEF Tok!ownVars
    <3>q. QED BY <3>1, <3>2
  <2>7. NewestHolds' BY <1>h, <2>2, <2>3, <2>4 DEF NewestHolds
  <2>8. MadeInTurn' BY <1>h, <1>t, <2>1, <2>2, AnswersCount DEF MadeInTurn, Ats
  <2>q. QED BY <2>5, <2>6, <2>7, <2>8, <2>o DEF TokensInv
<1>3. ASSUME NEW r \in Refreshes, Tok!LeaveTombstone(r) PROVE TokensInv'
  <2>1. /\ Tok!Moves(r, "tomb", "store") /\ tombs' = tombs \cup {presented[r]}
        /\ UNCHANGED <<live, family, made, presented, members, troubles, successors, revoked, interrupted, Tok!ownVars>>
    BY <1>3 DEF Tok!LeaveTombstone
  <2>2. /\ at' \in [Refreshes -> Ats] /\ r \in Tok!Exchanging /\ Tok!Exchanging' = Tok!Exchanging
    BY <1>t, <2>1, RefreshMoves DEF Ats
  <2>3. presented[r] \in 1 .. made BY <1>h, <2>2 DEF TokensHeld
  <2>4. TokenTypes' BY <1>t, <2>1, <2>2, <2>3 DEF TokenTypes, Tok!ownVars
  <2>5. TokensHeld' BY <1>h, <2>1, <2>2 DEF TokensHeld
  <2>6. NewestHolds' BY <1>h, <2>1, <2>2 DEF NewestHolds
  <2>7. MadeInTurn' BY <1>h, <1>t, <2>1, AnswersCount DEF MadeInTurn, Ats
  <2>o. OwnHeld' BY <1>h, <2>1, <2>2, OwnKept DEF Tok!ownVars
  <2>q. QED BY <2>4, <2>5, <2>6, <2>7, <2>o DEF TokensInv
<1>4. ASSUME NEW r \in Refreshes, Tok!StoreNext(r) PROVE TokensInv'
  <2> DEFINE p == presented[r]
  <2>1. /\ Tok!Moves(r, "store", "done")
        /\ made' = made + 1
        /\ successors' = [successors EXCEPT ![p] = successors[p] \cup {made + 1}]
        /\ UNCHANGED <<tombs, presented, members, revoked, Tok!ownVars>>
    BY <1>4 DEF Tok!StoreNext
  <2>s. \/ live' = live \cup {made + 1} /\ family' = family \cup {made + 1} /\ UNCHANGED <<troubles, interrupted>>
        \/ /\ live' \subseteq live \cup {made + 1} /\ family' \subseteq family \cup {made + 1}
           /\ Tok!Trouble /\ interrupted' = TRUE
    BY <1>4 DEF Tok!StoreNext
  <2>l. live' \subseteq live \cup {made + 1} /\ family' \subseteq family \cup {made + 1} BY <2>s
  <2>c. troubles' \in 0 .. MaxTroubles /\ interrupted' \in BOOLEAN
    <3>1. Tok!Trouble => troubles' \in 0 .. MaxTroubles BY <1>t DEF Tok!Trouble
    <3>q. QED BY <1>t, <2>s, <3>1
  <2>2. /\ at' \in [Refreshes -> Ats] /\ r \in Tok!Exchanging /\ Tok!Exchanging' = Tok!Exchanging \ {r}
    BY <1>t, <2>1, RefreshMoves DEF Ats
  <2>3. p \in 1 .. made /\ p \notin live /\ successors[p] = {} BY <1>h, <2>2 DEF TokensHeld
  <2>4. /\ Cardinality(Answered)' = Cardinality(Answered) + 1 /\ Cardinality(Answered) \in Nat
        /\ Cardinality(Answered) + 1 <= Cardinality(Refreshes)
    BY <1>t, <2>1, AnswersCount DEF Ats
  <2>5. MadeInTurn' /\ made + 1 \in Tok!Tokens
    BY <1>h, <1>t, <2>1, <2>4, TokensAre DEF MadeInTurn
  <2> HIDE DEF p
  <2>6. /\ successors' \in [Tok!Tokens -> SUBSET Tok!Tokens] /\ successors'[p] = {made + 1}
        /\ \A t \in Tok!Tokens \ {p} : successors'[t] = successors[t]
    BY <1>r, <1>t, <2>1, <2>3, <2>5
  <2>7. TokenTypes'
    <3>1. /\ live' \subseteq 1 .. made' /\ tombs' \subseteq 1 .. made' /\ family' \subseteq 1 .. made'
          /\ inMemoryTokens' \subseteq 1 .. made'
      BY <1>t, <2>1, <2>l DEF Tok!ownVars
    <3>q. QED BY <1>t, <2>1, <2>2, <2>5, <2>6, <2>c, <3>1 DEF TokenTypes, Tok!ownVars
  <2>8. TokensHeld'
    <3>1. \A s \in Tok!Exchanging \ {r} : presented[s] # p BY <1>h, <2>2 DEF TokensHeld, p
    <3>2. \A t \in live' : successors'[t] = {}
      BY <1>h, <1>r, <1>t, <2>1, <2>l, <2>3, <2>5, <2>6 DEF TokensHeld
    <3>3. \A s \in Tok!Exchanging' :
            presented'[s] \in 1 .. made' /\ presented'[s] \notin live' /\ successors'[presented'[s]] = {}
      BY <1>h, <1>r, <1>t, <2>1, <2>l, <2>2, <2>6, <3>1 DEF TokensHeld
    <3>4. \A t \in Tok!Tokens : (t > made' => successors'[t] = {}) /\ Cardinality(successors'[t]) <= 1
      <4> SUFFICES ASSUME NEW t \in Tok!Tokens
                   PROVE  (t > made' => successors'[t] = {}) /\ Cardinality(successors'[t]) <= 1
        OBVIOUS
      <4>1. t \in Nat BY TokensAre
      <4>2. CASE t = p
        <5>1. ~(t > made + 1) BY <1>t, <2>3, <4>2
        <5>2. Cardinality(successors'[t]) = 1 BY <2>6, <4>2, TokensAre
        <5>q. QED BY <2>1, <5>1, <5>2
      <4>3. CASE t # p
        <5>1. successors'[t] = successors[t] BY <2>6, <4>3
        <5>2. t > made + 1 => t > made BY <1>t, <4>1
        <5>q. QED BY <1>h, <2>1, <5>1, <5>2 DEF TokensHeld
      <4>q. QED BY <4>2, <4>3
    <3>5. \A s, u \in Tok!Exchanging' : presented'[s] = presented'[u] => s = u
      BY <1>h, <2>1, <2>2 DEF TokensHeld
    <3>q. QED BY <3>2, <3>3, <3>4, <3>5 DEF TokensHeld
  <2>o. OwnHeld'
    <3>1. p \in Tok!Tokens /\ made + 1 \notin inMemoryTokens /\ made + 1 > made BY <1>r, <1>t, <2>3
    <3>2. ownSuccessors[made + 1] = {} BY <1>h, <2>5, <3>1 DEF OwnHeld
    <3>3. Elsewhere(p) BY <2>2 DEF Elsewhere, p
    <3>4. ASSUME NEW u \in Tok!Tokens, (Own(u) /\ Elsewhere(u))' PROVE Own(u) /\ Elsewhere(u)
      <4>1. Own(u) /\ u # made + 1 BY <2>1, <3>1, <3>2, <3>4 DEF Own, Tok!ownVars
      <4>2. CASE u = p BY <3>3, <4>1, <4>2
      <4>3. CASE u # p BY <2>1, <2>2, <2>l, <2>6, <3>4, <4>1, <4>3 DEF Elsewhere
      <4>q. QED BY <4>2, <4>3
    <3>5. \A u \in Tok!Tokens : u \in Nat BY TokensAre
    <3>q. QED BY <1>h, <1>t, <2>1, <3>4, <3>5 DEF OwnHeld, Tok!ownVars
  <2>9. NewestHolds'
    <3>1. SUFFICES ASSUME ~interrupted'
                   PROVE  /\ live' \subseteq {made'} /\ live' \subseteq family'
                          /\ Tok!Exchanging' = {} /\ ~revoked /\ made' \in live'
      BY <2>1 DEF NewestHolds
    <3>0. ~interrupted /\ live' = live \cup {made + 1} /\ family' = family \cup {made + 1} BY <2>s, <3>1
    <3>2. /\ live \subseteq {made} /\ live \subseteq family /\ ~revoked
          /\ \A s \in Tok!Exchanging : presented[s] = made
      BY <1>h, <2>2, <3>0 DEF NewestHolds
    <3>3. p = made BY <2>2, <3>2 DEF p
    <3>4. Tok!Exchanging \ {r} = {} BY <1>h, <2>2, <3>2 DEF TokensHeld
    <3>5. live = {} BY <2>3, <3>2, <3>3
    <3>q. QED BY <2>1, <2>2, <3>0, <3>2, <3>4, <3>5
  <2>q. QED BY <2>5, <2>7, <2>8, <2>9, <2>o DEF TokensInv
<1>5. ASSUME NEW r \in Refreshes, Tok!ReadMembers(r) PROVE TokensInv'
  <2>1. PICK x \in {"done", "delete"} : Tok!Moves(r, "members", x)
    BY <1>5 DEF Tok!ReadMembers
  <2>2. /\ members' = [members EXCEPT ![r] = family]
        /\ UNCHANGED <<live, tombs, family, made, presented, troubles, successors, revoked, interrupted, Tok!ownVars>>
    BY <1>5 DEF Tok!ReadMembers
  <2>x. x \in Ats /\ x \notin {"tomb", "store"} BY <2>1 DEF Ats
  <2>y. at' \in [Refreshes -> Ats] /\ r \notin Tok!Exchanging BY <1>a, <2>1, <2>x, RefreshMoves
  <2>3. at' \in [Refreshes -> Ats] /\ Tok!Exchanging' = Tok!Exchanging BY <1>a, <2>1, <2>x, <2>y, RefreshMoves
  <2>4. members' \in [Refreshes -> SUBSET Tok!Tokens] BY <1>r, <1>t, <2>2
  <2>5. TokenTypes' BY <1>t, <2>2, <2>3, <2>4 DEF TokenTypes, Tok!ownVars
  <2>6. TokensHeld' BY <1>h, <2>2, <2>3 DEF TokensHeld
  <2>7. NewestHolds' BY <1>h, <2>2, <2>3 DEF NewestHolds
  <2>8. MadeInTurn' BY <1>h, <1>t, <2>1, <2>2, AnswersCount DEF MadeInTurn, Ats
  <2>o. OwnHeld' BY <1>h, <2>2, <2>3, OwnKept DEF Tok!ownVars
  <2>q. QED BY <2>5, <2>6, <2>7, <2>8, <2>o DEF TokensInv
<1>6. ASSUME NEW r \in Refreshes, Tok!DeleteMembers(r) PROVE TokensInv'
  <2>1. /\ Tok!Moves(r, "delete", "done")
        /\ live' = live \ members[r] /\ family' = {} /\ members' = [members EXCEPT ![r] = {}]
        /\ revoked' = (revoked \/ (Tok!Exchanging = {} /\ family = members[r]))
        /\ interrupted' = (interrupted \/ Tok!Exchanging # {} \/ family # members[r])
        /\ UNCHANGED <<tombs, made, presented, troubles, successors, Tok!ownVars>>
    BY <1>6 DEF Tok!DeleteMembers
  <2>x. "done" \in Ats BY DEF Ats
  <2>y. at' \in [Refreshes -> Ats] /\ r \notin Tok!Exchanging BY <1>a, <2>1, <2>x, RefreshMoves
  <2>2. at' \in [Refreshes -> Ats] /\ Tok!Exchanging' = Tok!Exchanging BY <1>a, <2>1, <2>x, <2>y, RefreshMoves
  <2>3. TokenTypes' BY <1>t, <2>1, <2>2 DEF TokenTypes, Tok!ownVars
  <2>4. TokensHeld' BY <1>h, <2>1, <2>2 DEF TokensHeld
  <2>5. NewestHolds' BY <1>h, <2>1, <2>2 DEF NewestHolds
  <2>6. MadeInTurn' BY <1>h, <1>t, <2>1, AnswersCount DEF MadeInTurn, Ats
  <2>o. OwnHeld' BY <1>h, <2>1, <2>2, OwnKept DEF Tok!ownVars
  <2>q. QED BY <2>3, <2>4, <2>5, <2>6, <2>o DEF TokensInv
<1>7. ASSUME NEW r \in Refreshes, Tok!RevokeInMemory(r) PROVE TokensInv'
  <2>1. /\ at[r] \in {"members", "delete"} /\ Tok!Moves(r, at[r], "done") /\ Tok!Trouble /\ interrupted' = TRUE
        /\ UNCHANGED <<tombs, made, presented, members, successors, revoked, ownSuccessors, doubled>>
    BY <1>7 DEF Tok!RevokeInMemory, Tok!Moves
  <2>2. live' \subseteq live /\ family' \subseteq family /\ inMemoryTokens' \subseteq inMemoryTokens
    BY <1>7 DEF Tok!RevokeInMemory
  <2>3. at' \in [Refreshes -> Ats] /\ Tok!Exchanging' \subseteq Tok!Exchanging BY <1>t, <2>1, RefreshMoves DEF Ats
  <2>4. TokenTypes' BY <1>t, <2>1, <2>2, <2>3 DEF TokenTypes, Tok!Trouble
  <2>5. TokensHeld' BY <1>h, <2>1, <2>2, <2>3 DEF TokensHeld
  <2>6. OwnHeld' BY <1>h, <2>1, <2>2, <2>3, OwnKept
  <2>7. NewestHolds' BY <2>1 DEF NewestHolds
  <2>8. MadeInTurn' BY <1>h, <1>t, <2>1, AnswersCount DEF MadeInTurn, Ats
  <2>q. QED BY <2>4, <2>5, <2>6, <2>7, <2>8 DEF TokensInv
<1>8. ASSUME NEW r \in Refreshes, Tok!RotateInMemory(r) PROVE TokensInv'
  <2>1. /\ at[r] # "done" /\ Tok!Moves(r, at[r], "done") /\ Tok!Trouble /\ interrupted' = TRUE
        /\ UNCHANGED <<family, members, successors, revoked, doubled>>
    BY <1>8 DEF Tok!RotateInMemory, Tok!Moves
  <2>2. at' \in [Refreshes -> Ats] /\ Tok!Exchanging' = Tok!Exchanging \ {r} BY <1>t, <2>1, RefreshMoves DEF Ats
  <2>3. PICK t \in 1 .. made :
          /\ presented' = [presented EXCEPT ![r] = t] /\ live' \subseteq live /\ tombs' \subseteq tombs \cup {t}
          /\ \/ /\ t \in inMemoryTokens /\ made' = made + 1
                /\ inMemoryTokens' = (inMemoryTokens \ {t}) \cup {made + 1}
                /\ ownSuccessors' = [ownSuccessors EXCEPT ![t] = ownSuccessors[t] \cup {made + 1}]
             \/ UNCHANGED <<made, inMemoryTokens, ownSuccessors>>
    BY <1>8 DEF Tok!RotateInMemory, Tok!ExchangedInMemory
  <2>4. t \in Tok!Tokens /\ t \in Nat BY <1>r
  <2>5. /\ Cardinality(Answered)' = Cardinality(Answered) + 1 /\ Cardinality(Answered) \in Nat
        /\ Cardinality(Answered) + 1 <= Cardinality(Refreshes)
    BY <1>t, <2>1, AnswersCount DEF Ats
  <2>6. made' \in {made, made + 1} /\ made + 1 \in Tok!Tokens /\ MadeInTurn'
    BY <1>h, <1>t, <2>3, <2>5, TokensAre DEF MadeInTurn
  <2>7. /\ presented' \in [Refreshes -> {0} \cup Tok!Tokens]
        /\ \A s \in Tok!Exchanging' : s \in Tok!Exchanging /\ presented'[s] = presented[s]
    BY <1>t, <2>2, <2>3, <2>4 DEF Tok!Exchanging
  <2>8. TokenTypes'
    <3>1. /\ live' \subseteq 1 .. made' /\ tombs' \subseteq 1 .. made' /\ family' \subseteq 1 .. made'
          /\ inMemoryTokens' \subseteq 1 .. made'
      <4>1. made' \in Nat /\ made <= made' /\ 1 .. made \subseteq 1 .. made' BY <1>t, <2>6
      <4>2. made' = made + 1 => made + 1 \in 1 .. made' BY <1>t
      <4>3. live' \subseteq 1 .. made' /\ family' \subseteq 1 .. made' BY <1>t, <2>1, <2>3, <4>1
      <4>4. t \in 1 .. made' /\ tombs' \subseteq 1 .. made' BY <1>t, <2>3, <4>1
      <4>5. inMemoryTokens' \subseteq 1 .. made' BY <1>t, <2>3, <4>1, <4>2
      <4>q. QED BY <4>3, <4>4, <4>5
    <3>2. ownSuccessors' \in [Tok!Tokens -> SUBSET Tok!Tokens] BY <1>t, <2>3, <2>4, <2>6
    <3>q. QED BY <1>t, <2>1, <2>2, <2>6, <2>7, <3>1, <3>2 DEF TokenTypes, Tok!Trouble
  <2>9. TokensHeld'
    <3>1. \A u \in Tok!Tokens : u > made' => u > made BY <1>t, <2>6, TokensAre
    <3>q. QED BY <1>h, <1>t, <2>1, <2>3, <2>6, <2>7, <3>1 DEF TokensHeld
  <2>10. OwnHeld'
    <3>1. CASE UNCHANGED <<made, inMemoryTokens, ownSuccessors>> BY <1>h, <2>1, <2>3, <2>7, <3>1, OwnKept
    <3>2. CASE ~UNCHANGED <<made, inMemoryTokens, ownSuccessors>>
      <4>1. /\ t \in inMemoryTokens /\ made' = made + 1 /\ ownSuccessors[t] = {}
            /\ inMemoryTokens' = (inMemoryTokens \ {t}) \cup {made + 1}
            /\ ownSuccessors'[t] = {made + 1} /\ \A u \in Tok!Tokens \ {t} : ownSuccessors'[u] = ownSuccessors[u]
        BY <1>h, <1>t, <2>3, <2>4, <3>2 DEF OwnHeld
      <4>2. made + 1 > made /\ made + 1 \notin live /\ t # made + 1 BY <1>t, <2>4
      <4>3. ~Elsewhere(made + 1) /\ ownSuccessors[made + 1] = {}
        <5>1. made + 1 \notin 1 .. made BY <1>t
        <5>q. QED BY <1>h, <2>6, <4>2, <5>1 DEF Elsewhere, TokensHeld, OwnHeld
      <4>4. \A u \in Tok!Tokens : Elsewhere(u)' => Elsewhere(u) BY <2>1, <2>3, <2>7 DEF Elsewhere
      <4>5. Own(t) BY <4>1 DEF Own
      <4>6. ASSUME NEW u \in Tok!Tokens, (Own(u) /\ Elsewhere(u))' PROVE Own(u) /\ Elsewhere(u)
        <5>1. u # made + 1 /\ Elsewhere(u) BY <4>3, <4>4, <4>6
        <5>2. CASE u = t BY <4>5, <5>1, <5>2
        <5>3. CASE u # t BY <4>1, <4>6, <5>1, <5>3 DEF Own
        <5>q. QED BY <5>2, <5>3
      <4>7. \A u \in inMemoryTokens' : ownSuccessors'[u] = {}
        BY <1>h, <1>r, <1>t, <2>6, <4>1, <4>2, <4>3 DEF OwnHeld
      <4>8. ASSUME NEW u \in Tok!Tokens
            PROVE  (u > made' => ownSuccessors'[u] = {}) /\ Cardinality(ownSuccessors'[u]) <= 1
        <5>0. \A z \in Tok!Tokens : z \in Nat BY TokensAre
        <5>1. u \in Nat /\ Cardinality({made + 1}) = 1 BY <5>0, TokensAre
        <5>2. CASE u = t
          <6>1. ~(u > made') BY <1>t, <2>3, <4>1, <5>2
          <6>q. QED BY <4>1, <5>1, <5>2, <6>1
        <5>3. CASE u # t BY <1>h, <1>t, <4>1, <5>1, <5>3 DEF OwnHeld
        <5>q. QED BY <5>2, <5>3
      <4>q. QED BY <1>h, <2>1, <4>6, <4>7, <4>8 DEF OwnHeld
    <3>q. QED BY <3>1, <3>2
  <2>11. NewestHolds' BY <2>1 DEF NewestHolds
  <2>q. QED BY <2>6, <2>8, <2>9, <2>10, <2>11 DEF TokensInv
<1>9. CASE Tok!Expire \/ UNCHANGED Tok!vars
  <2>1. /\ UNCHANGED <<live, made, at, presented, members, successors, revoked, ownSuccessors, doubled>>
        /\ tombs' \subseteq tombs /\ family' \subseteq family /\ inMemoryTokens' \subseteq inMemoryTokens
        /\ troubles' \in 0 .. MaxTroubles
        /\ interrupted' \in BOOLEAN /\ (interrupted' \/ (~interrupted /\ UNCHANGED family))
    <3>1. CASE Tok!Expire
      <4>1. troubles' \in 0 .. MaxTroubles BY <1>t, <3>1 DEF Tok!Expire, Tok!Trouble
      <4>2. UNCHANGED <<live, made, at, presented, members, successors, revoked, ownSuccessors, doubled>>
        BY <3>1 DEF Tok!Expire
      <4>3. /\ inMemoryTokens' \subseteq inMemoryTokens
            /\ \/ tombs' \subseteq tombs /\ family' = family /\ interrupted' = interrupted
               \/ tombs' = tombs /\ family' = {} /\ interrupted' = TRUE
        BY <3>1 DEF Tok!Expire
      <4>4. tombs' \subseteq tombs /\ family' \subseteq family BY <4>3
      <4>5. (UNCHANGED interrupted /\ UNCHANGED family) \/ interrupted' = TRUE BY <4>3
      <4>6. interrupted' \in BOOLEAN BY <1>t, <4>5
      <4>7. interrupted' \/ (~interrupted /\ UNCHANGED family) BY <1>t, <4>5
      <4>q. QED BY <4>1, <4>2, <4>3, <4>4, <4>6, <4>7
    <3>2. CASE UNCHANGED Tok!vars BY <1>t, <3>2 DEF Tok!vars, Tok!ownVars
    <3>q. QED BY <1>9, <3>1, <3>2
  <2>2. Tok!Exchanging' = Tok!Exchanging /\ Answered' = Answered BY <2>1 DEF Tok!Exchanging, Answered
  <2>3. TokenTypes' BY <1>t, <2>1 DEF TokenTypes
  <2>4. TokensHeld' BY <1>h, <2>1, <2>2 DEF TokensHeld
  <2>5. OwnHeld' BY <1>h, <2>1, <2>2, OwnKept
  <2>6. NewestHolds' BY <1>h, <2>1, <2>2 DEF NewestHolds
  <2>7. MadeInTurn' BY <1>h, <2>1, <2>2 DEF MadeInTurn
  <2>q. QED BY <2>3, <2>4, <2>5, <2>6, <2>7 DEF TokensInv
<1>q. QED BY <1>1, <1>2, <1>3, <1>4, <1>5, <1>6, <1>7, <1>8, <1>9 DEF Tok!Next

LEMMA TokensSpent == Tok!Spec => [](Tok!TypeOK /\ Tok!TokensSpentOnce)
<1>1. Tok!Init => TokensInv
  <2> SUFFICES ASSUME Tok!Init PROVE TokensInv
    OBVIOUS
  <2>1. Tok!Exchanging = {} /\ 1 \in Tok!Tokens BY TokensAre DEF Tok!Init, Tok!Exchanging
  <2>a. /\ tombs = {} /\ made = 1 /\ revoked = FALSE
        /\ at \in [Refreshes -> Ats] /\ presented \in [Refreshes -> {0} \cup Tok!Tokens]
        /\ members \in [Refreshes -> SUBSET Tok!Tokens]
        /\ successors \in [Tok!Tokens -> SUBSET Tok!Tokens] /\ ownSuccessors \in [Tok!Tokens -> SUBSET Tok!Tokens]
        /\ \A t \in Tok!Tokens : successors[t] = {} /\ ownSuccessors[t] = {}
    BY DEF Tok!Init, Ats, Tok!Free
  <2>b. /\ live \subseteq {1} /\ family \subseteq {1} /\ inMemoryTokens \subseteq {1}
        /\ troubles \in 0 .. MaxTroubles /\ interrupted \in BOOLEAN
        /\ doubled = (inMemoryTokens = {1} /\ live = {1})
        /\ ~interrupted => live = {1} /\ family = {1}
    <3>1. MaxTroubles \in Nat BY TokensAssumption DEF TokensAssumption
    <3>2. doubled = (inMemoryTokens = {1} /\ live = {1}) BY DEF Tok!Init
    <3>3. CASE live = {1} /\ family = {1} /\ inMemoryTokens = {} /\ troubles = 0 /\ interrupted = FALSE
      <4>1. troubles \in 0 .. MaxTroubles BY <3>1, <3>3
      <4>2. /\ live \subseteq {1} /\ family \subseteq {1} /\ inMemoryTokens \subseteq {1}
            /\ interrupted \in BOOLEAN
        BY <3>3
      <4>q. QED BY <3>2, <3>3, <4>1, <4>2
    <3>4. CASE /\ troubles = 1 /\ troubles <= MaxTroubles /\ interrupted = TRUE
               /\ live \in SUBSET {1} /\ family \in SUBSET {1} /\ inMemoryTokens \in SUBSET {1}
      BY <3>1, <3>2, <3>4
    <3>q. QED BY <3>3, <3>4 DEF Tok!Init
  <2>c. 1 .. made = {1} /\ made \in Nat /\ {1} \subseteq Tok!Tokens /\ doubled \in BOOLEAN BY <2>1, <2>a, <2>b
  <2>2. TokenTypes BY <2>a, <2>b, <2>c DEF TokenTypes
  <2>d. \A t \in Tok!Tokens : Cardinality(successors[t]) <= 1 /\ Cardinality(ownSuccessors[t]) <= 1
    <3>1. Cardinality({}) <= 1 BY TokensAre
    <3>q. QED BY <2>a, <3>1
  <2>3. TokensHeld BY <2>1, <2>a, <2>b, <2>c, <2>d DEF TokensHeld
  <2>o. OwnHeld
    <3>1. \A t \in Tok!Tokens : Own(t) => t = 1 /\ inMemoryTokens = {1} BY <2>a, <2>b DEF Own
    <3>2. \A t \in Tok!Tokens : Elsewhere(t) => live = {1} BY <2>1, <2>a, <2>b DEF Elsewhere
    <3>q. QED BY <2>a, <2>b, <2>c, <2>d, <3>1, <3>2 DEF OwnHeld
  <2>4. NewestHolds BY <2>1, <2>a, <2>b DEF NewestHolds
  <2>5. Cardinality(Answered) \in Nat BY FS_Subset, FS_CardinalityType DEF Answered
  <2>6. MadeInTurn BY <2>5, <2>a DEF MadeInTurn
  <2>q. QED BY <2>2, <2>3, <2>4, <2>6, <2>o DEF TokensInv
<1>2. TokensInv => Tok!TypeOK /\ Tok!TokensSpentOnce
  <2> SUFFICES ASSUME TokensInv PROVE Tok!TypeOK /\ Tok!TokensSpentOnce
    OBVIOUS
  <2>1. revoked \in BOOLEAN /\ interrupted \in BOOLEAN BY DEF TokensInv, TokenTypes
  <2>2. \A t \in Tok!Tokens : /\ Cardinality(successors[t]) <= 1 /\ Cardinality(ownSuccessors[t]) <= 1
                              /\ (successors[t] = {} \/ ownSuccessors[t] = {} \/ (doubled /\ t = 1))
    BY DEF TokensInv, TokensHeld, OwnHeld, Own, Elsewhere
  <2>3. interrupted \/ revoked \/ made \in live \/ Tok!Exchanging # {} BY DEF TokensInv, NewestHolds
  <2>4. revoked /\ ~interrupted => live = {} BY DEF TokensInv, NewestHolds
  <2>5. Tok!TypeOK BY TokensTyped DEF TokensInv
  <2>q. QED BY <2>2, <2>3, <2>4, <2>5, TokensCounted DEF Tok!TokensSpentOnce
<1>q. QED BY <1>1, <1>2, TokensNext, PTL DEF Tok!Spec
----------------------------------------------------------------------------
(* The logins. *)
HIDE TokensAssumption
USE LoginsAssumption

LEMMA LoginsAlone == EdgeSpec => Log!Spec
<1>1. EdgeInit => Log!Init BY DEF EdgeInit
<1>2. [EdgeNext]_edgeVars => [Log!Next]_(Log!vars)
  BY DEF EdgeNext, Others, edgeVars, loginsVars, Log!vars
<1>q. QED BY <1>1, <1>2, PTL DEF EdgeSpec, Log!Spec, edgeVars

\* A verification took challenge c and may log in with it, or did.
Took(v, c) == verify[v] \in {"mark", "in"} /\ signed[v] = c
LetIn(v, c) == verify[v] = "in" /\ signed[v] = c
Kept(c) == \E d \in Log!Desks : pendingOwn[d] = c

\* A challenge is in Redis twice, or in Redis and at an instance, at the price of failed
\* calls: what a second verification costs is counted in them.
NobodysYet == \A a \in Askers : ask[a] # "done" => pending # a /\ ~Kept(a) /\ \A v \in Verifiers : ~Took(v, a)
OwnIsOwn == \A d \in Log!Desks : pendingOwn[d] # NoChallenge => Desk[pendingOwn[d]] = d /\ glitches >= 1
TakenTwice ==
  \A c \in Askers : \A v \in Verifiers : Took(v, c) =>
    /\ pending = c => glitches >= 2
    /\ \A u \in Verifiers \ {v} : Took(u, c) => glitches >= 2
LetInUnmarked ==
  \A c \in Askers \ nonces : \A v \in Verifiers : LetIn(v, c) =>
    /\ Kept(c) => glitches >= 2
    /\ pending = c => glitches >= 3
    /\ \A u \in Verifiers \ {v} : Took(u, c) => glitches >= 3
LetInTwice == \A c \in Askers : \A u, v \in Verifiers : LetIn(u, c) /\ LetIn(v, c) /\ u # v => glitches >= 3
LoginsAre ==
  /\ \A c \in Askers : logins[c] = {v \in Verifiers : LetIn(v, c)}
  /\ \A v \in Verifiers : verify[v] \in {"mark", "in"} => signed[v] \in Askers
AnswersLast ==
  \A a \in Askers : answer[a] \in {NoChallenge, pending, pendingOwn[Desk[a]]} \cup ended \cup unstored

LoginsInv ==
  /\ Log!TypeOK /\ NobodysYet /\ OwnIsOwn /\ TakenTwice /\ LetInUnmarked /\ LetInTwice /\ LoginsAre
  /\ AnswersLast

Challenges == Askers \cup {NoChallenge}
LEMMA DesksAre ==
  /\ Log!MaybeChallenge = Challenges
  /\ \A x \in Askers : Desk[x] \in Log!Desks
  /\ \A x \in Verifiers : Desk[x] \in Log!Desks
BY DEF Log!Desks, Log!MaybeChallenge, Challenges

\* One field of a function, written.
LEMMA OwnWritten ==
  ASSUME pendingOwn \in [Log!Desks -> Challenges], NEW d \in Log!Desks, NEW x \in Challenges,
         pendingOwn' = [pendingOwn EXCEPT ![d] = x]
  PROVE  /\ pendingOwn' \in [Log!Desks -> Challenges] /\ pendingOwn'[d] = x
         /\ \A e \in Log!Desks \ {d} : pendingOwn'[e] = pendingOwn[e]
OBVIOUS

LEMMA HandedOut ==
  ASSUME Log!TypeOK, NEW a \in Askers, NEW c \in Challenges, Log!Hand(a, c)
  PROVE  /\ ask' \in [Askers -> {"new", "get", "again", "last", "done"}] /\ ask'[a] = "done"
         /\ \A b \in Askers \ {a} : ask'[b] = ask[b]
         /\ answer' \in [Askers -> Challenges] /\ answer'[a] = c
         /\ \A b \in Askers \ {a} : answer'[b] = answer[b]
BY DesksAre DEF Log!TypeOK, Log!Hand

\* Nothing that counts of the verifications changes in what an asker does.
LEMMA VerifiersStay ==
  ASSUME LoginsInv, UNCHANGED <<nonces, verify, signed, logins>>, glitches' \in Nat, glitches' >= glitches,
         \A c \in Askers : pending' = c => pending = c \/ \A v \in Verifiers : ~Took(v, c),
         \A c \in Askers : Kept(c)' => Kept(c) \/ \A v \in Verifiers : ~Took(v, c)
  PROVE  TakenTwice' /\ LetInUnmarked' /\ LetInTwice' /\ LoginsAre'
<1>0. glitches \in Nat BY DEF LoginsInv, Log!TypeOK
<1>1. \A v \in Verifiers, c \in Askers : /\ Took(v, c)' <=> Took(v, c)
                                         /\ LetIn(v, c)' <=> LetIn(v, c)
                                         /\ LetIn(v, c) => Took(v, c)
  BY DEF Took, LetIn
<1>2. TakenTwice' BY <1>0, <1>1 DEF LoginsInv, TakenTwice
<1>3. LetInUnmarked' BY <1>0, <1>1 DEF LoginsInv, LetInUnmarked
<1>4. LetInTwice' BY <1>0, <1>1 DEF LoginsInv, LetInTwice
<1>5. LoginsAre' BY <1>1 DEF LoginsInv, LoginsAre, LetIn
<1>q. QED BY <1>2, <1>3, <1>4, <1>5

\* A store that went wrong.
LEMMA StoresOwn ==
  ASSUME LoginsInv, NEW a \in Askers, ask[a] # "done", Log!StoreOwn(a),
         UNCHANGED <<nonces, noncesOwn, verify, signed, logins, ended, unstored>>
  PROVE  LoginsInv'
<1> DEFINE d == Desk[a]
           mine == pendingOwn[d]
           c == IF mine = NoChallenge THEN a ELSE mine
<1>1. /\ glitches < MaxGlitches /\ glitches' = glitches + 1
      /\ pending' \in {pending, IF pending = NoChallenge THEN a ELSE pending}
      /\ Log!Hand(a, c) /\ pendingOwn' = [pendingOwn EXCEPT ![d] = c]
  BY DEF Log!StoreOwn, Log!Glitch
<1>2. /\ d \in Log!Desks /\ pending \in Challenges /\ pendingOwn \in [Log!Desks -> Challenges]
      /\ mine \in Challenges /\ glitches \in Nat
  BY DesksAre DEF LoginsInv, Log!TypeOK
<1>3. c \in Askers /\ c \in Challenges /\ (c = a \/ c = mine) /\ (mine # NoChallenge => c = mine) BY <1>2 DEF Challenges
<1> HIDE DEF c
<1>4. /\ pendingOwn' \in [Log!Desks -> Challenges] /\ pendingOwn'[d] = c
      /\ \A e \in Log!Desks \ {d} : pendingOwn'[e] = pendingOwn[e]
  BY <1>1, <1>2, <1>3, OwnWritten
<1>5. /\ ask' \in [Askers -> {"new", "get", "again", "last", "done"}] /\ ask'[a] = "done"
      /\ \A b \in Askers \ {a} : ask'[b] = ask[b]
      /\ answer' \in [Askers -> Challenges] /\ answer'[a] = c
      /\ \A b \in Askers \ {a} : answer'[b] = answer[b]
  BY <1>1, <1>3, HandedOut DEF LoginsInv
<1>6. glitches' \in Nat /\ glitches' >= glitches /\ glitches' >= 1 /\ glitches' \in 0 .. MaxGlitches
  BY <1>1, <1>2
<1>7. /\ pending' \in Challenges /\ (pending' = pending \/ (pending = NoChallenge /\ pending' = a)) BY <1>1, <1>2 DEF Challenges
<1>8. Log!TypeOK' BY <1>4, <1>5, <1>6, <1>7, DesksAre DEF LoginsInv, Log!TypeOK
<1>9. \A v \in Verifiers : ~Took(v, a) BY DEF LoginsInv, NobodysYet
<1>10. \A b \in Askers : Kept(b)' => Kept(b) \/ b = a
  BY <1>2, <1>3, <1>4 DEF Kept
<1>11. TakenTwice' /\ LetInUnmarked' /\ LetInTwice' /\ LoginsAre'
  BY <1>6, <1>7, <1>9, <1>10, VerifiersStay
<1>12. NobodysYet'
  BY <1>5, <1>7, <1>10 DEF LoginsInv, NobodysYet, Took
<1>13. OwnIsOwn'
  BY <1>2, <1>3, <1>4, <1>6 DEF LoginsInv, OwnIsOwn
<1>14. AnswersLast'
  <2> SUFFICES ASSUME NEW b \in Askers
               PROVE  answer'[b] \in {NoChallenge, pending', pendingOwn'[Desk[b]]} \cup ended \cup unstored
    BY DEF AnswersLast
  <2>1. CASE b = a BY <1>4, <1>5, <2>1
  <2>2. CASE b # a
    <3>1. answer'[b] = answer[b] BY <1>5, <2>2
    <3>2. answer[b] \in {NoChallenge, pending, pendingOwn[Desk[b]]} \cup ended \cup unstored
      BY DEF LoginsInv, AnswersLast
    <3>3. pendingOwn[Desk[b]] \in {NoChallenge, pendingOwn'[Desk[b]]}
      BY <1>3, <1>4, DesksAre
    <3>4. pending \in {NoChallenge, pending'} BY <1>7
    <3>q. QED BY <3>1, <3>2, <3>3, <3>4
  <2>q. QED BY <2>1, <2>2
<1>q. QED BY <1>8, <1>11, <1>12, <1>13, <1>14 DEF LoginsInv

LEMMA ChallengeAsked ==
  ASSUME LoginsInv, NEW a \in Askers, Log!Store(a) \/ Log!GetPending(a)
  PROVE  LoginsInv'
<1>u. ask[a] # "done" BY DEF Log!Store, Log!GetPending
<1>t. /\ pending \in Challenges /\ pendingOwn \in [Log!Desks -> Challenges] /\ glitches \in Nat /\ Log!TypeOK
      /\ ask \in [Askers -> {"new", "get", "again", "last", "done"}]
  BY DesksAre DEF LoginsInv, Log!TypeOK
<1>1. CASE Log!StoreOwn(a) /\ UNCHANGED <<nonces, noncesOwn, verify, signed, logins, ended, unstored>>
  BY <1>1, <1>u, StoresOwn
<1>2. CASE /\ \/ pending = NoChallenge /\ pending' = a /\ Log!Hand(a, a) /\ UNCHANGED unstored
              \/ pending # NoChallenge /\ Log!Hand(a, pending) /\ UNCHANGED <<pending, unstored>>
              \/ Log!Hand(a, a) /\ unstored' = unstored \cup {a} /\ UNCHANGED pending
           /\ UNCHANGED <<pendingOwn, glitches, nonces, noncesOwn, verify, signed, logins, ended>>
  <2>1. PICK c \in Askers :
           /\ Log!Hand(a, c)
           /\ \/ pending = NoChallenge /\ pending' = a /\ c = a /\ UNCHANGED unstored
              \/ c = pending /\ UNCHANGED <<pending, unstored>>
              \/ c = a /\ unstored' = unstored \cup {a} /\ UNCHANGED pending
    BY <1>2, <1>t DEF Challenges
  <2>2. c \in Challenges BY DEF Challenges
  <2>3. /\ ask' \in [Askers -> {"new", "get", "again", "last", "done"}] /\ ask'[a] = "done"
        /\ \A b \in Askers \ {a} : ask'[b] = ask[b]
        /\ answer' \in [Askers -> Challenges] /\ answer'[a] = c
        /\ \A b \in Askers \ {a} : answer'[b] = answer[b]
    BY <1>t, <2>1, <2>2, HandedOut
  <2>4. pending' \in Challenges /\ (pending' = pending \/ (pending = NoChallenge /\ pending' = a)) /\ unstored \subseteq unstored'
        /\ unstored' \subseteq Askers
    BY <1>t, <2>1 DEF Challenges, Log!TypeOK
  <2>5. Log!TypeOK' BY <1>2, <1>t, <2>3, <2>4, DesksAre DEF Log!TypeOK
  <2>6. \A v \in Verifiers : ~Took(v, a) BY <1>u DEF LoginsInv, NobodysYet
  <2>7. \A b \in Askers : Kept(b)' <=> Kept(b) BY <1>2 DEF Kept
  <2>8. TakenTwice' /\ LetInUnmarked' /\ LetInTwice' /\ LoginsAre'
    BY <1>2, <1>t, <2>4, <2>6, <2>7, VerifiersStay
  <2>9. NobodysYet' BY <1>2, <2>3, <2>4, <2>7 DEF LoginsInv, NobodysYet, Took
  <2>10. OwnIsOwn' BY <1>2 DEF LoginsInv, OwnIsOwn
  <2>11. AnswersLast'
    <3> SUFFICES ASSUME NEW b \in Askers
                 PROVE  answer'[b] \in {NoChallenge, pending', pendingOwn'[Desk[b]]} \cup ended' \cup unstored'
      BY DEF AnswersLast
    <3>1. CASE b = a BY <2>1, <2>3, <3>1
    <3>2. CASE b # a
      <4>1. answer'[b] = answer[b] BY <2>3, <3>2
      <4>2. answer[b] \in {NoChallenge, pending, pendingOwn[Desk[b]]} \cup ended \cup unstored
        BY DEF LoginsInv, AnswersLast
      <4>q. QED BY <1>2, <2>4, <4>1, <4>2
    <3>q. QED BY <3>1, <3>2
  <2>q. QED BY <2>5, <2>8, <2>9, <2>10, <2>11 DEF LoginsInv
<1>3. CASE /\ \E x \in {"get", "last", "again"} : ask' = [ask EXCEPT ![a] = x]
           /\ UNCHANGED <<pending, pendingOwn, answer, glitches, nonces, noncesOwn, verify, signed, logins, ended, unstored>>
  <2>1. /\ ask' \in [Askers -> {"new", "get", "again", "last", "done"}]
        /\ \A b \in Askers : ask'[b] # "done" => ask[b] # "done"
    BY <1>3, <1>t, <1>u
  <2>2. Log!TypeOK' BY <1>3, <1>t, <2>1 DEF Log!TypeOK
  <2>3. \A b \in Askers : Kept(b)' <=> Kept(b) BY <1>3 DEF Kept
  <2>4. TakenTwice' /\ LetInUnmarked' /\ LetInTwice' /\ LoginsAre' BY <1>3, <1>t, <2>3, VerifiersStay
  <2>5. NobodysYet' BY <1>3, <2>1, <2>3 DEF LoginsInv, NobodysYet, Took
  <2>6. OwnIsOwn' /\ AnswersLast' BY <1>3 DEF LoginsInv, OwnIsOwn, AnswersLast
  <2>q. QED BY <2>2, <2>4, <2>5, <2>6 DEF LoginsInv
<1>4. CASE Log!Store(a)
  <2>1. UNCHANGED <<nonces, noncesOwn, verify, signed, logins, ended, unstored>> BY <1>4 DEF Log!Store
  <2>2. CASE Log!SetIfNone(a) /\ UNCHANGED <<pendingOwn, glitches>>
    BY <1>2, <2>1, <2>2 DEF Log!SetIfNone
  <2>3. CASE /\ pending # NoChallenge /\ UNCHANGED <<pending, pendingOwn, answer, glitches>>
             /\ ask' = [ask EXCEPT ![a] = IF ask[a] = "new" THEN "get" ELSE "last"]
    BY <1>3, <2>1, <2>3
  <2>4. CASE Log!StoreOwn(a) BY <1>1, <2>1, <2>4
  <2>q. QED BY <1>4, <2>2, <2>3, <2>4 DEF Log!Store
<1>5. CASE Log!GetPending(a)
  <2>1. UNCHANGED <<nonces, noncesOwn, verify, signed, logins, ended>> BY <1>5 DEF Log!GetPending
  <2>2. CASE pending # NoChallenge /\ Log!Hand(a, pending) /\ UNCHANGED <<pending, pendingOwn, glitches, unstored>>
    BY <1>2, <2>1, <2>2
  <2>3. CASE pending = NoChallenge /\ Log!Asks(a, "get", "again")
             /\ UNCHANGED <<pending, pendingOwn, answer, glitches, unstored>>
    BY <1>3, <2>1, <2>3 DEF Log!Asks
  <2>4. CASE Log!Hand(a, a) /\ unstored' = unstored \cup {a} /\ UNCHANGED <<pending, pendingOwn, glitches>>
    BY <1>2, <2>1, <2>4
  <2>5. CASE Log!StoreOwn(a) /\ UNCHANGED unstored BY <1>1, <2>1, <2>5
  <2>q. QED BY <1>5, <2>2, <2>3, <2>4, <2>5 DEF Log!GetPending
<1>q. QED BY <1>4, <1>5

\* A verification takes a challenge out of Redis, or out of an instance by a failed call.
Consumed(v, c, got) ==
  /\ signed' = [signed EXCEPT ![v] = c]
  /\ verify' = [verify EXCEPT ![v] = IF got # NoChallenge /\ got = c THEN "mark" ELSE "refused"]
LEMMA ConsumedWrites ==
  ASSUME Log!TypeOK, NEW v \in Verifiers, NEW c \in Challenges, NEW got, Consumed(v, c, got)
  PROVE  /\ signed' \in [Verifiers -> Challenges] /\ verify' \in [Verifiers -> {"new", "mark", "in", "refused"}]
         /\ signed'[v] = c /\ verify'[v] = IF got # NoChallenge /\ got = c THEN "mark" ELSE "refused"
         /\ \A u \in Verifiers \ {v} : signed'[u] = signed[u] /\ verify'[u] = verify[u]
BY DesksAre DEF Log!TypeOK, Consumed

LEMMA ChallengeConsumed ==
  ASSUME LoginsInv, NEW v \in Verifiers, Log!Consume(v)
  PROVE  LoginsInv'
<1> DEFINE d == Desk[v]
<1>1. /\ verify[v] = "new" /\ UNCHANGED <<nonces, noncesOwn, ask, answer, logins, unstored>>
  BY DEF Log!Consume
<1>t. /\ pending \in Challenges /\ pendingOwn \in [Log!Desks -> Challenges] /\ glitches \in Nat /\ Log!TypeOK
      /\ answer \in [Askers -> Challenges] /\ d \in Log!Desks /\ NoChallenge \in Challenges /\ ended \subseteq Askers
  BY DesksAre DEF LoginsInv, Log!TypeOK, Challenges
<1>2. PICK c \in {answer[a] : a \in Askers} \cup {NoChallenge}, got \in Log!MaybeChallenge :
        /\ \/ got = pending /\ pending' = NoChallenge /\ UNCHANGED <<pendingOwn, glitches>>
           \/ /\ Log!Glitch /\ got = pendingOwn[d] /\ pending' \in {pending, NoChallenge}
              /\ pendingOwn' = [pendingOwn EXCEPT ![d] = NoChallenge]
        /\ Consumed(v, c, got)
        /\ ended' = ended \cup (({got} \cup (IF pending' = pending THEN {} ELSE {pending})) \ {NoChallenge})
  BY DEF Log!Consume, Consumed
<1>3. c \in Challenges /\ got \in Challenges BY <1>t, DesksAre
<1>4. /\ pendingOwn' \in [Log!Desks -> Challenges]
      /\ pending' \in {pending, NoChallenge}
      /\ \A e \in Log!Desks : \/ pendingOwn'[e] = pendingOwn[e]
                              \/ pendingOwn'[e] = NoChallenge /\ pendingOwn[e] = got
      /\ glitches' \in 0 .. MaxGlitches /\ glitches' \in Nat /\ glitches' >= glitches
      /\ \/ got = pending /\ pending' = NoChallenge
         \/ got = pendingOwn[d] /\ glitches' = glitches + 1
  <2>1. CASE got = pending /\ pending' = NoChallenge /\ UNCHANGED <<pendingOwn, glitches>>
    BY <2>1, <1>t DEF Log!TypeOK
  <2>2. CASE /\ Log!Glitch /\ got = pendingOwn[d] /\ pending' \in {pending, NoChallenge}
             /\ pendingOwn' = [pendingOwn EXCEPT ![d] = NoChallenge]
    <3>1. /\ pendingOwn' \in [Log!Desks -> Challenges] /\ pendingOwn'[d] = NoChallenge
          /\ \A e \in Log!Desks \ {d} : pendingOwn'[e] = pendingOwn[e]
      BY <2>2, <1>t, OwnWritten
    <3>2. glitches < MaxGlitches /\ glitches' = glitches + 1 BY <2>2 DEF Log!Glitch
    <3>q. QED BY <2>2, <3>1, <3>2, <1>t
  <2>q. QED BY <1>2, <2>1, <2>2
<1>5. /\ signed' \in [Verifiers -> Challenges] /\ verify' \in [Verifiers -> {"new", "mark", "in", "refused"}]
      /\ signed'[v] = c /\ verify'[v] = IF got # NoChallenge /\ got = c THEN "mark" ELSE "refused"
      /\ \A u \in Verifiers \ {v} : signed'[u] = signed[u] /\ verify'[u] = verify[u]
  BY <1>2, <1>3, <1>t, ConsumedWrites
<1> HIDE DEF d
<1>6. /\ \A u \in Verifiers, x \in Askers : Took(u, x)' => Took(u, x) \/ (u = v /\ x = got)
      /\ \A u \in Verifiers, x \in Askers : LetIn(u, x)' <=> LetIn(u, x)
      /\ \A u \in Verifiers, x \in Askers : LetIn(u, x) => Took(u, x) /\ u # v
  BY <1>1, <1>5 DEF Took, LetIn
<1>7. /\ \A x \in Askers : Kept(x)' => Kept(x)
      /\ \A x \in Askers : pending' = x => pending = x
  BY <1>4 DEF Kept
<1>8. \A x \in Askers : x = got => \/ pending = x /\ pending' # x
                                   \/ Kept(x) /\ glitches >= 1 /\ glitches' = glitches + 1
  BY <1>4, <1>t DEF LoginsInv, OwnIsOwn, Kept
<1>9. ended' \subseteq Askers /\ ended \subseteq ended' BY <1>2, <1>3, <1>t DEF Challenges
<1>10. Log!TypeOK' BY <1>1, <1>4, <1>5, <1>9, <1>t, DesksAre DEF Log!TypeOK
<1>11. NobodysYet' BY <1>1, <1>6, <1>7, <1>8 DEF LoginsInv, NobodysYet
<1>12. OwnIsOwn' BY <1>4, <1>t DEF LoginsInv, OwnIsOwn
<1>13. TakenTwice'
  <2> SUFFICES ASSUME NEW x \in Askers, NEW u \in Verifiers, Took(u, x)'
               PROVE  /\ pending' = x => glitches' >= 2
                      /\ \A w \in Verifiers \ {u} : Took(w, x)' => glitches' >= 2
    BY DEF TakenTwice
  <2>1. CASE x # got BY <2>1, <1>4, <1>6, <1>7, <1>t DEF LoginsInv, TakenTwice
  <2>2. CASE x = got /\ Kept(x) /\ glitches >= 1 /\ glitches' = glitches + 1 BY <2>2, <1>t
  <2>3. CASE x = got /\ pending = x /\ pending' # x
    <3>1. \A w \in Verifiers : Took(w, x) => glitches >= 2 BY <2>3 DEF LoginsInv, TakenTwice
    <3>2. \A w \in Verifiers \ {u} : Took(w, x)' => Took(w, x) \/ Took(u, x) BY <1>6
    <3>q. QED BY <2>3, <3>1, <3>2, <1>4, <1>t
  <2>q. QED BY <2>1, <2>2, <2>3, <1>8
<1>14. LetInUnmarked'
  <2> SUFFICES ASSUME NEW x \in Askers \ nonces, NEW u \in Verifiers, LetIn(u, x)
               PROVE  /\ Kept(x)' => glitches' >= 2
                      /\ pending' = x => glitches' >= 3
                      /\ \A w \in Verifiers \ {u} : Took(w, x)' => glitches' >= 3
    BY <1>1, <1>6 DEF LetInUnmarked
  <2>1. /\ Kept(x) => glitches >= 2
        /\ pending = x => glitches >= 3
        /\ \A w \in Verifiers \ {u} : Took(w, x) => glitches >= 3
    BY DEF LoginsInv, LetInUnmarked
  <2>2. Kept(x)' => glitches' >= 2 BY <2>1, <1>7, <1>4, <1>t
  <2>3. pending' = x => glitches' >= 3 BY <2>1, <1>7, <1>4, <1>t
  <2>4. ASSUME NEW w \in Verifiers \ {u}, Took(w, x)' PROVE glitches' >= 3
    BY <2>1, <2>4, <1>6, <1>8, <1>4, <1>t
  <2>q. QED BY <2>2, <2>3, <2>4
<1>15. LetInTwice' BY <1>4, <1>6, <1>t DEF LoginsInv, LetInTwice
<1>16. LoginsAre'
  <2>1. \A x \in Askers : logins'[x] = {u \in Verifiers : LetIn(u, x)'} BY <1>1, <1>6 DEF LoginsInv, LoginsAre
  <2>2. ASSUME NEW u \in Verifiers, verify'[u] \in {"mark", "in"} PROVE signed'[u] \in Askers
    BY <2>2, <1>3, <1>5 DEF LoginsInv, LoginsAre, Challenges
  <2>q. QED BY <2>1, <2>2 DEF LoginsAre
<1>17. AnswersLast'
  <2> SUFFICES ASSUME NEW b \in Askers
               PROVE  answer[b] \in {NoChallenge, pending', pendingOwn'[Desk[b]]} \cup ended' \cup unstored
    BY <1>1 DEF AnswersLast
  <2>1. answer[b] \in {NoChallenge, pending, pendingOwn[Desk[b]]} \cup ended \cup unstored
    BY DEF LoginsInv, AnswersLast
  <2>2. pending \in {NoChallenge, pending'} \cup ended' BY <1>2
  <2>3. pendingOwn[Desk[b]] \in {NoChallenge, pendingOwn'[Desk[b]]} \cup ended' BY <1>2, <1>4, DesksAre
  <2>q. QED BY <2>1, <2>2, <2>3, <1>9
<1>q. QED BY <1>10, <1>11, <1>12, <1>13, <1>14, <1>15, <1>16, <1>17 DEF LoginsInv

----------------------------------------------------------------------------
LEMMA AdmitWrites ==
  ASSUME LoginsInv, NEW v \in Verifiers, NEW first \in BOOLEAN, verify[v] = "mark", Log!Admit(v, first)
  PROVE  /\ verify' \in [Verifiers -> {"new", "mark", "in", "refused"}]
         /\ verify'[v] = IF first THEN "in" ELSE "refused"
         /\ \A u \in Verifiers \ {v} : verify'[u] = verify[u]
         /\ logins' \in [Askers -> SUBSET Verifiers]
         /\ \A x \in Askers : logins'[x] = IF x = signed[v] /\ first THEN logins[x] \cup {v} ELSE logins[x]
<1>1. /\ verify \in [Verifiers -> {"new", "mark", "in", "refused"}] /\ logins \in [Askers -> SUBSET Verifiers]
      /\ signed[v] \in Askers
  BY DEF LoginsInv, LoginsAre, Log!TypeOK
<1>2. verify' = [verify EXCEPT ![v] = IF first THEN "in" ELSE "refused"] BY DEF Log!Admit
<1>3. logins' = [logins EXCEPT ![signed[v]] = IF first THEN logins[signed[v]] \cup {v} ELSE logins[signed[v]]]
  BY DEF Log!Admit
<1>4. /\ verify' \in [Verifiers -> {"new", "mark", "in", "refused"}]
      /\ verify'[v] = IF first THEN "in" ELSE "refused"
      /\ \A u \in Verifiers \ {v} : verify'[u] = verify[u]
  BY <1>1, <1>2
<1>5. /\ logins' \in [Askers -> SUBSET Verifiers]
      /\ \A x \in Askers : logins'[x] = IF x = signed[v] /\ first THEN logins[x] \cup {v} ELSE logins[x]
  BY <1>1, <1>3
<1>q. QED BY <1>4, <1>5

LEMMA ChallengeMarked ==
  ASSUME LoginsInv, NEW v \in Verifiers, Log!MarkNonceUsed(v)
  PROVE  LoginsInv'
<1> DEFINE c == signed[v]
<1>1. verify[v] = "mark" /\ UNCHANGED <<pending, pendingOwn, ask, answer, signed, ended, unstored>>
  BY DEF Log!MarkNonceUsed
<1>2. /\ c \in Askers /\ Took(v, c) /\ glitches \in Nat /\ Log!TypeOK /\ Desk[v] \in Log!Desks
      /\ noncesOwn \in [Log!Desks -> SUBSET Askers] /\ nonces \subseteq Askers
  BY <1>1, DesksAre DEF LoginsInv, LoginsAre, Took, Log!TypeOK
<1>3. PICK first \in BOOLEAN :
        /\ Log!Admit(v, first)
        /\ nonces' \in {nonces, nonces \cup {c}} /\ noncesOwn' \in [Log!Desks -> SUBSET Askers]
        /\ glitches' \in 0 .. MaxGlitches /\ glitches' \in Nat /\ glitches' >= glitches
        /\ first => (c \notin nonces /\ c \in nonces') \/ glitches' = glitches + 1
  <2>1. CASE Log!Admit(v, c \notin nonces) /\ nonces' = nonces \cup {c} /\ UNCHANGED <<noncesOwn, glitches>>
    <3>1. glitches' \in 0 .. MaxGlitches /\ glitches' \in Nat /\ glitches' >= glitches BY <2>1, <1>2 DEF Log!TypeOK
    <3>q. QED BY <2>1, <3>1, <1>2
  <2>2. CASE /\ Log!Glitch /\ Log!Admit(v, c \notin noncesOwn[Desk[v]]) /\ nonces' \in {nonces, nonces \cup {c}}
             /\ noncesOwn' = [noncesOwn EXCEPT ![Desk[v]] = @ \cup {c}]
    <3>1. glitches' = glitches + 1 /\ glitches < MaxGlitches BY <2>2 DEF Log!Glitch
    <3>2. glitches' \in 0 .. MaxGlitches /\ glitches' \in Nat /\ glitches' >= glitches BY <3>1, <1>2
    <3>3. noncesOwn' \in [Log!Desks -> SUBSET Askers] BY <2>2, <1>2
    <3>q. QED BY <2>2, <3>1, <3>2, <3>3
  <2>q. QED BY <2>1, <2>2 DEF Log!MarkNonceUsed
<1>4. /\ verify' \in [Verifiers -> {"new", "mark", "in", "refused"}]
      /\ verify'[v] = IF first THEN "in" ELSE "refused"
      /\ \A u \in Verifiers \ {v} : verify'[u] = verify[u]
      /\ logins' \in [Askers -> SUBSET Verifiers]
      /\ \A x \in Askers : logins'[x] = IF x = c /\ first THEN logins[x] \cup {v} ELSE logins[x]
  BY <1>1, <1>3, AdmitWrites
<1>5. /\ \A u \in Verifiers, x \in Askers : Took(u, x)' => Took(u, x)
      /\ \A u \in Verifiers, x \in Askers : LetIn(u, x)' <=> LetIn(u, x) \/ (first /\ u = v /\ x = c)
      /\ \A u \in Verifiers, x \in Askers : LetIn(u, x) => Took(u, x) /\ u # v
  BY <1>1, <1>4 DEF Took, LetIn
<1>6. \A x \in Askers : Kept(x)' <=> Kept(x) BY <1>1 DEF Kept
<1> HIDE DEF c
<1>7. nonces \subseteq nonces' /\ nonces' \subseteq Askers BY <1>2, <1>3
<1>8. Log!TypeOK' BY <1>1, <1>2, <1>3, <1>4, <1>7 DEF Log!TypeOK
<1>9. NobodysYet' BY <1>1, <1>5, <1>6 DEF LoginsInv, NobodysYet
<1>10. OwnIsOwn' BY <1>1, <1>2, <1>3 DEF LoginsInv, OwnIsOwn, Log!TypeOK
<1>11. TakenTwice' BY <1>1, <1>2, <1>3, <1>5 DEF LoginsInv, TakenTwice
<1>12. /\ pending = c => glitches >= 2
       /\ \A u \in Verifiers \ {v} : Took(u, c) => glitches >= 2
       /\ Kept(c) => glitches >= 1
  BY <1>2 DEF LoginsInv, TakenTwice, OwnIsOwn, Kept
<1>13. LetInUnmarked'
  <2> SUFFICES ASSUME NEW x \in Askers \ nonces', NEW u \in Verifiers, LetIn(u, x)'
               PROVE  /\ Kept(x) => glitches' >= 2
                      /\ pending = x => glitches' >= 3
                      /\ \A w \in Verifiers \ {u} : Took(w, x) => glitches' >= 3
    BY <1>1, <1>5, <1>6 DEF LetInUnmarked
  <2>1. CASE LetIn(u, x)
    <3>1. /\ Kept(x) => glitches >= 2
          /\ pending = x => glitches >= 3
          /\ \A w \in Verifiers \ {u} : Took(w, x) => glitches >= 3
      BY <2>1, <1>7 DEF LoginsInv, LetInUnmarked
    <3>q. QED BY <3>1, <1>2, <1>3
  <2>2. CASE first /\ u = v /\ x = c
    <3>1. glitches' = glitches + 1 BY <2>2, <1>3
    <3>q. QED BY <2>2, <3>1, <1>2, <1>12
  <2>q. QED BY <2>1, <2>2, <1>5
<1>14. LetInTwice'
  <2> SUFFICES ASSUME NEW x \in Askers, NEW u \in Verifiers, NEW w \in Verifiers, LetIn(u, x)', LetIn(w, x)', u # w
               PROVE  glitches' >= 3
    BY DEF LetInTwice
  <2>1. CASE LetIn(u, x) /\ LetIn(w, x)
    <3>1. glitches >= 3 BY <2>1 DEF LoginsInv, LetInTwice
    <3>q. QED BY <3>1, <1>2, <1>3
  <2>2. ASSUME NEW z \in Verifiers \ {v}, LetIn(z, c), first PROVE glitches' >= 3
    <3>1. Took(z, c) /\ glitches >= 2 BY <2>2, <1>2, <1>5, <1>12
    <3>2. CASE c \notin nonces
      <4>1. glitches >= 3 BY <2>2, <3>2, <1>2 DEF LoginsInv, LetInUnmarked
      <4>q. QED BY <4>1, <1>2, <1>3
    <3>3. CASE glitches' = glitches + 1 BY <3>1, <3>3, <1>2
    <3>q. QED BY <2>2, <3>2, <3>3, <1>3
  <2>3. \/ LetIn(u, x) /\ LetIn(w, x)
        \/ first /\ x = c /\ u = v /\ LetIn(w, x)
        \/ first /\ x = c /\ w = v /\ LetIn(u, x)
    BY <1>5
  <2>q. QED BY <2>1, <2>2, <2>3
<1>15. LoginsAre'
  <2>1. ASSUME NEW x \in Askers PROVE logins'[x] = {u \in Verifiers : LetIn(u, x)'}
    <3>1. logins[x] = {u \in Verifiers : LetIn(u, x)} BY DEF LoginsInv, LoginsAre
    <3>q. QED BY <3>1, <1>4, <1>5
  <2>2. ASSUME NEW u \in Verifiers, verify'[u] \in {"mark", "in"} PROVE signed'[u] \in Askers
    BY <2>2, <1>1, <1>2, <1>4 DEF LoginsInv, LoginsAre, c
  <2>q. QED BY <2>1, <2>2 DEF LoginsAre
<1>16. AnswersLast' BY <1>1 DEF LoginsInv, AnswersLast
<1>q. QED BY <1>8, <1>9, <1>10, <1>11, <1>13, <1>14, <1>15, <1>16 DEF LoginsInv

----------------------------------------------------------------------------
LEMMA ChallengeGone ==
  ASSUME LoginsInv, Log!ChallengeExpires
  PROVE  LoginsInv'
<1>1. UNCHANGED <<nonces, noncesOwn, ask, answer, verify, signed, glitches, logins, unstored>>
  BY DEF Log!ChallengeExpires
<1>t. /\ pending \in Challenges /\ pendingOwn \in [Log!Desks -> Challenges] /\ glitches \in Nat /\ Log!TypeOK
      /\ NoChallenge \in Challenges /\ ended \subseteq Askers
  BY DesksAre DEF LoginsInv, Log!TypeOK, Challenges
<1>2. /\ pending' \in {pending, NoChallenge} /\ pendingOwn' \in [Log!Desks -> Challenges]
      /\ \A e \in Log!Desks : pendingOwn'[e] \in {pendingOwn[e], NoChallenge}
      /\ ended' \subseteq Askers /\ ended \subseteq ended'
      /\ pending \in {pending', NoChallenge} \cup ended'
      /\ \A e \in Log!Desks : pendingOwn[e] \in {pendingOwn'[e], NoChallenge} \cup ended'
  <2>1. CASE pending # NoChallenge /\ pending' = NoChallenge /\ ended' = ended \cup {pending} /\ UNCHANGED pendingOwn
    BY <2>1, <1>t DEF Challenges
  <2>2. ASSUME NEW d \in Log!Desks, pendingOwn[d] # NoChallenge, pendingOwn' = [pendingOwn EXCEPT ![d] = NoChallenge],
               ended' = ended \cup {pendingOwn[d]}, UNCHANGED pending
        PROVE  <1>2
    <3>1. /\ pendingOwn' \in [Log!Desks -> Challenges] /\ pendingOwn'[d] = NoChallenge
          /\ \A e \in Log!Desks \ {d} : pendingOwn'[e] = pendingOwn[e]
      BY <2>2, <1>t, OwnWritten
    <3>2. pendingOwn[d] \in Askers BY <2>2, <1>t DEF Challenges
    <3>q. QED BY <2>2, <3>1, <3>2, <1>t
  <2>q. QED BY <2>1, <2>2 DEF Log!ChallengeExpires
<1>3. \A x \in Askers : (Kept(x)' => Kept(x)) /\ (pending' = x => pending = x)
  BY <1>2 DEF Kept
<1>4. TakenTwice' /\ LetInUnmarked' /\ LetInTwice' /\ LoginsAre'
  BY <1>1, <1>3, <1>t, VerifiersStay
<1>5. Log!TypeOK' BY <1>1, <1>2, <1>t, DesksAre DEF Log!TypeOK
<1>6. NobodysYet' BY <1>1, <1>3 DEF LoginsInv, NobodysYet, Took
<1>7. OwnIsOwn' BY <1>1, <1>2 DEF LoginsInv, OwnIsOwn
<1>8. AnswersLast'
  <2> SUFFICES ASSUME NEW b \in Askers
               PROVE  answer[b] \in {NoChallenge, pending', pendingOwn'[Desk[b]]} \cup ended' \cup unstored
    BY <1>1 DEF AnswersLast
  <2>1. answer[b] \in {NoChallenge, pending, pendingOwn[Desk[b]]} \cup ended \cup unstored
    BY DEF LoginsInv, AnswersLast
  <2>q. QED BY <2>1, <1>2, DesksAre
<1>q. QED BY <1>4, <1>5, <1>6, <1>7, <1>8 DEF LoginsInv

LEMMA LoginsStart == Log!Init => LoginsInv
<1> SUFFICES ASSUME Log!Init PROVE LoginsInv OBVIOUS
<1>1. Log!TypeOK BY DEF Log!Init, Log!TypeOK, Log!MaybeChallenge
<1>2. NobodysYet /\ OwnIsOwn BY DEF Log!Init, NobodysYet, OwnIsOwn, Kept, Took
<1>3. TakenTwice /\ LetInUnmarked /\ LetInTwice BY DEF Log!Init, TakenTwice, LetInUnmarked, LetInTwice, Took, LetIn
<1>4. LoginsAre BY DEF Log!Init, LoginsAre, LetIn
<1>5. AnswersLast BY DEF Log!Init, AnswersLast
<1>q. QED BY <1>1, <1>2, <1>3, <1>4, <1>5 DEF LoginsInv

LEMMA LoginsCounted == \A S : Log!Cardinality(S) = Cardinality(S)
BY DEF Log!Cardinality, Cardinality

LEMMA LoggedIn == Log!Spec => [](Log!TypeOK /\ Log!LoggedInOnce)
<1>1. LoginsInv /\ [Log!Next]_(Log!vars) => LoginsInv'
  <2> SUFFICES ASSUME LoginsInv, [Log!Next]_(Log!vars) PROVE LoginsInv' OBVIOUS
  <2>1. CASE Log!ChallengeExpires BY <2>1, ChallengeGone
  <2>2. ASSUME NEW a \in Askers, Log!Store(a) \/ Log!GetPending(a) PROVE LoginsInv' BY <2>2, ChallengeAsked
  <2>3. ASSUME NEW v \in Verifiers, Log!Consume(v) PROVE LoginsInv' BY <2>3, ChallengeConsumed
  <2>4. ASSUME NEW v \in Verifiers, Log!MarkNonceUsed(v) PROVE LoginsInv' BY <2>4, ChallengeMarked
  <2>5. CASE UNCHANGED Log!vars
    <3>1. Log!TypeOK' BY <2>5 DEF LoginsInv, Log!TypeOK, Log!vars
    <3>2. NobodysYet' /\ OwnIsOwn' BY <2>5 DEF LoginsInv, Log!vars, NobodysYet, OwnIsOwn, Kept, Took
    <3>3. TakenTwice' /\ LetInUnmarked' /\ LetInTwice'
      BY <2>5 DEF LoginsInv, Log!vars, TakenTwice, LetInUnmarked, LetInTwice, Took, LetIn, Kept
    <3>4. LoginsAre' /\ AnswersLast' BY <2>5 DEF LoginsInv, Log!vars, LoginsAre, AnswersLast, LetIn
    <3>q. QED BY <3>1, <3>2, <3>3, <3>4 DEF LoginsInv
  <2>q. QED BY <2>1, <2>2, <2>3, <2>4, <2>5 DEF Log!Next
<1>2. LoginsInv => Log!TypeOK /\ Log!LoggedInOnce
  <2> SUFFICES ASSUME LoginsInv PROVE Log!LoggedInOnce BY DEF LoginsInv
  <2>1. ASSUME glitches <= 2, NEW c \in Askers PROVE Cardinality(logins[c]) <= 1
    <3>1. glitches \in Nat BY DEF LoginsInv, Log!TypeOK
    <3>2. logins[c] = {v \in Verifiers : LetIn(v, c)} BY DEF LoginsInv, LoginsAre
    <3>3. \A u, v \in logins[c] : u = v BY <2>1, <3>1, <3>2 DEF LoginsInv, LetInTwice
    <3>4. CASE logins[c] = {} BY <3>4, FS_EmptySet
    <3>5. CASE logins[c] # {}
      <4>1. PICK u : u \in logins[c] BY <3>5
      <4>2. logins[c] = {u} BY <3>3, <4>1
      <4>3. Cardinality({u}) = 1 BY FS_Singleton
      <4>q. QED BY <4>2, <4>3
    <3>q. QED BY <3>4, <3>5
  <2>2. AnswersLast BY DEF LoginsInv
  <2>q. QED BY <2>1, <2>2, LoginsCounted DEF Log!LoggedInOnce, AnswersLast
<1>q. QED BY <1>1, <1>2, LoginsStart, PTL DEF Log!Spec

(* Of the refresh tokens and the logins of Edge, for any number of racing requests: a    *)
(* refresh token is exchanged once whatever calls fail, and twice, once in Redis and     *)
(* once in memory, only if its login was applied and reported as failed; a challenge     *)
(* logs in once while at most two calls have failed (RefreshTokenStore,                  *)
(* NonceStoreService).                                                                   *)
THEOREM SessionsStaySafe == EdgeSpec => []SessionsAreSafe
<1>1. (Tok!TypeOK /\ Tok!TokensSpentOnce) /\ (Log!TypeOK /\ Log!LoggedInOnce) => SessionsAreSafe
  BY DEF SessionsAreSafe
<1>q. QED BY <1>1, TokensAlone, LoginsAlone, TokensSpent, LoggedIn, PTL
----------------------------------------------------------------------------
(* The pins. *)
HIDE LoginsAssumption
USE PinningAssumption

LEMMA PinningAlone == EdgeSpec => Pin!Spec
<1>1. EdgeInit => Pin!Init BY DEF EdgeInit
<1>2. [EdgeNext]_edgeVars => [Pin!Next]_(Pin!vars)
  BY DEF EdgeNext, Others, edgeVars, pinningVars, Pin!vars
<1>q. QED BY <1>1, <1>2, PTL DEF EdgeSpec, Pin!Spec, edgeVars

PinTask == [kind : {"none", "pin", "cross", "verify", "unpin"}, cid : Cids \cup {NoCid},
            copy : Pin!RecordType, next : Nat, want : Nat, won : SUBSET Providers,
            isNew : BOOLEAN, stale : BOOLEAN, mapped : BOOLEAN]

\* A job that will write its copy back has the status that is in Redis, or knows that
\* somebody changed the record since it read it; and it is at one of the providers.
CopiesAre(rec, t) ==
  t.kind \notin {"none", "unpin"} =>
    /\ t.next >= 1
    /\ ~t.stale => t.copy.status = rec[t.cid].status
LossesAre == losses \in 0 .. MaxLosses /\ misses \in 0 .. MaxMisses
PinRest ==
  /\ pinMap \in [Cids -> Pin!RecordType] /\ holds \in [Providers -> SUBSET Cids]
  /\ fires \in [Pin!Operations -> [Providers -> Cids \cup {NoCid}]]
  /\ started \in 0 .. MaxJobs /\ LossesAre
PinInv ==
  /\ pins \in [Cids -> Pin!RecordType] /\ PinRest
  /\ task \in [Jobs -> PinTask]
  /\ \A j \in Jobs : /\ task[j].kind # "none" => task[j].cid \in Cids
                     /\ CopiesAre(pins, task[j])

LEMMA PinsAre ==
  /\ Pin!NoRecord \in Pin!RecordType /\ Pin!NoTask \in PinTask /\ Pin!NoTask.kind = "none"
  /\ Pin!NoRecord.status = "none"
  /\ Pin!Last \in Nat /\ Providers = 1 .. Pin!Last /\ 0 \notin Providers
<1>1. PICK n \in Nat : Providers = 1 .. n BY FS_CardinalityType
<1>2. Cardinality(1 .. n) = n
  <2>1. Cardinality(1 .. n) = IF 1 > n THEN 0 ELSE n - 1 + 1 BY FS_Interval
  <2>q. QED BY <2>1
<1>3. \A S : Pin!Cardinality(S) = Cardinality(S) BY DEF Pin!Cardinality, Cardinality
<1>4. Pin!Last = n BY <1>1, <1>2, <1>3 DEF Pin!Last
<1>5. Pin!NoRecord \in Pin!RecordType BY DEF Pin!NoRecord, Pin!RecordType, Pin!Statuses, Pin!Entries
<1>6. Pin!NoTask \in PinTask BY <1>5 DEF Pin!NoTask, PinTask
<1>7. Pin!NoTask.kind = "none" /\ Pin!NoRecord.status = "none" BY DEF Pin!NoTask, Pin!NoRecord
<1>q. QED BY <1>1, <1>4, <1>5, <1>6, <1>7

LEMMA PinTyped == PinInv => Pin!TypeOK
BY DEF PinInv, PinRest, LossesAre, PinTask, Pin!TypeOK

\* What GET or the map has is a record.
LEMMA FoundIs ==
  ASSUME PinInv, NEW c \in Cids, NEW miss, NEW old \in Pin!Found(c, miss)
  PROVE  old \in Pin!RecordType
BY DEF PinInv, PinRest, PinTask, Pin!Found, Pin!InMap

LEMMA TaskMoves ==
  ASSUME PinInv, NEW j \in Jobs, NEW u \in PinTask, Pin!Does(j, u), UNCHANGED pins,
         u.kind # "none" => u.cid \in Cids, CopiesAre(pins, u)
  PROVE  /\ task' \in [Jobs -> PinTask]
         /\ \A k \in Jobs : task'[k].kind # "none" => task'[k].cid \in Cids
         /\ \A k \in Jobs : CopiesAre(pins', task'[k])
<1>1. task' \in [Jobs -> PinTask] /\ task'[j] = u /\ \A k \in Jobs \ {j} : task'[k] = task[k]
  BY DEF PinInv, Pin!Does
<1>q. QED BY <1>1 DEF PinInv

LEMMA Overwritten ==
  ASSUME NEW t \in PinTask, NEW b \in BOOLEAN
  PROVE  /\ [t EXCEPT !.stale = b] \in PinTask
         /\ [t EXCEPT !.stale = b].stale = b /\ [t EXCEPT !.stale = b].kind = t.kind
         /\ [t EXCEPT !.stale = b].cid = t.cid /\ [t EXCEPT !.stale = b].copy = t.copy
         /\ [t EXCEPT !.stale = b].next = t.next
BY DEF PinTask

\* The task a job goes on with once it has written, or tried to write, its record.
TaskKept(u, failed, b) == IF u = Pin!NoTask THEN u ELSE [u EXCEPT !.mapped = u.mapped \/ failed, !.stale = b]
LEMMA Persisted ==
  ASSUME PinInv, NEW j \in Jobs, NEW c \in Cids, NEW rec \in Pin!RecordType, NEW u \in PinTask,
         NEW failed \in BOOLEAN, Pin!Persist(j, c, rec, u, failed),
         u.kind # "none" => u.cid = c /\ u.copy = rec /\ u.next >= 1
  PROVE  /\ pins' \in [Cids -> Pin!RecordType] /\ pinMap' \in [Cids -> Pin!RecordType]
         /\ pins'[c] \in {pins[c], rec} /\ \A d \in Cids \ {c} : pins'[d] = pins[d]
         /\ task' \in [Jobs -> PinTask] /\ task'[j].kind = u.kind /\ (u = Pin!NoTask => task'[j] = u)
         /\ \A k \in Jobs : task'[k].kind # "none" => task'[k].cid \in Cids
         /\ \A k \in Jobs : CopiesAre(pins', task'[k])
<1>1. /\ pins' \in [Cids -> Pin!RecordType] /\ pins'[c] \in {pins[c], rec}
      /\ \A d \in Cids \ {c} : pins'[d] = pins[d]
  <2>1. pins' \in {[pins EXCEPT ![c] = rec], pins} BY DEF Pin!Persist
  <2>q. QED BY <2>1 DEF PinInv
<1>m. pinMap' \in [Cids -> Pin!RecordType]
  <2>1. pinMap' \in {[pinMap EXCEPT ![c] = rec], pinMap} BY DEF Pin!Persist
  <2>q. QED BY <2>1 DEF PinInv, PinRest
<1> DEFINE old(k) == task[k].stale \/ (task[k].cid = c /\ pins'[c] # pins[c])
           mine == TaskKept(u, failed, pins'[c] # rec)
<1>2. ASSUME NEW k \in Jobs PROVE task[k] \in PinTask /\ old(k) \in BOOLEAN
  BY DEF PinInv, PinTask
<1>3. task' = [k \in Jobs |-> IF k = j THEN mine ELSE [task[k] EXCEPT !.stale = old(k)]]
  BY DEF Pin!Persist, TaskKept
<1> HIDE DEF old
<1>5. /\ mine \in PinTask /\ mine.kind = u.kind /\ (u = Pin!NoTask => mine = u)
      /\ mine.kind # "none" => mine.cid \in Cids
      /\ CopiesAre(pins', mine)
  <2>1. CASE u = Pin!NoTask BY <2>1, PinsAre DEF CopiesAre, TaskKept
  <2>2. CASE u # Pin!NoTask
    <3>1. PICK a \in BOOLEAN, b \in BOOLEAN : a = (u.mapped \/ failed) /\ b = (pins'[c] # rec) BY DEF PinTask
    <3>2. mine = [u EXCEPT !.mapped = a, !.stale = b] BY <2>2, <3>1 DEF TaskKept
    <3> HIDE DEF mine
    <3>3. /\ mine \in PinTask /\ mine.kind = u.kind /\ mine.cid = u.cid /\ mine.copy = u.copy
          /\ mine.next = u.next /\ mine.stale = b
      <4> DEFINE v == [u EXCEPT !.mapped = a, !.stale = b]
      <4>1. /\ v \in PinTask /\ v.kind = u.kind /\ v.cid = u.cid /\ v.copy = u.copy
            /\ v.next = u.next /\ v.stale = b
        BY <3>1 DEF PinTask
      <4>2. mine = v BY <3>2
      <4> HIDE DEF v
      <4>q. QED BY <4>1, <4>2
    <3>4. ~mine.stale => pins'[c] = rec BY <3>1, <3>3
    <3>q. QED BY <2>2, <3>3, <3>4 DEF CopiesAre
  <2>q. QED BY <2>1, <2>2
<1> HIDE DEF mine
<1>4. ASSUME NEW k \in Jobs
      PROVE  /\ task'[k] \in PinTask
             /\ k = j => task'[k] = mine
             /\ k # j => /\ task'[k].stale = old(k) /\ task'[k].kind = task[k].kind
                         /\ task'[k].cid = task[k].cid /\ task'[k].copy = task[k].copy
                         /\ task'[k].next = task[k].next
  <2>1. CASE k = j BY <2>1, <1>3, <1>5
  <2>2. CASE k # j
    <3>1. task'[k] = [task[k] EXCEPT !.stale = old(k)] BY <2>2, <1>3
    <3>q. QED BY <3>1, <2>2, <1>2, Overwritten
  <2>q. QED BY <2>1, <2>2
<1>t. task' \in [Jobs -> PinTask] BY <1>3, <1>4
<1>6. ASSUME NEW k \in Jobs PROVE (task'[k].kind # "none" => task'[k].cid \in Cids) /\ CopiesAre(pins', task'[k])
  <2>1. CASE k = j BY <2>1, <1>4, <1>5
  <2>2. CASE k # j
    <3>1. (task[k].kind # "none" => task[k].cid \in Cids) /\ CopiesAre(pins, task[k]) BY DEF PinInv
    <3>2. CASE ~old(k)
      <4>1. ~task[k].stale /\ (task[k].cid # c \/ pins'[c] = pins[c]) BY <3>2 DEF old
      <4>q. QED BY <2>2, <3>1, <4>1, <1>1, <1>4 DEF CopiesAre
    <3>3. CASE old(k) BY <2>2, <3>1, <3>3, <1>4 DEF CopiesAre
    <3>q. QED BY <3>2, <3>3
  <2>q. QED BY <2>1, <2>2
<1>q. QED BY <1>1, <1>4, <1>5, <1>6, <1>m, <1>t

\* What a call to a provider does to the breakers and the pins.
LEMMA FiredAre ==
  ASSUME PinInv, NEW S, NEW p \in Providers, NEW c \in Cids, Pin!Fire(S, p, c)
  PROVE  /\ fires' \in [Pin!Operations -> [Providers -> Cids \cup {NoCid}]]
         /\ \A o \in Pin!Operations : Pin!Fired(o, p, c) \in Cids
<1>1. \A o \in Pin!Operations : fires[o] \in [Providers -> Cids \cup {NoCid}]
  BY DEF PinInv, PinRest
<1>2. \A o \in Pin!Operations : Pin!Fired(o, p, c) \in Cids BY <1>1 DEF Pin!Fired
<1>3. fires' = [o \in Pin!Operations |-> [fires[o] EXCEPT ![p] = IF o \in S THEN Pin!Fired(o, p, c) ELSE fires[o][p]]]
  BY DEF Pin!Fire
<1>4. \A o \in Pin!Operations :
        [fires[o] EXCEPT ![p] = IF o \in S THEN Pin!Fired(o, p, c) ELSE fires[o][p]] \in [Providers -> Cids \cup {NoCid}]
  BY <1>1, <1>2
<1>q. QED BY <1>2, <1>3, <1>4

LEMMA LossCounts ==
  ASSUME PinInv, Pin!Loss \/ Pin!Lossless \/ \E miss \in BOOLEAN : Pin!Counts(miss)
  PROVE  LossesAre'
<1>1. MaxLosses \in Nat /\ MaxMisses \in Nat BY DEF PinningAssumption
<1>2. LossesAre BY DEF PinInv, PinRest
<1>3. CASE Pin!Loss BY <1>1, <1>2, <1>3 DEF LossesAre, Pin!Loss
<1>4. CASE Pin!Lossless BY <1>2, <1>4 DEF LossesAre, Pin!Lossless
<1>5. CASE \E miss \in BOOLEAN : Pin!Counts(miss) BY <1>1, <1>2, <1>5 DEF LossesAre, Pin!Counts
<1>q. QED BY <1>3, <1>4, <1>5

LEMMA HoldsAfter ==
  ASSUME PinInv, NEW p \in Providers, NEW S \in SUBSET Cids, holds' = [holds EXCEPT ![p] = S]
  PROVE  holds' \in [Providers -> SUBSET Cids]
BY DEF PinInv, PinRest

LEMMA AttemptAre ==
  ASSUME PinInv, NEW p \in Providers, NEW c \in Cids, NEW ok \in BOOLEAN, Pin!Attempt(p, c, ok)
  PROVE  /\ fires' \in [Pin!Operations -> [Providers -> Cids \cup {NoCid}]]
         /\ holds' \in [Providers -> SUBSET Cids] /\ LossesAre'
<1>1. Pin!Fire({"pin"}, p, c) \/ Pin!Fire({"pin", "verify"}, p, c) BY DEF Pin!Attempt
<1>2. /\ fires' \in [Pin!Operations -> [Providers -> Cids \cup {NoCid}]]
      /\ Pin!Fired("pin", p, c) \in Cids
  BY <1>1, FiredAre DEF Pin!Operations
<1> DEFINE more == holds[p] \cup {Pin!Fired("pin", p, c)}
<1>3. holds \in [Providers -> SUBSET Cids] /\ more \in SUBSET Cids BY <1>2 DEF PinInv, PinRest
<1>4. /\ Pin!Loss \/ Pin!Lossless
      /\ holds' \in {holds, [holds EXCEPT ![p] = more]}
  BY DEF Pin!Attempt
<1> HIDE DEF more
<1>5. holds' \in [Providers -> SUBSET Cids] BY <1>3, <1>4, HoldsAfter
<1>q. QED BY <1>2, <1>4, <1>5, LossCounts

\* One provider's entry in a task's copy, written.
Noted(t, n, W, p, e) == [t EXCEPT !.next = n, !.won = W, !.copy.entry[p] = e]
LEMMA NotedIs ==
  ASSUME NEW t \in PinTask, NEW n \in Nat, NEW W \in SUBSET Providers, NEW p \in Providers, NEW e \in Pin!Entries
  PROVE  /\ Noted(t, n, W, p, e) \in PinTask /\ Noted(t, n, W, p, e).kind = t.kind
         /\ Noted(t, n, W, p, e).cid = t.cid /\ Noted(t, n, W, p, e).stale = t.stale
         /\ Noted(t, n, W, p, e).copy.status = t.copy.status /\ Noted(t, n, W, p, e).next = n
<1>1. t.copy \in Pin!RecordType BY DEF PinTask
<1>2. [t.copy EXCEPT !.entry = [t.copy.entry EXCEPT ![p] = e]] \in Pin!RecordType
  BY <1>1 DEF Pin!RecordType
<1>3. [t.copy EXCEPT !.entry = [t.copy.entry EXCEPT ![p] = e]].status = t.copy.status
  BY <1>1 DEF Pin!RecordType
<1> DEFINE copy == [t.copy EXCEPT !.entry = [t.copy.entry EXCEPT ![p] = e]]
<1>4. Noted(t, n, W, p, e) = [t EXCEPT !.next = n, !.won = W, !.copy = copy] BY DEF Noted, PinTask
<1> HIDE DEF copy
<1>5. /\ [t EXCEPT !.next = n, !.won = W, !.copy = copy] \in PinTask
      /\ [t EXCEPT !.next = n, !.won = W, !.copy = copy].kind = t.kind
      /\ [t EXCEPT !.next = n, !.won = W, !.copy = copy].cid = t.cid
      /\ [t EXCEPT !.next = n, !.won = W, !.copy = copy].stale = t.stale
      /\ [t EXCEPT !.next = n, !.won = W, !.copy = copy].copy = copy
      /\ [t EXCEPT !.next = n, !.won = W, !.copy = copy].next = n
  BY <1>2 DEF PinTask, copy
<1>q. QED BY <1>3, <1>4, <1>5 DEF copy

LEMMA TaskNotes ==
  ASSUME PinInv, NEW j \in Jobs, NEW n \in Nat, NEW W \in SUBSET Providers, NEW p \in Providers, NEW e \in Pin!Entries,
         Pin!Does(j, Noted(task[j], n, W, p, e)), UNCHANGED <<pins, pinMap, started>>,
         fires' \in [Pin!Operations -> [Providers -> Cids \cup {NoCid}]], holds' \in [Providers -> SUBSET Cids],
         LossesAre', task[j].kind \in {"pin", "cross", "verify"} => n >= 1
  PROVE  PinInv'
<1> DEFINE u == Noted(task[j], n, W, p, e)
<1>1. task[j] \in PinTask /\ (task[j].kind # "none" => task[j].cid \in Cids) /\ CopiesAre(pins, task[j]) BY DEF PinInv
<1>2. /\ u \in PinTask /\ u.kind = task[j].kind /\ u.cid = task[j].cid /\ u.stale = task[j].stale
      /\ u.copy.status = task[j].copy.status /\ u.next = n
  BY <1>1, NotedIs
<1> HIDE DEF u
<1>3. Pin!Does(j, u) BY DEF u
<1>k. task[j].kind \in {"none", "pin", "cross", "verify", "unpin"} BY <1>1 DEF PinTask
<1>4. (u.kind # "none" => u.cid \in Cids) /\ CopiesAre(pins, u) BY <1>1, <1>2, <1>k DEF CopiesAre
<1>5. /\ task' \in [Jobs -> PinTask]
      /\ \A k \in Jobs : task'[k].kind # "none" => task'[k].cid \in Cids
      /\ \A k \in Jobs : CopiesAre(pins', task'[k])
  BY <1>2, <1>3, <1>4, TaskMoves
<1>6. PinRest' /\ pins' \in [Cids -> Pin!RecordType] BY DEF PinInv, PinRest
<1>q. QED BY <1>5, <1>6 DEF PinInv

LEMMA TaskSteps ==
  ASSUME PinInv, NEW j \in Jobs, NEW u \in PinTask, Pin!Does(j, u), UNCHANGED pins,
         u.kind # "none" => u.cid \in Cids, CopiesAre(pins, u),
         PinRest'
  PROVE  PinInv'
<1>5. /\ task' \in [Jobs -> PinTask]
      /\ \A k \in Jobs : task'[k].kind # "none" => task'[k].cid \in Cids
      /\ \A k \in Jobs : CopiesAre(pins', task'[k])
  BY TaskMoves
<1>q. QED BY <1>5 DEF PinInv

LEMMA StepsOn ==
  ASSUME NEW t \in PinTask
  PROVE  /\ [t EXCEPT !.next = t.next + 1] \in PinTask /\ [t EXCEPT !.next = t.next + 1].kind = t.kind
         /\ [t EXCEPT !.next = t.next + 1].cid = t.cid /\ [t EXCEPT !.next = t.next + 1].stale = t.stale
         /\ [t EXCEPT !.next = t.next + 1].copy = t.copy
         /\ [t EXCEPT !.next = t.next + 1].next = t.next + 1
BY DEF PinTask

\* The status of a task that writes a record: an unpin in progress is left in progress.
LEMMA Finalized ==
  ASSUME NEW rec \in Pin!RecordType
  PROVE  /\ Pin!Finalize(rec) \in Pin!RecordType
         /\ rec.status = "UNPINNING" => Pin!Finalize(rec).status = "UNPINNING"
<1> DEFINE n == Pin!Cardinality(Pin!Pinned(rec))
           x == IF rec.status = "UNPINNING" THEN rec.status
                ELSE IF n = 0 THEN "FAILED" ELSE IF n < rec.factor THEN "DEGRADED" ELSE "HEALTHY"
<1>1. x \in Pin!Statuses /\ (rec.status = "UNPINNING" => x = "UNPINNING") BY DEF Pin!Statuses
<1>2. Pin!Finalize(rec) = [rec EXCEPT !.status = x] BY DEF Pin!Finalize
<1> HIDE DEF x
<1>q. QED BY <1>1, <1>2 DEF Pin!RecordType

\* A job writes a record: what follows of the promise and the invariant.
LEMMA RecordWritten ==
  ASSUME PinInv, NEW j \in Jobs, NEW c \in Cids, NEW rec \in Pin!RecordType, NEW u \in PinTask,
         NEW failed \in BOOLEAN, Pin!Persist(j, c, rec, u, failed),
         u.kind # "none" => u.cid = c /\ u.copy = rec /\ u.next >= 1,
         UNCHANGED <<holds, fires>>, started' \in 0 .. MaxJobs, LossesAre',
         \/ pins[c].status = "UNPINNING" => rec.status = "UNPINNING"
         \/ task[j].kind = "unpin" /\ task[j].cid = c /\ u = Pin!NoTask
         \/ task[j].stale /\ u.kind # task[j].kind
         \/ task[j] = Pin!NoTask /\ u.kind = "pin"
  PROVE  PinInv' /\ Pin!UnpinStep
<1>1. /\ pins' \in [Cids -> Pin!RecordType] /\ pinMap' \in [Cids -> Pin!RecordType]
      /\ pins'[c] \in {pins[c], rec} /\ \A d \in Cids \ {c} : pins'[d] = pins[d]
      /\ task' \in [Jobs -> PinTask] /\ task'[j].kind = u.kind /\ (u = Pin!NoTask => task'[j] = u)
      /\ \A k \in Jobs : task'[k].kind # "none" => task'[k].cid \in Cids
      /\ \A k \in Jobs : CopiesAre(pins', task'[k])
  BY Persisted
<1>2. PinRest' BY <1>1 DEF PinInv, PinRest
<1>3. PinInv' BY <1>1, <1>2 DEF PinInv
<1>4. Pin!UnpinStep
  <2> SUFFICES ASSUME NEW d \in Cids, pins[d].status = "UNPINNING", pins'[d].status # "UNPINNING"
               PROVE  \/ task[j].kind = "unpin" /\ task[j].cid = d /\ task'[j] = Pin!NoTask
                      \/ task[j].stale /\ task'[j] # task[j]
                      \/ task[j] = Pin!NoTask /\ task'[j].kind = "pin"
    BY DEF Pin!UnpinStep
  <2>q. QED BY <1>1
<1>q. QED BY <1>3, <1>4

LEMMA UnpinsStay == UNCHANGED pins => Pin!UnpinStep
BY DEF Pin!UnpinStep

LEMMA PinKept ==
  ASSUME PinInv, UNCHANGED <<pins, task>>, PinRest'
  PROVE  PinInv'
BY DEF PinInv, CopiesAre

LEMMA PinStarts ==
  ASSUME PinInv, NEW j \in Jobs, Pin!StartPin(j)
  PROVE  PinInv' /\ Pin!UnpinStep
<1>1. task[j] = Pin!NoTask /\ started < MaxJobs /\ started' = started + 1 /\ UNCHANGED <<holds, fires>>
  BY DEF Pin!StartPin
<1>2. started' \in 0 .. MaxJobs BY <1>1, SMTT(30) DEF PinInv, PinRest
<1> DEFINE R(old, f) == [old EXCEPT !.status = IF old.status \in {"none", "UNPINNING"} THEN "FAILED" ELSE old.status,
                         !.factor = IF f > old.factor THEN f ELSE old.factor]
           U(c, f, rec, new, m) == [Pin!NoTask EXCEPT !.kind = "pin", !.cid = c, !.copy = rec, !.next = 1,
                                      !.want = f, !.isNew = new, !.mapped = m]
<1>3. PICK c \in Cids, f \in 1 .. Pin!Last, miss \in BOOLEAN, failed \in BOOLEAN : \E old \in Pin!Found(c, miss) :
        /\ Pin!Persist(j, c, R(old, f), U(c, f, R(old, f), old = Pin!NoRecord, miss /\ old # Pin!NoRecord), failed)
        /\ Pin!Counts(miss \/ failed)
  BY DEF Pin!StartPin
<1>o. PICK old \in Pin!Found(c, miss) :
        /\ Pin!Persist(j, c, R(old, f), U(c, f, R(old, f), old = Pin!NoRecord, miss /\ old # Pin!NoRecord), failed)
        /\ Pin!Counts(miss \/ failed)
  BY <1>3
<1>4. f \in Providers /\ f \in Nat BY PinsAre
<1>r. old \in Pin!RecordType BY FoundIs
<1>5. R(old, f) \in Pin!RecordType
  BY <1>4, <1>r, ZenonT(60) DEF Pin!RecordType, Pin!Statuses
<1>6. PICK rec \in Pin!RecordType : rec = R(old, f) BY <1>5
<1> HIDE DEF R
<1>b. PICK new \in BOOLEAN, m \in BOOLEAN : new = (old = Pin!NoRecord) /\ m = (miss /\ old # Pin!NoRecord)
  OBVIOUS
<1>7. /\ U(c, f, rec, new, m) \in PinTask /\ U(c, f, rec, new, m).kind = "pin" /\ U(c, f, rec, new, m).cid = c
      /\ U(c, f, rec, new, m).copy = rec /\ U(c, f, rec, new, m).next = 1
  BY <1>4, PinsAre DEF Pin!NoTask, PinTask
<1>8. Pin!Persist(j, c, rec, U(c, f, rec, new, m), failed) BY <1>o, <1>6, <1>b
<1>9. LossesAre' BY <1>o, LossCounts
<1> HIDE DEF U
<1>q. QED BY <1>1, <1>2, <1>7, <1>8, <1>9, RecordWritten

LEMMA JobTyped ==
  ASSUME PinInv, NEW j \in Jobs
  PROVE  /\ task[j] \in PinTask /\ task[j].copy \in Pin!RecordType /\ task[j].next \in Nat
         /\ task[j].won \in SUBSET Providers /\ task[j].want \in Nat
         /\ task[j].copy.entry \in [Providers -> Pin!Entries]
         /\ task[j].kind # "none" => task[j].cid \in Cids
         /\ CopiesAre(pins, task[j])
         /\ {"pinned", "failed", "none", "unpinned"} \subseteq Pin!Entries
BY DEF PinInv, PinTask, Pin!RecordType, Pin!Entries

LEMMA AtProvider ==
  ASSUME PinInv, NEW j \in Jobs, task[j].kind \in {"pin", "cross", "verify"}, task[j].next <= Pin!Last
  PROVE  task[j].next \in Providers /\ task[j].next + 1 \in Nat /\ task[j].next + 1 >= 1
<1>c. CopiesAre(pins, task[j]) BY JobTyped
<1>d. task[j].next >= 1 BY <1>c DEF CopiesAre
<1>1. task[j].next \in Nat /\ task[j].next >= 1 BY <1>d, JobTyped
<1>2. Pin!Last \in Nat /\ Providers = 1 .. Pin!Last BY PinsAre
<1>3. task[j].next \in 1 .. Pin!Last BY <1>1, <1>2
<1>q. QED BY <1>1, <1>2, <1>3

LEMMA ProviderTried ==
  ASSUME PinInv, NEW j \in Jobs, Pin!TryProvider(j)
  PROVE  PinInv'
<1> DEFINE t == task[j]
           p == t.next
<1>1. t.kind = "pin" /\ p <= Pin!Last /\ UNCHANGED <<pins, pinMap, started>> BY DEF Pin!TryProvider, Pin!MorePinning
<1>2. PICK ok \in BOOLEAN :
        /\ Pin!Attempt(p, t.cid, ok)
        /\ Pin!Does(j, Noted(t, p + 1, IF ok THEN t.won \cup {p} ELSE t.won, p,
                             IF ok THEN "pinned" ELSE IF t.copy.entry[p] = "none" THEN "failed" ELSE t.copy.entry[p]))
  BY DEF Pin!TryProvider, Noted
<1>3. /\ p \in Providers /\ p + 1 \in Nat /\ p + 1 >= 1 /\ t.cid \in Cids BY <1>1, JobTyped, AtProvider
<1>4. PICK W \in SUBSET Providers, e \in Pin!Entries : Pin!Does(j, Noted(t, p + 1, W, p, e))
  <2>1. (IF ok THEN t.won \cup {p} ELSE t.won) \in SUBSET Providers BY <1>3, JobTyped
  <2>2. (IF ok THEN "pinned" ELSE IF t.copy.entry[p] = "none" THEN "failed" ELSE t.copy.entry[p]) \in Pin!Entries
    BY <1>3, JobTyped
  <2>q. QED BY <1>2, <2>1, <2>2
<1>5. /\ fires' \in [Pin!Operations -> [Providers -> Cids \cup {NoCid}]]
      /\ holds' \in [Providers -> SUBSET Cids] /\ LossesAre'
  BY <1>2, <1>3, AttemptAre, SMTT(30)
<1>q. QED BY <1>1, <1>3, <1>4, <1>5, TaskNotes

LEMMA CrossTried ==
  ASSUME PinInv, NEW j \in Jobs, Pin!CrossPin(j)
  PROVE  PinInv'
<1> DEFINE t == task[j]
           p == t.next
<1>1. t.kind = "cross" /\ p <= Pin!Last /\ UNCHANGED <<pins, pinMap, started>> BY DEF Pin!CrossPin
<1>3. /\ p \in Providers /\ p + 1 \in Nat /\ p + 1 >= 1 /\ t.cid \in Cids /\ t \in PinTask BY <1>1, JobTyped, AtProvider
<1>4. CASE Pin!Does(j, [t EXCEPT !.next = p + 1]) /\ UNCHANGED <<holds, fires>> /\ Pin!Lossless
  <2>1. PICK u \in PinTask : u = [t EXCEPT !.next = p + 1] BY <1>3, StepsOn
  <2>2. u.kind = t.kind /\ u.cid = t.cid /\ u.stale = t.stale /\ u.copy = t.copy /\ u.next = p + 1
    BY <2>1, <1>3, StepsOn
  <2>3. CopiesAre(pins, u) BY <2>2, <1>3, JobTyped DEF CopiesAre
  <2>4. Pin!Does(j, u) BY <1>4, <2>1
  <2>a. LossesAre' BY <1>4, LossCounts
  <2>5. PinRest' BY <1>1, <1>4, <2>a DEF PinInv, PinRest
  <2>q. QED BY <1>1, <1>3, <2>2, <2>3, <2>4, <2>5, TaskSteps
<1>5. ASSUME NEW ok \in BOOLEAN, Pin!Attempt(p, t.cid, ok),
             Pin!Does(j, [t EXCEPT !.next = p + 1, !.copy.entry[p] = IF ok THEN "pinned" ELSE "failed"])
      PROVE  PinInv'
  <2>1. PICK e \in Pin!Entries : Pin!Does(j, [t EXCEPT !.next = p + 1, !.copy.entry[p] = e])
    BY <1>5, JobTyped
  <2>2. [t EXCEPT !.next = p + 1, !.copy.entry[p] = e] = Noted(t, p + 1, t.won, p, e)
    BY <1>3 DEF Noted, PinTask
  <2>3. /\ fires' \in [Pin!Operations -> [Providers -> Cids \cup {NoCid}]]
        /\ holds' \in [Providers -> SUBSET Cids] /\ LossesAre'
    BY <1>5, <1>3, AttemptAre
  <2>4. Pin!Does(j, Noted(t, p + 1, t.won, p, e)) /\ t.won \in SUBSET Providers BY <2>1, <2>2, JobTyped
  <2>q. QED BY <1>1, <1>3, <2>3, <2>4, TaskNotes
<1>q. QED BY <1>4, <1>5 DEF Pin!CrossPin

LEMMA VerifyTried ==
  ASSUME PinInv, NEW j \in Jobs, Pin!VerifyProvider(j)
  PROVE  PinInv'
<1> DEFINE t == task[j]
           p == t.next
<1>1. t.kind = "verify" /\ p <= Pin!Last /\ UNCHANGED <<pins, pinMap, holds, fires, started>> BY DEF Pin!VerifyProvider
<1>2. Pin!Loss \/ Pin!Lossless BY DEF Pin!VerifyProvider
<1>3. /\ p \in Providers /\ p + 1 \in Nat /\ p + 1 >= 1 /\ t.cid \in Cids /\ t \in PinTask BY <1>1, JobTyped, AtProvider
<1>l. LossesAre' BY <1>2, LossCounts
<1>r. /\ PinRest' /\ holds' \in [Providers -> SUBSET Cids]
      /\ fires' \in [Pin!Operations -> [Providers -> Cids \cup {NoCid}]]
  BY <1>1, <1>l DEF PinInv, PinRest
<1>4. CASE Pin!Does(j, [t EXCEPT !.next = p + 1])
  <2>1. PICK u \in PinTask : u = [t EXCEPT !.next = p + 1] BY <1>3, StepsOn
  <2>2. u.kind = t.kind /\ u.cid = t.cid /\ u.stale = t.stale /\ u.copy = t.copy /\ u.next = p + 1
    BY <2>1, <1>3, StepsOn
  <2>3. CopiesAre(pins, u) BY <2>2, <1>3, JobTyped DEF CopiesAre
  <2>4. Pin!Does(j, u) BY <1>4, <2>1
  <2>q. QED BY <1>1, <1>3, <1>r, <2>2, <2>3, <2>4, TaskSteps
<1>5. CASE Pin!Does(j, [t EXCEPT !.next = p + 1, !.copy.entry[p] = "failed"])
  <2>1. [t EXCEPT !.next = p + 1, !.copy.entry[p] = "failed"] = Noted(t, p + 1, t.won, p, "failed")
    BY <1>3 DEF Noted, PinTask
  <2>2. Pin!Does(j, Noted(t, p + 1, t.won, p, "failed")) /\ t.won \in SUBSET Providers /\ "failed" \in Pin!Entries
    BY <1>5, <2>1, JobTyped
  <2>q. QED BY <1>1, <1>3, <1>l, <1>r, <2>2, TaskNotes
<1>q. QED BY <1>4, <1>5 DEF Pin!VerifyProvider

LEMMA PinReleased ==
  ASSUME PinInv, NEW j \in Jobs, NEW p \in Providers, Pin!ReleasePin(j, p)
  PROVE  PinInv'
<1> DEFINE t == task[j]
           less == holds[p] \ {Pin!Fired("unpin", p, t.cid)}
<1>1. t.kind = "unpin" /\ UNCHANGED <<pins, pinMap, started>> BY DEF Pin!ReleasePin
<1>2. /\ t \in PinTask /\ t.cid \in Cids /\ t.next \in Nat /\ (t.won \ {p}) \in SUBSET Providers /\ less \in SUBSET Cids
      /\ t.copy.entry[p] \in Pin!Entries
  BY <1>1, JobTyped DEF PinInv, PinRest
<1>3. ASSUME NEW e \in Pin!Entries
      PROVE  [t EXCEPT !.won = t.won \ {p}, !.copy.entry[p] = e] = Noted(t, t.next, t.won \ {p}, p, e)
  BY <1>2 DEF Noted, PinTask
<1>4. PICK e \in Pin!Entries : Pin!Does(j, [t EXCEPT !.won = t.won \ {p}, !.copy.entry[p] = e])
  BY <1>2, JobTyped DEF Pin!ReleasePin
<1>5. Pin!Does(j, Noted(t, t.next, t.won \ {p}, p, e)) BY <1>3, <1>4
<1>6. /\ Pin!Fire({"unpin"}, p, t.cid) \/ Pin!Fire({"unpin", "verify"}, p, t.cid)
      /\ Pin!Loss \/ Pin!Lossless
      /\ holds' = [holds EXCEPT ![p] = less] \/ UNCHANGED holds
  BY DEF Pin!ReleasePin
<1> HIDE DEF less
<1>7. fires' \in [Pin!Operations -> [Providers -> Cids \cup {NoCid}]] BY <1>2, <1>6, FiredAre
<1>8. holds' \in [Providers -> SUBSET Cids] BY <1>2, <1>6, HoldsAfter DEF PinInv, PinRest
<1>9. LossesAre' BY <1>6, LossCounts
<1>q. QED BY <1>1, <1>2, <1>5, <1>7, <1>8, <1>9, TaskNotes

LEMMA PinFinishes ==
  ASSUME PinInv, NEW j \in Jobs, Pin!FinishPin(j)
  PROVE  PinInv' /\ Pin!UnpinStep
<1> DEFINE t == task[j]
           mine == [t.copy EXCEPT !.entry = [p \in Providers |-> IF p \in t.won THEN t.copy.entry[p] ELSE "none"]]
           rec == Pin!Finalize(mine)
           cross == [t EXCEPT !.kind = "cross", !.copy = rec, !.next = 1]
           u == IF t.isNew /\ t.won # {} /\ t.won # Providers THEN cross ELSE Pin!NoTask
<1>1. t.kind = "pin" /\ UNCHANGED <<holds, fires, started>> BY DEF Pin!FinishPin
<1>f. PICK failed \in BOOLEAN : Pin!Persist(j, t.cid, rec, u, failed) /\ Pin!Counts(failed) BY DEF Pin!FinishPin
<1>l. LossesAre' BY <1>f, LossCounts
<1>2. t.cid \in Cids /\ t \in PinTask /\ t.copy \in Pin!RecordType BY <1>1, JobTyped
<1>3. mine \in Pin!RecordType /\ mine.status = t.copy.status
  <2>1. [p \in Providers |-> IF p \in t.won THEN t.copy.entry[p] ELSE "none"] \in [Providers -> Pin!Entries]
    BY JobTyped
  <2>2. PICK E \in [Providers -> Pin!Entries] :
          E = [p \in Providers |-> IF p \in t.won THEN t.copy.entry[p] ELSE "none"]
    BY <2>1
  <2>q. QED BY <1>2, <2>2 DEF Pin!RecordType
<1> HIDE DEF mine
<1>4. rec \in Pin!RecordType /\ (mine.status = "UNPINNING" => rec.status = "UNPINNING") BY <1>3, Finalized
<1> HIDE DEF rec
<1>5. cross \in PinTask /\ cross.kind = "cross" /\ cross.cid = t.cid /\ cross.copy = rec /\ cross.next = 1
  BY <1>2, <1>4 DEF PinTask
<1> HIDE DEF cross
<1>6. u \in PinTask /\ (u.kind # "none" => u.cid = t.cid /\ u.copy = rec /\ u.next >= 1) /\ u.kind # t.kind
  BY <1>1, <1>5, PinsAre
<1> HIDE DEF u
<1>7. started' \in 0 .. MaxJobs BY <1>1 DEF PinInv, PinRest
<1>8. \/ pins[t.cid].status = "UNPINNING" => rec.status = "UNPINNING"
      \/ t.stale /\ u.kind # t.kind
  <2>1. CopiesAre(pins, t) BY JobTyped
  <2>2. t.stale \/ t.copy.status = pins[t.cid].status BY <1>1, <2>1 DEF CopiesAre
  <2>q. QED BY <2>2, <1>3, <1>4, <1>6
<1>q. QED BY <1>1, <1>2, <1>4, <1>6, <1>7, <1>8, <1>f, <1>l, RecordWritten

LEMMA RoundFinishes ==
  ASSUME PinInv, NEW j \in Jobs, Pin!FinishRound(j)
  PROVE  PinInv' /\ Pin!UnpinStep
<1> DEFINE t == task[j]
           rec == Pin!Finalize(t.copy)
<1>1. t.kind \in {"verify", "cross"} /\ UNCHANGED <<holds, fires, started>> BY DEF Pin!FinishRound
<1>f. PICK failed \in BOOLEAN : Pin!Persist(j, t.cid, rec, Pin!NoTask, failed) /\ Pin!Counts(failed)
  BY DEF Pin!FinishRound
<1>l. LossesAre' BY <1>f, LossCounts
<1>2. t.cid \in Cids /\ t \in PinTask /\ t.copy \in Pin!RecordType BY <1>1, JobTyped
<1>4. rec \in Pin!RecordType /\ (t.copy.status = "UNPINNING" => rec.status = "UNPINNING") BY <1>2, Finalized
<1> HIDE DEF rec
<1>6. Pin!NoTask \in PinTask /\ Pin!NoTask.kind = "none" /\ Pin!NoTask.kind # t.kind BY <1>1, PinsAre
<1>7. started' \in 0 .. MaxJobs BY <1>1 DEF PinInv, PinRest
<1>8. \/ pins[t.cid].status = "UNPINNING" => rec.status = "UNPINNING"
      \/ t.stale /\ Pin!NoTask.kind # t.kind
  <2>1. CopiesAre(pins, t) BY JobTyped
  <2>2. t.stale \/ t.copy.status = pins[t.cid].status BY <1>1, <2>1 DEF CopiesAre
  <2>q. QED BY <2>2, <1>4, <1>6
<1>q. QED BY <1>1, <1>2, <1>4, <1>6, <1>7, <1>8, <1>f, <1>l, RecordWritten

LEMMA UnpinFinishes ==
  ASSUME PinInv, NEW j \in Jobs, Pin!FinishUnpin(j)
  PROVE  PinInv' /\ Pin!UnpinStep
<1> DEFINE t == task[j]
           rec == [t.copy EXCEPT !.status = IF Pin!Pinned(t.copy) = {} THEN "UNPINNED" ELSE "UNPINNING"]
<1>1. t.kind = "unpin" /\ UNCHANGED <<holds, fires, started>> BY DEF Pin!FinishUnpin
<1>f. PICK failed \in BOOLEAN : Pin!Persist(j, t.cid, rec, Pin!NoTask, failed) /\ Pin!Counts(failed)
  BY DEF Pin!FinishUnpin
<1>l. LossesAre' BY <1>f, LossCounts
<1>2. t.cid \in Cids /\ t \in PinTask /\ t.copy \in Pin!RecordType BY <1>1, JobTyped
<1>4. rec \in Pin!RecordType BY <1>2 DEF Pin!RecordType, Pin!Statuses
<1> HIDE DEF rec
<1>6. Pin!NoTask \in PinTask /\ Pin!NoTask.kind = "none" BY PinsAre
<1>7. started' \in 0 .. MaxJobs BY <1>1 DEF PinInv, PinRest
<1>q. QED BY <1>1, <1>2, <1>4, <1>6, <1>7, <1>f, <1>l, RecordWritten

LEMMA RoundStarts ==
  ASSUME PinInv, NEW j \in Jobs, Pin!StartVerify(j) \/ Pin!StartUnpin(j)
  PROVE  PinInv'
<1>1. /\ started < MaxJobs /\ started' = started + 1 /\ UNCHANGED <<pins, pinMap, holds, fires>>
  BY DEF Pin!StartVerify, Pin!StartUnpin
<1>l. \E miss \in BOOLEAN : Pin!Counts(miss) BY DEF Pin!StartVerify, Pin!StartUnpin
<1>m. LossesAre' BY <1>l, LossCounts
<1>s. started' \in 0 .. MaxJobs BY <1>1 DEF PinInv, PinRest
<1>2. PinRest' BY <1>1, <1>m, <1>s DEF PinInv, PinRest
<1>4. PICK u \in PinTask : Pin!Does(j, u) /\ u.cid \in Cids /\ CopiesAre(pins, u)
  <2>1. CASE Pin!StartVerify(j)
    <3> DEFINE U(c, m, rec) == [Pin!NoTask EXCEPT !.kind = "verify", !.cid = c, !.copy = rec, !.next = 1,
                                  !.mapped = m, !.stale = (rec # pins[c])]
    <3>1. PICK c \in Cids, m \in BOOLEAN : \E rec \in Pin!Found(c, m) : Pin!Does(j, U(c, m, rec))
      BY <2>1 DEF Pin!StartVerify
    <3>2. PICK rec \in Pin!Found(c, m) : Pin!Does(j, U(c, m, rec)) BY <3>1
    <3>3. rec \in Pin!RecordType BY FoundIs
    <3>4. /\ U(c, m, rec) \in PinTask /\ U(c, m, rec).cid = c /\ U(c, m, rec).copy = rec /\ U(c, m, rec).next = 1
          /\ ~U(c, m, rec).stale => rec = pins[c]
      BY <3>3, PinsAre DEF PinTask
    <3> HIDE DEF U
    <3>5. CopiesAre(pins, U(c, m, rec)) BY <3>4 DEF CopiesAre
    <3>q. QED BY <3>2, <3>4, <3>5
  <2>2. CASE Pin!StartUnpin(j)
    <3> DEFINE U(c, m, rec) == [Pin!NoTask EXCEPT !.kind = "unpin", !.cid = c, !.copy = rec, !.won = Pin!Pinned(rec),
                                  !.mapped = m, !.stale = (rec # pins[c])]
    <3>1. PICK c \in Cids, m \in BOOLEAN : \E rec \in Pin!Found(c, m) : Pin!Does(j, U(c, m, rec))
      BY <2>2 DEF Pin!StartUnpin
    <3>2. PICK rec \in Pin!Found(c, m) : Pin!Does(j, U(c, m, rec)) BY <3>1
    <3>3. rec \in Pin!RecordType /\ Pin!Pinned(rec) \in SUBSET Providers BY FoundIs DEF Pin!Pinned
    <3>4. U(c, m, rec) \in PinTask /\ U(c, m, rec).cid = c /\ U(c, m, rec).kind = "unpin" BY <3>3, PinsAre DEF PinTask
    <3> HIDE DEF U
    <3>5. CopiesAre(pins, U(c, m, rec)) BY <3>4 DEF CopiesAre
    <3>q. QED BY <3>2, <3>4, <3>5
  <2>q. QED BY <2>1, <2>2
<1>q. QED BY <1>1, <1>2, <1>4, TaskSteps

LEMMA PinDropped ==
  ASSUME PinInv, NEW p \in Providers, Pin!Drop(p)
  PROVE  PinInv'
<1>1. Pin!Loss /\ UNCHANGED <<pins, pinMap, fires, task, started>> BY DEF Pin!Drop
<1>2. PICK c \in holds[p] : holds' = [holds EXCEPT ![p] = holds[p] \ {c}] BY DEF Pin!Drop
<1>3. PICK S \in SUBSET Cids : S = holds[p] \ {c} BY DEF PinInv, PinRest
<1>4. holds' \in [Providers -> SUBSET Cids] BY <1>2, <1>3, HoldsAfter
<1>5. LossesAre' BY <1>1, LossCounts
<1>6. PinRest' BY <1>1, <1>4, <1>5 DEF PinInv, PinRest
<1>q. QED BY <1>1, <1>6, PinKept

LEMMA PinCrashes ==
  ASSUME PinInv, Pin!Crash
  PROVE  PinInv'
<1>1. /\ Pin!Loss /\ task' = [j \in Jobs |-> Pin!NoTask] /\ UNCHANGED <<pins, holds, started>>
      /\ fires' = [o \in Pin!Operations |-> [p \in Providers |-> NoCid]]
      /\ pinMap' = [c \in Cids |-> Pin!NoRecord]
  BY DEF Pin!Crash
<1>2. LossesAre' BY <1>1, LossCounts
<1>3. fires' \in [Pin!Operations -> [Providers -> Cids \cup {NoCid}]] BY <1>1
<1>4. task' \in [Jobs -> PinTask] /\ \A j \in Jobs : task'[j].kind = "none" BY <1>1, PinsAre
<1>m. pinMap' \in [Cids -> Pin!RecordType] BY <1>1, PinsAre
<1>5. PinRest' BY <1>1, <1>2, <1>3, <1>m DEF PinInv, PinRest
<1>q. QED BY <1>1, <1>4, <1>5 DEF PinInv, CopiesAre

LEMMA PinInit == Pin!Init => PinInv
<1> SUFFICES ASSUME Pin!Init PROVE PinInv OBVIOUS
<1>1. task \in [Jobs -> PinTask] /\ \A j \in Jobs : task[j].kind = "none" BY PinsAre DEF Pin!Init
<1>2. pins \in [Cids -> Pin!RecordType] /\ pinMap \in [Cids -> Pin!RecordType] BY PinsAre DEF Pin!Init
<1>3. /\ holds \in [Providers -> SUBSET Cids]
      /\ fires \in [Pin!Operations -> [Providers -> Cids \cup {NoCid}]]
      /\ started \in 0 .. MaxJobs /\ LossesAre
  BY DEF Pin!Init, LossesAre
<1>4. PinRest BY <1>2, <1>3 DEF PinRest
<1>q. QED BY <1>1, <1>2, <1>4 DEF PinInv, CopiesAre

LEMMA PinSteps == PinInv /\ [Pin!Next]_(Pin!vars) => PinInv' /\ Pin!UnpinStep
<1> SUFFICES ASSUME PinInv, [Pin!Next]_(Pin!vars) PROVE PinInv' /\ Pin!UnpinStep OBVIOUS
<1>1. CASE Pin!Crash
  <2>1. UNCHANGED pins BY <1>1 DEF Pin!Crash
  <2>q. QED BY <1>1, <2>1, PinCrashes, UnpinsStay
<1>2. ASSUME NEW j \in Jobs, Pin!StartPin(j) \/ Pin!FinishPin(j) \/ Pin!FinishRound(j) \/ Pin!FinishUnpin(j)
      PROVE  PinInv' /\ Pin!UnpinStep
  BY <1>2, PinStarts, PinFinishes, RoundFinishes, UnpinFinishes
<1>3. ASSUME NEW j \in Jobs, \/ Pin!TryProvider(j) \/ Pin!CrossPin(j) \/ Pin!VerifyProvider(j)
                             \/ Pin!StartVerify(j) \/ Pin!StartUnpin(j)
      PROVE  PinInv' /\ Pin!UnpinStep
  <2>1. UNCHANGED pins
    BY <1>3 DEF Pin!TryProvider, Pin!CrossPin, Pin!VerifyProvider, Pin!StartVerify, Pin!StartUnpin
  <2>q. QED BY <1>3, <2>1, UnpinsStay, ProviderTried, CrossTried, VerifyTried, RoundStarts
<1>4. ASSUME NEW p \in Providers, Pin!Drop(p) \/ \E j \in Jobs : Pin!ReleasePin(j, p)
      PROVE  PinInv' /\ Pin!UnpinStep
  <2>1. UNCHANGED pins BY <1>4 DEF Pin!Drop, Pin!ReleasePin
  <2>q. QED BY <1>4, <2>1, UnpinsStay, PinDropped, PinReleased
<1>5. CASE UNCHANGED Pin!vars
  <2>1. UNCHANGED <<pins, pinMap, task, started, fires, holds, losses, misses>> BY <1>5 DEF Pin!vars
  <2>2. PinRest' BY <2>1 DEF PinInv, PinRest, LossesAre
  <2>q. QED BY <2>1, <2>2, PinKept, UnpinsStay
<1>q. QED BY <1>1, <1>2, <1>3, <1>4, <1>5 DEF Pin!Next

(* Of the pins of Edge: no health check and no background pin brings back what a client *)
(* is unpinning, unless it writes a copy it had read before, or found in the map of its *)
(* instance when its GET failed (finalizeStatus, tryFindByCid).                         *)
THEOREM UnpinsStick == EdgeSpec => UnpinningSticks
<1>1. PinInv /\ [Pin!Next]_(Pin!vars) => [desk = "pinning" => Pin!UnpinStep]_<<desk, pinningVars>>
  BY PinSteps
<1>3. Pin!Spec => []PinInv BY PinInit, PinSteps, PTL DEF Pin!Spec
<1>4. [EdgeNext]_edgeVars => [Pin!Next]_(Pin!vars)
  BY DEF EdgeNext, Others, edgeVars, pinningVars, Pin!vars
<1>q. QED BY <1>1, <1>3, <1>4, PinningAlone, PTL DEF EdgeSpec, edgeVars, UnpinningSticks

----------------------------------------------------------------------------
(* The cache. *)
HIDE PinningAssumption
USE CacheAssumption

LEMMA CacheAlone == EdgeSpec => Cache!Spec
<1>1. EdgeInit => Cache!Init BY DEF EdgeInit
<1>2. [EdgeNext]_edgeVars => [Cache!Next]_(Cache!vars)
  BY DEF EdgeNext, Others, edgeVars, cacheVars, Cache!vars
<1>q. QED BY <1>1, <1>2, PTL DEF EdgeSpec, Cache!Spec, edgeVars

LEMMA CacheCounted == \A S : Cache!Cardinality(S) = Cardinality(S)
BY DEF Cache!Cardinality, Cardinality

\* The source counts the changes made; while one of them is not invalidated a copy may be older.
Made == {c \in Changes : change[c] # "new"}
Uninvalidated == {c \in Changes : change[c] = "altered"}
CacheInv ==
  /\ Cache!TypeOK
  /\ source = Cardinality(Made)
  /\ \A q \in Reads \ overtaken : get[q].phase = "storing" => get[q].value = {source}
  /\ overtaken = {} => Uninvalidated # {} \/ missed \/ shared \in {Cache!Empty, {source}}
  /\ \A i \in Servers \ elsewhere : \A c \in Made : Place[c] = i
  /\ overtaken = {} => \A i \in Servers \ elsewhere : Uninvalidated # {} \/ copies[i] \in {Cache!Empty, {source}}

LEMMA MadeAre ==
  ASSUME change \in [Changes -> {"new", "altered", "over"}]
  PROVE  /\ IsFiniteSet(Made) /\ Cardinality(Made) \in Nat /\ Cardinality(Changes) \in Nat
         /\ Cardinality(Made) <= Cardinality(Changes)
         /\ \A c \in Changes : change[c] = "new" =>
              Cardinality(Made \cup {c}) = Cardinality(Made) + 1 /\ Cardinality(Made) + 1 <= Cardinality(Changes)
<1>1. Made \subseteq Changes BY DEF Made
<1>2. IsFiniteSet(Made) /\ Cardinality(Made) <= Cardinality(Changes) BY <1>1, FS_Subset
<1>3. Cardinality(Made) \in Nat /\ Cardinality(Changes) \in Nat BY <1>2, FS_CardinalityType
<1>4. ASSUME NEW c \in Changes, change[c] = "new"
      PROVE  Cardinality(Made \cup {c}) = Cardinality(Made) + 1 /\ Cardinality(Made) + 1 <= Cardinality(Changes)
  <2>1. c \notin Made BY <1>4 DEF Made
  <2>2. Cardinality(Made \cup {c}) = Cardinality(Made) + 1 BY <2>1, <1>2, FS_AddElement
  <2>3. Cardinality(Made \cup {c}) <= Cardinality(Changes) BY <1>1, <1>4, FS_Subset
  <2>q. QED BY <2>2, <2>3
<1>q. QED BY <1>2, <1>3, <1>4

\* A call that may lose the link leaves the links and the errors what they should be.
LEMMA LinksStay ==
  ASSUME Cache!TypeOK, NEW i \in Servers
  PROVE  /\ Cache!LinkSeenDown(i) \/ Cache!Lose(i) =>
              link' \in [Servers -> {"connecting", "up", "down"}] /\ errors' \in 0 .. MaxErrors
         /\ Cache!Error => errors' \in 0 .. MaxErrors
BY DEF Cache!TypeOK, Cache!LinkSeenDown, Cache!Lose, Cache!Error, Cache!Turns

LEMMA CacheStarts == Cache!Init => CacheInv
<1> SUFFICES ASSUME Cache!Init PROVE CacheInv
  OBVIOUS
<1>1. change \in [Changes -> {"new", "altered", "over"}] /\ Made = {} BY DEF Cache!Init, Made
<1>2. Cardinality(Made) = 0 /\ Cardinality(Changes) \in Nat BY <1>1, MadeAre, FS_EmptySet
<1>v. Cache!Empty \in Cache!Values BY DEF Cache!Values
<1>a. errors \in 0 .. MaxErrors /\ source \in 0 .. Cardinality(Changes) BY <1>2 DEF Cache!Init
<1>b. copies \in [Servers -> Cache!Values] /\ shared \in Cache!Values BY <1>v DEF Cache!Init
<1>c. get \in [Reads -> [phase : {"new", "fetching", "storing", "over"}, value : Cache!Values]]
  BY <1>v DEF Cache!Init, Cache!NoGet
<1>3. Cache!TypeOK BY <1>1, <1>a, <1>b, <1>c, CacheCounted DEF Cache!Init, Cache!TypeOK
<1>q. QED BY <1>1, <1>2, <1>3 DEF Cache!Init, CacheInv, Cache!NoGet, Cache!Empty

LEMMA GotOne ==
  ASSUME Cache!TypeOK, NEW q \in Reads, NEW f \in {"new", "fetching", "storing", "over"}, NEW v \in Cache!Values,
         Cache!Got(q, f, v)
  PROVE  /\ get' \in [Reads -> [phase : {"new", "fetching", "storing", "over"}, value : Cache!Values]]
         /\ get'[q].phase = f /\ get'[q].value = v /\ \A r \in Reads \ {q} : get'[r] = get[r]
BY DEF Cache!TypeOK, Cache!Got

LEMMA CacheNext == CacheInv /\ [Cache!Next]_(Cache!vars) => CacheInv'
<1> SUFFICES ASSUME CacheInv, [Cache!Next]_(Cache!vars) PROVE CacheInv'
  OBVIOUS
<1>t. Cache!TypeOK BY DEF CacheInv
<1>m. change \in [Changes -> {"new", "altered", "over"}] /\ Cardinality(Changes) \in Nat /\ Cache!Values' = Cache!Values
      /\ source \in 0 .. Cardinality(Changes)
      /\ {source} \in Cache!Values /\ \A q \in Reads : get[q].value \in Cache!Values
  BY <1>t, MadeAre, CacheCounted DEF Cache!TypeOK, Cache!Values
<1>1. ASSUME NEW i \in Servers, Cache!Connect(i) \/ Cache!ErrorEvent(i) PROVE CacheInv'
  <2>1. link' \in [Servers -> {"connecting", "up", "down"}] /\ errors' \in 0 .. MaxErrors
    BY <1>t, <1>1, LinksStay DEF Cache!Connect, Cache!ErrorEvent, Cache!TypeOK, Cache!Turns
  <2>2. UNCHANGED <<source, shared, copies, get, change, missed, elsewhere, overtaken>>
    BY <1>1 DEF Cache!Connect, Cache!ErrorEvent
  <2>q. QED BY <1>m, <2>1, <2>2 DEF CacheInv, Cache!TypeOK, Made, Uninvalidated, Cache!Values
<1>2. ASSUME NEW q \in Reads, Cache!Get(q) PROVE CacheInv'
  <2>1. PICK f \in {"fetching", "over"}, v \in Cache!Values : Cache!Got(q, f, v)
    BY <1>t, <1>2 DEF Cache!Get, Cache!Found, Cache!TypeOK
  <2>2. /\ get' \in [Reads -> [phase : {"new", "fetching", "storing", "over"}, value : Cache!Values]]
        /\ get'[q].phase # "storing" /\ \A r \in Reads \ {q} : get'[r] = get[r]
    BY <1>t, <2>1, GotOne
  <2>3. UNCHANGED <<source, shared, copies, change, missed, elsewhere, overtaken>> BY <1>2 DEF Cache!Get
  <2>4. link' \in [Servers -> {"connecting", "up", "down"}] /\ errors' \in 0 .. MaxErrors
    BY <1>t, <1>2, LinksStay DEF Cache!Get, Cache!TypeOK
  <2>q. QED BY <1>m, <2>2, <2>3, <2>4 DEF CacheInv, Cache!TypeOK, Made, Uninvalidated
<1>3. ASSUME NEW q \in Reads, Cache!Fetch(q) PROVE CacheInv'
  <2>1. /\ get' \in [Reads -> [phase : {"new", "fetching", "storing", "over"}, value : Cache!Values]]
        /\ get'[q].value = {source} /\ \A r \in Reads \ {q} : get'[r] = get[r]
    BY <1>t, <1>m, <1>3, GotOne DEF Cache!Fetch
  <2>2. UNCHANGED <<source, shared, copies, link, change, errors, missed, elsewhere, overtaken>> BY <1>3 DEF Cache!Fetch
  <2>q. QED BY <1>m, <2>1, <2>2 DEF CacheInv, Cache!TypeOK, Made, Uninvalidated
<1>4. ASSUME NEW q \in Reads, Cache!Store(q) PROVE CacheInv'
  <2>1. PICK v : v = get[q].value OBVIOUS
  <2>v. v \in Cache!Values /\ (overtaken = {} => v = {source})
    BY <1>m, <1>4, <2>1 DEF CacheInv, Cache!Store
  <2>2. /\ get' \in [Reads -> [phase : {"new", "fetching", "storing", "over"}, value : Cache!Values]]
        /\ get'[q].phase = "over" /\ \A r \in Reads \ {q} : get'[r] = get[r]
    BY <1>t, <1>m, <1>4, GotOne DEF Cache!Store
  <2>3. UNCHANGED <<source, change, missed, elsewhere, overtaken>> BY <1>4 DEF Cache!Store
  <2>4. link' \in [Servers -> {"connecting", "up", "down"}] /\ errors' \in 0 .. MaxErrors
    BY <1>t, <1>4, LinksStay DEF Cache!Store, Cache!TypeOK
  <2>5. shared' \in {shared, v} /\ (UNCHANGED copies \/ copies' = [copies EXCEPT ![Place[q]] = v])
    BY <1>4, <2>1 DEF Cache!Store
  <2>6. Cache!TypeOK' BY <1>t, <1>m, <2>v, <2>2, <2>3, <2>4, <2>5 DEF Cache!TypeOK
  <2>7. overtaken = {} => Uninvalidated # {} \/ missed \/ shared' \in {Cache!Empty, {source}}
    BY <2>v, <2>5 DEF CacheInv
  <2>8. overtaken = {} => \A i \in Servers \ elsewhere : Uninvalidated # {} \/ copies'[i] \in {Cache!Empty, {source}}
    BY <1>t, <2>v, <2>5 DEF CacheInv, Cache!TypeOK
  <2>9. Made' = Made /\ Uninvalidated' = Uninvalidated BY <2>3 DEF Made, Uninvalidated
  <2>q. QED BY <2>2, <2>3, <2>6, <2>7, <2>8, <2>9 DEF CacheInv
<1>5. ASSUME NEW c \in Changes, Cache!Alter(c) PROVE CacheInv'
  <2>1. /\ change' \in [Changes -> {"new", "altered", "over"}] /\ Made' = Made \cup {c} /\ c \in Uninvalidated'
        /\ change[c] = "new" /\ source' = source + 1
    BY <1>m, <1>5 DEF Cache!Alter, Made, Uninvalidated
  <2>2. Cardinality(Made') = source' /\ source' \in 0 .. Cardinality(Changes)
    BY <1>m, <2>1, MadeAre DEF CacheInv
  <2>3. UNCHANGED <<shared, copies, link, get, errors, missed>> /\ elsewhere' = elsewhere \cup (Servers \ {Place[c]})
        /\ overtaken' = overtaken \cup {q \in Reads : get[q].phase = "storing"}
    BY <1>5 DEF Cache!Alter
  <2>4. Cache!TypeOK' BY <1>t, <1>m, <2>1, <2>2, <2>3, CacheCounted DEF Cache!TypeOK
  <2>5. \A i \in Servers \ elsewhere' : \A d \in Made' : Place[d] = i BY <2>1, <2>3 DEF CacheInv
  <2>q. QED BY <2>1, <2>2, <2>3, <2>4, <2>5 DEF CacheInv
<1>6. ASSUME NEW c \in Changes, Cache!Invalidate(c) PROVE CacheInv'
  <2>1. /\ change' \in [Changes -> {"new", "altered", "over"}] /\ Made' = Made
        /\ Uninvalidated' = Uninvalidated \ {c} /\ c \in Uninvalidated /\ c \in Made
    BY <1>m, <1>6 DEF Cache!Invalidate, Made, Uninvalidated
  <2>2. UNCHANGED <<source, get, elsewhere, overtaken>> /\ copies' = [copies EXCEPT ![Place[c]] = Cache!Empty]
    BY <1>6 DEF Cache!Invalidate, Cache!DroppedCopy
  <2>3. \/ shared' = Cache!Empty /\ UNCHANGED <<link, errors, missed>>
        \/ shared' \in {shared, Cache!Empty} /\ missed' = TRUE /\ Cache!LinkSeenDown(Place[c])
    BY <1>6 DEF Cache!Invalidate
  <2>4. link' \in [Servers -> {"connecting", "up", "down"}] /\ errors' \in 0 .. MaxErrors
    BY <1>t, <2>3, LinksStay DEF Cache!TypeOK
  <2>5. Cache!TypeOK' BY <1>t, <1>m, <2>1, <2>2, <2>3, <2>4 DEF Cache!TypeOK, Cache!Values
  <2>6. \A i \in Servers \ elsewhere : copies'[i] = Cache!Empty
    BY <1>t, <2>1, <2>2 DEF CacheInv, Cache!TypeOK
  <2>q. QED BY <2>1, <2>2, <2>3, <2>5, <2>6 DEF CacheInv
<1>7. ASSUME Cache!Expire PROVE CacheInv'
  <2>1. UNCHANGED <<source, link, get, change, errors, missed, elsewhere, overtaken>> /\ shared' \in {shared, Cache!Empty}
        /\ (UNCHANGED copies \/ \E i \in Servers : copies' = [copies EXCEPT ![i] = Cache!Empty])
    BY <1>7 DEF Cache!Expire
  <2>2. Cache!TypeOK' BY <1>t, <1>m, <2>1 DEF Cache!TypeOK, Cache!Values
  <2>3. Made' = Made /\ Uninvalidated' = Uninvalidated BY <2>1 DEF Made, Uninvalidated
  <2>4. \A i \in Servers : copies'[i] \in {copies[i], Cache!Empty} BY <1>t, <2>1 DEF Cache!TypeOK
  <2>q. QED BY <2>1, <2>2, <2>3, <2>4 DEF CacheInv
<1>8. ASSUME UNCHANGED Cache!vars PROVE CacheInv'
  BY <1>m, <1>8 DEF Cache!vars, CacheInv, Cache!TypeOK, Made, Uninvalidated, Cache!Values
<1>q. QED BY <1>1, <1>2, <1>3, <1>4, <1>5, <1>6, <1>7, <1>8 DEF Cache!Next

LEMMA CacheKept == Cache!Spec => [](Cache!TypeOK /\ Cache!CacheIsCurrent)
<1>1. CacheInv => Cache!TypeOK /\ Cache!CacheIsCurrent
  BY DEF CacheInv, Cache!CacheIsCurrent, Uninvalidated
<1>q. QED BY <1>1, CacheStarts, CacheNext, PTL DEF Cache!Spec

----------------------------------------------------------------------------
(* The uploads. *)
HIDE CacheAssumption
USE UploadsAssumption

LEMMA UploadsAlone == EdgeSpec => Upl!Spec
<1>1. EdgeInit => Upl!Init BY DEF EdgeInit
<1>2. [EdgeNext]_edgeVars => [Upl!Next]_(Upl!vars)
  BY DEF EdgeNext, Others, edgeVars, uploadsVars, Upl!vars, Upl!gigVars
<1>q. QED BY <1>1, <1>2, PTL DEF EdgeSpec, Upl!Spec, edgeVars

\* From its check on an upload is one of a freelancer who had accepted the gig.
AcceptedOf(u) == /\ By[u] = For[u] /\ By[u] \in acceptors
                 /\ overwritten \/ \E g \in {theGig, mapped} : g.status = "accepted" /\ g.by = {By[u]}
AcceptorsKnown == \A g \in {theGig, mapped} : g.status = "accepted" => g.by \subseteq acceptors
UploadInv ==
  /\ Upl!TypeOK /\ AcceptorsKnown
  /\ \A u \in Uploaded :
       /\ upload[u].phase \in {"typing", "pinning", "storing", "created"} => AcceptedOf(u)
       /\ u \in rows \cup listed \cup ownRows => upload[u].phase = "created"
       /\ upload[u].phase \in {"storing", "created"} => upload[u].status # "none"
       /\ upload[u].phase = "created" => u \in unread \cup (rows \cap listed)

UploadPhases == {"new", "typing", "pinning", "storing", "refused", "created"}
UploadRecords == [phase : UploadPhases, status : {"none", "pinned", "pending", "failed"}]
LEMMA UploadMoves ==
  ASSUME Upl!TypeOK, NEW u \in Uploaded, NEW from, NEW to \in UploadPhases, Upl!Move(u, from, to)
  PROVE  /\ upload' \in [Uploaded -> UploadRecords] /\ upload[u].phase = from /\ upload'[u].phase = to
         /\ upload'[u].status = upload[u].status /\ \A v \in Uploaded \ {u} : upload'[v] = upload[v]
BY DEF Upl!TypeOK, Upl!Move, UploadPhases, UploadRecords

LEMMA UploadTypes ==
  Upl!TypeOK <=> /\ theGig \in Upl!Gigs /\ mapped \in Upl!Gigs
                 /\ rows \subseteq Uploaded /\ listed \subseteq Uploaded
                 /\ ownRows \subseteq Uploaded /\ unread \subseteq Uploaded
                 /\ upload \in [Uploaded -> UploadRecords] /\ hiccups \in 0 .. MaxHiccups
                 /\ acceptors \subseteq Freelancers /\ overwritten \in BOOLEAN
BY DEF Upl!TypeOK, UploadPhases, UploadRecords

LEMMA UploadsStart == Upl!Init => UploadInv
<1> SUFFICES ASSUME Upl!Init PROVE UploadInv
  OBVIOUS
<1>1. upload \in [Uploaded -> UploadRecords] BY DEF Upl!Init, UploadRecords, UploadPhases
<1>2. theGig \in Upl!Gigs /\ mapped \in Upl!Gigs BY DEF Upl!Init, Upl!Gigs
<1>a. hiccups \in 0 .. MaxHiccups BY UploadsAssumption DEF Upl!Init, UploadsAssumption
<1>b. acceptors \subseteq Freelancers /\ overwritten \in BOOLEAN BY DEF Upl!Init
<1>3. Upl!TypeOK BY <1>1, <1>2, <1>a, <1>b, UploadTypes DEF Upl!Init
<1>4. AcceptorsKnown BY DEF Upl!Init, AcceptorsKnown, Upl!Opened, Upl!Nobody
<1>q. QED BY <1>3, <1>4 DEF Upl!Init, UploadInv

LEMMA UploadsNext == UploadInv /\ [Upl!Next]_(Upl!vars) => UploadInv'
<1> SUFFICES ASSUME UploadInv, [Upl!Next]_(Upl!vars) PROVE UploadInv'
  OBVIOUS
<1>t. Upl!TypeOK BY DEF UploadInv
<1>y. /\ theGig \in Upl!Gigs /\ mapped \in Upl!Gigs /\ rows \subseteq Uploaded /\ listed \subseteq Uploaded
      /\ ownRows \subseteq Uploaded /\ unread \subseteq Uploaded
      /\ upload \in [Uploaded -> UploadRecords] /\ hiccups \in 0 .. MaxHiccups
      /\ Upl!Gigs' = Upl!Gigs /\ acceptors \subseteq Freelancers /\ overwritten \in BOOLEAN
  BY <1>t, UploadTypes DEF Upl!Gigs
<1>h. Upl!Hiccup => hiccups' \in 0 .. MaxHiccups BY <1>y DEF Upl!Hiccup
<1>k. AcceptorsKnown BY DEF UploadInv
\* An accepted gig is written over only by those who ignore what it is, and they say so.
<1>1. ASSUME Upl!Mutate \/ Upl!MutateUnwatched \/ Upl!MutateInMemory PROVE UploadInv'
  <2>1. UNCHANGED <<upload, rows, listed, ownRows, unread>> /\ hiccups' \in 0 .. MaxHiccups
    BY <1>1, <1>h, <1>y DEF Upl!Mutate, Upl!MutateUnwatched, Upl!MutateInMemory
  <2>2. /\ \A g \in Upl!Gigs : Upl!MutationsOf(g) \subseteq Upl!Gigs /\ g.by \subseteq Freelancers
        /\ \A g \in Upl!Gigs : g.status = "accepted" => Upl!MutationsOf(g) = {}
    BY DEF Upl!MutationsOf, Upl!Gigs, Upl!Nobody, Upl!Opened
  <2>3. theGig' \in Upl!Gigs /\ mapped' \in Upl!Gigs
    BY <1>1, <1>y, <2>2 DEF Upl!Mutate, Upl!MutateUnwatched, Upl!MutateInMemory
  <2>a. \/ acceptors' = acceptors \cup theGig'.by /\ mapped' = mapped
        \/ acceptors' = acceptors \cup mapped'.by /\ theGig' \in {theGig, mapped'}
    BY <1>1 DEF Upl!Mutate, Upl!MutateUnwatched, Upl!MutateInMemory
  <2>b. acceptors' \subseteq Freelancers /\ acceptors \subseteq acceptors' BY <1>y, <2>2, <2>3, <2>a
  <2>c. AcceptorsKnown' BY <1>k, <2>a DEF AcceptorsKnown
  <2>o. \/ overwritten' = overwritten
        \/ overwritten' = (overwritten \/ theGig.status = "accepted")
        \/ overwritten' = (overwritten \/ mapped.status = "accepted")
    BY <1>1 DEF Upl!Mutate, Upl!MutateUnwatched, Upl!MutateInMemory
  <2>d. overwritten' \in BOOLEAN /\ (overwritten => overwritten') BY <1>y, <2>o
  <2>4. Upl!TypeOK' BY <2>1, <2>3, <2>b, <2>d, <1>y DEF Upl!TypeOK, Upl!Gigs, UploadRecords, UploadPhases
  <2>5. \A u \in Uploaded : AcceptedOf(u) => AcceptedOf(u)'
    <3>1. ASSUME NEW g \in {theGig, mapped}, g.status = "accepted" PROVE overwritten' \/ g \in {theGig', mapped'}
      BY <1>1, <1>y, <2>2, <3>1 DEF Upl!Mutate, Upl!MutateUnwatched, Upl!MutateInMemory
    <3>q. QED BY <2>b, <2>d, <3>1 DEF AcceptedOf
  <2>q. QED BY <2>1, <2>4, <2>5, <2>c DEF UploadInv
<1>2. ASSUME NEW u \in Uploaded, Upl!Check(u) PROVE UploadInv'
  <2>1. UNCHANGED <<theGig, mapped, acceptors, overwritten, rows, listed, ownRows, unread>> /\ hiccups' \in 0 .. MaxHiccups
    BY <1>2, <1>h, <1>y DEF Upl!Check, Upl!gigVars
  <2>2. PICK to \in {"typing", "refused"} : Upl!Move(u, "new", to) /\ (to = "typing" => AcceptedOf(u))
    BY <1>2, <1>k DEF Upl!Check, Upl!MayDeliver, AcceptedOf, AcceptorsKnown
  <2>3. /\ upload' \in [Uploaded -> UploadRecords] /\ upload[u].phase = "new" /\ upload'[u].phase = to
        /\ upload'[u].status = upload[u].status /\ \A v \in Uploaded \ {u} : upload'[v] = upload[v]
    BY <1>t, <2>2, UploadMoves DEF UploadPhases
  <2>4. Upl!TypeOK' BY <2>1, <2>3, <1>y DEF Upl!TypeOK, Upl!Gigs, UploadRecords, UploadPhases
  <2>5. AcceptorsKnown' /\ \A v \in Uploaded : AcceptedOf(v)' <=> AcceptedOf(v)
    BY <1>k, <2>1 DEF AcceptedOf, AcceptorsKnown
  <2>q. QED BY <2>1, <2>2, <2>3, <2>4, <2>5 DEF UploadInv
<1>3. ASSUME NEW u \in Uploaded, Upl!ValidateFileMagicBytes(u) PROVE UploadInv'
  <2>1. UNCHANGED <<theGig, mapped, acceptors, overwritten, rows, listed, ownRows, hiccups, unread>>
    BY <1>3 DEF Upl!ValidateFileMagicBytes, Upl!gigVars
  <2>2. PICK to \in {"pinning", "refused"} : Upl!Move(u, "typing", to)
    BY <1>3 DEF Upl!ValidateFileMagicBytes
  <2>3. /\ upload' \in [Uploaded -> UploadRecords] /\ upload[u].phase = "typing" /\ upload'[u].phase = to
        /\ upload'[u].status = upload[u].status /\ \A v \in Uploaded \ {u} : upload'[v] = upload[v]
    BY <1>t, <2>2, UploadMoves DEF UploadPhases
  <2>4. Upl!TypeOK' BY <2>1, <2>3, <1>y DEF Upl!TypeOK, Upl!Gigs, UploadRecords, UploadPhases
  <2>5. AcceptorsKnown' /\ \A v \in Uploaded : AcceptedOf(v)' <=> AcceptedOf(v)
    BY <1>k, <2>1 DEF AcceptedOf, AcceptorsKnown
  <2>q. QED BY <2>1, <2>2, <2>3, <2>4, <2>5 DEF UploadInv
<1>4. ASSUME NEW u \in Uploaded, Upl!PinContent(u) PROVE UploadInv'
  <2>1. UNCHANGED <<theGig, mapped, acceptors, overwritten, rows, listed, ownRows, unread>> /\ hiccups' \in 0 .. MaxHiccups
    BY <1>4, <1>h, <1>y DEF Upl!PinContent, Upl!gigVars
  <2>2. /\ upload' \in [Uploaded -> UploadRecords] /\ upload[u].phase = "pinning"
        /\ upload'[u].phase \in {"storing", "refused"} /\ (upload'[u].phase = "storing" => upload'[u].status # "none")
        /\ \A v \in Uploaded \ {u} : upload'[v] = upload[v]
    <3>1. CASE Upl!Move(u, "pinning", "refused") BY <1>t, <3>1, UploadMoves DEF UploadPhases
    <3>2. CASE ~Upl!Move(u, "pinning", "refused")
      <4>1. PICK s \in {"pinned", "pending", "failed"} :
              upload' = [upload EXCEPT ![u] = [phase |-> "storing", status |-> s]]
        BY <1>4, <3>2 DEF Upl!PinContent, Upl!DeliverableStatus
      <4>q. QED BY <1>4, <1>y, <4>1 DEF Upl!PinContent, UploadRecords, UploadPhases
    <3>q. QED BY <3>1, <3>2
  <2>4. Upl!TypeOK' BY <2>1, <2>2, <1>y DEF Upl!TypeOK, Upl!Gigs, UploadRecords, UploadPhases
  <2>5. AcceptorsKnown' /\ \A v \in Uploaded : AcceptedOf(v)' <=> AcceptedOf(v)
    BY <1>k, <2>1 DEF AcceptedOf, AcceptorsKnown
  <2>q. QED BY <2>1, <2>2, <2>4, <2>5 DEF UploadInv
<1>5. ASSUME NEW u \in Uploaded, Upl!Store(u) PROVE UploadInv'
  <2>1. UNCHANGED <<theGig, mapped, acceptors, overwritten>> /\ hiccups' \in 0 .. MaxHiccups
    BY <1>5, <1>h, <1>y DEF Upl!Store, Upl!gigVars
  <2>2. /\ rows' \in {rows, rows \cup {u}} /\ listed' \in {listed, listed \cup {u}}
        /\ ownRows' \in {ownRows, ownRows \cup {u}} /\ unread' \in {unread, unread \cup {u}}
        /\ u \in unread' \cup (rows' \cap listed')
    BY <1>5 DEF Upl!Store, Upl!Written
  <2>3. /\ upload' \in [Uploaded -> UploadRecords] /\ upload[u].phase = "storing" /\ upload'[u].phase = "created"
        /\ upload'[u].status = upload[u].status /\ \A v \in Uploaded \ {u} : upload'[v] = upload[v]
    BY <1>t, <1>5, UploadMoves DEF UploadPhases, Upl!Store
  <2>4. Upl!TypeOK' BY <2>1, <2>2, <2>3, <1>y DEF Upl!TypeOK, Upl!Gigs, UploadRecords, UploadPhases
  <2>5. AcceptorsKnown' /\ \A v \in Uploaded : AcceptedOf(v)' <=> AcceptedOf(v)
    BY <1>k, <2>1 DEF AcceptedOf, AcceptorsKnown
  <2>6. \A v \in Uploaded : v \in rows' \cup listed' \cup ownRows' => v = u \/ v \in rows \cup listed \cup ownRows
    BY <2>2
  <2>7. unread \cup (rows \cap listed) \subseteq unread' \cup (rows' \cap listed') BY <2>2
  <2>q. QED BY <2>2, <2>3, <2>4, <2>5, <2>6, <2>7 DEF UploadInv
<1>6. ASSUME UNCHANGED Upl!vars PROVE UploadInv'
  BY <1>t, <1>6 DEF Upl!vars, Upl!gigVars, UploadInv, Upl!TypeOK, AcceptedOf, AcceptorsKnown, Upl!Gigs
<1>q. QED BY <1>1, <1>2, <1>3, <1>4, <1>5, <1>6 DEF Upl!Next

LEMMA UploadsKept == Upl!Spec => [](Upl!TypeOK /\ Upl!UploadsAreFound)
<1>1. UploadInv => Upl!TypeOK /\ Upl!UploadsAreFound
  BY DEF UploadInv, Upl!UploadsAreFound, AcceptedOf
<1>q. QED BY <1>1, UploadsStart, UploadsNext, PTL DEF Upl!Spec

----------------------------------------------------------------------------
(* The subscriptions. *)
LEMMA SubscriptionsAlone == EdgeSpec => Sub!Spec
<1>1. EdgeInit => Sub!Init BY DEF EdgeInit
<1>2. [EdgeNext]_edgeVars => [Sub!Next]_(Sub!vars)
  BY DEF EdgeNext, Others, edgeVars, subscriptionsVars, Sub!vars
<1>q. QED BY <1>1, <1>2, PTL DEF EdgeSpec, Sub!Spec, edgeVars

SubscriptionRecords == [there : BOOLEAN, updates : SUBSET Demands]
DemandRecords == [kind : {"none", "create", "update", "remove", "ping"}, phase : {"new", "validating", "over"},
                  of : SUBSET Demands, copy : SubscriptionRecords]
SubscriptionTypes ==
  /\ subscription \in [Demands -> SubscriptionRecords] /\ demand \in [Demands -> DemandRecords]
  /\ answered \in [Demands -> {"none", "created", "updated", "removed", "rejected", "reachable", "unreachable"}]
  /\ shadowed \subseteq Demands
\* A request that has begun is about one subscription: its own, or one that was created.
DemandIs(q) ==
  \/ demand[q] = Sub!NoDemand
  \/ \E s \in Demands : /\ demand[q].of = {s} /\ demand[q].kind # "none" /\ demand[q].phase # "new"
                        /\ IF demand[q].kind = "create" THEN s = q ELSE answered[s] = "created"
                        /\ Sub!Waiting(q, "update") => demand[q].copy.there
AnsweredOver(q) == answered[q] # "none" <=> demand[q].phase = "over"
\* Unless it was shadowed, a subscription has one update waiting, with a copy that is not stale.
WaitsFor(q, s) == Sub!Waiting(q, "update") /\ demand[q].of = {s}
WaitingAlone(s) ==
  s \notin shadowed => \A q \in Demands : WaitsFor(q, s) =>
    demand[q].copy = subscription[s] /\ \A r \in Demands : WaitsFor(r, s) => r = q
Agrees(s) ==
  Sub!Known(s) => /\ answered[s] = "created"
                  /\ s \in shadowed \/ \A q \in Demands : demand[q].of = {s} =>
                       answered[q] # "removed" /\ (answered[q] = "updated" => q \in subscription[s].updates)
SubscriptionInv ==
  /\ SubscriptionTypes
  /\ \A q \in Demands : DemandIs(q) /\ AnsweredOver(q) /\ WaitingAlone(q) /\ Agrees(q)

LEMMA SubscriptionsStart == Sub!Init => SubscriptionInv
<1> SUFFICES ASSUME Sub!Init PROVE SubscriptionInv
  OBVIOUS
<1>1. SubscriptionTypes
  BY DEF Sub!Init, SubscriptionTypes, DemandRecords, SubscriptionRecords, Sub!NoDemand, Sub!Unknown
<1>q. QED BY <1>1 DEF Sub!Init, SubscriptionInv, DemandIs, AnsweredOver, WaitingAlone, WaitsFor, Agrees,
                      Sub!Known, Sub!Waiting, Sub!NoDemand, Sub!Unknown

LEMMA RequestWaits ==
  ASSUME SubscriptionInv, NEW q \in Demands, demand[q] = Sub!NoDemand, NEW s \in Demands,
         NEW kind \in {"create", "update", "ping"}, NEW copy \in SubscriptionRecords, Sub!Waits(q, kind, s, copy)
  PROVE  /\ demand' \in [Demands -> DemandRecords] /\ demand'[q].kind = kind /\ demand'[q].phase = "validating"
         /\ demand'[q].of = {s} /\ demand'[q].copy = copy
         /\ \A r \in Demands \ {q} : demand'[r] = demand[r]
BY DEF SubscriptionInv, SubscriptionTypes, Sub!Waits, DemandRecords

LEMMA RequestEnds ==
  ASSUME SubscriptionInv, NEW q \in Demands, Sub!Ends(q)
  PROVE  /\ demand' \in [Demands -> DemandRecords] /\ demand'[q].kind = demand[q].kind /\ demand'[q].phase = "over"
         /\ demand'[q].of = demand[q].of /\ demand'[q].copy = demand[q].copy
         /\ \A r \in Demands \ {q} : demand'[r] = demand[r]
BY DEF SubscriptionInv, SubscriptionTypes, Sub!Ends, DemandRecords

LEMMA RequestOver ==
  ASSUME SubscriptionInv, NEW q \in Demands, NEW s \in Demands, NEW kind \in {"update", "remove"},
         Sub!OverAtOnce(q, kind, s)
  PROVE  /\ demand' \in [Demands -> DemandRecords] /\ demand'[q].kind = kind /\ demand'[q].phase = "over"
         /\ demand'[q].of = {s} /\ \A r \in Demands \ {q} : demand'[r] = demand[r]
<1>1. Sub!Unknown \in SubscriptionRecords BY DEF Sub!Unknown, SubscriptionRecords
<1>q. QED BY <1>1 DEF SubscriptionInv, SubscriptionTypes, Sub!OverAtOnce, DemandRecords

\* What a step of one request leaves of the others.
LEMMA OthersDemand ==
  ASSUME SubscriptionInv, NEW q \in Demands, answered[q] = "none",
         \A r \in Demands \ {q} : demand'[r] = demand[r] /\ answered'[r] = answered[r]
  PROVE  /\ \A r \in Demands \ {q} : DemandIs(r)' /\ AnsweredOver(r)'
         /\ \A s \in Demands : answered[s] = "created" => answered'[s] = "created" /\ s # q
         /\ \A s \in Demands, r \in Demands \ {q} : WaitsFor(r, s)' <=> WaitsFor(r, s)
<1>1. \A s \in Demands : answered[s] = "created" => answered'[s] = "created" /\ s # q OBVIOUS
<1>2. \A r \in Demands \ {q} : AnsweredOver(r)' BY DEF SubscriptionInv, AnsweredOver
<1>3. ASSUME NEW r \in Demands \ {q} PROVE DemandIs(r)'
  <2>1. DemandIs(r) /\ demand'[r] = demand[r] BY DEF SubscriptionInv
  <2>q. QED BY <1>1, <2>1 DEF DemandIs, Sub!Waiting, Sub!NoDemand, Sub!Unknown
<1>4. \A s \in Demands, r \in Demands \ {q} : WaitsFor(r, s)' <=> WaitsFor(r, s) BY DEF WaitsFor, Sub!Waiting
<1>q. QED BY <1>1, <1>2, <1>3, <1>4

\* A request that has not begun, or waits, has no answer.
LEMMA Unanswered ==
  ASSUME SubscriptionInv, NEW q \in Demands
  PROVE  /\ demand[q] = Sub!NoDemand => answered[q] = "none" /\ demand[q].of = {} /\ demand[q].phase = "new"
         /\ demand[q].phase = "validating" => answered[q] = "none"
         /\ demand[q].phase = "validating" => \E s \in Demands :
               /\ demand[q].of = {s} /\ (IF demand[q].kind = "create" THEN s = q ELSE answered[s] = "created")
               /\ Sub!Waiting(q, "update") => demand[q].copy.there
<1>1. DemandIs(q) /\ AnsweredOver(q) BY DEF SubscriptionInv
<1>q. QED BY <1>1 DEF DemandIs, AnsweredOver, Sub!NoDemand

LEMMA ShadowIs ==
  ASSUME SubscriptionInv, NEW s \in Demands, Sub!Shadow(s)
  PROVE  /\ shadowed' \subseteq Demands /\ shadowed \subseteq shadowed' /\ shadowed' \subseteq shadowed \cup {s}
         /\ s \notin shadowed' => \A r \in Demands : ~WaitsFor(r, s)
BY DEF SubscriptionInv, SubscriptionTypes, Sub!Shadow, WaitsFor

Answers == {"none", "created", "updated", "removed", "rejected", "reachable", "unreachable"}
LEMMA AnswerIs ==
  ASSUME SubscriptionInv, NEW q \in Demands, NEW what \in Answers, Sub!Answer(q, what)
  PROVE  /\ answered' \in [Demands -> Answers] /\ answered'[q] = what
         /\ \A r \in Demands \ {q} : answered'[r] = answered[r]
BY DEF SubscriptionInv, SubscriptionTypes, Sub!Answer, Answers

LEMMA CreatesKept == ASSUME SubscriptionInv, NEW q \in Demands, Sub!Create(q) PROVE SubscriptionInv'
<1>0. Sub!Unknown \in SubscriptionRecords BY DEF Sub!Unknown, SubscriptionRecords
<1>1. /\ demand' \in [Demands -> DemandRecords] /\ demand'[q].kind = "create" /\ demand'[q].phase = "validating"
      /\ demand'[q].of = {q} /\ \A r \in Demands \ {q} : demand'[r] = demand[r]
  BY <1>0, RequestWaits DEF Sub!Create
<1>2. UNCHANGED <<subscription, answered, shadowed>> BY DEF Sub!Create
<1>3. answered[q] = "none" BY Unanswered DEF Sub!Create
<1>4. /\ \A r \in Demands \ {q} : DemandIs(r)' /\ AnsweredOver(r)'
      /\ \A s \in Demands, r \in Demands \ {q} : WaitsFor(r, s)' <=> WaitsFor(r, s)
  BY <1>1, <1>2, <1>3, OthersDemand
<1>5. SubscriptionTypes' BY <1>1, <1>2 DEF SubscriptionInv, SubscriptionTypes
<1>6. DemandIs(q)' /\ AnsweredOver(q)' BY <1>1, <1>2, <1>3 DEF DemandIs, AnsweredOver, Sub!Waiting
<1>7. \A s \in Demands : ~WaitsFor(q, s)' BY <1>1 DEF WaitsFor, Sub!Waiting
<1>8. ASSUME NEW s \in Demands PROVE WaitingAlone(s)'
  BY <1>1, <1>2, <1>4, <1>7 DEF SubscriptionInv, WaitingAlone
<1>9. ASSUME NEW s \in Demands PROVE Agrees(s)'
  <2>1. Agrees(s) BY DEF SubscriptionInv
  <2>q. QED BY <1>1, <1>2, <1>3, <2>1 DEF Agrees, Sub!Known
<1>q. QED BY <1>4, <1>5, <1>6, <1>8, <1>9 DEF SubscriptionInv

LEMMA StoresKept == ASSUME SubscriptionInv, NEW q \in Demands, Sub!Stored(q) PROVE SubscriptionInv'
<1>0. demand[q].kind = "create" /\ demand[q].phase = "validating" BY DEF Sub!Stored, Sub!Waiting
<1>1. /\ demand' \in [Demands -> DemandRecords] /\ demand'[q].kind = "create" /\ demand'[q].phase = "over"
      /\ demand'[q].of = demand[q].of /\ \A r \in Demands \ {q} : demand'[r] = demand[r]
  BY <1>0, RequestEnds DEF Sub!Stored
<1>2. /\ answered' \in [Demands -> Answers] /\ answered'[q] = "created"
      /\ \A r \in Demands \ {q} : answered'[r] = answered[r]
  BY AnswerIs DEF Sub!Stored, Answers
<1>3. answered[q] = "none" /\ demand[q].of = {q} BY <1>0, Unanswered
<1>4. /\ \A r \in Demands \ {q} : DemandIs(r)' /\ AnsweredOver(r)'
      /\ \A s \in Demands : answered[s] = "created" => answered'[s] = "created" /\ s # q
      /\ \A s \in Demands, r \in Demands \ {q} : WaitsFor(r, s)' <=> WaitsFor(r, s)
  BY <1>1, <1>2, <1>3, OthersDemand
<1>5. /\ subscription' \in [Demands -> SubscriptionRecords] /\ UNCHANGED shadowed
      /\ \A s \in Demands \ {q} : subscription'[s] = subscription[s]
  BY DEF Sub!Stored, SubscriptionInv, SubscriptionTypes, SubscriptionRecords
<1>6. SubscriptionTypes' BY <1>1, <1>2, <1>5 DEF SubscriptionInv, SubscriptionTypes, Answers
<1>7. DemandIs(q)' /\ AnsweredOver(q)' BY <1>1, <1>2, <1>3 DEF DemandIs, AnsweredOver, Sub!Waiting
\* Nothing is about a subscription that is only just created, but its creation.
<1>8. \A r \in Demands \ {q} : demand[r].of # {q}
  <2>1. \A r \in Demands \ {q} : DemandIs(r) BY DEF SubscriptionInv
  <2>q. QED BY <1>3, <2>1 DEF DemandIs, Sub!NoDemand
<1>9. \A s \in Demands : ~WaitsFor(q, s)' BY <1>1 DEF WaitsFor, Sub!Waiting
<1>10. ASSUME NEW s \in Demands PROVE WaitingAlone(s)'
  <2>1. WaitingAlone(s) BY DEF SubscriptionInv
  <2>2. \A r \in Demands : WaitsFor(r, s)' => r # q /\ s # q /\ WaitsFor(r, s)
    BY <1>4, <1>8, <1>9 DEF WaitsFor
  <2>q. QED BY <1>1, <1>5, <2>1, <2>2 DEF WaitingAlone
<1>11. ASSUME NEW s \in Demands PROVE Agrees(s)'
  <2>1. CASE s = q
    BY <1>1, <1>2, <1>8, <2>1 DEF Agrees, Sub!Known
  <2>2. CASE s # q
    <3>1. Agrees(s) BY DEF SubscriptionInv
    <3>2. \A r \in Demands : demand'[r].of = demand[r].of BY <1>1
    <3>3. demand[q].of # {s} BY <1>3, <2>2
    <3>q. QED BY <1>2, <1>5, <2>2, <3>1, <3>2, <3>3 DEF Agrees, Sub!Known
  <2>q. QED BY <2>1, <2>2
<1>q. QED BY <1>4, <1>6, <1>7, <1>10, <1>11 DEF SubscriptionInv

\* An update or a removal that is over at once.
LEMMA ChangesKept ==
  ASSUME SubscriptionInv, NEW q \in Demands, NEW s \in Demands, Sub!Update(q, s) \/ Sub!Remove(q, s)
  PROVE  SubscriptionInv'
<1>0. /\ demand[q] = Sub!NoDemand /\ Sub!Known(s) /\ Sub!Shadow(s)
      /\ \/ /\ Sub!OverAtOnce(q, "update", s) /\ Sub!Answer(q, "updated")
            /\ subscription' = [subscription EXCEPT ![s].updates = @ \cup {q}]
         \/ /\ Sub!OverAtOnce(q, "remove", s) /\ Sub!Answer(q, "removed")
            /\ subscription' = [subscription EXCEPT ![s] = Sub!Unknown]
  BY DEF Sub!Update, Sub!Remove
<1>1. /\ demand' \in [Demands -> DemandRecords] /\ demand'[q].kind \in {"update", "remove"}
      /\ demand'[q].phase = "over" /\ demand'[q].of = {s} /\ \A r \in Demands \ {q} : demand'[r] = demand[r]
  BY <1>0, RequestOver
<1>2. /\ answered' \in [Demands -> Answers] /\ answered'[q] \in {"updated", "removed"}
      /\ \A r \in Demands \ {q} : answered'[r] = answered[r]
  BY <1>0, AnswerIs DEF Answers
<1>3. answered[q] = "none" /\ answered[s] = "created" BY <1>0, Unanswered DEF SubscriptionInv, Agrees
<1>4. /\ \A r \in Demands \ {q} : DemandIs(r)' /\ AnsweredOver(r)'
      /\ \A t \in Demands : answered[t] = "created" => answered'[t] = "created" /\ t # q
      /\ \A t \in Demands, r \in Demands \ {q} : WaitsFor(r, t)' <=> WaitsFor(r, t)
  BY <1>1, <1>2, <1>3, OthersDemand
<1>5. /\ subscription' \in [Demands -> SubscriptionRecords]
      /\ \A t \in Demands \ {s} : subscription'[t] = subscription[t]
  <2>1. subscription \in [Demands -> SubscriptionRecords] BY DEF SubscriptionInv, SubscriptionTypes
  <2>2. [subscription[s] EXCEPT !.updates = @ \cup {q}] \in SubscriptionRecords BY <2>1 DEF SubscriptionRecords
  <2>3. Sub!Unknown \in SubscriptionRecords BY DEF SubscriptionRecords, Sub!Unknown
  <2>4. PICK new \in SubscriptionRecords : subscription' = [subscription EXCEPT ![s] = new] BY <1>0, <2>2, <2>3
  <2>q. QED BY <2>1, <2>4
<1>6. /\ shadowed' \subseteq Demands /\ shadowed \subseteq shadowed' /\ shadowed' \subseteq shadowed \cup {s}
      /\ s \notin shadowed' => \A r \in Demands : ~WaitsFor(r, s)
  BY <1>0, ShadowIs
<1>7. SubscriptionTypes' BY <1>1, <1>2, <1>5, <1>6 DEF SubscriptionInv, SubscriptionTypes, Answers
<1>8. DemandIs(q)' /\ AnsweredOver(q)' BY <1>1, <1>2, <1>3, <1>4 DEF DemandIs, AnsweredOver, Sub!Waiting
<1>9. \A t \in Demands : ~WaitsFor(q, t)' BY <1>1 DEF WaitsFor, Sub!Waiting
<1>10. ASSUME NEW t \in Demands PROVE WaitingAlone(t)'
  <2>1. WaitingAlone(t) BY DEF SubscriptionInv
  <2>2. \A r \in Demands : WaitsFor(r, t)' => r # q /\ WaitsFor(r, t) BY <1>4, <1>9
  <2>q. QED BY <1>1, <1>5, <1>6, <2>1, <2>2 DEF WaitingAlone
<1>11. ASSUME NEW t \in Demands PROVE Agrees(t)'
  <2>0. Agrees(t) BY DEF SubscriptionInv
  <2>1. CASE t = s /\ subscription' = [subscription EXCEPT ![s].updates = @ \cup {q}] /\ Sub!Answer(q, "updated")
    <3>1. /\ subscription'[s].there = subscription[s].there /\ q \in subscription'[s].updates
          /\ subscription[s].updates \subseteq subscription'[s].updates /\ answered'[q] = "updated"
      BY <2>1 DEF SubscriptionInv, SubscriptionTypes, SubscriptionRecords, Sub!Answer
    <3>q. QED BY <1>1, <1>2, <1>4, <1>6, <2>0, <2>1, <3>1 DEF Agrees, Sub!Known
  <2>2. CASE t = s /\ subscription' = [subscription EXCEPT ![s] = Sub!Unknown]
    BY <2>2 DEF Agrees, Sub!Known, Sub!Unknown, SubscriptionInv, SubscriptionTypes
  <2>3. CASE t # s
    <3>1. demand'[q].of # {t} BY <1>1, <2>3
    <3>q. QED BY <1>1, <1>2, <1>4, <1>5, <1>6, <2>0, <2>3, <3>1 DEF Agrees, Sub!Known
  <2>q. QED BY <1>0, <2>1, <2>2, <2>3
<1>q. QED BY <1>4, <1>7, <1>8, <1>10, <1>11 DEF SubscriptionInv

\* A request that waits for the name service with a copy of the subscription.
LEMMA WaitsKept ==
  ASSUME SubscriptionInv, NEW q \in Demands, NEW s \in Demands, Sub!UpdateUrl(q, s) \/ Sub!Ping(q, s)
  PROVE  SubscriptionInv'
<1>0. /\ demand[q] = Sub!NoDemand /\ Sub!Known(s) /\ UNCHANGED <<subscription, answered>>
      /\ \/ Sub!Waits(q, "update", s, subscription[s]) /\ Sub!Shadow(s)
         \/ Sub!Waits(q, "ping", s, subscription[s]) /\ UNCHANGED shadowed
  BY DEF Sub!UpdateUrl, Sub!Ping
<1>c. subscription[s] \in SubscriptionRecords /\ subscription[s].there /\ shadowed \subseteq Demands
  BY <1>0 DEF SubscriptionInv, SubscriptionTypes, Sub!Known
<1>1. /\ demand' \in [Demands -> DemandRecords] /\ demand'[q].kind \in {"update", "ping"}
      /\ demand'[q].phase = "validating" /\ demand'[q].of = {s} /\ demand'[q].copy = subscription[s]
      /\ \A r \in Demands \ {q} : demand'[r] = demand[r]
  BY <1>0, <1>c, RequestWaits
<1>2. answered[q] = "none" /\ answered[s] = "created" BY <1>0, Unanswered DEF SubscriptionInv, Agrees
<1>3. /\ \A r \in Demands \ {q} : DemandIs(r)' /\ AnsweredOver(r)'
      /\ \A t \in Demands, r \in Demands \ {q} : WaitsFor(r, t)' <=> WaitsFor(r, t)
  BY <1>0, <1>1, <1>2, OthersDemand
<1>4. /\ shadowed' \subseteq Demands /\ shadowed \subseteq shadowed'
      /\ demand'[q].kind = "update" /\ s \notin shadowed' => \A r \in Demands : ~WaitsFor(r, s)
  <2>1. CASE Sub!Shadow(s) BY <2>1, ShadowIs
  <2>2. CASE UNCHANGED shadowed /\ Sub!Waits(q, "ping", s, subscription[s])
    <3>1. demand'[q].kind = "ping" BY <1>0, <1>c, <2>2, RequestWaits
    <3>q. QED BY <1>c, <2>2, <3>1
  <2>q. QED BY <1>0, <2>1, <2>2
<1>5. SubscriptionTypes' BY <1>0, <1>1, <1>4 DEF SubscriptionInv, SubscriptionTypes
<1>6. DemandIs(q)' /\ AnsweredOver(q)' BY <1>0, <1>1, <1>2, <1>c DEF DemandIs, AnsweredOver, Sub!Waiting
<1>7. \A t \in Demands : WaitsFor(q, t)' => t = s /\ demand'[q].kind = "update"
  BY <1>1 DEF WaitsFor, Sub!Waiting
<1>8. ASSUME NEW t \in Demands PROVE WaitingAlone(t)'
  <2>1. WaitingAlone(t) BY DEF SubscriptionInv
  <2>q. QED BY <1>0, <1>1, <1>3, <1>4, <1>7, <2>1 DEF WaitingAlone
<1>9. ASSUME NEW t \in Demands PROVE Agrees(t)'
  <2>1. Agrees(t) BY DEF SubscriptionInv
  <2>q. QED BY <1>0, <1>1, <1>2, <1>4, <2>1 DEF Agrees, Sub!Known
<1>q. QED BY <1>3, <1>5, <1>6, <1>8, <1>9 DEF SubscriptionInv

LEMMA ValidationsKept == ASSUME SubscriptionInv, NEW q \in Demands, Sub!UrlValidated(q) PROVE SubscriptionInv'
<1>0. demand[q].kind = "update" /\ demand[q].phase = "validating" BY DEF Sub!UrlValidated, Sub!Waiting
<1>s. PICK s \in Demands : demand[q].of = {s} /\ answered[s] = "created" /\ demand[q].copy.there /\ WaitsFor(q, s)
  BY <1>0, Unanswered DEF Sub!Waiting, WaitsFor
<1>o. Sub!Of(q) = s BY <1>s DEF Sub!Of
<1>1. /\ demand' \in [Demands -> DemandRecords] /\ demand'[q].kind = "update" /\ demand'[q].phase = "over"
      /\ demand'[q].of = {s} /\ \A r \in Demands \ {q} : demand'[r] = demand[r]
  BY <1>0, <1>s, RequestEnds DEF Sub!UrlValidated
<1>2. /\ answered' \in [Demands -> Answers] /\ answered'[q] = "updated"
      /\ \A r \in Demands \ {q} : answered'[r] = answered[r]
  BY AnswerIs DEF Sub!UrlValidated, Answers
<1>3. answered[q] = "none" BY <1>0, Unanswered
<1>4. /\ \A r \in Demands \ {q} : DemandIs(r)' /\ AnsweredOver(r)'
      /\ \A t \in Demands : answered[t] = "created" => answered'[t] = "created" /\ t # q
      /\ \A t \in Demands, r \in Demands \ {q} : WaitsFor(r, t)' <=> WaitsFor(r, t)
  BY <1>1, <1>2, <1>3, OthersDemand
<1>c. demand[q].copy \in SubscriptionRecords BY DEF SubscriptionInv, SubscriptionTypes, DemandRecords
<1>m. subscription' = [subscription EXCEPT ![s] = [demand[q].copy EXCEPT !.updates = @ \cup {q}]] /\ UNCHANGED shadowed
  BY <1>o DEF Sub!UrlValidated, Sub!Merge
<1>5. /\ subscription' \in [Demands -> SubscriptionRecords]
      /\ \A t \in Demands \ {s} : subscription'[t] = subscription[t]
      /\ subscription'[s].there /\ subscription'[s].updates = demand[q].copy.updates \cup {q}
  BY <1>c, <1>m, <1>s DEF SubscriptionInv, SubscriptionTypes, SubscriptionRecords
<1>6. SubscriptionTypes' BY <1>1, <1>2, <1>5, <1>m DEF SubscriptionInv, SubscriptionTypes, Answers
<1>7. DemandIs(q)' /\ AnsweredOver(q)' BY <1>1, <1>2, <1>4, <1>s DEF DemandIs, AnsweredOver, Sub!Waiting
<1>8. \A t \in Demands : ~WaitsFor(q, t)' BY <1>1 DEF WaitsFor, Sub!Waiting
<1>9. ASSUME NEW t \in Demands PROVE WaitingAlone(t)'
  <2>1. WaitingAlone(t) BY DEF SubscriptionInv
  <2>2. \A r \in Demands : WaitsFor(r, t)' => r # q /\ WaitsFor(r, t) BY <1>4, <1>8
  <2>3. t = s /\ s \notin shadowed => \A r \in Demands : WaitsFor(r, s) => r = q BY <2>1, <1>s DEF WaitingAlone
  <2>q. QED BY <1>1, <1>5, <1>m, <2>1, <2>2, <2>3 DEF WaitingAlone
<1>10. ASSUME NEW t \in Demands PROVE Agrees(t)'
  <2>0. Agrees(t) BY DEF SubscriptionInv
  <2>1. CASE t # s
    <3>1. demand'[q].of # {t} BY <1>1, <2>1
    <3>q. QED BY <1>1, <1>2, <1>4, <1>5, <1>m, <2>0, <2>1, <3>1, ZenonT(60) DEF Agrees, Sub!Known
  \* The copy is the subscription as it is, so what it carried it carries still.
  <2>2. CASE t = s
    <3>1. s \notin shadowed => demand[q].copy = subscription[s]
      BY <1>s DEF SubscriptionInv, WaitingAlone
    <3>2. s \notin shadowed => Sub!Known(s) /\ \A r \in Demands : demand[r].of = {s} =>
            answered[r] # "removed" /\ (answered[r] = "updated" => r \in subscription'[s].updates)
      BY <1>5, <1>s, <2>0, <2>2, <3>1 DEF Agrees, Sub!Known
    <3>q. QED BY <1>1, <1>2, <1>4, <1>5, <1>s, <1>m, <2>2, <3>2 DEF Agrees
  <2>q. QED BY <2>1, <2>2
<1>q. QED BY <1>4, <1>6, <1>7, <1>9, <1>10 DEF SubscriptionInv

\* A request that ends without having stored anything.
LEMMA EndsKept ==
  ASSUME SubscriptionInv, NEW q \in Demands, Sub!Probe(q) \/ Sub!Blocked(q)
  PROVE  SubscriptionInv'
<1>0. demand[q].phase = "validating" /\ UNCHANGED <<subscription, shadowed>> /\ Sub!Ends(q)
  BY DEF Sub!Probe, Sub!Blocked, Sub!Waiting
<1>a. PICK what \in {"reachable", "unreachable", "rejected"} : Sub!Answer(q, what)
  BY DEF Sub!Probe, Sub!Blocked
<1>1. /\ demand' \in [Demands -> DemandRecords] /\ demand'[q].kind = demand[q].kind /\ demand'[q].phase = "over"
      /\ demand'[q].of = demand[q].of /\ \A r \in Demands \ {q} : demand'[r] = demand[r]
  BY <1>0, RequestEnds
<1>2. /\ answered' \in [Demands -> Answers] /\ answered'[q] = what
      /\ \A r \in Demands \ {q} : answered'[r] = answered[r]
  BY <1>a, AnswerIs DEF Answers
<1>3. answered[q] = "none" BY <1>0, Unanswered
<1>4. /\ \A r \in Demands \ {q} : DemandIs(r)' /\ AnsweredOver(r)'
      /\ \A t \in Demands : answered[t] = "created" => answered'[t] = "created" /\ t # q
      /\ \A t \in Demands, r \in Demands \ {q} : WaitsFor(r, t)' <=> WaitsFor(r, t)
  BY <1>1, <1>2, <1>3, OthersDemand
<1>5. SubscriptionTypes' BY <1>0, <1>1, <1>2 DEF SubscriptionInv, SubscriptionTypes, Answers
<1>6. DemandIs(q)' /\ AnsweredOver(q)'
  <2>1. DemandIs(q) BY DEF SubscriptionInv
  <2>q. QED BY <1>0, <1>1, <1>2, <1>4, <2>1 DEF DemandIs, AnsweredOver, Sub!Waiting, Sub!NoDemand
<1>7. \A t \in Demands : ~WaitsFor(q, t)' BY <1>1 DEF WaitsFor, Sub!Waiting
<1>8. ASSUME NEW t \in Demands PROVE WaitingAlone(t)'
  <2>1. WaitingAlone(t) BY DEF SubscriptionInv
  <2>2. \A r \in Demands : WaitsFor(r, t)' => r # q /\ WaitsFor(r, t) BY <1>4, <1>7
  <2>q. QED BY <1>0, <1>1, <2>1, <2>2 DEF WaitingAlone
<1>9. ASSUME NEW t \in Demands PROVE Agrees(t)'
  <2>1. Agrees(t) BY DEF SubscriptionInv
  <2>2. \A r \in Demands : demand'[r].of = demand[r].of BY <1>1
  <2>q. QED BY <1>0, <1>2, <1>4, <2>1, <2>2 DEF Agrees, Sub!Known
<1>q. QED BY <1>4, <1>5, <1>6, <1>8, <1>9 DEF SubscriptionInv

LEMMA SubscriptionsKept == Sub!Spec => [](Sub!TypeOK /\ Sub!SubscriptionsAgree)
<1>1. SubscriptionInv /\ [Sub!Next]_(Sub!vars) => SubscriptionInv'
  <2> SUFFICES ASSUME SubscriptionInv, [Sub!Next]_(Sub!vars) PROVE SubscriptionInv'
    OBVIOUS
  <2>1. CASE UNCHANGED Sub!vars
    BY <2>1 DEF Sub!vars, SubscriptionInv, SubscriptionTypes, DemandIs, AnsweredOver, WaitingAlone, WaitsFor, Agrees,
                Sub!Known, Sub!Waiting, Sub!NoDemand, Sub!Unknown
  <2>2. CASE Sub!Next
    BY <2>2, CreatesKept, StoresKept, ChangesKept, WaitsKept, ValidationsKept, EndsKept DEF Sub!Next
  <2>q. QED BY <2>1, <2>2
<1>2. SubscriptionInv => Sub!TypeOK /\ Sub!SubscriptionsAgree
  BY DEF SubscriptionInv, SubscriptionTypes, Agrees, DemandRecords, SubscriptionRecords, Sub!TypeOK,
         Sub!SubscriptionsAgree
<1>q. QED BY <1>1, <1>2, SubscriptionsStart, PTL DEF Sub!Spec

----------------------------------------------------------------------------
(* The scores. *)
HIDE UploadsAssumption
USE ReputationAssumption

LEMMA ReputationAlone == EdgeSpec => Rep!Spec
<1>1. EdgeInit => Rep!Init BY DEF EdgeInit
<1>2. [EdgeNext]_edgeVars => [Rep!Next]_(Rep!vars)
  BY DEF EdgeNext, Others, edgeVars, reputationVars, Rep!vars
<1>q. QED BY <1>1, <1>2, PTL DEF EdgeSpec, Rep!Spec, edgeVars

TurnRecords == [party : 0 .. 2, phase : {"idle", "queued", "writing", "over"}, record : SUBSET Outcomes]
ScoreTypes ==
  /\ score \in [Rep!Addresses -> SUBSET Outcomes] /\ outages \in 0 .. MaxOutages
  /\ ownScore \in [Rep!Handlers -> [Rep!Addresses -> SUBSET Outcomes]] /\ clobbered \subseteq Rep!Addresses
  /\ mutationQueue \in [Rep!Handlers -> Seq(Outcomes)] /\ \A h \in Rep!Handlers : Rep!IsInjective(mutationQueue[h])
  /\ turn \in [Outcomes -> TurnRecords] /\ counted \subseteq Outcomes \X Rep!Addresses

\* The queue of an instance holds the changes that wait or run there, the one that runs first.
InLine(c, s) == \E i \in 1 .. Len(s) : s[i] = c
Counting(c) == turn[c].phase \in {"queued", "writing"}
LineHolds == \A c \in Outcomes, h \in Rep!Handlers : InLine(c, mutationQueue[h]) <=> Handler[c] = h /\ Counting(c)
RunsFirst(c) == turn[c].phase = "writing" => Head(mutationQueue[Handler[c]]) = c
Unalike(c) == Parties[c][1] # Parties[c][2]
TurnIs(c) ==
  /\ turn[c].phase = "idle" => turn[c] = Rep!Idle
  /\ Counting(c) => turn[c].party # 0 /\ Unalike(c)
  /\ turn[c].party = 2 => <<c, Parties[c][1]>> \in counted
  /\ turn[c].phase = "over" /\ Unalike(c) => \A i \in 1 .. 2 : <<c, Parties[c][i]>> \in counted
\* Unless the score was clobbered, who is about to write it has read it as it is, and is the only one.
WritesAlone(c) ==
  turn[c].phase = "writing" /\ Rep!Concerned(c) \notin clobbered =>
    /\ turn[c].record = score[Rep!Concerned(c)]
    /\ \A d \in Outcomes : turn[d].phase = "writing" /\ Rep!Concerned(d) = Rep!Concerned(c) => d = c
CountedKept == \A pair \in counted : pair[1] \in score[pair[2]] \/ pair[2] \in clobbered
ScoreInv ==
  /\ ScoreTypes /\ LineHolds /\ CountedKept
  /\ \A c \in Outcomes : RunsFirst(c) /\ TurnIs(c) /\ WritesAlone(c)

LEMMA PartiesAre ==
  ASSUME NEW c \in Outcomes, NEW i \in 1 .. 2
  PROVE  Parties[c][i] \in Rep!Addresses /\ Handler[c] \in Rep!Handlers
<1>1. Parties[c][i] \in Rep!Range(Parties[c]) BY DEF Rep!Range
<1>q. QED BY <1>1 DEF Rep!Addresses, Rep!Handlers

LEMMA ConcernedIs ==
  ASSUME ScoreInv, NEW c \in Outcomes, Counting(c)
  PROVE  turn[c].party \in 1 .. 2 /\ Rep!Concerned(c) \in Rep!Addresses /\ Unalike(c)
<1>1. turn[c].party \in 0 .. 2 /\ turn[c].party # 0 /\ Unalike(c)
  BY DEF ScoreInv, ScoreTypes, TurnRecords, TurnIs
<1>q. QED BY <1>1, PartiesAre DEF Rep!Concerned

\* Nobody runs at an instance but the first of its queue.
LEMMA RunsAlone ==
  ASSUME ScoreInv, NEW c \in Outcomes, NEW d \in Outcomes, turn[d].phase = "writing",
         Head(mutationQueue[Handler[c]]) = c, Handler[d] = Handler[c]
  PROVE  d = c
BY DEF ScoreInv, RunsFirst

TurnPhases == {"idle", "queued", "writing", "over"}
TurnGoes(c, f, p) ==
  /\ turn' \in [Outcomes -> TurnRecords] /\ turn'[c].phase = f /\ turn'[c].party = p
  /\ \A d \in Outcomes \ {c} : turn'[d] = turn[d]
LEMMA TurnPhased ==
  ASSUME turn \in [Outcomes -> TurnRecords], NEW c \in Outcomes, NEW f \in TurnPhases,
         turn' = [turn EXCEPT ![c].phase = f]
  PROVE  TurnGoes(c, f, turn[c].party)
<1>1. PICK r \in TurnRecords : r = turn[c] OBVIOUS
<1>2. PICK s : s = [r EXCEPT !.phase = f] OBVIOUS
<1>3. s \in TurnRecords /\ s.phase = f /\ s.party = r.party BY <1>1, <1>2 DEF TurnRecords, TurnPhases
<1>4. turn' = [turn EXCEPT ![c] = s] BY <1>1, <1>2
<1>q. QED BY <1>1, <1>3, <1>4 DEF TurnGoes

LEMMA TurnWritten ==
  ASSUME turn \in [Outcomes -> TurnRecords], NEW c \in Outcomes, NEW f \in TurnPhases, NEW rec \in SUBSET Outcomes,
         turn' = [turn EXCEPT ![c].phase = f, ![c].record = rec]
  PROVE  TurnGoes(c, f, turn[c].party) /\ turn'[c].record = rec
<1>1. PICK r \in TurnRecords : r = turn[c] OBVIOUS
<1>2. PICK s : s = [r EXCEPT !.phase = f, !.record = rec] OBVIOUS
<1>3. s \in TurnRecords /\ s.phase = f /\ s.record = rec /\ s.party = r.party
  BY <1>1, <1>2 DEF TurnRecords, TurnPhases
<1>4. turn' = [turn EXCEPT ![c] = s] BY <1>1, <1>2
<1>q. QED BY <1>1, <1>3, <1>4, ZenonT(60) DEF TurnGoes

LEMMA TurnQueued ==
  ASSUME turn \in [Outcomes -> TurnRecords], NEW c \in Outcomes, NEW p \in 1 .. 2,
         turn' = [turn EXCEPT ![c] = [Rep!Idle EXCEPT !.party = p, !.phase = "queued"]]
  PROVE  TurnGoes(c, "queued", p)
<1>1. PICK s : s = [Rep!Idle EXCEPT !.party = p, !.phase = "queued"] OBVIOUS
<1>p. PICK n \in 0 .. 2 : n = p OBVIOUS
<1>r. PICK r : r = Rep!Idle OBVIOUS
<1>i. r \in TurnRecords BY <1>r DEF TurnRecords, Rep!Idle
<1>s. s = [r EXCEPT !.party = n, !.phase = "queued"] BY <1>1, <1>p, <1>r
<1>2. s \in TurnRecords /\ s.phase = "queued" /\ s.party = n BY <1>i, <1>s DEF TurnRecords
<1>q. QED BY <1>1, <1>2, <1>p DEF TurnGoes

LEMMA Enqueued ==
  ASSUME NEW S, NEW s \in Seq(S), Rep!IsInjective(s), NEW c \in S, ~InLine(c, s)
  PROVE  /\ Append(s, c) \in Seq(S) /\ Rep!IsInjective(Append(s, c))
         /\ \A d : InLine(d, Append(s, c)) <=> InLine(d, s) \/ d = c
         /\ \A d : InLine(d, s) => Head(Append(s, c)) = Head(s)
<1>1. /\ Append(s, c) \in Seq(S) /\ Len(Append(s, c)) = Len(s) + 1
      /\ \A i \in 1 .. Len(s) : Append(s, c)[i] = s[i]
      /\ Append(s, c)[Len(s) + 1] = c
  BY AppendProperties
<1>2. Len(s) \in Nat /\ DOMAIN s = 1 .. Len(s) /\ DOMAIN Append(s, c) = 1 .. Len(s) + 1
  BY <1>1, LenProperties
<1> DEFINE t == Append(s, c)
<1>3. \A i \in 1 .. Len(s) + 1 : (i \in 1 .. Len(s) /\ t[i] = s[i]) \/ (i = Len(s) + 1 /\ t[i] = c)
  <2>1. \A n \in Nat : \A i \in 1 .. n + 1 : i \in 1 .. n \/ i = n + 1 OBVIOUS
  <2> HIDE DEF t
  <2>2. (\A i \in 1 .. Len(s) : t[i] = s[i]) /\ t[Len(s) + 1] = c BY <1>1 DEF t
  <2>q. QED BY <1>2, <2>1, <2>2
<1>4. \A d : InLine(d, t) <=> InLine(d, s) \/ d = c
  <2>1. 1 .. Len(s) \subseteq 1 .. Len(s) + 1 /\ Len(s) + 1 \in 1 .. Len(s) + 1 BY <1>2
  <2>q. QED BY <1>1, <1>3, <2>1 DEF InLine
<1>5. Rep!IsInjective(t)
  <2> SUFFICES ASSUME NEW i \in 1 .. Len(s) + 1, NEW j \in 1 .. Len(s) + 1, t[i] = t[j] PROVE i = j
    BY <1>2 DEF Rep!IsInjective
  <2>1. \A k \in 1 .. Len(s) : s[k] # c BY DEF InLine
  <2>2. \A k, l \in 1 .. Len(s) : s[k] = s[l] => k = l BY <1>2 DEF Rep!IsInjective
  <2> HIDE DEF t
  <2>q. QED BY <1>3, <2>1, <2>2
<1>6. ASSUME NEW d, InLine(d, s) PROVE Head(t) = Head(s)
  <2>1. 1 \in 1 .. Len(s) BY <1>2, <1>6 DEF InLine
  <2>2. Head(t) = t[1] /\ Head(s) = s[1] OBVIOUS
  <2>q. QED BY <1>1, <2>1, <2>2
<1>q. QED BY <1>1, <1>4, <1>5, <1>6

\* Who runs is the first of the queue, so it is the others who are left.
LEMMA Dequeued ==
  ASSUME NEW S, NEW s \in Seq(S), Rep!IsInjective(s), NEW c \in S, InLine(c, s), Head(s) = c
  PROVE  Tail(s) \in Seq(S) /\ Rep!IsInjective(Tail(s)) /\ \A d : InLine(d, Tail(s)) <=> InLine(d, s) /\ d # c
<1> DEFINE r == Tail(s)
<1>1. Len(s) \in Nat /\ DOMAIN s = 1 .. Len(s) /\ 1 \in 1 .. Len(s) /\ s # <<>> /\ s[1] = c
  <2>1. Len(s) \in Nat /\ DOMAIN s = 1 .. Len(s) BY LenProperties
  <2>2. 1 \in 1 .. Len(s) BY <2>1 DEF InLine
  <2>3. Len(<<>>) = 0 OBVIOUS
  <2>4. s # <<>> BY <2>2, <2>3
  <2>q. QED BY <2>1, <2>2, <2>4, HeadTailProperties
<1>2. r \in Seq(S) /\ Len(r) = Len(s) - 1 /\ \A i \in 1 .. Len(r) : r[i] = s[i + 1]
  BY <1>1, HeadTailProperties
<1>3. DOMAIN r = 1 .. Len(r) /\ Len(r) \in Nat BY <1>2, LenProperties
<1> HIDE DEF r
<1>4. \A i \in 1 .. Len(r) : i + 1 \in 1 .. Len(s) /\ i + 1 # 1 BY <1>1, <1>2, <1>3
<1>5. \A i \in 1 .. Len(s) : i # 1 => i - 1 \in 1 .. Len(r) /\ (i - 1) + 1 = i BY <1>1, <1>2, <1>3
<1>6. \A i, j \in 1 .. Len(s) : s[i] = s[j] => i = j BY <1>1 DEF Rep!IsInjective
<1>7. Rep!IsInjective(r)
  <2> SUFFICES ASSUME NEW i \in 1 .. Len(r), NEW j \in 1 .. Len(r), r[i] = r[j] PROVE i = j
    BY <1>3 DEF Rep!IsInjective
  <2>1. s[i + 1] = s[j + 1] BY <1>2
  <2>2. i + 1 = j + 1 BY <1>4, <1>6, <2>1
  <2>q. QED BY <1>3, <2>2
<1>8. ASSUME NEW d PROVE InLine(d, r) <=> InLine(d, s) /\ d # c
  <2>1. ASSUME NEW i \in 1 .. Len(r), r[i] = d PROVE InLine(d, s) /\ d # c
    <3>1. s[i + 1] = d BY <1>2, <2>1
    <3>2. s[i + 1] # s[1] BY <1>1, <1>4, <1>6
    <3>q. QED BY <1>1, <1>4, <3>1, <3>2 DEF InLine
  <2>2. ASSUME NEW i \in 1 .. Len(s), s[i] = d, d # c PROVE InLine(d, r)
    <3>1. i # 1 BY <1>1, <2>2
    <3>2. i - 1 \in 1 .. Len(r) /\ r[i - 1] = d BY <1>2, <1>5, <2>2, <3>1
    <3>q. QED BY <3>2 DEF InLine
  <2>q. QED BY <2>1, <2>2 DEF InLine
<1>q. QED BY <1>2, <1>7, <1>8 DEF r

LEMMA ScoresStart == Rep!Init => ScoreInv
<1> SUFFICES ASSUME Rep!Init PROVE ScoreInv
  OBVIOUS
<1>1. \A h \in Rep!Handlers : mutationQueue[h] = <<>> BY DEF Rep!Init
<1>2. Rep!IsInjective(<<>>) /\ \A c : ~InLine(c, <<>>) BY DEF Rep!IsInjective, InLine
<1>3. mutationQueue \in [Rep!Handlers -> Seq(Outcomes)] BY DEF Rep!Init
<1>4. turn \in [Outcomes -> TurnRecords] BY DEF Rep!Init, Rep!Idle, TurnRecords
<1>5. ScoreTypes BY <1>1, <1>2, <1>3, <1>4 DEF Rep!Init, ScoreTypes
<1>6. \A c \in Outcomes : turn[c] = Rep!Idle /\ turn[c].phase = "idle" /\ turn[c].party = 0
  BY DEF Rep!Init, Rep!Idle
<1>q. QED BY <1>1, <1>2, <1>5, <1>6
           DEF Rep!Init, ScoreInv, LineHolds, CountedKept, RunsFirst, TurnIs, WritesAlone, Counting

LEMMA CountsKept == ASSUME ScoreInv, NEW c \in Outcomes, Rep!Count(c) PROVE ScoreInv'
<1>0. UNCHANGED <<score, ownScore, outages, counted, clobbered>> /\ turn[c] = Rep!Idle BY DEF Rep!Count
<1>t. turn \in [Outcomes -> TurnRecords] /\ Handler[c] \in Rep!Handlers
  BY DEF ScoreInv, ScoreTypes, Rep!Handlers
<1>1. CASE ~Unalike(c)
  <2>1. turn' = [turn EXCEPT ![c].phase = "over"] /\ UNCHANGED mutationQueue BY <1>1 DEF Rep!Count, Unalike
  <2>2. /\ turn' \in [Outcomes -> TurnRecords] /\ turn'[c].phase = "over" /\ turn'[c].party = 0
        /\ \A d \in Outcomes \ {c} : turn'[d] = turn[d]
    <3>1. turn[c].party = 0 BY <1>0 DEF Rep!Idle
    <3>q. QED BY <1>t, <2>1, <3>1, TurnPhased DEF TurnGoes, TurnPhases
  <2>3. ScoreTypes' BY <1>0, <2>1, <2>2 DEF ScoreInv, ScoreTypes
  <2>4. turn[c].phase = "idle" BY <1>0 DEF Rep!Idle
  <2>5. \A d \in Outcomes : Counting(d)' <=> Counting(d) BY <2>2, <2>4 DEF Counting
  <2>6. LineHolds' BY <2>1, <2>5 DEF ScoreInv, LineHolds
  <2>7. ASSUME NEW d \in Outcomes PROVE RunsFirst(d)' /\ TurnIs(d)' /\ WritesAlone(d)'
    <3>1. RunsFirst(d) /\ TurnIs(d) /\ WritesAlone(d) BY DEF ScoreInv
    <3>2. CASE d = c BY <1>1, <2>2, <3>2 DEF RunsFirst, TurnIs, WritesAlone, Counting, Unalike
    <3>3. CASE d # c
      BY <1>0, <2>1, <2>2, <3>1, <3>3 DEF RunsFirst, TurnIs, WritesAlone, Counting, Rep!Concerned, Rep!Idle, Unalike
    <3>q. QED BY <3>2, <3>3
  <2>8. CountedKept' BY <1>0 DEF ScoreInv, CountedKept
  <2>q. QED BY <2>3, <2>6, <2>7, <2>8 DEF ScoreInv
<1>2. CASE Unalike(c)
  <2>1. /\ turn' = [turn EXCEPT ![c] = [Rep!Idle EXCEPT !.party = 1, !.phase = "queued"]]
        /\ mutationQueue' = [mutationQueue EXCEPT ![Handler[c]] = Append(@, c)]
    BY <1>2 DEF Rep!Count, Unalike, Rep!Queued
  <2>2. /\ turn' \in [Outcomes -> TurnRecords] /\ turn'[c].phase = "queued" /\ turn'[c].party = 1
        /\ \A d \in Outcomes \ {c} : turn'[d] = turn[d]
    <3>1. PICK p \in 1 .. 2 : p = 1 /\ turn' = [turn EXCEPT ![c] = [Rep!Idle EXCEPT !.party = p, !.phase = "queued"]]
      BY <2>1
    <3>2. TurnGoes(c, "queued", p) BY <1>t, <3>1, TurnQueued
    <3>q. QED BY <3>1, <3>2 DEF TurnGoes
  <2>3. turn[c].phase = "idle" BY <1>0 DEF Rep!Idle
  <2>4. PICK s \in Seq(Outcomes) : s = mutationQueue[Handler[c]] /\ Rep!IsInjective(s) /\ ~InLine(c, s)
    BY <1>t, <2>3 DEF ScoreInv, ScoreTypes, LineHolds, Counting
  <2>5. /\ mutationQueue' \in [Rep!Handlers -> Seq(Outcomes)] /\ mutationQueue'[Handler[c]] = Append(s, c)
        /\ \A h \in Rep!Handlers \ {Handler[c]} : mutationQueue'[h] = mutationQueue[h]
        /\ \A h \in Rep!Handlers : Rep!IsInjective(mutationQueue'[h])
    BY <1>t, <2>1, <2>4, Enqueued DEF ScoreInv, ScoreTypes
  <2>6. ScoreTypes' BY <1>0, <2>2, <2>5 DEF ScoreInv, ScoreTypes
  <2>7. \A d \in Outcomes : Counting(d)' <=> Counting(d) \/ d = c BY <2>2, <2>3 DEF Counting
  <2>8. LineHolds'
    <3> SUFFICES ASSUME NEW d \in Outcomes, NEW h \in Rep!Handlers
                 PROVE  InLine(d, mutationQueue'[h]) <=> Handler[d] = h /\ Counting(d)'
      BY DEF LineHolds
    <3>1. InLine(d, mutationQueue[h]) <=> Handler[d] = h /\ Counting(d) BY DEF ScoreInv, LineHolds
    <3>2. CASE h = Handler[c]
      <4>1. InLine(d, Append(s, c)) <=> InLine(d, s) \/ d = c BY <2>4, Enqueued
      <4>2. mutationQueue'[h] = Append(s, c) /\ mutationQueue[h] = s BY <2>4, <2>5, <3>2
      <4>q. QED BY <2>7, <3>1, <3>2, <4>1, <4>2
    <3>3. CASE h # Handler[c] BY <2>5, <2>7, <3>1, <3>3
    <3>q. QED BY <3>2, <3>3
  <2>9. ASSUME NEW d \in Outcomes PROVE RunsFirst(d)' /\ TurnIs(d)' /\ WritesAlone(d)'
    <3>1. RunsFirst(d) /\ TurnIs(d) /\ WritesAlone(d) /\ Handler[d] \in Rep!Handlers
      BY DEF ScoreInv, Rep!Handlers
    <3>2. CASE d = c BY <1>2, <2>2, <3>2 DEF RunsFirst, TurnIs, WritesAlone, Counting, Unalike
    <3>3. CASE d # c
      <4>1. RunsFirst(d)'
        <5> SUFFICES ASSUME turn[d].phase = "writing" PROVE Head(mutationQueue'[Handler[d]]) = d
          BY <2>2, <3>3 DEF RunsFirst
        <5>1. Head(mutationQueue[Handler[d]]) = d BY <3>1 DEF RunsFirst
        <5>2. InLine(d, mutationQueue[Handler[d]]) BY <3>1 DEF ScoreInv, LineHolds, Counting
        <5>3. CASE Handler[d] = Handler[c] BY <2>4, <2>5, <5>1, <5>2, <5>3, Enqueued
        <5>4. CASE Handler[d] # Handler[c] BY <2>5, <3>1, <5>1, <5>4
        <5>q. QED BY <5>3, <5>4
      <4>2. TurnIs(d)' BY <1>0, <2>2, <3>1, <3>3 DEF TurnIs, Counting, Rep!Idle, Unalike
      <4>3. WritesAlone(d)' BY <1>0, <2>2, <3>1, <3>3 DEF WritesAlone, Rep!Concerned
      <4>q. QED BY <4>1, <4>2, <4>3
    <3>q. QED BY <3>2, <3>3
  <2>10. CountedKept' BY <1>0 DEF ScoreInv, CountedKept
  <2>q. QED BY <2>6, <2>8, <2>9, <2>10 DEF ScoreInv
<1>q. QED BY <1>1, <1>2

LEMMA ReadsKept == ASSUME ScoreInv, NEW c \in Outcomes, Rep!ReadScore(c) PROVE ScoreInv'
<1>0. UNCHANGED <<score, ownScore, mutationQueue, counted>> /\ turn[c].phase = "queued"
      /\ Head(mutationQueue[Handler[c]]) = c
  BY DEF Rep!ReadScore, Rep!MayRun
<1>c. Counting(c) BY <1>0 DEF Counting
<1>a. PICK a \in Rep!Addresses : a = Rep!Concerned(c) BY <1>c, ConcernedIs
<1>t. /\ turn \in [Outcomes -> TurnRecords] /\ Handler[c] \in Rep!Handlers /\ clobbered \subseteq Rep!Addresses
      /\ outages \in 0 .. MaxOutages /\ score[a] \subseteq Outcomes /\ ownScore[Handler[c]][a] \subseteq Outcomes
  BY PartiesAre DEF ScoreInv, ScoreTypes
<1>1. PICK rec \in SUBSET Outcomes :
        /\ turn' = [turn EXCEPT ![c].phase = "writing", ![c].record = rec]
        /\ outages' \in 0 .. MaxOutages /\ clobbered' \in {clobbered, clobbered \cup {a}}
        /\ a \notin clobbered' => rec = score[a] /\ \A d \in Rep!Busy(a) : Handler[d] = Handler[c]
  <2>1. CASE /\ turn' = [turn EXCEPT ![c].phase = "writing", ![c].record = score[a]] /\ UNCHANGED outages
             /\ clobbered' = (IF \E d \in Rep!Busy(a) : Handler[d] # Handler[c] THEN clobbered \cup {a} ELSE clobbered)
    BY <1>t, <2>1
  <2>2. CASE /\ turn' = [turn EXCEPT ![c].phase = "writing", ![c].record = ownScore[Handler[c]][a]] /\ Rep!Outage
             /\ clobbered' = clobbered \cup {a}
    <3>1. outages' \in 0 .. MaxOutages BY <1>t, <2>2 DEF Rep!Outage
    <3>q. QED BY <1>t, <2>2, <3>1
  <2>q. QED BY <1>a, <2>1, <2>2 DEF Rep!ReadScore
<1>2. /\ turn' \in [Outcomes -> TurnRecords] /\ turn'[c].phase = "writing" /\ turn'[c].party = turn[c].party
      /\ turn'[c].record = rec /\ \A d \in Outcomes \ {c} : turn'[d] = turn[d]
  BY <1>t, <1>1, TurnWritten DEF TurnGoes, TurnPhases
<1>3. ScoreTypes' BY <1>0, <1>1, <1>2 DEF ScoreInv, ScoreTypes
<1>4. \A d \in Outcomes : (Counting(d)' <=> Counting(d)) /\ Rep!Concerned(d)' = Rep!Concerned(d)
  BY <1>0, <1>2 DEF Counting, Rep!Concerned
<1>5. LineHolds' BY <1>0, <1>4 DEF ScoreInv, LineHolds
<1>6. CountedKept' BY <1>0, <1>1 DEF ScoreInv, CountedKept
\* Unless it is clobbered nobody else was about to write this score.
<1>7. a \notin clobbered' => \A d \in Outcomes : ~(turn[d].phase = "writing" /\ Rep!Concerned(d) = a)
  <2> SUFFICES ASSUME a \notin clobbered', NEW d \in Outcomes, turn[d].phase = "writing", Rep!Concerned(d) = a
               PROVE  FALSE
    OBVIOUS
  <2>1. Handler[d] = Handler[c] BY <1>1 DEF Rep!Busy
  <2>2. d = c BY <1>0, <2>1, RunsAlone
  <2>q. QED BY <1>0, <2>2
<1>8. ASSUME NEW d \in Outcomes PROVE RunsFirst(d)' /\ TurnIs(d)' /\ WritesAlone(d)'
  <2>1. RunsFirst(d) /\ TurnIs(d) /\ WritesAlone(d) BY DEF ScoreInv
  <2>2. RunsFirst(d)' BY <1>0, <1>2, <2>1 DEF RunsFirst
  <2>3. TurnIs(d)' BY <1>0, <1>2, <2>1 DEF TurnIs, Counting, Rep!Idle, Unalike
  <2>4. WritesAlone(d)'
    <3> SUFFICES ASSUME turn'[d].phase = "writing", Rep!Concerned(d) \notin clobbered'
                 PROVE  /\ turn'[d].record = score[Rep!Concerned(d)]
                        /\ \A e \in Outcomes : turn'[e].phase = "writing" /\ Rep!Concerned(e) = Rep!Concerned(d) => e = d
      BY <1>0, <1>4 DEF WritesAlone
    <3>1. CASE d = c BY <1>1, <1>2, <1>7, <1>a, <3>1
    <3>2. CASE d # c
      <4>1. Rep!Concerned(d) # a BY <1>2, <1>7, <3>2
      <4>q. QED BY <1>1, <1>2, <1>a, <2>1, <3>2, <4>1 DEF WritesAlone
    <3>q. QED BY <3>1, <3>2
  <2>q. QED BY <2>2, <2>3, <2>4
<1>q. QED BY <1>3, <1>5, <1>6, <1>8 DEF ScoreInv

LEMMA WritesKept == ASSUME ScoreInv, NEW c \in Outcomes, Rep!WriteScore(c) PROVE ScoreInv'
<1>0. turn[c].phase = "writing" /\ Counting(c) BY DEF Rep!WriteScore, Counting
<1>a. PICK a \in Rep!Addresses : a = Rep!Concerned(c) BY <1>0, ConcernedIs
<1>p. turn[c].party \in 1 .. 2 /\ a = Parties[c][turn[c].party] /\ Unalike(c)
  BY <1>0, <1>a, ConcernedIs DEF Rep!Concerned
<1>t. /\ turn \in [Outcomes -> TurnRecords] /\ Handler[c] \in Rep!Handlers /\ clobbered \subseteq Rep!Addresses
      /\ outages \in 0 .. MaxOutages /\ score \in [Rep!Addresses -> SUBSET Outcomes]
      /\ ownScore \in [Rep!Handlers -> [Rep!Addresses -> SUBSET Outcomes]] /\ turn[c].record \subseteq Outcomes
  BY PartiesAre DEF ScoreInv, ScoreTypes, TurnRecords
<1>r. PICK rec \in SUBSET Outcomes : rec = turn[c].record BY <1>t
<1>h. PICK h \in Rep!Handlers : h = Handler[c] BY <1>t
<1>1. /\ outages' \in 0 .. MaxOutages /\ clobbered' \in {clobbered, clobbered \cup {a}}
      /\ ownScore' \in [Rep!Handlers -> [Rep!Addresses -> SUBSET Outcomes]]
      /\ score' \in [Rep!Addresses -> SUBSET Outcomes] /\ \A b \in Rep!Addresses \ {a} : score'[b] = score[b]
      /\ a \notin clobbered' => score'[a] = rec \cup {c}
  <2>1. CASE score' = [score EXCEPT ![a] = rec \cup {c}] /\ UNCHANGED <<ownScore, outages, clobbered>>
    BY <1>t, <2>1
  <2>2. CASE /\ Rep!Outage /\ score' \in {score, [score EXCEPT ![a] = rec \cup {c}]}
             /\ ownScore' = [ownScore EXCEPT ![h][a] = rec \cup {c}] /\ clobbered' = clobbered \cup {a}
    <3>1. outages' \in 0 .. MaxOutages BY <1>t, <2>2 DEF Rep!Outage
    <3>2. ownScore' \in [Rep!Handlers -> [Rep!Addresses -> SUBSET Outcomes]] BY <1>t, <2>2
    <3>q. QED BY <1>t, <2>2, <3>1, <3>2
  <2>q. QED BY <1>a, <1>h, <1>r, <2>1, <2>2 DEF Rep!WriteScore
<1>2. counted' = counted \cup {<<c, a>>} BY <1>a DEF Rep!WriteScore
<1>3. PICK s \in Seq(Outcomes) : s = mutationQueue[h] /\ Rep!IsInjective(s) /\ InLine(c, s) /\ Head(s) = c
  <2>1. RunsFirst(c) BY DEF ScoreInv
  <2>q. QED BY <1>0, <1>h, <2>1 DEF ScoreInv, ScoreTypes, LineHolds, RunsFirst
<1>4. PICK rest \in Seq(Outcomes) :
        rest = Tail(s) /\ Rep!IsInjective(rest) /\ \A d : InLine(d, rest) <=> InLine(d, s) /\ d # c
  <2>1. /\ Tail(s) \in Seq(Outcomes) /\ Rep!IsInjective(Tail(s))
        /\ \A d : InLine(d, Tail(s)) <=> InLine(d, s) /\ d # c
    BY <1>3, Dequeued
  <2>q. QED BY <2>1
<1>5. PICK q \in Seq(Outcomes) :
        /\ mutationQueue' = [mutationQueue EXCEPT ![h] = q] /\ Rep!IsInjective(q)
        /\ \A d : InLine(d, q) <=> IF d = c THEN turn[c].party = 1 ELSE InLine(d, s)
        /\ TurnGoes(c, IF turn[c].party = 1 THEN "queued" ELSE "over", 2)
  <2>1. CASE turn[c].party = 1
    <3>1. /\ turn' = [turn EXCEPT ![c] = [Rep!Idle EXCEPT !.party = 2, !.phase = "queued"]]
          /\ mutationQueue' = [mutationQueue EXCEPT ![h] = Append(rest, c)]
      BY <1>3, <1>4, <1>h, <2>1 DEF Rep!WriteScore
    <3>2. /\ Append(rest, c) \in Seq(Outcomes) /\ Rep!IsInjective(Append(rest, c))
          /\ \A d : InLine(d, Append(rest, c)) <=> InLine(d, rest) \/ d = c
      BY <1>4, Enqueued
    <3>p. PICK p \in 1 .. 2 : p = 2 /\ turn' = [turn EXCEPT ![c] = [Rep!Idle EXCEPT !.party = p, !.phase = "queued"]]
      BY <3>1
    <3>3. TurnGoes(c, "queued", 2) BY <1>t, <3>p, TurnQueued
    <3>4. \A d : InLine(d, Append(rest, c)) <=> IF d = c THEN TRUE ELSE InLine(d, s) BY <1>4, <3>2
    <3>q. QED BY <2>1, <3>1, <3>2, <3>3, <3>4
  <2>2. CASE turn[c].party # 1
    <3>1. /\ turn' = [turn EXCEPT ![c].phase = "over", ![c].record = {}]
          /\ mutationQueue' = [mutationQueue EXCEPT ![h] = rest]
      BY <1>3, <1>4, <1>h, <2>2 DEF Rep!WriteScore
    <3>2. turn[c].party = 2 /\ TurnGoes(c, "over", 2)
      <4>1. turn[c].party = 2 BY <1>p, <2>2
      <4>2. PICK none \in SUBSET Outcomes : none = {} OBVIOUS
      <4>3. turn' = [turn EXCEPT ![c].phase = "over", ![c].record = none] BY <3>1, <4>2
      <4>4. TurnGoes(c, "over", turn[c].party) BY <1>t, <4>3, TurnWritten DEF TurnPhases
      <4>q. QED BY <4>1, <4>4
    <3>3. \A d : InLine(d, rest) <=> IF d = c THEN FALSE ELSE InLine(d, s) BY <1>4
    <3>q. QED BY <1>4, <2>2, <3>1, <3>2, <3>3
  <2>q. QED BY <2>1, <2>2
<1>6. /\ turn' \in [Outcomes -> TurnRecords] /\ \A d \in Outcomes \ {c} : turn'[d] = turn[d]
      /\ turn'[c].phase = (IF turn[c].party = 1 THEN "queued" ELSE "over") /\ turn'[c].party = 2
  BY <1>5 DEF TurnGoes
<1>7. /\ mutationQueue' \in [Rep!Handlers -> Seq(Outcomes)] /\ mutationQueue'[h] = q
      /\ \A g \in Rep!Handlers \ {h} : mutationQueue'[g] = mutationQueue[g]
      /\ \A g \in Rep!Handlers : Rep!IsInjective(mutationQueue'[g])
  BY <1>5 DEF ScoreInv, ScoreTypes
<1>8. ScoreTypes' BY <1>1, <1>2, <1>6, <1>7 DEF ScoreInv, ScoreTypes
<1>9. \A d \in Outcomes : Counting(d)' <=> (IF d = c THEN turn[c].party = 1 ELSE Counting(d))
  BY <1>6 DEF Counting
<1>10. LineHolds'
  <2> SUFFICES ASSUME NEW d \in Outcomes, NEW g \in Rep!Handlers
               PROVE  InLine(d, mutationQueue'[g]) <=> Handler[d] = g /\ Counting(d)'
    BY DEF LineHolds
  <2>1. InLine(d, mutationQueue[g]) <=> Handler[d] = g /\ Counting(d) BY DEF ScoreInv, LineHolds
  <2>2. CASE g = h
    <3>1. InLine(d, q) <=> IF d = c THEN turn[c].party = 1 ELSE InLine(d, s) BY <1>5
    <3>2. mutationQueue'[g] = q /\ mutationQueue[g] = s BY <1>3, <1>7, <2>2
    <3>q. QED BY <1>9, <1>h, <2>1, <2>2, <3>1, <3>2
  <2>3. CASE g # h BY <1>7, <1>9, <1>h, <2>1, <2>3
  <2>q. QED BY <2>2, <2>3
<1>11. a \notin clobbered' => rec = score[a] /\ score'[a] = score[a] \cup {c}
  <2>1. a \notin clobbered' => a \notin clobbered BY <1>1
  <2>q. QED BY <1>0, <1>1, <1>a, <1>r, <2>1 DEF ScoreInv, WritesAlone
<1>12. CountedKept'
  <2> SUFFICES ASSUME NEW pair \in counted' PROVE pair[1] \in score'[pair[2]] \/ pair[2] \in clobbered'
    BY DEF CountedKept
  <2>1. CASE pair = <<c, a>> BY <1>11, <2>1
  <2>2. CASE pair \in counted
    <3>1. pair[2] \in Rep!Addresses /\ (pair[1] \in score[pair[2]] \/ pair[2] \in clobbered)
      BY <2>2 DEF ScoreInv, ScoreTypes, CountedKept
    <3>q. QED BY <1>1, <1>11, <3>1
  <2>q. QED BY <1>2, <2>1, <2>2
<1>13. ASSUME NEW d \in Outcomes PROVE RunsFirst(d)' /\ TurnIs(d)' /\ WritesAlone(d)'
  <2>1. RunsFirst(d) /\ TurnIs(d) /\ WritesAlone(d) /\ Handler[d] \in Rep!Handlers
    BY DEF ScoreInv, Rep!Handlers
  <2>2. CASE d = c
    <3>1. TurnIs(c)'
      <4>1. turn'[c].party = 2 /\ turn'[c].phase \in {"queued", "over"} BY <1>6
      <4>2. CASE turn[c].party = 1
        <5>1. <<c, Parties[c][1]>> \in counted' /\ turn'[c].phase = "queued" BY <1>2, <1>6, <1>p, <4>2
        <5>q. QED BY <1>p, <4>1, <5>1 DEF TurnIs, Counting, Unalike
      <4>3. CASE turn[c].party = 2
        <5>1. <<c, Parties[c][1]>> \in counted BY <2>1, <2>2, <4>3 DEF TurnIs
        <5>2. <<c, Parties[c][1]>> \in counted' /\ <<c, Parties[c][2]>> \in counted' BY <1>2, <1>p, <4>3, <5>1
        <5>3. \A i \in 1 .. 2 : i = 1 \/ i = 2 OBVIOUS
        <5>4. \A i \in 1 .. 2 : <<c, Parties[c][i]>> \in counted' BY <5>2, <5>3
        <5>q. QED BY <1>p, <4>1, <5>4 DEF TurnIs, Counting, Unalike
      <4>q. QED BY <1>p, <4>2, <4>3
    <3>2. turn'[c].phase # "writing" BY <1>6
    <3>q. QED BY <2>2, <3>1, <3>2 DEF RunsFirst, WritesAlone
  <2>3. CASE d # c
    <3>1. RunsFirst(d)'
      <4> SUFFICES ASSUME turn[d].phase = "writing" PROVE Head(mutationQueue'[Handler[d]]) = d
        BY <1>6, <2>3 DEF RunsFirst
      <4>1. Handler[d] # h BY <1>0, <1>h, <2>1, <2>3 DEF ScoreInv, RunsFirst
      <4>q. QED BY <1>7, <2>1, <4>1 DEF RunsFirst
    <3>2. TurnIs(d)' BY <1>2, <1>6, <2>1, <2>3 DEF TurnIs, Counting, Rep!Idle, Unalike
    <3>3. WritesAlone(d)'
      <4> SUFFICES ASSUME turn[d].phase = "writing", Rep!Concerned(d) \notin clobbered'
                   PROVE  /\ turn'[d].record = score'[Rep!Concerned(d)]
                          /\ \A e \in Outcomes : turn'[e].phase = "writing" /\ Rep!Concerned(e)' = Rep!Concerned(d)
                                                  => e = d
        BY <1>6, <2>3 DEF WritesAlone, Rep!Concerned
      <4>1. Rep!Concerned(d) \notin clobbered BY <1>1
      <4>2. Rep!Concerned(d) # a BY <1>0, <1>a, <2>1, <2>3, <4>1 DEF WritesAlone
      <4>3. Rep!Concerned(d) \in Rep!Addresses BY ConcernedIs DEF Counting
      <4>4. turn'[d].record = score'[Rep!Concerned(d)] BY <1>1, <1>6, <2>1, <2>3, <4>1, <4>2, <4>3 DEF WritesAlone
      <4>5. \A e \in Outcomes \ {c} : turn'[e].phase = turn[e].phase /\ Rep!Concerned(e)' = Rep!Concerned(e)
        BY <1>6 DEF Rep!Concerned
      <4>6. turn'[c].phase # "writing" BY <1>6
      <4>q. QED BY <2>1, <4>1, <4>4, <4>5, <4>6 DEF WritesAlone
    <3>q. QED BY <3>1, <3>2, <3>3
  <2>q. QED BY <2>2, <2>3
<1>q. QED BY <1>8, <1>10, <1>12, <1>13 DEF ScoreInv

LEMMA ScoresKept == Rep!Spec => [](Rep!TypeOK /\ Rep!ScoresAddUp)
<1>1. ScoreInv /\ [Rep!Next]_(Rep!vars) => ScoreInv'
  <2> SUFFICES ASSUME ScoreInv, [Rep!Next]_(Rep!vars) PROVE ScoreInv'
    OBVIOUS
  <2>1. CASE UNCHANGED Rep!vars
    BY <2>1 DEF Rep!vars, ScoreInv, ScoreTypes, LineHolds, Counting, CountedKept, RunsFirst, TurnIs, WritesAlone,
                Rep!Concerned, Rep!Idle, Unalike
  <2>2. CASE Rep!Next BY <2>2, CountsKept, ReadsKept, WritesKept DEF Rep!Next
  <2>q. QED BY <2>1, <2>2
<1>2. ScoreInv => Rep!TypeOK /\ Rep!ScoresAddUp
  BY DEF ScoreInv, ScoreTypes, TurnRecords, CountedKept, TurnIs, Unalike, Rep!TypeOK, Rep!ScoresAddUp
<1>q. QED BY <1>1, <1>2, ScoresStart, PTL DEF Rep!Spec

----------------------------------------------------------------------------
(* The profiles. *)
HIDE ReputationAssumption
USE ProfilesAssumption

LEMMA ProfilesAlone == EdgeSpec => Prof!Spec
<1>1. EdgeInit => Prof!Init BY DEF EdgeInit
<1>2. [EdgeNext]_edgeVars => [Prof!Next]_(Prof!vars)
  BY DEF EdgeNext, Others, edgeVars, profilesVars, Prof!vars
<1>q. QED BY <1>1, <1>2, PTL DEF EdgeSpec, Prof!Spec, edgeVars

Profiles == [there : BOOLEAN, marks : SUBSET Edits]
Wallets == Edits \cup {NoProfile}
EditKinds == {"none", "create", "amend", "delete"}
EditPhases == {"new", "write", "done"}
EditRecords == [kind : EditKinds, phase : EditPhases, id : Wallets, copy : Profiles]
OwnMaps == [profile : [Edits -> Profiles], wallet : Wallets]
ProfileTypes ==
  /\ profile \in [Edits -> Profiles] /\ index \subseteq Edits /\ wallet \in Wallets
  /\ own \in [Prof!Sites -> OwnMaps] /\ edit \in [Edits -> EditRecords] /\ setbacks \in 0 .. MaxSetbacks
  /\ free \subseteq Edits /\ raced \subseteq Edits /\ revived \subseteq Edits /\ overlapped \subseteq Edits

\* Only what was created is there, amended or deleted; while no call failed a creation goes on
\* only if it found the wallet free.
EditIs(q) ==
  /\ edit[q].phase = "new" => edit[q] = Prof!NoEdit
  /\ edit[q].kind = "create" => edit[q].id = q
  /\ edit[q].kind \in {"amend", "delete"} => edit[q].id \in Prof!Created
  /\ edit[q].kind = "none" => edit[q].phase = "new"
  /\ profile[q].there => q \in Prof!Created
  /\ setbacks = 0 /\ edit[q].kind = "create" /\ edit[q].phase = "write" => q \in free
\* Unless two overlapped, who is about to write a profile has read it as it is, and is the only one.
Writes(q, p) == edit[q].id = p /\ edit[q].phase = "write"
EditsAlone(q) ==
  edit[q].kind \in {"amend", "delete"} /\ edit[q].phase = "write" /\ edit[q].id \notin overlapped =>
    edit[q].copy = profile[edit[q].id] /\ \A r \in Edits : Writes(r, edit[q].id) => r = q
WalletLeads == wallet # NoProfile => profile[wallet].there
Listed(p) == p \notin revived /\ profile[p].there => p \in index /\ (wallet = p \/ p \in raced \/ setbacks > 0)
Carried(q) ==
  edit[q].kind = "amend" /\ edit[q].phase = "done" /\ edit[q].copy.there
    /\ profile[edit[q].id].there /\ edit[q].id \notin overlapped \cup revived => q \in profile[edit[q].id].marks
ProfileInv ==
  /\ ProfileTypes /\ WalletLeads
  /\ \A q \in Edits : EditIs(q) /\ EditsAlone(q) /\ Listed(q) /\ Carried(q)

LEMMA ProfilesAre ==
  /\ Prof!Missing \in Profiles /\ ~Prof!Missing.there /\ Prof!NoEdit \in EditRecords
  /\ \A p \in Edits : p # NoProfile /\ (Prof!There(p) <=> profile[p].there)
  /\ \A q \in Edits : Site[q] \in Prof!Sites
<1>1. Prof!Missing \in Profiles /\ ~Prof!Missing.there BY DEF Prof!Missing, Profiles
<1>2. Prof!NoEdit \in EditRecords BY <1>1 DEF Prof!NoEdit, EditRecords, EditKinds, EditPhases, Wallets
<1>3. \A p \in Edits : p # NoProfile /\ (Prof!There(p) <=> profile[p].there) BY DEF Prof!There
<1>q. QED BY <1>1, <1>2, <1>3 DEF Prof!Sites

LEMMA ProfilesStart == Prof!Init => ProfileInv
<1> SUFFICES ASSUME Prof!Init PROVE ProfileInv
  OBVIOUS
<1>1. /\ profile = [p \in Edits |-> Prof!Missing] /\ index = {} /\ wallet = NoProfile
      /\ own = [s \in Prof!Sites |-> [profile |-> [p \in Edits |-> Prof!Missing], wallet |-> NoProfile]]
      /\ edit = [q \in Edits |-> Prof!NoEdit] /\ setbacks = 0
      /\ free = {} /\ raced = {} /\ revived = {} /\ overlapped = {}
  BY DEF Prof!Init
<1>2. profile \in [Edits -> Profiles] BY <1>1, ProfilesAre
<1>3. [profile |-> [p \in Edits |-> Prof!Missing], wallet |-> NoProfile] \in OwnMaps
  BY ProfilesAre DEF OwnMaps, Wallets
<1>4. own \in [Prof!Sites -> OwnMaps] BY <1>1, <1>3
<1>5. edit \in [Edits -> EditRecords] BY <1>1, ProfilesAre
<1>6. ProfileTypes BY <1>1, <1>2, <1>4, <1>5 DEF ProfileTypes, Wallets
<1>7. \A q \in Edits : edit[q] = Prof!NoEdit /\ edit[q].kind = "none" /\ edit[q].phase = "new" /\ ~profile[q].there
  BY <1>1, ProfilesAre DEF Prof!NoEdit
<1>q. QED BY <1>1, <1>6, <1>7 DEF ProfileInv, WalletLeads, EditIs, EditsAlone, Listed, Carried

LEMMA EditsTo ==
  ASSUME ProfileTypes, NEW q \in Edits, NEW kind \in EditKinds, NEW f \in EditPhases, NEW p \in Wallets,
         NEW copy \in Profiles, Prof!Does(q, kind, f, p, copy)
  PROVE  /\ edit' \in [Edits -> EditRecords] /\ edit'[q].kind = kind /\ edit'[q].phase = f /\ edit'[q].id = p
         /\ edit'[q].copy = copy /\ \A r \in Edits \ {q} : edit'[r] = edit[r]
<1>1. PICK e : e = [kind |-> kind, phase |-> f, id |-> p, copy |-> copy] OBVIOUS
<1>2. e \in EditRecords /\ e.kind = kind /\ e.phase = f /\ e.id = p /\ e.copy = copy BY <1>1 DEF EditRecords
<1>3. edit' = [edit EXCEPT ![q] = e] BY <1>1 DEF Prof!Does
<1>q. QED BY <1>2, <1>3 DEF ProfileTypes

LEMMA EditDone ==
  ASSUME ProfileTypes, NEW q \in Edits, Prof!Finishes(q)
  PROVE  /\ edit' \in [Edits -> EditRecords] /\ edit'[q].kind = edit[q].kind /\ edit'[q].phase = "done"
         /\ edit'[q].id = edit[q].id /\ edit'[q].copy = edit[q].copy
         /\ \A r \in Edits \ {q} : edit'[r] = edit[r]
<1>1. PICK d \in EditRecords : d = edit[q] BY DEF ProfileTypes
<1>2. PICK e : e = [d EXCEPT !.phase = "done"] OBVIOUS
<1>3. e \in EditRecords /\ e.kind = d.kind /\ e.phase = "done" /\ e.id = d.id /\ e.copy = d.copy
  BY <1>1, <1>2 DEF EditRecords, EditPhases
<1>4. edit' = [edit EXCEPT ![q] = e] BY <1>1, <1>2 DEF Prof!Finishes
<1>q. QED BY <1>1, <1>3, <1>4 DEF ProfileTypes

LEMMA SetbackIs ==
  ASSUME ProfileTypes, Prof!Setback \/ UNCHANGED setbacks
  PROVE  setbacks' \in 0 .. MaxSetbacks /\ setbacks' >= setbacks /\ setbacks >= 0 /\ (Prof!Setback => setbacks' > 0)
BY DEF ProfileTypes, Prof!Setback

\* What is about to write a profile that was created is an amendment or a deletion.
LEMMA WritersAre ==
  ASSUME ProfileInv, NEW q \in Edits
  PROVE  /\ edit[q].kind \in {"amend", "delete"} => edit[q].id \in Edits /\ edit[q].id \in Prof!Created
         /\ edit[q] = Prof!NoEdit => ~Prof!There(q) /\ q \notin Prof!Created /\ edit[q].phase = "new"
         /\ edit[q].phase = "write" => q \notin Prof!Created
         /\ edit[q].kind = "create" => edit[q].id = q
BY DEF ProfileInv, EditIs, Prof!Created, Prof!There, Prof!NoEdit

LEMMA CreatedGrows ==
  ASSUME ProfileInv, NEW q \in Edits, \A r \in Edits \ {q} : edit'[r] = edit[r],
         edit[q] = Prof!NoEdit \/ (edit'[q].kind = edit[q].kind /\ edit'[q].phase = "done")
  PROVE  Prof!Created \subseteq Prof!Created'
<1>1. edit[q] = Prof!NoEdit => q \notin Prof!Created BY WritersAre
<1>2. q \in Prof!Created => edit'[q].kind = "create" /\ edit'[q].phase = "done" BY <1>1 DEF Prof!Created
<1>3. \A r \in Prof!Created : r \in Edits /\ edit'[r].kind = "create" /\ edit'[r].phase = "done"
  BY <1>2 DEF Prof!Created
<1>q. QED BY <1>3 DEF Prof!Created

LEMMA LooksKept == ASSUME ProfileInv, NEW q \in Edits, Prof!LookForWallet(q) PROVE ProfileInv'
<1>t. ProfileTypes BY DEF ProfileInv
<1>0. UNCHANGED <<profile, index, wallet, own, raced, revived, overlapped>> /\ edit[q] = Prof!NoEdit
      /\ free' = IF Prof!There(wallet) THEN free ELSE free \cup {q}
  BY DEF Prof!LookForWallet
<1>1. PICK found \in Wallets :
        /\ \/ found = (IF Prof!There(wallet) THEN wallet ELSE NoProfile) /\ UNCHANGED setbacks
           \/ Prof!Setback
        /\ Prof!Does(q, "create", IF Prof!Conflicts(q, found) THEN "done" ELSE "write", q, Prof!Missing)
  BY DEF Prof!LookForWallet, Wallets
<1>2. PICK f \in {"done", "write"} : f = IF Prof!Conflicts(q, found) THEN "done" ELSE "write" OBVIOUS
<1>3. /\ edit' \in [Edits -> EditRecords] /\ edit'[q].kind = "create" /\ edit'[q].phase = f /\ edit'[q].id = q
      /\ \A r \in Edits \ {q} : edit'[r] = edit[r]
  BY <1>t, <1>1, <1>2, EditsTo, ProfilesAre DEF EditKinds, EditPhases, Wallets
<1>4. setbacks' \in 0 .. MaxSetbacks /\ setbacks' >= setbacks /\ setbacks >= 0 /\ (Prof!Setback => setbacks' > 0)
  BY <1>t, <1>1, SetbackIs
<1>5. setbacks' = 0 /\ f = "write" => q \in free'
  <2>1. setbacks' = 0 => found = (IF Prof!There(wallet) THEN wallet ELSE NoProfile) BY <1>1, <1>4
  <2>2. f = "write" => found = NoProfile BY <1>2 DEF Prof!Conflicts
  <2>3. Prof!There(wallet) => wallet # NoProfile BY DEF Prof!There
  <2>q. QED BY <1>0, <2>1, <2>2, <2>3
<1>6. ProfileTypes' BY <1>t, <1>0, <1>3, <1>4 DEF ProfileTypes
<1>7. Prof!Created \subseteq Prof!Created' BY <1>0, <1>3, CreatedGrows
<1>8. WalletLeads' BY <1>0 DEF ProfileInv, WalletLeads
<1>9. ASSUME NEW r \in Edits PROVE EditIs(r)' /\ EditsAlone(r)' /\ Listed(r)' /\ Carried(r)'
  <2>1. EditIs(r) /\ EditsAlone(r) /\ Listed(r) /\ Carried(r) BY DEF ProfileInv
  <2>2. Listed(r)' BY <1>t, <1>0, <1>4, <2>1 DEF Listed, ProfileTypes
  <2>3. EditIs(r)'
    <3>1. CASE r = q BY <1>0, <1>3, <1>5, <1>7, <2>1, <3>1 DEF EditIs
    <3>2. CASE r # q
      <4>1. free \subseteq free' /\ (setbacks' = 0 => setbacks = 0) BY <1>t, <1>0, <1>4 DEF ProfileTypes
      <4>q. QED BY <1>0, <1>3, <1>7, <2>1, <3>2, <4>1 DEF EditIs, Prof!NoEdit, Prof!Missing
    <3>q. QED BY <3>1, <3>2
  <2>4. EditsAlone(r)'
    <3> SUFFICES ASSUME r # q, edit[r].kind \in {"amend", "delete"} PROVE EditsAlone(r)'
      BY <1>3 DEF EditsAlone
    <3>1. edit[r].id # q BY <1>0, WritersAre
    <3>2. \A s \in Edits : Writes(s, edit[r].id)' => Writes(s, edit[r].id) BY <1>3, <3>1 DEF Writes
    <3>q. QED BY <1>0, <1>3, <2>1, <3>2 DEF EditsAlone, Writes
  <2>5. Carried(r)' BY <1>0, <1>3, <2>1 DEF Carried
  <2>q. QED BY <2>2, <2>3, <2>4, <2>5
<1>q. QED BY <1>6, <1>8, <1>9 DEF ProfileInv

LEMMA FilesKept == ASSUME ProfileInv, NEW q \in Edits, Prof!FileCreated(q) PROVE ProfileInv'
<1>t. ProfileTypes BY DEF ProfileInv
<1>0. UNCHANGED <<free, revived, overlapped>> /\ edit[q].kind = "create" /\ edit[q].phase = "write"
  BY DEF Prof!FileCreated
<1>3. /\ edit' \in [Edits -> EditRecords] /\ edit'[q].kind = "create" /\ edit'[q].phase = "done"
      /\ edit'[q].id = q /\ \A r \in Edits \ {q} : edit'[r] = edit[r]
  BY <1>t, <1>0, EditDone, WritersAre DEF Prof!FileCreated
<1>4. /\ setbacks' \in 0 .. MaxSetbacks /\ setbacks' >= setbacks /\ setbacks >= 0 /\ (Prof!Setback => setbacks' > 0)
      /\ Prof!Setback \/ UNCHANGED setbacks
  BY <1>t, SetbackIs DEF Prof!FileCreated
<1>5. own' \in [Prof!Sites -> OwnMaps]
  <2>1. own \in [Prof!Sites -> OwnMaps] /\ Site[q] \in Prof!Sites BY <1>t, ProfilesAre DEF ProfileTypes
  <2>2. PICK m \in [Edits -> Profiles] : m = own[Site[q]].profile BY <2>1 DEF OwnMaps
  <2>3. PICK n : n = [m EXCEPT ![q].there = TRUE] OBVIOUS
  <2>4. n \in [Edits -> Profiles] BY <2>2, <2>3, ZenonT(60) DEF Profiles
  <2>5. [profile |-> n, wallet |-> q] \in OwnMaps BY <2>4 DEF OwnMaps, Wallets
  <2>6. CASE own' = [own EXCEPT ![Site[q]] = [profile |-> [@.profile EXCEPT ![q].there = TRUE], wallet |-> q]]
    <3>1. own' = [own EXCEPT ![Site[q]] = [profile |-> n, wallet |-> q]] BY <2>1, <2>2, <2>3, <2>6
    <3>q. QED BY <2>1, <2>5, <3>1
  <2>7. CASE UNCHANGED own BY <2>1, <2>7
  <2>q. QED BY <2>6, <2>7 DEF Prof!FileCreated
<1>7. Prof!Created \subseteq Prof!Created' /\ q \in Prof!Created'
  BY <1>0, <1>3, CreatedGrows DEF Prof!Created
<1>8. \A r \in Edits : edit[r].kind \in {"amend", "delete"} => edit[r].id \in Edits /\ edit[r].id # q
  BY <1>0, WritersAre
<1>9. /\ profile' \in [Edits -> Profiles] /\ \A p \in Edits \ {q} : profile'[p] = profile[p]
      /\ index' \subseteq Edits /\ wallet' \in Wallets /\ raced' \subseteq Edits
      /\ \A p \in Edits : profile[p].there => profile'[p].there
      /\ index \subseteq index' /\ raced \subseteq raced'
      /\ wallet' = wallet \/ wallet' = q
      /\ wallet' = q => profile'[q].there /\ q \in index'
      /\ wallet' # q => UNCHANGED <<profile, index, wallet, raced>>
      /\ setbacks' = 0 => /\ wallet' = q
                          /\ \A p \in Edits \ {q} : profile[p].there => p \in raced'
  <2>1. CASE Prof!Filed(q)
    <3>1. /\ profile' = [profile EXCEPT ![q] = [there |-> TRUE, marks |-> {}]]
          /\ index' = index \cup {q} /\ wallet' = q
          /\ raced' = IF q \in free /\ Prof!Alive # {} THEN raced \cup Prof!Alive \cup {q} ELSE raced
      BY <2>1 DEF Prof!Filed
    <3>2. PICK new \in Profiles : new = [there |-> TRUE, marks |-> {}] /\ new.there
      <4>1. PICK none \in SUBSET Edits : none = {} OBVIOUS
      <4>2. PICK new : new = [there |-> TRUE, marks |-> none] OBVIOUS
      <4>3. new \in Profiles /\ new.there BY <4>2 DEF Profiles
      <4>q. QED BY <4>1, <4>2, <4>3
    <3>3. /\ profile' \in [Edits -> Profiles] /\ profile'[q].there
          /\ \A p \in Edits \ {q} : profile'[p] = profile[p]
      BY <1>t, <3>1, <3>2 DEF ProfileTypes
    <3>4. Prof!Alive \subseteq Edits /\ \A p \in Edits : profile[p].there => p \in Prof!Alive
      BY ProfilesAre DEF Prof!Alive
    <3>5. setbacks' = 0 => q \in free BY <1>0, <1>4 DEF ProfileInv, EditIs
    <3>6. raced \subseteq raced' /\ raced' \subseteq Edits BY <1>t, <3>1, <3>4 DEF ProfileTypes
    <3>q. QED BY <1>t, <3>1, <3>3, <3>4, <3>5, <3>6 DEF ProfileTypes, Wallets
  <2>2. CASE Prof!Setback /\ UNCHANGED <<profile, index, wallet, raced>>
    <3>1. wallet = q => profile[q].there BY ProfilesAre DEF ProfileInv, WalletLeads
    <3>2. wallet # q
      <4>1. q \notin Prof!Created BY <1>0, WritersAre
      <4>q. QED BY <3>1, <4>1 DEF ProfileInv, EditIs
    <3>q. QED BY <1>t, <1>4, <2>2, <3>2 DEF ProfileTypes
  <2>q. QED BY <2>1, <2>2 DEF Prof!FileCreated
<1>6. ProfileTypes' BY <1>t, <1>0, <1>3, <1>4, <1>5, <1>9 DEF ProfileTypes
<1>10. WalletLeads' BY <1>t, <1>9 DEF ProfileInv, WalletLeads, ProfileTypes, Wallets
<1>11. ASSUME NEW r \in Edits PROVE EditIs(r)' /\ EditsAlone(r)' /\ Listed(r)' /\ Carried(r)'
  <2>1. EditIs(r) /\ EditsAlone(r) /\ Listed(r) /\ Carried(r) BY DEF ProfileInv
  <2>2. Listed(r)'
    <3>1. CASE setbacks' = 0 BY <1>0, <1>9, <2>1, <3>1 DEF Listed
    <3>2. CASE setbacks' > 0 
      <4>1. r # q => r \in index' \/ ~profile'[r].there \/ r \in revived BY <1>9, <2>1 DEF Listed
      <4>2. r = q => r \in index' \/ ~profile'[r].there \/ r \in revived BY <1>9, <2>1 DEF Listed
      <4>q. QED BY <1>0, <3>2, <4>1, <4>2 DEF Listed
    <3>q. QED BY <1>4, <3>1, <3>2
  <2>3. EditIs(r)'
    <3>1. CASE r = q BY <1>3, <1>7, <3>1 DEF EditIs
    <3>2. CASE r # q
      <4>1. setbacks' = 0 => setbacks = 0 BY <1>4
      <4>q. QED BY <1>0, <1>3, <1>7, <1>9, <2>1, <3>2, <4>1 DEF EditIs, Prof!NoEdit, Prof!Missing
    <3>q. QED BY <3>1, <3>2
  <2>4. EditsAlone(r)'
    <3> SUFFICES ASSUME r # q, edit[r].kind \in {"amend", "delete"} PROVE EditsAlone(r)'
      BY <1>3 DEF EditsAlone
    <3>1. edit[r].id \in Edits \ {q} BY <1>8
    <3>2. \A s \in Edits : Writes(s, edit[r].id)' => Writes(s, edit[r].id) BY <1>3, <3>1 DEF Writes
    <3>3. edit'[r] = edit[r] /\ profile'[edit[r].id] = profile[edit[r].id] BY <1>3, <1>9, <3>1
    <3>q. QED BY <1>0, <2>1, <3>2, <3>3 DEF EditsAlone, Writes
  <2>5. Carried(r)'
    <3> SUFFICES ASSUME r # q, edit[r].kind = "amend" PROVE Carried(r)' BY <1>3 DEF Carried
    <3>1. edit[r].id \in Edits \ {q} BY <1>8
    <3>2. edit'[r] = edit[r] /\ profile'[edit[r].id] = profile[edit[r].id] BY <1>3, <1>9, <3>1
    <3>q. QED BY <1>0, <2>1, <3>2 DEF Carried
  <2>q. QED BY <2>2, <2>3, <2>4, <2>5
<1>q. QED BY <1>6, <1>10, <1>11 DEF ProfileInv

LEMMA FindsKept == ASSUME ProfileInv, NEW q \in Edits, Prof!FindById(q) PROVE ProfileInv'
<1>t. ProfileTypes BY DEF ProfileInv
<1>0. UNCHANGED <<profile, index, wallet, own, free, raced, revived>> /\ edit[q] = Prof!NoEdit
  BY DEF Prof!FindById
<1>1. PICK p \in Prof!Created : \E kind \in {"amend", "delete"}, found \in {profile[p], Prof!Mine(q).profile[p]} :
        /\ \/ found = profile[p] /\ UNCHANGED setbacks
           \/ found = Prof!Mine(q).profile[p] /\ Prof!Setback
        /\ Prof!Takes(q, kind, p, found)
        /\ overlapped' = IF Prof!Using(p) # {} \/ setbacks' > 0 THEN overlapped \cup {p} ELSE overlapped
  BY DEF Prof!FindById
<1>p. p \in Edits BY DEF Prof!Created
<1>k. PICK kind \in {"amend", "delete"}, found \in {profile[p], Prof!Mine(q).profile[p]} :
        /\ \/ found = profile[p] /\ UNCHANGED setbacks
           \/ found = Prof!Mine(q).profile[p] /\ Prof!Setback
        /\ Prof!Takes(q, kind, p, found)
        /\ overlapped' = IF Prof!Using(p) # {} \/ setbacks' > 0 THEN overlapped \cup {p} ELSE overlapped
  BY <1>1
<1>2. found \in Profiles
  <2>1. Prof!Mine(q) \in OwnMaps BY <1>t, ProfilesAre DEF ProfileTypes, Prof!Mine
  <2>2. Prof!Mine(q).profile \in [Edits -> Profiles] BY <2>1 DEF OwnMaps
  <2>q. QED BY <1>t, <1>k, <1>p, <2>2 DEF ProfileTypes
<1>f. PICK f \in {"done", "write"} : f = IF found.there THEN "write" ELSE "done" OBVIOUS
<1>3. /\ edit' \in [Edits -> EditRecords] /\ edit'[q].kind = kind /\ edit'[q].phase = f /\ edit'[q].id = p
      /\ edit'[q].copy = found /\ \A r \in Edits \ {q} : edit'[r] = edit[r]
  BY <1>t, <1>k, <1>2, <1>f, <1>p, EditsTo DEF Prof!Takes, EditKinds, EditPhases, Wallets
<1>4. /\ setbacks' \in 0 .. MaxSetbacks /\ setbacks' >= setbacks /\ setbacks >= 0 /\ (Prof!Setback => setbacks' > 0)
  BY <1>t, <1>k, SetbackIs
<1>5. overlapped \subseteq overlapped' /\ overlapped' \subseteq Edits BY <1>t, <1>k, <1>p DEF ProfileTypes
<1>6. ProfileTypes' BY <1>t, <1>0, <1>3, <1>4, <1>5 DEF ProfileTypes
<1>7. Prof!Created \subseteq Prof!Created' BY <1>0, <1>3, CreatedGrows
<1>8. WalletLeads' BY <1>0 DEF ProfileInv, WalletLeads
\* Unless they overlap nobody else uses the profile, and it is read as it is.
<1>9. p \notin overlapped' => found = profile[p] /\ \A r \in Edits : ~Writes(r, p)
  <2>1. p \notin overlapped' => Prof!Using(p) = {} /\ ~(setbacks' > 0) BY <1>k
  <2>q. QED BY <1>k, <1>4, <2>1 DEF Prof!Using, Writes
<1>10. ASSUME NEW r \in Edits PROVE EditIs(r)' /\ EditsAlone(r)' /\ Listed(r)' /\ Carried(r)'
  <2>1. EditIs(r) /\ EditsAlone(r) /\ Listed(r) /\ Carried(r) BY DEF ProfileInv
  <2>2. Listed(r)' BY <1>t, <1>0, <1>4, <2>1 DEF Listed, ProfileTypes
  <2>3. EditIs(r)'
    <3>1. CASE r = q BY <1>0, <1>3, <1>7, <2>1, <3>1 DEF EditIs
    <3>2. CASE r # q
      <4>1. setbacks' = 0 => setbacks = 0 BY <1>t, <1>4 DEF ProfileTypes
      <4>q. QED BY <1>0, <1>3, <1>7, <2>1, <3>2, <4>1 DEF EditIs, Prof!NoEdit, Prof!Missing
    <3>q. QED BY <3>1, <3>2
  <2>4. EditsAlone(r)'
    <3>1. CASE r = q
      <4> SUFFICES ASSUME p \notin overlapped' PROVE found = profile'[p] /\ \A s \in Edits : Writes(s, p)' => s = q
        BY <1>3, <3>1 DEF EditsAlone
      <4>1. \A s \in Edits : Writes(s, p)' => s = q BY <1>3, <1>9 DEF Writes
      <4>q. QED BY <1>0, <1>9, <4>1
    <3>2. CASE r # q
      <4> SUFFICES ASSUME edit[r].kind \in {"amend", "delete"}, edit[r].phase = "write", edit[r].id \notin overlapped'
                   PROVE  edit[r].copy = profile[edit[r].id] /\ \A s \in Edits : Writes(s, edit[r].id)' => s = r
        BY <1>0, <1>3, <3>2 DEF EditsAlone
      <4>1. edit[r].id # p BY <1>9 DEF Writes
      <4>2. \A s \in Edits : Writes(s, edit[r].id)' => Writes(s, edit[r].id)
        <5> TAKE s \in Edits
        <5>1. CASE s = q BY <1>3, <3>2, <4>1, <5>1 DEF Writes
        <5>2. CASE s # q BY <1>3, <3>2, <5>2 DEF Writes
        <5>q. QED BY <5>1, <5>2
      <4>q. QED BY <1>5, <2>1, <4>2 DEF EditsAlone
    <3>q. QED BY <3>1, <3>2
  <2>5. Carried(r)'
    <3>1. CASE r = q BY <1>3, <1>f, <3>1 DEF Carried
    <3>2. CASE r # q BY <1>0, <1>3, <1>5, <2>1, <3>2 DEF Carried
    <3>q. QED BY <3>1, <3>2
  <2>q. QED BY <2>2, <2>3, <2>4, <2>5
<1>q. QED BY <1>6, <1>8, <1>10 DEF ProfileInv

\* A write to a profile that was created, by the amendment or deletion q.
LEMMA WriterEnds ==
  ASSUME ProfileInv, NEW q \in Edits, edit[q].kind \in {"amend", "delete"}, edit[q].phase = "write", Prof!Finishes(q),
         NEW p \in Edits, p = edit[q].id, \A r \in Edits \ {p} : profile'[r] = profile[r],
         overlapped \subseteq overlapped', revived \subseteq revived', UNCHANGED free, setbacks' >= setbacks,
         setbacks' \in Nat, setbacks \in Nat
  PROVE  \A r \in Edits : /\ r # p \/ (profile'[p].there => p \in Prof!Created) => EditIs(r)'
                          /\ EditsAlone(r)'
                          /\ r # q /\ edit[r].id # p => Carried(r)'
<1>t. ProfileTypes BY DEF ProfileInv
<1>3. /\ edit' \in [Edits -> EditRecords] /\ edit'[q].kind = edit[q].kind /\ edit'[q].phase = "done"
      /\ edit'[q].id = edit[q].id /\ edit'[q].copy = edit[q].copy
      /\ \A r \in Edits \ {q} : edit'[r] = edit[r]
  BY <1>t, EditDone
<1>7. Prof!Created \subseteq Prof!Created' BY <1>3, CreatedGrows
<1> TAKE r \in Edits
<1>1. EditIs(r) /\ EditsAlone(r) /\ Carried(r) BY DEF ProfileInv
<1>2. ASSUME r # p \/ (profile'[p].there => p \in Prof!Created) PROVE EditIs(r)'
  <2>0. profile'[r].there => r \in Prof!Created BY <1>1, <1>2 DEF EditIs
  <2>1. CASE r = q BY <1>1, <1>3, <1>7, <2>0, <2>1 DEF EditIs
  <2>2. CASE r # q
    <3>1. setbacks' = 0 => setbacks = 0 OBVIOUS
    <3>q. QED BY <1>1, <1>3, <1>7, <2>0, <2>2, <3>1 DEF EditIs, Prof!NoEdit, Prof!Missing
  <2>q. QED BY <2>1, <2>2
<1>4. EditsAlone(r)'
  <2> SUFFICES ASSUME r # q, edit[r].kind \in {"amend", "delete"}, edit[r].phase = "write", edit[r].id \notin overlapped'
               PROVE  edit[r].copy = profile'[edit[r].id] /\ \A s \in Edits : Writes(s, edit[r].id)' => s = r
    BY <1>3 DEF EditsAlone
  <2>1. edit[r].id # p BY <1>1 DEF EditsAlone, Writes
  <2>2. edit[r].id \in Edits BY WritersAre
  <2>3. \A s \in Edits : Writes(s, edit[r].id)' => Writes(s, edit[r].id) BY <1>3 DEF Writes
  <2>q. QED BY <1>1, <2>1, <2>2, <2>3 DEF EditsAlone
<1>5. ASSUME r # q, edit[r].id # p PROVE Carried(r)'
  <2>1. edit[r].kind = "amend" => edit[r].id \in Edits BY WritersAre
  <2>q. QED BY <1>1, <1>3, <1>5, <2>1 DEF Carried
<1>q. QED BY <1>2, <1>4, <1>5

LEMMA PersistsKept == ASSUME ProfileInv, NEW q \in Edits, Prof!Persist(q) PROVE ProfileInv'
<1>t. ProfileTypes BY DEF ProfileInv
<1>0. UNCHANGED <<index, wallet, free, raced>> /\ edit[q].kind = "amend" /\ edit[q].phase = "write" /\ Prof!Finishes(q)
  BY DEF Prof!Persist
<1>p. PICK p \in Edits : p = edit[q].id /\ p \in Prof!Created BY <1>0, WritersAre
<1>n. PICK new \in Profiles : /\ new = [there |-> TRUE, marks |-> edit[q].copy.marks \cup {q}]
                              /\ new.there /\ new.marks = edit[q].copy.marks \cup {q}
  <2>1. edit[q].copy.marks \subseteq Edits BY <1>t DEF ProfileTypes, EditRecords, Profiles
  <2>2. PICK all \in SUBSET Edits : all = edit[q].copy.marks \cup {q} BY <2>1
  <2>3. PICK new : new = [there |-> TRUE, marks |-> all] OBVIOUS
  <2>4. new \in Profiles /\ new.there /\ new.marks = all BY <2>3 DEF Profiles
  <2>q. QED BY <2>2, <2>3, <2>4
<1>1. /\ \/ profile' = [profile EXCEPT ![p] = new] /\ UNCHANGED <<own, setbacks, overlapped>>
         \/ /\ Prof!Setback /\ own' = [own EXCEPT ![Site[q]].profile[p] = new]
            /\ overlapped' = overlapped \cup {p} /\ profile' \in {profile, [profile EXCEPT ![p] = new]}
      /\ revived' = IF profile[p].there THEN revived ELSE revived \cup {p}
  BY <1>p, <1>n DEF Prof!Persist
<1>2. /\ edit' \in [Edits -> EditRecords] /\ edit'[q].kind = "amend" /\ edit'[q].phase = "done"
      /\ edit'[q].id = p /\ edit'[q].copy = edit[q].copy /\ \A r \in Edits \ {q} : edit'[r] = edit[r]
  BY <1>t, <1>0, <1>p, EditDone
<1>3. setbacks' \in 0 .. MaxSetbacks /\ setbacks' >= setbacks /\ setbacks >= 0 /\ setbacks \in Nat /\ setbacks' \in Nat
  <2>1. Prof!Setback \/ UNCHANGED setbacks BY <1>1
  <2>2. setbacks' \in 0 .. MaxSetbacks /\ setbacks' >= setbacks BY <1>t, <2>1, SetbackIs
  <2>q. QED BY <1>t, <2>2 DEF ProfileTypes
<1>4. own' \in [Prof!Sites -> OwnMaps]
  <2>1. own \in [Prof!Sites -> OwnMaps] /\ Site[q] \in Prof!Sites BY <1>t, ProfilesAre DEF ProfileTypes
  <2>2. PICK o \in OwnMaps : o = own[Site[q]] BY <2>1
  <2>3. PICK m : m = [o.profile EXCEPT ![p] = new] OBVIOUS
  <2>4. m \in [Edits -> Profiles] BY <2>2, <2>3 DEF OwnMaps
  <2>5. PICK n : n = [o EXCEPT !.profile = m] OBVIOUS
  <2>6. n \in OwnMaps BY <2>2, <2>4, <2>5 DEF OwnMaps
  <2>7. CASE own' = [own EXCEPT ![Site[q]].profile[p] = new]
    <3>1. own' = [own EXCEPT ![Site[q]] = n] BY <2>1, <2>2, <2>3, <2>5, <2>7
    <3>q. QED BY <2>1, <2>6, <3>1
  <2>q. QED BY <1>1, <2>1, <2>7
<1>5. /\ profile' \in [Edits -> Profiles] /\ \A r \in Edits \ {p} : profile'[r] = profile[r]
      /\ \A r \in Edits : profile[r].there => profile'[r].there
      /\ p \notin overlapped' => profile'[p] = new
  BY <1>t, <1>n, <1>1, ZenonT(60) DEF ProfileTypes
<1>6. /\ overlapped \subseteq overlapped' /\ revived \subseteq revived' /\ overlapped' \subseteq Edits
      /\ revived' \subseteq Edits
  BY <1>t, <1>1 DEF ProfileTypes
<1>7. ProfileTypes' BY <1>t, <1>0, <1>2, <1>3, <1>4, <1>5, <1>6 DEF ProfileTypes
<1>8. WalletLeads' BY <1>t, <1>0, <1>5 DEF ProfileInv, WalletLeads, ProfileTypes, Wallets
<1>9. \A r \in Edits : EditIs(r)' /\ EditsAlone(r)' /\ (r # q /\ edit[r].id # p => Carried(r)')
  BY <1>0, <1>3, <1>5, <1>6, <1>p, WriterEnds
<1>10. ASSUME NEW r \in Edits PROVE Listed(r)' /\ Carried(r)'
  <2>1. EditsAlone(r) /\ Listed(r) /\ Carried(r) BY DEF ProfileInv
  <2>2. Listed(r)'
    <3>1. CASE r = p
      <4>1. p \notin revived' => profile[p].there /\ p \notin revived BY <1>1
      <4>q. QED BY <1>0, <1>3, <2>1, <3>1, <4>1 DEF Listed
    <3>2. CASE r # p BY <1>0, <1>3, <1>5, <1>6, <2>1, <3>2 DEF Listed
    <3>q. QED BY <3>1, <3>2
  <2>3. CASE r = q
    <3>1. edit'[r].id = p BY <1>2, <2>3
    <3>2. p \notin overlapped' => r \in profile'[p].marks BY <1>5, <1>n, <2>3
    <3>q. QED BY <2>2, <3>1, <3>2 DEF Carried
  <2>4. CASE r # q /\ edit[r].id = p
    <3> SUFFICES ASSUME edit[r].kind = "amend", edit[r].phase = "done", edit[r].copy.there,
                        p \notin overlapped' \cup revived'
                 PROVE  r \in profile'[p].marks
      <4>1. edit'[r] = edit[r] BY <1>2, <2>4
      <4>q. QED BY <2>2, <2>4, <4>1 DEF Carried
    <3>1. profile[p].there /\ p \notin overlapped \cup revived BY <1>1, <1>6
    <3>2. r \in profile[p].marks BY <2>1, <2>4, <3>1 DEF Carried
    <3>3. edit[q].copy = profile[p] BY <1>0, <1>p, <3>1 DEF ProfileInv, EditsAlone
    <3>q. QED BY <1>5, <1>n, <3>2, <3>3
  <2>q. QED BY <1>9, <2>2, <2>3, <2>4
<1>q. QED BY <1>7, <1>8, <1>9, <1>10 DEF ProfileInv

LEMMA DeletesKept == ASSUME ProfileInv, NEW q \in Edits, Prof!Delete(q) PROVE ProfileInv'
<1>t. ProfileTypes BY DEF ProfileInv
<1>0. UNCHANGED <<free, revived, overlapped>> /\ edit[q].kind = "delete" /\ edit[q].phase = "write" /\ Prof!Finishes(q)
  BY DEF Prof!Delete
<1>p. PICK p \in Edits : p = edit[q].id /\ p \in Prof!Created BY <1>0, WritersAre
<1>1. /\ \/ Prof!Remove(p) /\ UNCHANGED <<own, setbacks>>
         \/ /\ Prof!Setback /\ (Prof!Remove(p) \/ UNCHANGED <<profile, index, wallet>>)
            /\ own' = [own EXCEPT ![Site[q]] = [profile |-> [@.profile EXCEPT ![p] = Prof!Missing], wallet |-> NoProfile]]
      /\ raced' = raced \cup ({wallet} \ {p, NoProfile})
  BY <1>p DEF Prof!Delete
<1>2. /\ edit' \in [Edits -> EditRecords] /\ edit'[q].kind = "delete" /\ \A r \in Edits \ {q} : edit'[r] = edit[r]
  BY <1>t, <1>0, EditDone
<1>3. setbacks' \in 0 .. MaxSetbacks /\ setbacks' >= setbacks /\ setbacks >= 0 /\ setbacks \in Nat /\ setbacks' \in Nat
  <2>1. Prof!Setback \/ UNCHANGED setbacks BY <1>1
  <2>2. setbacks' \in 0 .. MaxSetbacks /\ setbacks' >= setbacks BY <1>t, <2>1, SetbackIs
  <2>q. QED BY <1>t, <2>2 DEF ProfileTypes
<1>4. own' \in [Prof!Sites -> OwnMaps]
  <2>1. own \in [Prof!Sites -> OwnMaps] /\ Site[q] \in Prof!Sites BY <1>t, ProfilesAre DEF ProfileTypes
  <2>2. PICK m \in [Edits -> Profiles] : m = own[Site[q]].profile BY <2>1 DEF OwnMaps
  <2>3. PICK n : n = [m EXCEPT ![p] = Prof!Missing] OBVIOUS
  <2>4. n \in [Edits -> Profiles] BY <2>2, <2>3, ProfilesAre
  <2>5. [profile |-> n, wallet |-> NoProfile] \in OwnMaps BY <2>4 DEF OwnMaps, Wallets
  <2>6. CASE own' = [own EXCEPT ![Site[q]] = [profile |-> [@.profile EXCEPT ![p] = Prof!Missing], wallet |-> NoProfile]]
    <3>1. own' = [own EXCEPT ![Site[q]] = [profile |-> n, wallet |-> NoProfile]] BY <2>1, <2>2, <2>3, <2>6
    <3>q. QED BY <2>1, <2>5, <3>1
  <2>q. QED BY <1>1, <2>1, <2>6
<1>5. \/ /\ profile' = [profile EXCEPT ![p] = Prof!Missing] /\ index' = index \ {p} /\ wallet' = NoProfile
      \/ UNCHANGED <<profile, index, wallet>>
  BY <1>1 DEF Prof!Remove
<1>6. /\ profile' \in [Edits -> Profiles] /\ \A r \in Edits \ {p} : profile'[r] = profile[r]
      /\ profile'[p].there => profile[p].there /\ UNCHANGED <<profile, index, wallet>>
      /\ index' \subseteq Edits /\ wallet' \in Wallets
  BY <1>t, <1>5, ProfilesAre DEF ProfileTypes, Wallets
<1>7. raced' \subseteq Edits BY <1>t, <1>1 DEF ProfileTypes, Wallets
<1>8. ProfileTypes' BY <1>t, <1>0, <1>2, <1>3, <1>4, <1>6, <1>7 DEF ProfileTypes
<1>9. WalletLeads' BY <1>5 DEF ProfileInv, WalletLeads
<1>10. \A r \in Edits : EditIs(r)' /\ EditsAlone(r)' /\ (r # q /\ edit[r].id # p => Carried(r)')
  BY <1>0, <1>3, <1>6, <1>p, WriterEnds
<1>11. ASSUME NEW r \in Edits PROVE Listed(r)' /\ Carried(r)'
  <2>1. Listed(r) /\ Carried(r) BY DEF ProfileInv
  <2>2. Listed(r)'
    <3>1. CASE r = p
      <4>1. profile'[p].there => UNCHANGED <<profile, index, wallet>> /\ raced \subseteq raced' BY <1>1, <1>6
      <4>q. QED BY <1>0, <1>3, <2>1, <3>1, <4>1 DEF Listed
    <3>2. CASE r # p
      <4>1. r \in index => r \in index' BY <1>5, <3>2
      <4>2. r # NoProfile /\ (wallet = r => r \in raced') /\ raced \subseteq raced' BY <1>1, <3>2, ProfilesAre
      <4>q. QED BY <1>0, <1>3, <1>6, <2>1, <3>2, <4>1, <4>2 DEF Listed
    <3>q. QED BY <3>1, <3>2
  <2>3. CASE r = q
    <3>1. edit'[r].kind # "amend" BY <1>2, <2>3
    <3>q. QED BY <2>2, <3>1 DEF Carried
  <2>4. CASE r # q /\ edit[r].id = p
    <3>1. profile'[p].there => UNCHANGED profile BY <1>6
    <3>2. edit'[r] = edit[r] BY <1>2, <2>4
    <3>q. QED BY <1>0, <2>1, <2>2, <2>4, <3>1, <3>2 DEF Carried
  <2>q. QED BY <1>10, <2>2, <2>3, <2>4
<1>q. QED BY <1>8, <1>9, <1>10, <1>11 DEF ProfileInv

LEMMA ProfilesKept == Prof!Spec => [](Prof!TypeOK /\ Prof!ProfilesAgree)
<1>1. ProfileInv /\ [Prof!Next]_(Prof!vars) => ProfileInv'
  <2> SUFFICES ASSUME ProfileInv, [Prof!Next]_(Prof!vars) PROVE ProfileInv'
    OBVIOUS
  <2>1. CASE UNCHANGED Prof!vars
    BY <2>1 DEF Prof!vars, ProfileInv, ProfileTypes, WalletLeads, EditIs, EditsAlone, Listed, Carried, Writes,
                Prof!Created, Prof!NoEdit, Prof!Missing
  <2>2. CASE Prof!Next BY <2>2, LooksKept, FilesKept, FindsKept, PersistsKept, DeletesKept DEF Prof!Next
  <2>q. QED BY <2>1, <2>2
<1>2. ProfileInv => Prof!TypeOK /\ Prof!ProfilesAgree
  <2> SUFFICES ASSUME ProfileInv PROVE Prof!TypeOK /\ Prof!ProfilesAgree
    OBVIOUS
  <2>1. Prof!TypeOK
    <3>1. \A q \in Edits : edit[q].kind \in EditKinds /\ edit[q].phase \in EditPhases
      BY DEF ProfileInv, ProfileTypes, EditRecords
    <3>2. DOMAIN own = Prof!Sites /\ UNION {free, raced, revived, overlapped} \subseteq Edits
      BY DEF ProfileInv, ProfileTypes
    <3>q. QED BY <3>1, <3>2 DEF ProfileInv, ProfileTypes, Profiles, Wallets, EditKinds, EditPhases, Prof!TypeOK
  <2>2. wallet # NoProfile => Prof!There(wallet) BY DEF ProfileInv, WalletLeads, Prof!There
  <2>3. \A p \in Edits \ revived : Prof!There(p) => p \in index /\ (wallet = p \/ p \in raced \/ setbacks > 0)
    BY ProfilesAre DEF ProfileInv, Listed
  <2>4. \A q \in Edits : LET p == edit[q].id IN
           edit[q].kind = "amend" /\ edit[q].phase = "done" /\ edit[q].copy.there
             /\ Prof!There(p) /\ p \notin overlapped \cup revived => q \in profile[p].marks
    BY WritersAre, ProfilesAre DEF ProfileInv, Carried
  <2>q. QED BY <2>1, <2>2, <2>3, <2>4 DEF Prof!ProfilesAgree
<1>q. QED BY <1>1, <1>2, ProfilesStart, PTL DEF Prof!Spec

----------------------------------------------------------------------------
(* Sets of numbers in order, what ORDER BY and OFFSET return. *)
HIDE ProfilesAssumption
USE AuditAssumption

LEMMA AuditAlone == EdgeSpec => Audit!Spec
<1>1. EdgeInit => Audit!Init BY DEF EdgeInit
<1>2. [EdgeNext]_edgeVars => [Audit!Next]_(Audit!vars)
  BY DEF EdgeNext, Others, edgeVars, auditVars, Audit!vars
<1>q. QED BY <1>1, <1>2, PTL DEF EdgeSpec, Audit!Spec, edgeVars

LEMMA AuditCounted == \A S : Audit!Cardinality(S) = Cardinality(S)
BY DEF Audit!Cardinality, Cardinality

LEMMA FirstOf ==
  ASSUME NEW S, S \subseteq Nat, S # {}
  PROVE  \E x \in S : \A y \in S : x <= y
<1>1. \E R : IsWellFoundedOn(R, Nat) /\ \A x, y \in Nat : y < x => <<y, x>> \in R
  <2>1. \A x, y \in Nat : y < x => <<y, x>> \in OpToRel(<, Nat) BY DEF OpToRel
  <2>q. QED BY <2>1, NatLessThanWellFounded
<1>2. PICK R : IsWellFoundedOn(R, Nat) /\ \A x, y \in Nat : y < x => <<y, x>> \in R BY <1>1
<1>3. PICK x \in S : \A y \in S : ~ (<<y, x>> \in R) BY <1>2, WFMin
<1>4. \A y \in S : ~ (y < x) BY <1>2, <1>3
<1>5. \A y \in S : x \in Nat /\ y \in Nat OBVIOUS
<1>q. QED BY <1>4, <1>5

Rising(s) == \A i, j \in 1 .. Len(s) : i < j => s[i] < s[j]
Elements(s) == {s[i] : i \in 1 .. Len(s)}
Enumerates(s, S) ==
  s \in [1 .. Cardinality(S) -> S] /\ \A i, j \in 1 .. Cardinality(S) : i < j => s[i] < s[j]

LEMMA NoneEnumerated == \E s : Enumerates(s, {})
<1>1. Cardinality({}) = 0 BY FS_EmptySet
<1>2. PICK s : s = [i \in 1 .. 0 |-> i] OBVIOUS
<1>3. s \in [1 .. 0 -> {}] BY <1>2
<1>q. QED BY <1>1, <1>3 DEF Enumerates

\* Put the greatest element last.
LEMMA OneMoreEnumerated ==
  ASSUME NEW m \in Nat, NEW T \in SUBSET (1 .. m), m \in T, NEW s, Enumerates(s, T \ {m})
  PROVE  \E t : Enumerates(t, T)
<1>1. IsFiniteSet(1 .. m) BY FS_Interval
<1>2. IsFiniteSet(T) /\ IsFiniteSet(T \ {m}) BY <1>1, FS_Subset
<1>3. PICK k \in Nat : k = Cardinality(T \ {m}) BY <1>2, FS_CardinalityType
<1>4. Cardinality(T) \in Nat BY <1>2, FS_CardinalityType
<1>5. Cardinality(T) = k + 1
  <2>1. Cardinality(T \ {m}) = Cardinality(T) - 1 BY <1>2, FS_RemoveElement
  <2>q. QED BY <1>3, <1>4, <2>1
<1>6. s \in [1 .. k -> T \ {m}] /\ \A i, j \in 1 .. k : i < j => s[i] < s[j] BY <1>3 DEF Enumerates
<1>7. PICK t : t = [i \in 1 .. (k + 1) |-> IF i = k + 1 THEN m ELSE s[i]] OBVIOUS
<1>8. \A i \in 1 .. (k + 1) : i # k + 1 => i \in 1 .. k OBVIOUS
<1>9. t \in [1 .. (k + 1) -> T] BY <1>6, <1>7, <1>8
<1>10. ASSUME NEW i \in 1 .. (k + 1), NEW j \in 1 .. (k + 1), i < j PROVE t[i] < t[j]
  <2>1. i \in 1 .. k /\ i # k + 1 BY <1>10
  <2>2. s[i] \in T \ {m} /\ t[i] = s[i] BY <1>6, <1>7, <2>1
  <2>3. CASE j = k + 1
    <3>1. t[j] = m BY <1>7, <2>3
    <3>2. s[i] \in Nat /\ s[i] < m
      <4>1. PICK v : v = s[i] OBVIOUS
      <4>2. v \in 1 .. m /\ v # m BY <2>2, <4>1
      <4>3. v \in Nat /\ v < m BY <4>2
      <4>q. QED BY <4>1, <4>3
    <3>q. QED BY <2>2, <3>1, <3>2
  <2>4. CASE j # k + 1
    <3>1. j \in 1 .. k /\ t[j] = s[j] BY <1>7, <2>4
    <3>q. QED BY <1>6, <1>10, <2>1, <2>2, <3>1
  <2>q. QED BY <2>3, <2>4
<1>q. QED BY <1>5, <1>9, <1>10 DEF Enumerates

\* Were there a set without one, there would be one of the least bound.
LEMMA AllEnumerated ==
  ASSUME NEW n \in Nat, NEW S \in SUBSET (1 .. n)
  PROVE  \E s : Enumerates(s, S)
<1> DEFINE Fails(m) == \E T \in SUBSET (1 .. m) : ~ \E s : Enumerates(s, T)
<1> SUFFICES ASSUME Fails(n) PROVE FALSE
  OBVIOUS
<1>1. PICK Bad : Bad = {m \in Nat : Fails(m)} OBVIOUS
<1>2. PICK m \in Bad : \A l \in Bad : m <= l
  <2>1. n \in Bad BY <1>1
  <2>q. QED BY <1>1, <2>1, FirstOf
<1>3. m \in Nat /\ Fails(m) BY <1>1
<1>4. PICK T \in SUBSET (1 .. m) : ~ \E s : Enumerates(s, T) BY <1>3
<1>5. T # {} BY <1>4, NoneEnumerated
<1>6. m > 0 /\ m - 1 \in Nat
  <2>1. PICK x \in T : x \in 1 .. m BY <1>5
  <2>q. QED BY <1>3, <2>1
<1>7. ~Fails(m - 1)
  <2>1. m - 1 \notin Bad BY <1>2, <1>3, <1>6
  <2>q. QED BY <1>1, <1>6, <2>1
<1>8. T \ {m} \in SUBSET (1 .. (m - 1)) BY <1>3
<1>9. PICK s : Enumerates(s, T \ {m}) BY <1>7, <1>8
<1>10. m \in T
  <2>1. m \notin T => T \ {m} = T OBVIOUS
  <2>q. QED BY <1>4, <1>9, <2>1
<1>q. QED BY <1>3, <1>4, <1>9, <1>10, OneMoreEnumerated

LEMMA InOrderIs ==
  ASSUME NEW n \in Nat, NEW S \in SUBSET (1 .. n), NEW s, s = Audit!InOrder(S)
  PROVE  s \in Seq(S) /\ Rising(s) /\ Elements(s) = S
<1>1. Enumerates(s, S)
  <2>1. PICK t : Enumerates(t, S) BY AllEnumerated
  <2>2. \A u : Enumerates(u, S) <=> /\ u \in [1 .. Audit!Cardinality(S) -> S]
                                    /\ \A i, j \in 1 .. Audit!Cardinality(S) : i < j => u[i] < u[j]
    BY AuditCounted DEF Enumerates
  <2>3. /\ s \in [1 .. Audit!Cardinality(S) -> S]
        /\ \A i, j \in 1 .. Audit!Cardinality(S) : i < j => s[i] < s[j]
    BY <2>1, <2>2 DEF Audit!InOrder
  <2>q. QED BY <2>2, <2>3
<1>2. IsFiniteSet(S)
  <2>1. IsFiniteSet(1 .. n) BY FS_Interval
  <2>q. QED BY <2>1, FS_Subset
<1>3. PICK k \in Nat : k = Cardinality(S) BY <1>2, FS_CardinalityType
<1>4. s \in [1 .. k -> S] /\ \A i, j \in 1 .. k : i < j => s[i] < s[j] BY <1>1, <1>3 DEF Enumerates
<1>5. s \in Seq(S) /\ Len(s) = k BY <1>4, SeqDef
<1>6. s \in Surjection(1 .. k, S)
  <2>1. \A i, j \in 1 .. k : s[i] = s[j] => i = j
    <3> TAKE i, j \in 1 .. k
    <3>0. \A x \in S : x \in Nat OBVIOUS
    <3>1. s[i] \in Nat /\ s[j] \in Nat BY <1>4, <3>0
    <3>2. i < j \/ j < i \/ i = j OBVIOUS
    <3>q. QED BY <1>4, <3>1, <3>2
  <2>2. s \in Injection(1 .. k, S) BY <1>4, <2>1 DEF Injection, IsInjective
  <2>3. Cardinality(1 .. k) = k BY FS_Interval
  <2>q. QED BY <1>2, <1>3, <2>2, <2>3, FS_Injection
<1>7. \A x \in S : \E i \in 1 .. k : s[i] = x BY <1>6 DEF Surjection
<1>8. \A i \in 1 .. k : s[i] \in S BY <1>4
<1>q. QED BY <1>4, <1>5, <1>7, <1>8 DEF Rising, Elements

Ascends(s, a) == \A i, j \in 1 .. a : i < j => s[i] < s[j]
Draws(r, a, s, m, u) ==
  /\ \A i \in 1 .. a : r[i] <= u /\ \E j \in 1 .. m : r[i] = s[j]
  /\ \A j \in 1 .. m : s[j] <= u => \E i \in 1 .. a : r[i] = s[j]
BeginsLike(r, a, s, m) == \A i \in 1 .. a : i <= m /\ r[i] = s[i]
\* What is in order and holds the smallest of the first m elements of s, which is in order too, is
\* the beginning of s.
LEMMA BeginsAlike ==
  ASSUME NEW a \in Nat, NEW b \in Nat, NEW r \in [1 .. a -> Nat], NEW s \in [1 .. b -> Nat],
         NEW m \in 0 .. b, NEW u \in Nat, Ascends(r, a), Ascends(s, b), Draws(r, a, s, m, u)
  PROVE  BeginsLike(r, a, s, m)
<1> USE DEF Ascends, Draws
<1> SUFFICES ASSUME NEW l \in 1 .. a, ~(l <= m /\ r[l] = s[l]) PROVE FALSE
  BY DEF BeginsLike
<1>1. PICK Bad : Bad = {i \in 1 .. a : ~(i <= m /\ r[i] = s[i])} OBVIOUS
<1>2. PICK i \in Bad : \A k \in Bad : i <= k
  <2>1. \A x \in Bad : x \in Nat BY <1>1
  <2>2. l \in Bad BY <1>1
  <2>q. QED BY <2>1, <2>2, FirstOf
<1>3. i \in 1 .. a /\ ~(i <= m /\ r[i] = s[i]) BY <1>1
<1>4. \A k \in 1 .. a : k < i => k <= m /\ r[k] = s[k]
  <2> TAKE k \in 1 .. a
  <2>1. k < i => k \notin Bad BY <1>2, <1>3
  <2>q. QED BY <1>1, <2>1
<1>5. PICK j \in 1 .. m : r[i] = s[j] /\ s[j] <= u BY <1>3
<1>6. j \in 1 .. b BY <1>5
<1>7. r[i] \in Nat /\ s[j] \in Nat BY <1>3, <1>6
<1>8. j # i BY <1>3, <1>5
<1>9. CASE j < i
  <2>1. j \in 1 .. a BY <1>3, <1>6, <1>9
  <2>2. r[j] = s[j] BY <1>4, <1>9, <2>1
  <2>3. r[j] < r[i] BY <1>3, <1>9, <2>1
  <2>q. QED BY <1>5, <1>7, <2>2, <2>3
<1>10. CASE i < j
  <2>1. i \in 1 .. m /\ i \in 1 .. b BY <1>3, <1>5, <1>6, <1>10
  <2>2. s[i] < s[j] BY <1>6, <1>10, <2>1
  <2>3. s[i] \in Nat BY <2>1
  <2>4. s[i] <= u BY <1>5, <1>7, <2>2, <2>3
  <2>6. PICK k \in 1 .. a : r[k] = s[i] BY <2>1, <2>4
  <2>7. CASE k < i
    <3>1. r[k] = s[k] BY <1>4, <2>7
    <3>2. k \in 1 .. b BY <2>1, <2>7
    <3>3. s[k] < s[i] BY <2>1, <2>7, <3>2
    <3>q. QED BY <2>3, <2>6, <3>1, <3>3
  <2>8. CASE k = i BY <1>3, <2>1, <2>6, <2>8
  <2>9. CASE i < k
    <3>1. r[i] < r[k] BY <1>3, <2>9
    <3>q. QED BY <1>5, <1>7, <2>2, <2>3, <2>6, <3>1
  <2>10. k < i \/ k = i \/ i < k BY <1>3
  <2>q. QED BY <2>7, <2>8, <2>9, <2>10
<1>11. j < i \/ i < j BY <1>3, <1>6, <1>8
<1>q. QED BY <1>9, <1>10, <1>11

IsSlice(page, r, off) ==
  /\ Len(page) = IF Len(r) <= off THEN 0 ELSE IF Len(r) < off + PageRows THEN Len(r) - off ELSE PageRows
  /\ \A i \in 1 .. Len(page) : off + i \in 1 .. Len(r) /\ page[i] = r[off + i]

LEMMA SliceIs ==
  ASSUME NEW S, NEW r \in Seq(S), NEW off \in Nat, NEW page, page = Audit!Slice(r, off)
  PROVE  page \in Seq(S) /\ IsSlice(page, r, off)
<1>0. Len(r) \in Nat /\ PageRows \in Nat /\ PageRows > 0 OBVIOUS
<1>1. PICK last : last = Audit!Min({Len(r), off + PageRows}) OBVIOUS
<1>2. last = IF Len(r) < off + PageRows THEN Len(r) ELSE off + PageRows
  <2>1. PICK a \in Nat, b \in Nat : a = Len(r) /\ b = off + PageRows BY <1>0
  <2>2. \E x \in {a, b} : \A y \in {a, b} : x <= y OBVIOUS
  <2>3. last \in {a, b} /\ \A y \in {a, b} : last <= y BY <1>1, <2>1, <2>2 DEF Audit!Min
  <2>q. QED BY <2>1, <2>3
<1>3. last \in Nat /\ last <= Len(r) BY <1>0, <1>2
<1>4. PICK from \in Int, to \in Int : from = off + 1 /\ to = last BY <1>3
<1>5. page = SubSeq(r, from, to) BY <1>1, <1>4 DEF Audit!Slice
<1>6. \A i \in from .. to : r[i] \in S BY <1>0, <1>3, <1>4
<1>7. /\ page \in Seq(S) /\ Len(page) = (IF off + 1 <= last THEN last - (off + 1) + 1 ELSE 0)
      /\ \A i \in 1 .. (last - (off + 1) + 1) : page[i] = r[(off + 1) + i - 1]
  <2>1. /\ page \in Seq(S) /\ Len(page) = (IF from <= to THEN to - from + 1 ELSE 0)
        /\ \A i \in 1 .. (to - from + 1) : page[i] = r[from + i - 1]
    BY <1>4, <1>5, <1>6, SubSeqProperties
  <2>q. QED BY <1>4, <2>1
<1>8. Len(page) = IF Len(r) <= off THEN 0 ELSE IF Len(r) < off + PageRows THEN Len(r) - off ELSE PageRows
  BY <1>0, <1>2, <1>7, SMTT(30)
<1>9. ASSUME NEW i \in 1 .. Len(page) PROVE off + i \in 1 .. Len(r) /\ page[i] = r[off + i]
  <2>1. off + 1 <= last /\ i \in 1 .. (last - (off + 1) + 1) BY <1>3, <1>7, <1>9
  <2>2. (off + 1) + i - 1 = off + i OBVIOUS
  <2>q. QED BY <1>0, <1>3, <1>7, <2>1, <2>2
<1>q. QED BY <1>7, <1>8, <1>9 DEF IsSlice

----------------------------------------------------------------------------
(* The audit trail and its exports. *)
Boots == [tries : 0 .. ConnectTries, up : BOOLEAN, pools : Seq(Replicas)]
ExportPhases == {"none", "reading", "ended", "destroyed"}
ExportKinds == {"paged", "snapshot"}
ExportRecords == [phase : ExportPhases, kind : ExportKinds, until : 0 .. MaxEntries, pushed : Seq(1 .. MaxEntries)]
AuditTypes ==
  /\ boot \in Boots /\ inserting \subseteq 1 .. MaxEntries /\ log \in Seq(1 .. MaxEntries) /\ entries \in 0 .. MaxEntries
  /\ applied \in [Replicas -> Nat] /\ \A r \in Replicas : applied[r] <= Len(log)
  /\ reader \in Nat /\ (IF boot.pools = <<>> THEN reader = 0 ELSE reader < Len(boot.pools))
  /\ export \in [Exports -> ExportRecords] /\ atStart \in [Exports -> SUBSET (1 .. MaxEntries)]
  /\ drops \in 0 .. MaxDrops /\ straggled \in BOOLEAN /\ lagging \subseteq Exports
LogIs ==
  /\ inserting \subseteq 1 .. entries
  /\ \A i \in 1 .. Len(log) : log[i] \in 1 .. entries /\ log[i] \notin inserting
  /\ ~straggled => Rising(log)
NotYet == ~boot.up => boot.pools = <<>> /\ \A e \in Exports : export[e].phase = "none"
Begins(s) == Len(s) <= Len(log) /\ \A i \in 1 .. Len(s) : s[i] = log[i]
\* What pages have pushed is the beginning of the log, as long as rows are committed in order; once an
\* export has ended it holds what was there when it began.
ExportIs(e) ==
  /\ atStart[e] \subseteq Elements(log)
  /\ export[e].phase = "ended" /\ export[e].kind = "snapshot" => Rising(export[e].pushed)
  /\ export[e].phase \in {"reading", "ended"} /\ export[e].kind = "paged" /\ ~straggled => Begins(export[e].pushed)
  /\ export[e].phase = "ended" /\ (export[e].kind = "snapshot" \/ (~straggled /\ e \notin lagging)) =>
       \A n \in atStart[e] : n <= export[e].until => n \in Elements(export[e].pushed)
AuditInv == AuditTypes /\ LogIs /\ NotYet /\ \A e \in Exports : ExportIs(e)

LEMMA AuditStarts == Audit!Init => AuditInv
<1> SUFFICES ASSUME Audit!Init PROVE AuditInv
  OBVIOUS
<1>1. /\ boot = [tries |-> 0, up |-> FALSE, pools |-> <<>>]
      /\ inserting = {} /\ log = <<>> /\ applied = [r \in Replicas |-> 0] /\ reader = 0
      /\ export = [e \in Exports |-> Audit!NoExport] /\ entries = 0 /\ drops = 0
      /\ atStart = [e \in Exports |-> {}] /\ straggled = FALSE /\ lagging = {}
  BY DEF Audit!Init
<1>2. boot \in Boots /\ boot.pools = <<>>
  <2>1. PICK none \in Seq(Replicas) : none = <<>> BY EmptySeq
  <2>2. boot = [tries |-> 0, up |-> FALSE, pools |-> none] BY <1>1, <2>1
  <2>q. QED BY <2>1, <2>2 DEF Boots
<1>3. Audit!NoExport \in ExportRecords /\ Audit!NoExport.phase = "none"
  <2>1. PICK none \in Seq(1 .. MaxEntries) : none = <<>> BY EmptySeq
  <2>2. Audit!NoExport = [phase |-> "none", kind |-> "paged", until |-> 0, pushed |-> none] BY <2>1 DEF Audit!NoExport
  <2>q. QED BY <2>2 DEF ExportRecords, ExportPhases, ExportKinds
<1>4. export \in [Exports -> ExportRecords] /\ \A e \in Exports : export[e].phase = "none" BY <1>1, <1>3
<1>5. atStart \in [Exports -> SUBSET (1 .. MaxEntries)]
  <2>1. PICK none \in SUBSET (1 .. MaxEntries) : none = {} OBVIOUS
  <2>q. QED BY <1>1, <2>1
<1>6. log \in Seq(1 .. MaxEntries) /\ Len(log) = 0 BY <1>1, EmptySeq
<1>7. AuditTypes
  <2>1. applied \in [Replicas -> Nat] /\ \A r \in Replicas : applied[r] = 0 BY <1>1
  <2>2. \A r \in Replicas : applied[r] <= Len(log) BY <1>6, <2>1
  <2>3. reader \in Nat /\ (IF boot.pools = <<>> THEN reader = 0 ELSE reader < Len(boot.pools)) BY <1>1, <1>2
  <2>4. entries \in 0 .. MaxEntries /\ drops \in 0 .. MaxDrops BY <1>1
  <2>q. QED BY <1>1, <1>2, <1>4, <1>5, <1>6, <2>1, <2>2, <2>3, <2>4 DEF AuditTypes
<1>8. LogIs BY <1>1, <1>6 DEF LogIs, Rising
<1>9. \A e \in Exports : atStart[e] = {} BY <1>1
<1>q. QED BY <1>2, <1>4, <1>7, <1>8, <1>9 DEF AuditInv, NotYet, ExportIs

\* Steps that touch neither the log nor an export.
LEMMA OthersKeepExports ==
  ASSUME AuditInv, AuditTypes', UNCHANGED <<log, export, atStart, straggled, lagging>>,
         inserting' \subseteq 1 .. entries', entries' \in Nat, entries' >= entries,
         \A n \in 1 .. entries : n \in inserting' => n \in inserting,
         boot'.up \/ UNCHANGED boot
  PROVE  AuditInv'
<1>1. LogIs'
  <2>1. ASSUME NEW i \in 1 .. Len(log) PROVE log[i] \in 1 .. entries' /\ log[i] \notin inserting'
    <3>1. PICK n \in 1 .. entries : n = log[i] /\ n \notin inserting BY <2>1 DEF AuditInv, LogIs
    <3>2. entries \in Nat BY DEF AuditInv, AuditTypes
    <3>3. n \in 1 .. entries' BY <3>1, <3>2
    <3>q. QED BY <3>1, <3>3
  <2>q. QED BY <2>1 DEF AuditInv, LogIs, Rising
<1>2. NotYet' BY DEF AuditInv, NotYet
<1>3. \A e \in Exports : ExportIs(e)' BY DEF AuditInv, ExportIs, Begins, Elements, Rising
<1>q. QED BY <1>1, <1>2, <1>3 DEF AuditInv

LEMMA DropIs == ASSUME AuditTypes, Audit!Drop \/ UNCHANGED drops PROVE drops' \in 0 .. MaxDrops
BY DEF AuditTypes, Audit!Drop

LEMMA ConnectFailsKept == ASSUME AuditInv, Audit!ConnectFails PROVE AuditInv'
<1>t. AuditTypes BY DEF AuditInv
<1>0. /\ ~boot.up /\ boot.tries < ConnectTries /\ Audit!Drop /\ boot' = [boot EXCEPT !.tries = @ + 1]
      /\ UNCHANGED <<inserting, log, applied, reader, export, entries, atStart, straggled, lagging>>
  BY DEF Audit!ConnectFails
<1>1. boot' \in Boots /\ boot'.up = boot.up /\ boot'.pools = boot.pools
  <2>1. PICK b \in Boots : b = boot BY <1>t DEF AuditTypes
  <2>2. b.tries + 1 \in 0 .. ConnectTries BY <1>0, <2>1 DEF Boots
  <2>q. QED BY <1>0, <2>1, <2>2 DEF Boots
<1>2. AuditTypes' BY <1>t, <1>0, <1>1, DropIs DEF AuditTypes
<1>3. LogIs' BY <1>0 DEF AuditInv, LogIs, Rising
<1>4. NotYet' BY <1>0, <1>1 DEF AuditInv, NotYet
<1>5. \A e \in Exports : ExportIs(e)' BY <1>0 DEF AuditInv, ExportIs, Begins, Elements, Rising
<1>q. QED BY <1>2, <1>3, <1>4, <1>5 DEF AuditInv

LEMMA ConnectKept == ASSUME AuditInv, Audit!Connect PROVE AuditInv'
<1>t. AuditTypes BY DEF AuditInv
<1>0. /\ ~boot.up
      /\ UNCHANGED <<inserting, log, applied, reader, export, entries, drops, atStart, straggled, lagging>>
  BY DEF Audit!Connect
<1>1. PICK answering \in SUBSET Replicas : boot' = [boot EXCEPT !.up = TRUE, !.pools = Audit!InOrder(answering)]
  BY DEF Audit!Connect
<1>2. PICK pools : pools = Audit!InOrder(answering) OBVIOUS
<1>3. pools \in Seq(Replicas)
  <2>1. PICK n \in Nat : n = Cardinality(Replicas) BY FS_CardinalityType
  <2>2. answering \in SUBSET (1 .. n) BY <2>1
  <2>3. pools \in Seq(answering) BY <1>2, <2>2, InOrderIs
  <2>q. QED BY <2>3, SeqMonotonic
<1>4. boot' \in Boots /\ boot'.up /\ boot'.pools = pools
  <2>1. PICK b \in Boots : b = boot BY <1>t DEF AuditTypes
  <2>q. QED BY <1>1, <1>2, <1>3, <2>1 DEF Boots
<1>5. reader = 0 BY <1>t, <1>0 DEF AuditInv, AuditTypes, NotYet
<1>6. pools # <<>> => 0 < Len(pools) BY <1>3
<1>7. AuditTypes' BY <1>t, <1>0, <1>4, <1>5, <1>6 DEF AuditTypes
<1>8. inserting \subseteq 1 .. entries /\ entries \in Nat BY <1>t DEF AuditInv, LogIs, AuditTypes
<1>q. QED BY <1>0, <1>4, <1>7, <1>8, OthersKeepExports

LEMMA LogOperationKept == ASSUME AuditInv, Audit!LogOperation PROVE AuditInv'
<1>t. AuditTypes BY DEF AuditInv
<1>0. /\ boot.up /\ entries < MaxEntries /\ entries' = entries + 1 /\ inserting' = inserting \cup {entries + 1}
      /\ UNCHANGED <<boot, log, applied, reader, export, drops, atStart, straggled, lagging>>
  BY DEF Audit!LogOperation
<1>1. entries \in Nat /\ entries' \in Nat /\ entries' >= entries /\ entries' \in 0 .. MaxEntries
      /\ entries' \in 1 .. entries' /\ entries' \in 1 .. MaxEntries
  BY <1>t, <1>0 DEF AuditTypes
<1>2. inserting' \subseteq 1 .. entries'
  <2>1. inserting \subseteq 1 .. entries BY DEF AuditInv, LogIs
  <2>2. \A n \in 1 .. entries : n \in 1 .. entries' BY <1>1
  <2>q. QED BY <1>0, <1>1, <2>1, <2>2
<1>3. AuditTypes' BY <1>t, <1>0, <1>1 DEF AuditTypes
<1>4. \A n \in 1 .. entries : n \in inserting' => n \in inserting BY <1>0, <1>1
<1>q. QED BY <1>0, <1>1, <1>2, <1>3, <1>4, OthersKeepExports

LEMMA ReplicateKept == ASSUME AuditInv, NEW r \in Replicas, Audit!Replicate(r) PROVE AuditInv'
<1>t. AuditTypes BY DEF AuditInv
<1>0. /\ applied[r] < Len(log) /\ applied' = [applied EXCEPT ![r] = @ + 1]
      /\ UNCHANGED <<boot, inserting, log, reader, export, entries, drops, atStart, straggled, lagging>>
  BY DEF Audit!Replicate
<1>1. PICK n \in Nat : n = applied[r] BY <1>t DEF AuditTypes
<1>2. PICK l \in Nat : l = Len(log) BY <1>t DEF AuditTypes
<1>3. n + 1 \in Nat /\ n + 1 <= l BY <1>0, <1>1, <1>2
<1>4. applied' = [applied EXCEPT ![r] = n + 1] BY <1>0, <1>1
<1>5. applied' \in [Replicas -> Nat] /\ \A s \in Replicas : applied'[s] <= l
  BY <1>t, <1>2, <1>3, <1>4 DEF AuditTypes
<1>6. AuditTypes' BY <1>t, <1>0, <1>2, <1>5 DEF AuditTypes
<1>7. inserting \subseteq 1 .. entries /\ entries \in Nat BY <1>t DEF AuditInv, LogIs, AuditTypes
<1>q. QED BY <1>0, <1>6, <1>7, OthersKeepExports

LEMMA InsertKept == ASSUME AuditInv, NEW n \in inserting, Audit!Insert(n) PROVE AuditInv'
<1>t. AuditTypes BY DEF AuditInv
<1>0. /\ inserting' = inserting \ {n}
      /\ UNCHANGED <<boot, applied, reader, export, entries, atStart, lagging>>
  BY DEF Audit!Insert
<1>n. /\ n \in 1 .. entries /\ n \in 1 .. MaxEntries /\ n \in Nat /\ inserting \subseteq 1 .. entries /\ entries \in Nat
      /\ \A i \in 1 .. Len(log) : log[i] \in Nat
  BY <1>t DEF AuditInv, LogIs, AuditTypes
<1>1. CASE log' = Append(log, n) /\ straggled' = (straggled \/ \E m \in Audit!Range(log) : m > n) /\ UNCHANGED drops
  <2>1. PICK l \in Nat : l = Len(log) /\ DOMAIN log = 1 .. l BY <1>t DEF AuditTypes
  <2>2. /\ log' \in Seq(1 .. MaxEntries) /\ Len(log') = l + 1 /\ (\A i \in 1 .. l : log'[i] = log[i]) /\ log'[l + 1] = n
    BY <1>t, <1>n, <1>1, <2>1, AppendProperties DEF AuditTypes
  <2>3. \A i \in 1 .. (l + 1) : i \in 1 .. l \/ i = l + 1 BY <2>1
  <2>4. straggled' \in BOOLEAN BY <1>1
  <2>5. \A r \in Replicas : applied[r] <= l + 1
    <3> TAKE r \in Replicas
    <3>1. applied[r] \in Nat /\ applied[r] <= l BY <1>t, <2>1 DEF AuditTypes
    <3>q. QED BY <2>1, <3>1
  <2>6. AuditTypes' BY <1>t, <1>0, <1>1, <2>2, <2>4, <2>5 DEF AuditTypes
  <2>7. ASSUME ~straggled' PROVE ~straggled /\ Rising(log)'
    <3>1. ~straggled /\ \A i \in 1 .. l : ~(log[i] > n) BY <1>1, <2>1, <2>7 DEF Audit!Range
    <3>2. \A i \in 1 .. l : log[i] # n BY <2>1 DEF AuditInv, LogIs
    <3>3. \A i \in 1 .. l : log[i] < n BY <1>n, <2>1, <3>1, <3>2
    <3>4. \A i, j \in 1 .. l : i < j => log[i] < log[j] BY <2>1, <3>1 DEF AuditInv, LogIs, Rising
    <3>5. ASSUME NEW i \in 1 .. (l + 1), NEW j \in 1 .. (l + 1), i < j PROVE log'[i] < log'[j]
      <4>1. i \in 1 .. l BY <2>1, <3>5
      <4>2. CASE j = l + 1 BY <2>2, <3>3, <4>1, <4>2
      <4>3. CASE j \in 1 .. l BY <2>2, <3>4, <3>5, <4>1, <4>3
      <4>q. QED BY <2>3, <4>2, <4>3
    <3>q. QED BY <2>2, <3>1, <3>5 DEF Rising
  <2>8. LogIs'
    <3>1. \A i \in 1 .. l : log[i] \in 1 .. entries /\ log[i] \notin inserting BY <2>1 DEF AuditInv, LogIs
    <3>2. \A i \in 1 .. (l + 1) : log'[i] \in 1 .. entries /\ log'[i] \notin inserting' BY <1>0, <1>n, <2>2, <2>3, <3>1
    <3>q. QED BY <1>0, <1>n, <2>2, <2>7, <3>2 DEF LogIs
  <2>9. NotYet' BY <1>0 DEF AuditInv, NotYet
  <2>10. Elements(log) \subseteq Elements(log)'
    <3>1. \A i \in 1 .. l : i \in 1 .. (l + 1) BY <2>1
    <3>q. QED BY <2>1, <2>2, <3>1 DEF Elements
  <2>11. ASSUME NEW e \in Exports PROVE ExportIs(e)'
    <3>1. ExportIs(e) BY DEF AuditInv
    <3>2. Begins(export[e].pushed) => Begins(export[e].pushed)'
      <4>1. PICK s \in Seq(1 .. MaxEntries) : s = export[e].pushed BY <1>t DEF AuditTypes, ExportRecords
      <4>2. Len(s) \in Nat OBVIOUS
      <4>3. Len(s) <= l => Len(s) <= l + 1 /\ \A i \in 1 .. Len(s) : i \in 1 .. l BY <2>1, <4>2
      <4>q. QED BY <1>0, <2>1, <2>2, <4>1, <4>3 DEF Begins
    <3>q. QED BY <1>0, <2>7, <2>10, <3>1, <3>2 DEF ExportIs, Rising, Elements
  <2>q. QED BY <2>6, <2>8, <2>9, <2>11 DEF AuditInv
<1>2. CASE Audit!Drop /\ UNCHANGED <<log, straggled>>
  <2>1. AuditTypes' BY <1>t, <1>0, <1>2, DropIs DEF AuditTypes
  <2>q. QED BY <1>0, <1>n, <1>2, <2>1, OthersKeepExports
<1>q. QED BY <1>1, <1>2 DEF Audit!Insert

\* One export moves.
LEMMA ExportTo ==
  ASSUME AuditTypes, NEW e \in Exports, NEW new \in ExportRecords, export' = [export EXCEPT ![e] = new]
  PROVE  export' \in [Exports -> ExportRecords] /\ export'[e] = new /\ \A x \in Exports \ {e} : export'[x] = export[x]
BY DEF AuditTypes

LEMMA OneExport ==
  ASSUME AuditInv, NEW e \in Exports, AuditTypes', UNCHANGED <<boot, inserting, log, entries, straggled>>, boot.up,
         lagging \subseteq lagging', ExportIs(e)',
         \A x \in Exports \ {e} : export'[x] = export[x] /\ atStart'[x] = atStart[x]
  PROVE  AuditInv'
<1>1. LogIs' /\ NotYet' BY DEF AuditInv, LogIs, NotYet, Rising
<1>2. ASSUME NEW x \in Exports \ {e} PROVE ExportIs(x)'
  <2>1. ExportIs(x) /\ export'[x] = export[x] /\ atStart'[x] = atStart[x] BY DEF AuditInv
  <2>q. QED BY <2>1 DEF ExportIs, Begins, Elements, Rising
<1>q. QED BY <1>1, <1>2 DEF AuditInv

FirstRows(m) == {log[j] : j \in 1 .. m}

LEMMA VisibleIs ==
  ASSUME AuditTypes
  PROVE  \E m \in 0 .. Len(log) : Audit!Visible = FirstRows(m)
<1>1. PICK l \in Nat : l = Len(log) /\ DOMAIN log = 1 .. l BY DEF AuditTypes
<1>2. CASE boot.pools = <<>> BY <1>1, <1>2, SMTT(30) DEF Audit!Visible, Audit!Range, FirstRows
<1>3. CASE boot.pools # <<>>
  <2>1. PICK pools \in Seq(Replicas) : pools = boot.pools BY DEF AuditTypes, Boots
  <2>2. reader + 1 \in 1 .. Len(pools) BY <1>3, <2>1 DEF AuditTypes
  <2>r. PICK r \in Replicas : r = pools[reader + 1] BY <2>2, ElementOfSeq
  <2>3. PICK m \in Nat : m = applied[pools[reader + 1]] /\ m <= l BY <1>1, <2>r DEF AuditTypes
  <2>4. PICK s : s = SubSeq(log, 1, m) OBVIOUS
  <2>5. \A i \in 1 .. m : i \in 1 .. l BY <1>1, <2>3
  <2>6. \A i \in 1 .. m : log[i] \in 1 .. MaxEntries BY <1>1, <2>5 DEF AuditTypes
  <2>7. /\ s \in Seq(1 .. MaxEntries) /\ Len(s) = (IF 1 <= m THEN m - 1 + 1 ELSE 0)
        /\ \A i \in 1 .. (m - 1 + 1) : s[i] = log[1 + i - 1]
    BY <2>4, <2>6, SubSeqProperties
  <2>8. DOMAIN s = 1 .. m /\ \A i \in 1 .. m : s[i] = log[i] BY <2>3, <2>7, SMTT(30)
  <2>9. Audit!Visible = Audit!Range(s) BY <1>3, <2>1, <2>3, <2>4 DEF Audit!Visible
  <2>10. Audit!Visible = FirstRows(m) BY <2>8, <2>9 DEF Audit!Range, FirstRows
  <2>11. m \in 0 .. Len(log) BY <1>1, <2>3
  <2>q. QED BY <2>10, <2>11
<1>q. QED BY <1>2, <1>3

QueryGives(r, shown, u) == Elements(r) = {n \in shown : n <= u}

\* What a query on the first m rows answers.
LEMMA MatchingIs ==
  ASSUME AuditTypes, NEW e \in Exports, NEW m \in 0 .. Len(log), NEW shown, shown = FirstRows(m),
         NEW r, r = Audit!Matching(e, shown)
  PROVE  /\ r \in Seq(1 .. MaxEntries) /\ Rising(r) /\ QueryGives(r, shown, export[e].until)
         /\ Rising(log) => BeginsLike(r, Len(r), log, m)
<1>1. PICK l \in Nat : l = Len(log) /\ log \in [1 .. l -> 1 .. MaxEntries]
  BY LenProperties DEF AuditTypes
<1>2. PICK u \in Nat : u = export[e].until BY DEF AuditTypes, ExportRecords
<1>3. PICK S : S = {n \in shown : n <= u} OBVIOUS
<1>4. \A j \in 1 .. m : j \in 1 .. l BY <1>1
<1>5. S \in SUBSET (1 .. MaxEntries) BY <1>1, <1>3, <1>4 DEF FirstRows
<1>6. r = Audit!InOrder(S) BY <1>2, <1>3 DEF Audit!Matching
<1>7. r \in Seq(S) /\ Rising(r) /\ Elements(r) = S BY <1>5, <1>6, InOrderIs
<1>8. r \in Seq(1 .. MaxEntries) BY <1>5, <1>7, SeqMonotonic
<1>9. ASSUME Rising(log) PROVE BeginsLike(r, Len(r), log, m)
  <2>1. PICK a \in Nat : a = Len(r) /\ r \in [1 .. a -> 1 .. MaxEntries] BY <1>8, LenProperties
  <2>2. \A n \in 1 .. MaxEntries : n \in Nat OBVIOUS
  <2>3. r \in [1 .. a -> Nat] /\ log \in [1 .. l -> Nat] BY <1>1, <2>1, <2>2
  <2>4. Ascends(r, a) BY <1>7, <2>1 DEF Rising, Ascends
  <2>6. {r[i] : i \in 1 .. a} = {n \in FirstRows(m) : n <= u} BY <1>3, <1>7, <2>1 DEF Elements
  <2>7. m \in 0 .. l BY <1>1
  <2>8. PICK s \in [1 .. l -> Nat] : s = log BY <2>3
  <2>9. Ascends(s, l) BY <1>1, <1>9, <2>8 DEF Rising, Ascends
  <2>10. Draws(r, a, s, m, u) BY <2>6, <2>8, ZenonT(60) DEF FirstRows, Draws
  <2>11. BeginsLike(r, a, s, m)
    BY <1>1, <1>2, <2>1, <2>3, <2>4, <2>7, <2>8, <2>9, <2>10, BeginsAlike
  <2>q. QED BY <2>1, <2>8, <2>11
<1>q. QED BY <1>2, <1>3, <1>7, <1>8, <1>9 DEF QueryGives

LEMMA ExportLogsKept == ASSUME AuditInv, NEW e \in Exports, Audit!ExportLogs(e) PROVE AuditInv'
<1>t. AuditTypes BY DEF AuditInv
<1>0. boot.up /\ UNCHANGED <<boot, inserting, log, applied, reader, entries, drops, straggled, lagging>>
  BY DEF Audit!ExportLogs
<1>1. PICK kind \in {"paged", "snapshot"}, until \in {entries, MaxEntries} :
        export' = [export EXCEPT ![e] = [phase |-> "reading", kind |-> kind, until |-> until, pushed |-> <<>>]]
  BY DEF Audit!ExportLogs
<1>2. PICK none \in Seq(1 .. MaxEntries) : none = <<>> /\ Len(none) = 0 BY EmptySeq
<1>3. PICK new : new = [phase |-> "reading", kind |-> kind, until |-> until, pushed |-> none] OBVIOUS
<1>4. new \in ExportRecords /\ new.phase = "reading" /\ new.pushed = none
  <2>1. until \in 0 .. MaxEntries BY <1>t DEF AuditTypes
  <2>q. QED BY <1>3, <2>1 DEF ExportRecords, ExportPhases, ExportKinds
<1>5. export' = [export EXCEPT ![e] = new] BY <1>1, <1>2, <1>3
<1>6. /\ export' \in [Exports -> ExportRecords] /\ export'[e] = new
      /\ \A x \in Exports \ {e} : export'[x] = export[x]
  BY <1>t, <1>4, <1>5, ExportTo
<1>7. PICK s \in SUBSET (1 .. MaxEntries) : s = Audit!Range(log) /\ s = Elements(log)
  <2>1. log \in Seq(1 .. MaxEntries) /\ DOMAIN log = 1 .. Len(log) BY <1>t DEF AuditTypes
  <2>2. \A i \in 1 .. Len(log) : log[i] \in 1 .. MaxEntries BY <2>1, ElementOfSeq
  <2>3. Audit!Range(log) = Elements(log) BY <2>1 DEF Audit!Range, Elements
  <2>4. Elements(log) \in SUBSET (1 .. MaxEntries) BY <2>2 DEF Elements
  <2>q. QED BY <2>3, <2>4
<1>8. atStart' = [atStart EXCEPT ![e] = s] BY <1>7 DEF Audit!ExportLogs
<1>9. /\ atStart' \in [Exports -> SUBSET (1 .. MaxEntries)] /\ atStart'[e] = s
      /\ \A x \in Exports \ {e} : atStart'[x] = atStart[x]
  BY <1>t, <1>8 DEF AuditTypes
<1>10. AuditTypes' BY <1>t, <1>0, <1>6, <1>9 DEF AuditTypes
<1>11. ExportIs(e)'
  <2>1. Begins(none)
    <3>1. Len(log) \in Nat BY <1>t DEF AuditTypes
    <3>q. QED BY <1>2, <3>1 DEF Begins
  <2>q. QED BY <1>0, <1>4, <1>6, <1>7, <1>9, <2>1 DEF ExportIs, Begins, Elements
<1>q. QED BY <1>0, <1>6, <1>9, <1>10, <1>11, OneExport

\* A reading export that fails.
LEMMA DestroyedKept ==
  ASSUME AuditInv, NEW e \in Exports, Audit!Drop, export' = [export EXCEPT ![e].phase = "destroyed"], boot.up,
         reader' \in Nat, IF boot.pools = <<>> THEN reader' = 0 ELSE reader' < Len(boot.pools),
         UNCHANGED <<boot, inserting, log, applied, entries, atStart, straggled, lagging>>
  PROVE  AuditInv'
<1>t. AuditTypes BY DEF AuditInv
<1>1. PICK old \in ExportRecords : old = export[e] BY <1>t DEF AuditTypes
<1>2. PICK new : new = [old EXCEPT !.phase = "destroyed"] OBVIOUS
<1>3. new \in ExportRecords /\ new.phase = "destroyed" BY <1>2 DEF ExportRecords, ExportPhases
<1>4. export' = [export EXCEPT ![e] = new] BY <1>1, <1>2
<1>5. /\ export' \in [Exports -> ExportRecords] /\ export'[e] = new
      /\ \A x \in Exports \ {e} : export'[x] = export[x]
  BY <1>t, <1>3, <1>4, ExportTo
<1>6. AuditTypes' BY <1>t, <1>5, DropIs DEF AuditTypes
<1>7. ExportIs(e) BY DEF AuditInv
<1>8. ExportIs(e)' BY <1>3, <1>5, <1>7 DEF ExportIs, Elements
<1>q. QED BY <1>5, <1>6, <1>8, OneExport

LEMMA ReaderIs ==
  ASSUME AuditTypes, reader' = Audit!NextReader, UNCHANGED boot
  PROVE  reader' \in Nat /\ (IF boot.pools = <<>> THEN reader' = 0 ELSE reader' < Len(boot.pools))
<1>1. CASE boot.pools = <<>> BY <1>1 DEF AuditTypes, Audit!NextReader
<1>2. CASE boot.pools # <<>>
  <2>1. PICK pools \in Seq(Replicas) : pools = boot.pools /\ pools # <<>> BY <1>2 DEF AuditTypes, Boots
  <2>2. PICK n \in Nat \ {0} : n = Len(pools) BY <2>1, EmptySeq
  <2>3. reader + 1 \in Nat /\ reader' = (reader + 1) % n BY <1>2, <2>1, <2>2 DEF AuditTypes, Audit!NextReader
  <2>4. \A x \in Nat : x % n \in 0 .. (n - 1) OBVIOUS
  <2>q. QED BY <1>2, <2>1, <2>2, <2>3, <2>4
<1>q. QED BY <1>1, <1>2

\* A page goes on where the last one stopped. What is pushed then is still the beginning of the log;
\* if the page was short, all that the query answers has been pushed.
LEMMA PagePushed ==
  ASSUME AuditTypes, NEW e \in Exports, NEW m \in 0 .. Len(log), NEW shown, shown = FirstRows(m),
         NEW page, page = Audit!Page(e, shown), NEW all, all = export[e].pushed \o page
  PROVE  /\ page \in Seq(1 .. MaxEntries) /\ all \in Seq(1 .. MaxEntries)
         /\ Rising(log) /\ Begins(export[e].pushed) =>
              /\ Begins(all)
              /\ Audit!LastPage(page) => \A n \in shown : n <= export[e].until => n \in Elements(all)
<1>1. PICK old \in Seq(1 .. MaxEntries) : old = export[e].pushed BY DEF AuditTypes, ExportRecords
<1>2. PICK off \in Nat : off = Len(old) OBVIOUS
<1>3. PICK r : r = Audit!Matching(e, shown) OBVIOUS
<1>4. /\ r \in Seq(1 .. MaxEntries) /\ Elements(r) = {n \in shown : n <= export[e].until}
      /\ Rising(log) => \A i \in 1 .. Len(r) : i <= m /\ r[i] = log[i]
  BY <1>3, MatchingIs DEF QueryGives, BeginsLike
<1>5. page = Audit!Slice(r, off) BY <1>1, <1>2, <1>3 DEF Audit!Page
<1>s. PICK S : S = 1 .. MaxEntries OBVIOUS
<1>r. r \in Seq(S) /\ old \in Seq(S) BY <1>1, <1>4, <1>s
<1>6. /\ page \in Seq(S)
      /\ Len(page) = IF Len(r) <= off THEN 0 ELSE IF Len(r) < off + PageRows THEN Len(r) - off ELSE PageRows
      /\ \A i \in 1 .. Len(page) : off + i \in 1 .. Len(r) /\ page[i] = r[off + i]
  <2>1. page \in Seq(S) /\ IsSlice(page, r, off) BY <1>r, <1>2, <1>5, SliceIs
  <2>q. QED BY <2>1 DEF IsSlice
<1>7. PICK k \in Nat : k = Len(page) BY <1>6, LenProperties
<1>8. PICK a \in Nat : a = Len(r) BY <1>4
<1>9. PICK l \in Nat : l = Len(log) BY DEF AuditTypes
<1>10. /\ all \in Seq(S) /\ Len(all) = off + k
       /\ \A i \in 1 .. (off + k) : all[i] = IF i <= off THEN old[i] ELSE page[i - off]
  <2>1. all = old \o page BY <1>1
  <2>2. page \in Seq(S) BY <1>6
  <2>q. QED BY <1>r, <1>2, <1>7, <2>1, <2>2, ConcatProperties
<1>11. ASSUME Rising(log), Begins(old) PROVE Begins(all)
  <2>1. off <= l /\ \A i \in 1 .. off : old[i] = log[i] BY <1>2, <1>9, <1>11 DEF Begins
  <2>2. \A i \in 1 .. a : i <= m /\ r[i] = log[i] BY <1>4, <1>8, <1>11
  <2>3. \A i \in 1 .. k : off + i \in 1 .. a /\ page[i] = r[off + i] BY <1>6, <1>7, <1>8
  <2>4. off + k <= l
    <3>1. CASE k = 0 BY <2>1, <3>1
    <3>2. CASE k > 0
      <4>1. k \in 1 .. k BY <3>2
      <4>2. off + k \in 1 .. a BY <2>3, <4>1
      <4>3. off + k <= m BY <2>2, <4>2
      <4>q. QED BY <1>9, <4>3
    <3>q. QED BY <3>1, <3>2
  <2>5. ASSUME NEW i \in 1 .. (off + k) PROVE all[i] = log[i]
    <3>1. CASE i <= off
      <4>1. i \in 1 .. off BY <3>1
      <4>q. QED BY <1>10, <2>1, <3>1, <4>1
    <3>2. CASE ~(i <= off)
      <4>1. i - off \in 1 .. k /\ off + (i - off) = i BY <3>2
      <4>2. i \in 1 .. a /\ page[i - off] = r[i] BY <2>3, <4>1
      <4>q. QED BY <1>10, <2>2, <3>2, <4>2
    <3>q. QED BY <3>1, <3>2
  <2>q. QED BY <1>9, <1>10, <2>4, <2>5 DEF Begins
<1>12. ASSUME Rising(log), Begins(old), Audit!LastPage(page), NEW n \in shown, n <= export[e].until
       PROVE  n \in Elements(all)
  <2>1. PICK i \in 1 .. a : n = r[i] BY <1>4, <1>8, <1>12 DEF Elements
  <2>2. a <= off + k
    <3>1. k < PageRows BY <1>7, <1>12 DEF Audit!LastPage
    <3>2. k = IF a <= off THEN 0 ELSE IF a < off + PageRows THEN a - off ELSE PageRows BY <1>6, <1>7, <1>8
    <3>q. QED BY <3>1, <3>2
  <2>3. i \in 1 .. (off + k) BY <2>2
  <2>4. all[i] = n
    <3>1. CASE i <= off
      <4>1. i \in 1 .. off BY <3>1
      <4>2. old[i] = log[i] BY <1>2, <1>12, <4>1 DEF Begins
      <4>3. r[i] = log[i] BY <1>4, <1>8, <1>12
      <4>q. QED BY <1>10, <2>1, <2>3, <3>1, <4>2, <4>3
    <3>2. CASE ~(i <= off)
      <4>1. i - off \in 1 .. k /\ off + (i - off) = i BY <2>3, <3>2
      <4>2. page[i - off] = r[off + (i - off)] BY <1>6, <1>7, <4>1
      <4>q. QED BY <1>10, <2>1, <2>3, <3>2, <4>1, <4>2
    <3>q. QED BY <3>1, <3>2
  <2>q. QED BY <1>10, <2>3, <2>4 DEF Elements
<1>q. QED BY <1>1, <1>s, <1>6, <1>10, <1>11, <1>12

LEMMA ReadPageKept == ASSUME AuditInv, NEW e \in Exports, Audit!ReadPage(e) PROVE AuditInv'
<1>t. AuditTypes BY DEF AuditInv
<1>0. /\ export[e].phase = "reading" /\ export[e].kind = "paged" /\ reader' = Audit!NextReader
      /\ UNCHANGED <<boot, inserting, log, applied, entries, atStart, straggled>>
  BY DEF Audit!ReadPage
<1>1. boot.up BY <1>0 DEF AuditInv, NotYet
<1>2. reader' \in Nat /\ (IF boot.pools = <<>> THEN reader' = 0 ELSE reader' < Len(boot.pools)) BY <1>t, <1>0, ReaderIs
<1>3. CASE Audit!Drop /\ export' = [export EXCEPT ![e].phase = "destroyed"] /\ UNCHANGED lagging
  BY <1>0, <1>1, <1>2, <1>3, DestroyedKept
<1>4. ASSUME NEW page, page = Audit!Page(e, Audit!Visible),
             export' = [export EXCEPT ![e].pushed = @ \o page,
                                      ![e].phase = IF Audit!LastPage(page) THEN "ended" ELSE @],
             lagging' = lagging \cup (IF atStart[e] \subseteq Audit!Visible THEN {} ELSE {e}), UNCHANGED drops
      PROVE  AuditInv'
  <2>1. PICK m \in 0 .. Len(log) : Audit!Visible = FirstRows(m) BY <1>t, VisibleIs
  <2>2. PICK shown : shown = Audit!Visible OBVIOUS
  <2>3. PICK old \in ExportRecords : old = export[e] BY <1>t DEF AuditTypes
  <2>4. PICK all : all = old.pushed \o page OBVIOUS
  <2>5. /\ all \in Seq(1 .. MaxEntries)
        /\ Rising(log) /\ Begins(old.pushed) =>
             /\ Begins(all)
             /\ Audit!LastPage(page) => \A n \in shown : n <= old.until => n \in Elements(all)
    BY <1>t, <1>4, <2>1, <2>2, <2>3, <2>4, PagePushed
  <2>6. PICK f \in {"ended", "reading"} : f = IF Audit!LastPage(page) THEN "ended" ELSE "reading" OBVIOUS
  <2>7. PICK new : new = [old EXCEPT !.pushed = all, !.phase = f] OBVIOUS
  <2>8. /\ new \in ExportRecords /\ new.pushed = all /\ new.phase = f /\ new.kind = "paged"
        /\ new.until = old.until
    BY <1>0, <2>3, <2>5, <2>7 DEF ExportRecords, ExportPhases
  <2>9. export' = [export EXCEPT ![e] = new] BY <1>t, <1>0, <1>4, <2>3, <2>4, <2>6, <2>7 DEF AuditTypes
  <2>10. /\ export' \in [Exports -> ExportRecords] /\ export'[e] = new
         /\ \A x \in Exports \ {e} : export'[x] = export[x]
    BY <1>t, <2>8, <2>9, ExportTo
  <2>11. lagging' \subseteq Exports /\ lagging \subseteq lagging' BY <1>t, <1>4 DEF AuditTypes
  <2>12. AuditTypes' BY <1>t, <1>0, <1>2, <1>4, <2>10, <2>11 DEF AuditTypes
  <2>13. ~straggled => Rising(log) /\ Begins(old.pushed) BY <1>0, <2>3 DEF AuditInv, LogIs, ExportIs
  <2>14. ~straggled => Begins(all) BY <2>5, <2>13
  <2>15. ASSUME f = "ended", ~straggled, e \notin lagging'
         PROVE  \A n \in atStart[e] : n <= old.until => n \in Elements(all)
    <3>1. Audit!LastPage(page) BY <2>6, <2>15
    <3>2. atStart[e] \subseteq shown BY <1>4, <2>2, <2>15
    <3>q. QED BY <2>5, <2>13, <2>15, <3>1, <3>2
  <2>16. atStart[e] \subseteq Elements(log) BY DEF AuditInv, ExportIs
  <2>17. ExportIs(e)' BY <1>0, <2>8, <2>10, <2>14, <2>15, <2>16, SMTT(30) DEF ExportIs, Begins, Elements
  <2>q. QED BY <1>0, <1>1, <2>10, <2>11, <2>12, <2>17, OneExport
<1>5. PICK page : page = Audit!Page(e, Audit!Visible) OBVIOUS
<1>q. QED BY <1>3, <1>4, <1>5 DEF Audit!ReadPage

LEMMA ReadAllKept == ASSUME AuditInv, NEW e \in Exports, Audit!ReadAll(e) PROVE AuditInv'
<1>t. AuditTypes BY DEF AuditInv
<1>0. /\ export[e].phase = "reading" /\ export[e].kind = "snapshot"
      /\ UNCHANGED <<boot, inserting, log, applied, reader, entries, atStart, straggled, lagging>>
  BY DEF Audit!ReadAll
<1>1. boot.up BY <1>0 DEF AuditInv, NotYet
<1>2. reader' \in Nat /\ (IF boot.pools = <<>> THEN reader' = 0 ELSE reader' < Len(boot.pools))
  BY <1>t, <1>0 DEF AuditTypes
<1>3. CASE Audit!Drop /\ export' = [export EXCEPT ![e].phase = "destroyed"]
  BY <1>0, <1>1, <1>2, <1>3, DestroyedKept
<1>4. CASE /\ export' = [export EXCEPT ![e].pushed = Audit!Matching(e, Audit!Range(log)), ![e].phase = "ended"]
           /\ UNCHANGED drops
  <2>1. PICK m \in 0 .. Len(log) : m = Len(log) BY <1>t DEF AuditTypes
  <2>2. PICK shown : shown = Audit!Range(log) OBVIOUS
  <2>3. shown = FirstRows(m) /\ shown = Elements(log)
    <3>1. log \in Seq(1 .. MaxEntries) /\ DOMAIN log = 1 .. Len(log) BY <1>t DEF AuditTypes
    <3>2. shown = Elements(log) BY <2>2, <3>1 DEF Audit!Range, Elements
    <3>q. QED BY <2>1, <3>2 DEF Elements, FirstRows
  <2>4. PICK all : all = Audit!Matching(e, shown) OBVIOUS
  <2>5. PICK old \in ExportRecords : old = export[e] BY <1>t DEF AuditTypes
  <2>6. all \in Seq(1 .. MaxEntries) /\ Rising(all) /\ Elements(all) = {n \in shown : n <= old.until}
    <3>1. shown = FirstRows(m) BY <2>3
    <3>2. all \in Seq(1 .. MaxEntries) /\ Rising(all) /\ QueryGives(all, shown, export[e].until)
      BY <1>t, <2>4, <3>1, MatchingIs
    <3>q. QED BY <2>5, <3>2 DEF QueryGives
  <2>7. PICK new : new = [old EXCEPT !.pushed = all, !.phase = "ended"] OBVIOUS
  <2>8. /\ new \in ExportRecords /\ new.pushed = all /\ new.phase = "ended" /\ new.kind = "snapshot"
        /\ new.until = old.until
    BY <1>0, <2>5, <2>6, <2>7 DEF ExportRecords, ExportPhases
  <2>9. export' = [export EXCEPT ![e] = new] BY <1>t, <1>4, <2>2, <2>4, <2>5, <2>7 DEF AuditTypes
  <2>10. /\ export' \in [Exports -> ExportRecords] /\ export'[e] = new
         /\ \A x \in Exports \ {e} : export'[x] = export[x]
    BY <1>t, <2>8, <2>9, ExportTo
  <2>11. AuditTypes' BY <1>t, <1>0, <1>2, <1>4, <2>10 DEF AuditTypes
  <2>12. atStart[e] \subseteq Elements(log) BY DEF AuditInv, ExportIs
  <2>13. \A n \in atStart[e] : n <= old.until => n \in Elements(all) BY <2>3, <2>6, <2>12
  <2>14. ExportIs(e)' BY <1>0, <2>6, <2>8, <2>10, <2>12, <2>13, SMTT(30) DEF ExportIs, Elements, Rising
  <2>q. QED BY <1>0, <1>1, <2>10, <2>11, <2>14, OneExport
<1>q. QED BY <1>3, <1>4 DEF Audit!ReadAll

LEMMA ExportsKept == Audit!Spec => [](Audit!TypeOK /\ Audit!ExportsAreWhole)
<1>1. AuditInv /\ [Audit!Next]_(Audit!vars) => AuditInv'
  <2> SUFFICES ASSUME AuditInv, [Audit!Next]_(Audit!vars) PROVE AuditInv'
    OBVIOUS
  <2>1. CASE UNCHANGED Audit!vars
    BY <2>1 DEF Audit!vars, AuditInv, AuditTypes, LogIs, NotYet, ExportIs, Begins, Elements, Rising
  <2>2. CASE Audit!Next
    BY <2>2, ConnectFailsKept, ConnectKept, LogOperationKept, InsertKept, ReplicateKept, ExportLogsKept,
       ReadPageKept, ReadAllKept DEF Audit!Next
  <2>q. QED BY <2>1, <2>2
<1>2. AuditInv => Audit!TypeOK /\ Audit!ExportsAreWhole
  <2> SUFFICES ASSUME AuditInv PROVE Audit!TypeOK /\ Audit!ExportsAreWhole
    OBVIOUS
  <2>t. AuditTypes BY DEF AuditInv
  <2>1. Audit!TypeOK
    <3>1. \A r \in Replicas : applied[r] \in 0 .. Len(log)
      <4>1. Len(log) \in Nat BY <2>t DEF AuditTypes
      <4>q. QED BY <2>t, <4>1 DEF AuditTypes
    <3>2. \A e \in Exports :
            export[e] \in [phase : {"none", "reading", "ended", "destroyed"}, kind : {"paged", "snapshot"},
                           until : 0 .. MaxEntries, pushed : Seq(1 .. MaxEntries)]
      BY <2>t DEF AuditTypes, ExportRecords, ExportPhases, ExportKinds
    <3>q. QED BY <2>t, <3>1, <3>2 DEF AuditTypes, Boots, Audit!TypeOK, Audit!Entry
  <2>2. ASSUME NEW e \in Exports, export[e].phase = "ended",
               export[e].kind = "snapshot" \/ (~straggled /\ e \notin lagging)
        PROVE  /\ \A i, j \in DOMAIN export[e].pushed : i < j => export[e].pushed[i] < export[e].pushed[j]
               /\ {n \in atStart[e] : n <= export[e].until} \subseteq Audit!Range(export[e].pushed)
    <3>1. PICK old \in ExportRecords : old = export[e] BY <2>t DEF AuditTypes
    <3>2. PICK s \in Seq(1 .. MaxEntries) : s = old.pushed BY <3>1 DEF ExportRecords
    <3>3. ExportIs(e) BY DEF AuditInv
    <3>4. old.kind \in {"paged", "snapshot"} BY <3>1 DEF ExportRecords, ExportKinds
    <3>5. Rising(s)
      <4>1. CASE old.kind = "snapshot" BY <2>2, <3>1, <3>2, <3>3, <4>1 DEF ExportIs
      <4>2. CASE old.kind = "paged"
        <5>1. ~straggled /\ Begins(s) BY <2>2, <3>1, <3>2, <3>3, <4>2 DEF ExportIs
        <5>2. Rising(log) BY <5>1 DEF AuditInv, LogIs
        <5>3. PICK a \in Nat, l \in Nat : a = Len(s) /\ l = Len(log) /\ a <= l
          BY <2>t, <5>1 DEF AuditTypes, Begins
        <5>4. \A i \in 1 .. a : i \in 1 .. l /\ s[i] = log[i] BY <5>1, <5>3 DEF Begins
        <5>q. QED BY <5>2, <5>3, <5>4 DEF Rising
      <4>q. QED BY <3>4, <4>1, <4>2
    <3>6. DOMAIN s = 1 .. Len(s) OBVIOUS
    <3>7. \A n \in atStart[e] : n <= old.until => n \in Elements(s) BY <2>2, <3>1, <3>2, <3>3 DEF ExportIs
    <3>8. Audit!Range(s) = Elements(s) BY <3>6 DEF Audit!Range, Elements
    <3>q. QED BY <3>1, <3>2, <3>5, <3>6, <3>7, <3>8 DEF Rising
  <2>q. QED BY <2>1, <2>2 DEF Audit!ExportsAreWhole
<1>q. QED BY <1>1, <1>2, AuditStarts, PTL DEF Audit!Spec

----------------------------------------------------------------------------
(* The parts together. *)
HIDE AuditAssumption

(* Of Edge: profiles, scores, subscriptions, uploads, exports and cached copies keep    *)
(* what was confirmed, but for the overlaps that nothing in the code keeps apart; that  *)
(* the gig of an upload is still accepted, but where one was written over               *)
(* (UserProfileService, ReputationService, WebhookSubscriptionService,                  *)
(* DeliverableService, AuditService, CacheService).                                     *)
THEOREM RecordsStayAgreed == EdgeSpec => []RecordsAgree
<1>1. EdgeSpec => [](Prof!ProfilesAgree /\ Rep!ScoresAddUp)
  BY ProfilesAlone, ProfilesKept, ReputationAlone, ScoresKept, PTL
<1>2. EdgeSpec => [](Sub!SubscriptionsAgree /\ Upl!UploadsAreFound)
  BY SubscriptionsAlone, SubscriptionsKept, UploadsAlone, UploadsKept, PTL
<1>3. EdgeSpec => [](Audit!ExportsAreWhole /\ Cache!CacheIsCurrent)
  BY AuditAlone, ExportsKept, CacheAlone, CacheKept, PTL
<1>4. /\ Prof!ProfilesAgree /\ Rep!ScoresAddUp /\ Sub!SubscriptionsAgree /\ Upl!UploadsAreFound
      /\ Audit!ExportsAreWhole /\ Cache!CacheIsCurrent
      => RecordsAgree
  BY DEF RecordsAgree
<1>q. QED BY <1>1, <1>2, <1>3, <1>4, PTL
=============================================================================

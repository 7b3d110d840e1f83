---------------------------- MODULE SharedCache -----------------------------
(***************************************************************************)
(* CacheService: one key, cached in Redis and in a map of every instance    *)
(* that has lost Redis or not reached it yet. A miss fetches from the       *)
(* source and stores what it fetched; who changes the source invalidates    *)
(* the key afterwards. The source's value is its number of changes.         *)
(***************************************************************************)
EXTENDS Naturals, FiniteSets

CONSTANTS
  Servers,      \* instances
  Reads,        \* calls of getOrSet
  Place,        \* the instance each read or change is made at
  Changes,      \* calls that change the source and invalidate
  MaxErrors     \* bounds failing Redis calls

Empty == {}

VARIABLES
  source,       \* what fetchFn returns
  shared,       \* the key in Redis: {} or the value
  copies,       \* per instance: localCache
  link,         \* per instance: connecting, then redisAvailable until the first error
  get,          \* per read: phase and value
  change,       \* per change: phase
  errors,
  missed,       \* history: an invalidation did not reach Redis
  elsewhere,    \* history: instances that did not see a change that another one made
  overtaken     \* history: reads that fetched before a change and stored after it

vars == <<source, shared, copies, link, get, change, errors, missed, elsewhere, overtaken>>

NoGet == [phase |-> "new", value |-> Empty]
Init ==
  /\ source = 0 /\ shared = Empty /\ copies = [i \in Servers |-> Empty]
  /\ link = [i \in Servers |-> "connecting"] /\ get = [q \in Reads |-> NoGet]
  /\ change = [c \in Changes |-> "new"] /\ errors = 0 /\ missed = FALSE
  /\ elsewhere = {} /\ overtaken = {}

Error == errors < MaxErrors /\ errors' = errors + 1
Reachable(i) == link[i] = "up"
Turns(i, what) == link' = [link EXCEPT ![i] = what]
Lose(i) == Reachable(i) /\ Error /\ Turns(i, "down")
LinkSeenDown(i) ==
  \/ ~Reachable(i) /\ UNCHANGED <<link, errors>>
  \/ Lose(i)
Got(q, phase, value) == get' = [get EXCEPT ![q] = [phase |-> phase, value |-> value]]
Found(value) == IF value = Empty THEN "fetching" ELSE "over"

----------------------------------------------------------------------------
(* connect: until it is through, an instance works on its map; after an error, or  *)
(* an 'error' event of the client, for good.                                      *)
Connect(i) ==
  /\ link[i] = "connecting" /\ UNCHANGED <<source, shared, copies, get, change, missed, elsewhere, overtaken>>
  /\ \/ Turns(i, "up") /\ UNCHANGED errors
     \/ Error /\ Turns(i, "down")
ErrorEvent(i) ==
  /\ Lose(i) /\ UNCHANGED <<source, shared, copies, get, change, missed, elsewhere, overtaken>>

(* get: Redis, and on a miss or an error the map. *)
Get(q) ==
  LET i == Place[q] IN
  /\ get[q] = NoGet
  /\ \/ /\ Reachable(i) /\ shared # Empty /\ Got(q, "over", shared) /\ UNCHANGED <<link, errors>>
     \/ /\ Reachable(i) => shared = Empty
        /\ Got(q, Found(copies[i]), copies[i]) /\ UNCHANGED <<link, errors>>
     \/ /\ Lose(i) /\ Got(q, Found(copies[i]), copies[i])
  /\ UNCHANGED <<source, shared, copies, change, missed, elsewhere, overtaken>>

Fetch(q) ==
  /\ get[q].phase = "fetching" /\ Got(q, "storing", {source})
  /\ UNCHANGED <<source, shared, copies, link, change, errors, missed, elsewhere, overtaken>>

(* set: with an expiry that Redis and the reader of the map keep. A call that fails  *)
(* may have been carried out.                                                       *)
Store(q) ==
  LET i == Place[q] IN
  /\ get[q].phase = "storing" /\ Got(q, "over", get[q].value)
  /\ \/ Reachable(i) /\ shared' = get[q].value /\ UNCHANGED <<copies, link, errors>>
     \/ /\ LinkSeenDown(i) /\ shared' \in {shared, IF Reachable(i) THEN get[q].value ELSE shared}
        /\ copies' = [copies EXCEPT ![i] = get[q].value]
  /\ UNCHANGED <<source, change, missed, elsewhere, overtaken>>

Expire ==
  /\ \/ shared # Empty /\ shared' = Empty /\ UNCHANGED copies
     \/ \E i \in Servers : copies[i] # Empty /\ copies' = [copies EXCEPT ![i] = Empty] /\ UNCHANGED shared
  /\ UNCHANGED <<source, link, get, change, errors, missed, elsewhere, overtaken>>

Alter(c) ==
  /\ change[c] = "new" /\ change' = [change EXCEPT ![c] = "altered"] /\ source' = source + 1
  /\ overtaken' = overtaken \cup {q \in Reads : get[q].phase = "storing"}
  /\ elsewhere' = elsewhere \cup (Servers \ {Place[c]})
  /\ UNCHANGED <<shared, copies, link, get, errors, missed>>

\* Variant: an instance that has Redis leaves its map alone.
DroppedCopyIfDown(i) == IF Reachable(i) THEN copies ELSE [copies EXCEPT ![i] = Empty]
DroppedCopy(i) == [copies EXCEPT ![i] = Empty]
(* invalidate, invalidatePattern: the key in Redis if it can be reached, and in    *)
(* any case the map.                                                              *)
Invalidate(c) ==
  LET i == Place[c] IN
  /\ change[c] = "altered" /\ change' = [change EXCEPT ![c] = "over"] /\ copies' = DroppedCopy(i)
  /\ \/ Reachable(i) /\ shared' = Empty /\ UNCHANGED <<link, errors, missed>>
     \/ /\ LinkSeenDown(i) /\ missed' = TRUE
        /\ shared' \in {shared, IF Reachable(i) THEN Empty ELSE shared}
  /\ UNCHANGED <<source, get, elsewhere, overtaken>>

Next ==
  \/ \E i \in Servers : Connect(i) \/ ErrorEvent(i)
  \/ \E q \in Reads : Get(q) \/ Fetch(q) \/ Store(q)
  \/ \E c \in Changes : Alter(c) \/ Invalidate(c)
  \/ Expire

Spec == Init /\ [][Next]_vars

----------------------------------------------------------------------------
Values == {Empty} \cup {{n} : n \in 0 .. Cardinality(Changes)}
TypeOK ==
  /\ source \in 0 .. Cardinality(Changes) /\ shared \in Values /\ copies \in [Servers -> Values]
  /\ link \in [Servers -> {"connecting", "up", "down"}] /\ change \in [Changes -> {"new", "altered", "over"}]
  /\ get \in [Reads -> [phase : {"new", "fetching", "storing", "over"}, value : Values]]
  /\ errors \in 0 .. MaxErrors /\ missed \in BOOLEAN /\ elsewhere \subseteq Servers /\ overtaken \subseteq Reads

(* Once every change is invalidated nothing older is served from Redis, nor from   *)
(* the map of an instance that made all the changes; but for what a read fetched  *)
(* before a change and stored after it, and for Redis if an invalidation did not  *)
(* reach it (getOrSet, invalidate).                                               *)
CacheIsCurrent ==
  (\A c \in Changes : change[c] # "altered") /\ overtaken = {} =>
    /\ missed \/ shared \in {Empty, {source}}
    /\ \A i \in Servers \ elsewhere : copies[i] \in {Empty, {source}}
=============================================================================

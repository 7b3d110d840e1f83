------------------------------ MODULE Gateway ------------------------------
(***************************************************************************)
(* MilestoneNotificationsGateway: the outbox publishes an event on a Redis  *)
(* channel, every instance gets it, and the one whose EventDedupService     *)
(* claims it emits it to its own sockets in the gig's room. Sockets come    *)
(* and go, an instance drains, claims expire and Redis may fail.            *)
(***************************************************************************)
EXTENDS Naturals, Sequences, FiniteSets

CONSTANTS
  Updates,       \* 1..n, events in the order of their first publication
  GigOf,         \* the gig of each
  Sockets,
  Replica,       \* the instance a socket connects to
  MaxPublished,  \* bounds the publications, repeated ones included
  MaxRooms,      \* WS_MAX_ROOMS_PER_CLIENT
  MaxLapses      \* bounds Redis failures, expiries and disconnections

Hosts == {Replica[s] : s \in Sockets}
Gigs == {GigOf[u] : u \in Updates}

VARIABLES
  published,     \* how many events the outbox has published for the first time
  publications,
  inbox,         \* per instance: the queue of promises, in order
  deciding,      \* per instance: whether the head of the queue awaits its claim, and the answer
  claims,        \* gateway:event-dedup:<key>
  local,         \* per instance: the events of its own cache
  connected, rooms, told,  \* sockets in `clients`, their rooms, those sent server:shutdown
  draining,      \* per instance: "no", "told", or "done"
  lapses,
  heard,         \* history: per socket, what it was sent
  emitted,       \* history: how many instances emitted each event
  loose          \* history: events whose claim expired or met a Redis error

socketVars == <<connected, rooms, told, draining>>
dedupVars == <<claims, local, emitted, loose>>
vars == <<published, publications, inbox, deciding, lapses, heard, socketVars, dedupVars>>

Init ==
  /\ published = 0 /\ publications = 0
  /\ inbox = [h \in Hosts |-> <<>>] /\ deciding = [h \in Hosts |-> "no"]
  /\ claims = {} /\ local = [h \in Hosts |-> {}]
  /\ connected = {} /\ rooms = [s \in Sockets |-> {}] /\ told = {}
  /\ draining = [h \in Hosts |-> "no"] /\ lapses = 0
  /\ heard = [s \in Sockets |-> <<>>] /\ emitted = [u \in Updates |-> 0] /\ loose = {}

Lapse == lapses < MaxLapses /\ lapses' = lapses + 1
On(h) == {s \in connected : Replica[s] = h}

----------------------------------------------------------------------------
(* OutboxPublisherService.publish, of the next event or of an earlier one again: *)
(* the outbox delivers at least once. handleOutboxMessage queues it everywhere.  *)
Publish(u) ==
  /\ publications < MaxPublished /\ publications' = publications + 1
  /\ u <= published + 1 /\ published' = IF u > published THEN u ELSE published
  /\ inbox' = [h \in Hosts |-> Append(inbox[h], u)]
  /\ UNCHANGED <<deciding, lapses, heard, socketVars, dedupVars>>

\* Variant: the handlers of two messages run side by side.
TakeAny(h) == {i \in DOMAIN inbox[h] : TRUE}
\* The queue of promises: a message is handled when the one before it is over.
Take(h) == {i \in DOMAIN inbox[h] : i = 1}

\* Variant: the claim is not exclusive.
SetShared(u, won) == claims' = claims \cup {u} /\ won = TRUE
\* SET NX EX in Redis.
SetNX(u, won) == claims' = claims \cup {u} /\ won = (u \notin claims)

Emit(h, u) ==
  IF draining[h] # "no" THEN UNCHANGED <<heard, emitted>>
  ELSE /\ heard' = [s \in Sockets |->
                      IF s \in On(h) /\ GigOf[u] \in rooms[s] THEN Append(heard[s], u) ELSE heard[s]]
       /\ emitted' = [emitted EXCEPT ![u] = @ + 1]

(* claim, up to its await: the local cache first, then Redis, or no answer. *)
Claim(h) ==
  /\ deciding[h] = "no"
  /\ \E i \in Take(h) :
       LET u == inbox[h][i]
           rest == SubSeq(inbox[h], 1, i - 1) \o SubSeq(inbox[h], i + 1, Len(inbox[h])) IN
       /\ IF u \in local[h]
          THEN inbox' = [inbox EXCEPT ![h] = rest] /\ UNCHANGED <<deciding, claims, loose, lapses>>
          ELSE /\ inbox' = [inbox EXCEPT ![h] = <<u>> \o rest]
               /\ \E won \in BOOLEAN :
                    \/ /\ SetNX(u, won) /\ deciding' = [deciding EXCEPT ![h] = IF won THEN "won" ELSE "lost"]
                       /\ UNCHANGED <<loose, lapses>>
                    \/ /\ Lapse /\ deciding' = [deciding EXCEPT ![h] = "won"]
                       /\ loose' = loose \cup {u} /\ claims' \in {claims, claims \cup {u}}
  /\ UNCHANGED <<published, publications, heard, local, emitted, socketVars>>

(* The answer: emit and remember, or drop. *)
Answer(h) ==
  /\ deciding[h] # "no"
  /\ LET u == Head(inbox[h]) IN
       IF deciding[h] = "won" THEN local' = [local EXCEPT ![h] = @ \cup {u}] /\ Emit(h, u)
       ELSE UNCHANGED <<local, heard, emitted>>
  /\ inbox' = [inbox EXCEPT ![h] = Tail(@)] /\ deciding' = [deciding EXCEPT ![h] = "no"]
  /\ UNCHANGED <<published, publications, lapses, claims, loose, socketVars>>

\* 10 s after the claim; the local entry, made a little later, goes with it.
ClaimExpires(u) ==
  /\ u \in claims /\ Lapse /\ claims' = claims \ {u} /\ loose' = loose \cup {u}
  /\ local' = [h \in Hosts |-> local[h] \ {u}]
  /\ UNCHANGED <<published, publications, inbox, deciding, heard, emitted, socketVars>>

----------------------------------------------------------------------------
\* Variant: the gateway does not look at draining.
Welcome(s) == connected' = connected \cup {s} /\ UNCHANGED told
(* handleConnection: refused, and told why, while the instance drains. *)
Admit(s) == IF draining[Replica[s]] # "no" THEN told' = told \cup {s} /\ UNCHANGED connected
            ELSE connected' = connected \cup {s} /\ UNCHANGED told
Connect(s) ==
  /\ s \notin connected /\ s \notin told /\ heard[s] = <<>> /\ Admit(s)
  /\ UNCHANGED <<published, publications, inbox, deciding, lapses, heard, dedupVars, rooms, draining>>
\* handleDisconnect; a client that comes back is another socket.
Disconnect(s) ==
  /\ s \in connected /\ Lapse /\ connected' = connected \ {s}
  /\ rooms' = [rooms EXCEPT ![s] = {}]
  /\ UNCHANGED <<published, publications, inbox, deciding, heard, dedupVars, told, draining>>
(* handleSubscribeGig, handleUnsubscribeGig. *)
Subscribe(s, g) ==
  /\ s \in connected /\ g \notin rooms[s] /\ Cardinality(rooms[s]) < MaxRooms
  /\ rooms' = [rooms EXCEPT ![s] = @ \cup {g}]
  /\ UNCHANGED <<published, publications, inbox, deciding, lapses, heard, dedupVars, connected, told, draining>>
Unsubscribe(s, g) ==
  /\ s \in connected /\ g \in rooms[s] /\ rooms' = [rooms EXCEPT ![s] = @ \ {g}]
  /\ UNCHANGED <<published, publications, inbox, deciding, lapses, heard, dedupVars, connected, told, draining>>

(* drainClients: everybody is told, the loop gets a turn, everybody is closed. *)
DrainClients(h) ==
  /\ draining[h] = "no"
  /\ draining' = [draining EXCEPT ![h] = IF On(h) = {} THEN "done" ELSE "told"]
  /\ told' = told \cup On(h)
  /\ UNCHANGED <<published, publications, inbox, deciding, lapses, heard, dedupVars, connected, rooms>>
CloseClients(h) ==
  /\ draining[h] = "told" /\ draining' = [draining EXCEPT ![h] = "done"]
  /\ connected' = connected \ On(h)
  /\ rooms' = [s \in Sockets |-> IF s \in On(h) THEN {} ELSE rooms[s]]
  /\ UNCHANGED <<published, publications, inbox, deciding, lapses, heard, dedupVars, told>>

Next ==
  \/ \E u \in Updates : Publish(u) \/ ClaimExpires(u)
  \/ \E h \in Hosts : Claim(h) \/ Answer(h) \/ DrainClients(h) \/ CloseClients(h)
  \/ \E s \in Sockets : Connect(s) \/ Disconnect(s)
  \/ \E s \in Sockets, g \in Gigs : Subscribe(s, g) \/ Unsubscribe(s, g)

Spec == Init /\ [][Next]_vars

----------------------------------------------------------------------------
TypeOK ==
  /\ published \in {0} \cup Updates /\ publications \in 0 .. MaxPublished
  /\ inbox \in [Hosts -> Seq(Updates)] /\ deciding \in [Hosts -> {"no", "won", "lost"}]
  /\ claims \subseteq Updates /\ local \in [Hosts -> SUBSET Updates]
  /\ connected \subseteq Sockets /\ rooms \in [Sockets -> SUBSET Gigs] /\ told \subseteq Sockets
  /\ draining \in [Hosts -> {"no", "told", "done"}] /\ lapses \in 0 .. MaxLapses
  /\ heard \in [Sockets -> Seq(Updates)] /\ emitted \in [Updates -> Nat] /\ loose \subseteq Updates

(* An event is emitted by one instance, however often it is published, or by more *)
(* if its claim expired or met a Redis error, and by none only where an instance *)
(* drains (claim, #646). No socket is sent a later event of a gig before an      *)
(* earlier one (the queue of handleOutboxMessage).                               *)
Idle == \A h \in Hosts : inbox[h] = <<>> /\ draining[h] = "no"
BroadcastOnceInOrder ==
  /\ \A u \in Updates \ loose : emitted[u] <= 1
  /\ Idle => \A u \in 1 .. published : emitted[u] >= 1
  /\ \A s \in Sockets : \A i, j \in DOMAIN heard[s] :
       i < j /\ heard[s][i] > heard[s][j] => heard[s][j] \in loose

(* No socket is closed by a drain before it was told, nor left open by one,       *)
(* whenever it connects (drainClients, handleConnection).                        *)
DrainReachesAll ==
  \A s \in connected : /\ draining[Replica[s]] # "done"
                       /\ draining[Replica[s]] = "told" => s \in told
=============================================================================

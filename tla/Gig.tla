-------------------------------- MODULE Gig --------------------------------
(***************************************************************************)
(* GigService: gigs in Redis under optimistic concurrency. Each mutation    *)
(* WATCHes its key, reads, checks its guard and writes with MULTI/EXEC, up  *)
(* to three times. But WATCH belongs to the connection, and every request   *)
(* of an instance, and every other service, uses the same one: any EXEC or  *)
(* UNWATCH on it ends the watches of all.                                   *)
(*                                                                         *)
(* Of a gig the model keeps its status and what the expiry index says of    *)
(* its deadline. The search cache is one page, that of the open gigs.       *)
(***************************************************************************)
EXTENDS Naturals, FiniteSets

CONSTANTS
  Gigs, NoGig, Requests, Instances,
  Host,        \* the instance that serves each request
  Started,     \* gigs that may be open from the start
  MaxRetries,  \* 3 in mutateWithRetry
  MaxCalls,    \* bounds the calls
  MaxFailures  \* bounds the failed Redis commands and the crashes

Statuses == {"none", "open", "accepted", "cancelled", "expired"}
Resolving == {"accept", "cancel", "expire"}
Mutations == Resolving \cup {"update", "remove"}
Ops == Mutations \cup {"create", "search", "none"}
Phases == {"idle", "watch", "read", "exec", "unwatch", "append", "members", "drop",
           "find", "rows", "set", "add"}
NoPage == {NoGig}   \* the key is not there; a page is a set of gigs

ASSUME GigAssumption ==
  /\ NoGig \notin Gigs /\ Started \subseteq Gigs /\ Host \in [Requests -> Instances]
  /\ MaxRetries \in Nat \ {0} /\ MaxCalls \in Nat /\ MaxFailures \in Nat

\* What each mutation leaves in the row, and the rows its guard lets pass.
Target == [accept |-> "accepted", cancel |-> "cancelled", expire |-> "expired",
           update |-> "open", remove |-> "none", create |-> "open"]
Allowed == [accept |-> {"open"}, cancel |-> {"open"}, expire |-> {"open"}, update |-> {"open"},
            remove |-> {"open", "cancelled", "expired"}]
HasEvent(o) == o \in Resolving \cup {"create"}

VARIABLES
  gigs,        \* gig:<id>: the status, "none" when there is no such key
  listing,     \* gigs:index: the gigs findAll looks up
  index,       \* gigs:open:respondBy: "out", "waiting", or "due" once the deadline passed
  memory,      \* per instance: the fallback map
  events,      \* per gig and kind: events in the outbox
  watched, dirty,      \* per connection: the keys watched; has one of them changed?
  cache, cached,       \* the page; is its key in the set of cached keys?
  step, op, target, tries, \* per request: phase, operation, gig, attempt
  stored,      \* per request: was its event stored by an EXEC that seemed to fail?
  again,       \* per request: does another attempt follow the unwatch?
  page,        \* per request: the ids, then the page a search found
  calls, failures,
  unguarded,   \* history: gigs in hand when something else ended the watch on them
  faulted,     \* history: gigs some EXEC on which failed
  halved,      \* history: gigs of which the last EXEC applied left row or index undone
  overtaken    \* history: did a mutation overtake a search, or miss its invalidation?

storeVars == <<gigs, listing, index, events, halved>>
redisVars == <<storeVars, memory>>
watchVars == <<watched, dirty, unguarded>>
cacheVars == <<cache, cached, overtaken>>
callVars  == <<step, op, target, tries, stored, again, page>>
gigVars   == <<redisVars, watchVars, cacheVars, callVars, calls, failures, faulted>>

GigInit ==
  /\ \E S \in SUBSET Started :
       /\ gigs = [g \in Gigs |-> IF g \in S THEN "open" ELSE "none"]
       /\ index = [g \in Gigs |-> IF g \in S THEN "waiting" ELSE "out"]
       /\ listing = S
       /\ events = [g \in Gigs |-> [o \in Resolving \cup {"create"} |->
                      IF g \in S /\ o = "create" THEN 1 ELSE 0]]
  /\ memory = [i \in Instances |-> [g \in Gigs |-> "none"]]
  /\ watched = [i \in Instances |-> {}] /\ dirty = [i \in Instances |-> FALSE]
  /\ cache = NoPage /\ cached = FALSE
  /\ step = [q \in Requests |-> "idle"] /\ op = [q \in Requests |-> "none"]
  /\ target = [q \in Requests |-> NoGig] /\ tries = [q \in Requests |-> 0]
  /\ stored = [q \in Requests |-> FALSE] /\ again = [q \in Requests |-> FALSE]
  /\ page = [q \in Requests |-> NoPage]
  /\ calls = 0 /\ failures = 0
  /\ unguarded = {} /\ faulted = {} /\ halved = {} /\ overtaken = FALSE

----------------------------------------------------------------------------
OpenGigs == {g \in Gigs : gigs[g] = "open"}
ListedOpen == OpenGigs \cap listing
Fails == failures < MaxFailures /\ failures' = failures + 1
Goto(q, phase) == step' = [step EXCEPT ![q] = phase]

Start(q, o, g, phase) ==
  /\ step[q] = "idle" /\ Goto(q, phase)
  /\ op' = [op EXCEPT ![q] = o]
  /\ target' = [target EXCEPT ![q] = g]
  /\ tries' = [tries EXCEPT ![q] = 1]
  /\ UNCHANGED <<stored, again, page>>

Finish(q) ==
  /\ Goto(q, "idle")
  /\ op' = [op EXCEPT ![q] = "none"]
  /\ target' = [target EXCEPT ![q] = NoGig]
  /\ tries' = [tries EXCEPT ![q] = 0]
  /\ stored' = [stored EXCEPT ![q] = FALSE]
  /\ again' = [again EXCEPT ![q] = FALSE]
  /\ page' = [page EXCEPT ![q] = NoPage]

\* The gigs other requests on q's connection have in hand between WATCH and EXEC.
Beside(q) ==
  {target[p] : p \in {p \in Requests \ {q} : Host[p] = Host[q] /\ step[p] \in {"read", "exec"}}}

\* EXEC and UNWATCH end every watch of the connection.
EndWatches(q) ==
  /\ watched' = [watched EXCEPT ![Host[q]] = {}]
  /\ unguarded' = unguarded \cup Beside(q)

----------------------------------------------------------------------------
(* mutateWithRetry. *)

Mutate(q, o, g) ==
  /\ Start(q, o, g, "watch")
  /\ UNCHANGED <<redisVars, watchVars, cacheVars, failures, faulted>>

\* A WATCH that fails is logged, and the mutation goes on without it.
Watch(q) ==
  /\ step[q] = "watch" /\ Goto(q, "read")
  /\ \/ watched' = [watched EXCEPT ![Host[q]] = @ \cup {target[q]}]
        /\ UNCHANGED <<unguarded, failures>>
     \/ Fails /\ unguarded' = unguarded \cup {target[q]} /\ UNCHANGED watched
  /\ UNCHANGED <<redisVars, dirty, cacheVars, op, target, tries, stored, again, page, calls, faulted>>

\* tryFindById and the guard. A refusal ends with UNWATCH; only an expire that finds the
\* gig resolved returns without it.
Read(q) ==
  /\ step[q] = "read"
  /\ \E d \in BOOLEAN :
       LET s == IF d THEN memory[Host[q]][target[q]] ELSE gigs[target[q]] IN
       /\ IF d THEN Fails /\ unguarded' = unguarded \cup {target[q]}
               ELSE UNCHANGED <<failures, unguarded>>
       /\ \/ s \in Allowed[op[q]] /\ Goto(q, "exec")
             /\ UNCHANGED <<op, target, tries, stored, again, page>>
          \/ s \notin Allowed[op[q]] /\ (s = "none" \/ op[q] # "expire") /\ Goto(q, "unwatch")
             /\ UNCHANGED <<op, target, tries, stored, again, page>>
          \/ s \notin Allowed[op[q]] /\ s # "none" /\ op[q] = "expire" /\ Finish(q)
  /\ UNCHANGED <<redisVars, watched, dirty, cacheVars, calls, faulted>>

Unwatch(q) ==
  /\ step[q] = "unwatch"
  /\ EndWatches(q) /\ dirty' = [dirty EXCEPT ![Host[q]] = FALSE]
  /\ IF again[q]
     THEN /\ Goto(q, "watch") /\ tries' = [tries EXCEPT ![q] = @ + 1]
          /\ again' = [again EXCEPT ![q] = FALSE] /\ UNCHANGED <<op, target, stored, page>>
     ELSE Finish(q)
  /\ UNCHANGED <<redisVars, cacheVars, calls, failures, faulted>>

\* Variant: counts from zero.
RetryOnceMore(q) ==
  /\ Goto(q, "unwatch") /\ again' = [again EXCEPT ![q] = tries[q] <= MaxRetries]
  /\ UNCHANGED <<op, target, tries, stored, page>>

Retry(q) ==
  /\ Goto(q, "unwatch") /\ again' = [again EXCEPT ![q] = tries[q] < MaxRetries]
  /\ UNCHANGED <<op, target, tries, stored, page>>

----------------------------------------------------------------------------
(* The MULTIs of create, persistResolved, persistGig and remove. *)

RowWritten(q) == gigs' = [gigs EXCEPT ![target[q]] = Target[op[q]]]

\* Variant: a gig that leaves the open status stays in the index.
IndexWrittenLate(q) == index' = IF op[q] = "update" THEN [index EXCEPT ![target[q]] = "waiting"] ELSE index

\* update and create write the new deadline; whatever closes the gig drops it.
IndexWritten(q) ==
  index' = [index EXCEPT ![target[q]] = IF Target[op[q]] = "open" THEN "waiting" ELSE "out"]

ListWritten(q) ==
  listing' = CASE op[q] = "create" -> listing \cup {target[q]}
               [] op[q] = "remove" -> listing \ {target[q]}
               [] OTHER -> listing

EventWritten(q) ==
  events' = IF HasEvent(op[q]) THEN [events EXCEPT ![target[q]][op[q]] = @ + 1] ELSE events

\* Every connection that watches the key but the writer's own, whose watches end.
Dirtied(q) ==
  dirty' = [i \in Instances |-> i # Host[q] /\ (dirty[i] \/ target[q] \in watched[i])]

\* The whole transaction.
Written(q) ==
  /\ RowWritten(q) /\ IndexWritten(q) /\ ListWritten(q) /\ EventWritten(q)
  /\ halved' = halved \ {target[q]}

\* The page a search has in hand, or the ids it has read, do not know of this write.
Overtakes ==
  overtaken' = (overtaken \/ \E p \in Requests :
                  step[p] \in {"set", "add"} \/ (step[p] = "rows" /\ listing' # listing))

\* Variant: EXEC applies whatever happened to the keys watched.
ExecAlways(q) ==
  /\ step[q] = "exec"
  /\ Written(q)
  /\ EndWatches(q) /\ Dirtied(q) /\ Overtakes
  /\ Goto(q, "members")
  /\ UNCHANGED <<memory, cache, cached, op, target, tries, stored, again, page, calls, failures, faulted>>

Exec(q) ==
  /\ step[q] = "exec" /\ ~dirty[Host[q]]
  /\ Written(q)
  /\ EndWatches(q) /\ Dirtied(q) /\ Overtakes
  /\ Goto(q, "members")
  /\ UNCHANGED <<memory, cache, cached, op, target, tries, stored, again, page, calls, failures, faulted>>

\* EXEC returned null. create, alone, takes that for an outage and keeps the gig in memory.
ExecAborted(q) ==
  /\ step[q] = "exec" /\ dirty[Host[q]]
  /\ EndWatches(q) /\ dirty' = [dirty EXCEPT ![Host[q]] = FALSE]
  /\ IF op[q] = "create"
     THEN /\ memory' = [memory EXCEPT ![Host[q]][target[q]] = "open"]
          /\ Goto(q, "append") /\ UNCHANGED <<op, target, tries, stored, again, page>>
     ELSE Retry(q) /\ UNCHANGED memory
  /\ UNCHANGED <<storeVars, cacheVars, calls, failures, faulted>>

\* One command of the transaction failed, the others stay applied.
ExecPartial(q) ==
  /\ step[q] = "exec" /\ ~dirty[Host[q]] /\ Fails
  /\ \/ RowWritten(q) /\ IndexWritten(q) /\ halved' = halved \ {target[q]}
     \/ UNCHANGED <<gigs, index, halved>>
     \/ /\ (RowWritten(q) /\ UNCHANGED index) \/ (IndexWritten(q) /\ UNCHANGED gigs)
        /\ halved' = halved \cup {target[q]}
  /\ ListWritten(q) \/ UNCHANGED listing
  /\ EventWritten(q) \/ UNCHANGED events
  /\ EndWatches(q) /\ Dirtied(q) /\ overtaken' = TRUE
  /\ faulted' = faulted \cup {target[q]}
  /\ IF op[q] = "create"
     THEN /\ memory' = [memory EXCEPT ![Host[q]][target[q]] = "open"]
          /\ stored' = [stored EXCEPT ![q] = events' # events]
          /\ Goto(q, "append") /\ UNCHANGED <<op, target, tries, again, page>>
     ELSE Retry(q) /\ UNCHANGED memory
  /\ UNCHANGED <<cache, cached, calls>>

\* The connection failed, before or after Redis applied the transaction.
ExecFails(q) ==
  /\ step[q] = "exec" /\ Fails
  /\ \/ ~dirty[Host[q]] /\ Written(q) /\ Dirtied(q) /\ EndWatches(q)
     \/ UNCHANGED <<storeVars, watchVars>>
  /\ memory' = [memory EXCEPT ![Host[q]][target[q]] = Target[op[q]]]
  /\ stored' = [stored EXCEPT ![q] = events' # events]
  /\ faulted' = faulted \cup {target[q]} /\ Overtakes
  /\ Goto(q, IF HasEvent(op[q]) THEN "append" ELSE "members")
  /\ UNCHANGED <<cache, cached, op, target, tries, again, page, calls>>

\* outbox.append by itself; the same event a second time replaces the first.
Append(q) ==
  /\ step[q] = "append"
  /\ IF stored[q] THEN UNCHANGED events ELSE EventWritten(q)
  /\ Goto(q, "members")
  /\ UNCHANGED <<gigs, listing, index, halved, memory, watchVars, cacheVars, op, target, tries, stored,
                 again, page, calls, failures, faulted>>

----------------------------------------------------------------------------
(* The search cache. *)

Search(q) ==
  /\ Start(q, "search", NoGig, "find") /\ cache = NoPage
  /\ UNCHANGED <<redisVars, watchVars, cacheVars, failures, faulted>>

\* findAll: the ids, then fetchMany of their rows; the instance's own map if either fails.
FindAll(q) ==
  /\ \/ /\ step[q] = "find" /\ Goto(q, "rows")
        /\ page' = [page EXCEPT ![q] = listing] /\ UNCHANGED <<overtaken, failures>>
     \/ /\ step[q] = "rows" /\ Goto(q, "set")
        /\ page' = [page EXCEPT ![q] = @ \cap OpenGigs] /\ UNCHANGED <<overtaken, failures>>
     \/ /\ step[q] \in {"find", "rows"} /\ Goto(q, "set")
        /\ page' = [page EXCEPT ![q] = {g \in Gigs : memory[Host[q]][g] = "open"}]
        /\ Fails /\ overtaken' = TRUE
  /\ UNCHANGED <<redisVars, watchVars, cache, cached, op, target, tries, stored, again, calls, faulted>>

\* writeSearchCache: SET, then SADD to the set of cached keys. A command that fails is logged.
CacheSet(q) ==
  /\ step[q] = "set"
  /\ \/ /\ cache' = page[q] /\ Goto(q, "add")
        /\ UNCHANGED <<failures, op, target, tries, stored, again, page>>
     \/ Fails /\ Finish(q) /\ UNCHANGED cache
  /\ UNCHANGED <<redisVars, watchVars, cached, overtaken, calls, faulted>>

CacheAdd(q) ==
  /\ step[q] = "add" /\ Finish(q)
  /\ \/ cached' = TRUE /\ UNCHANGED <<overtaken, failures>>
     \/ Fails /\ overtaken' = TRUE /\ UNCHANGED cached
  /\ UNCHANGED <<redisVars, watchVars, cache, calls, faulted>>

\* Variant: an expiry does not invalidate the pages.
MembersUnlessExpired(q) ==
  /\ step[q] = "members"
  /\ IF cached /\ op[q] # "expire"
     THEN Goto(q, "drop") /\ UNCHANGED <<op, target, tries, stored, again, page>>
     ELSE Finish(q)
  /\ UNCHANGED <<redisVars, watchVars, cacheVars, calls, failures, faulted>>

\* invalidateSearchCache: SMEMBERS, and DEL of what it found with the set itself.
Members(q) ==
  /\ step[q] = "members"
  /\ \/ /\ IF cached THEN Goto(q, "drop") /\ UNCHANGED <<op, target, tries, stored, again, page>>
                     ELSE Finish(q)
        /\ UNCHANGED <<overtaken, failures>>
     \/ Fails /\ overtaken' = TRUE /\ Finish(q)
  /\ UNCHANGED <<redisVars, watchVars, cache, cached, calls, faulted>>

Drop(q) ==
  /\ step[q] = "drop" /\ Finish(q)
  /\ \/ cache' = NoPage /\ cached' = FALSE /\ UNCHANGED <<overtaken, failures>>
     \/ Fails /\ overtaken' = TRUE /\ UNCHANGED <<cache, cached>>
  /\ UNCHANGED <<redisVars, watchVars, calls, faulted>>

PageExpires ==
  /\ cache # NoPage /\ cache' = NoPage
  /\ UNCHANGED <<redisVars, watchVars, cached, overtaken, callVars, calls, failures, faulted>>

----------------------------------------------------------------------------
\* create: a new id, and no watch.
Create(q, g) ==
  /\ gigs[g] = "none" /\ events[g]["create"] = 0
  /\ \A p \in Requests : target[p] # g
  /\ \A i \in Instances : memory[i][g] = "none"
  /\ Start(q, "create", g, "exec")
  /\ UNCHANGED <<redisVars, watchVars, cacheVars, failures, faulted>>

Call(q) ==
  /\ calls < MaxCalls /\ calls' = calls + 1
  /\ \/ Search(q)
     \/ \E g \in Gigs : Create(q, g) \/ \E o \in Mutations \ {"expire"} : Mutate(q, o, g)

\* A deadline passes.
Deadline(g) ==
  /\ index[g] = "waiting" /\ index' = [index EXCEPT ![g] = "due"]
  /\ UNCHANGED <<gigs, listing, halved, memory, events, watchVars, cacheVars, callVars, calls, failures,
                 faulted>>

\* An EXEC of another service on the same connection.
OtherExec(i) ==
  /\ watched[i] # {}
  /\ watched' = [watched EXCEPT ![i] = {}] /\ dirty' = [dirty EXCEPT ![i] = FALSE]
  /\ unguarded' = unguarded \cup
       {target[p] : p \in {p \in Requests : Host[p] = i /\ step[p] \in {"read", "exec"}}}
  /\ UNCHANGED <<redisVars, cacheVars, callVars, calls, failures, faulted>>

Proceed(q) ==
  \/ Watch(q) \/ Read(q) \/ Unwatch(q)
  \/ Exec(q) \/ ExecAborted(q) \/ ExecPartial(q) \/ ExecFails(q) \/ Append(q)
  \/ FindAll(q) \/ CacheSet(q) \/ CacheAdd(q) \/ Members(q) \/ Drop(q)

----------------------------------------------------------------------------
GigTypeOK ==
  /\ gigs \in [Gigs -> Statuses] /\ listing \subseteq Gigs /\ index \in [Gigs -> {"out", "waiting", "due"}]
  /\ memory \in [Instances -> [Gigs -> Statuses]]
  /\ events \in [Gigs -> [Resolving \cup {"create"} -> Nat]]
  /\ watched \in [Instances -> SUBSET Gigs] /\ dirty \in [Instances -> BOOLEAN]
  /\ \A i \in Instances : dirty[i] => watched[i] # {}
  /\ cache \subseteq Gigs \/ cache = NoPage
  /\ cached \in BOOLEAN /\ overtaken \in BOOLEAN
  /\ step \in [Requests -> Phases] /\ op \in [Requests -> Ops]
  /\ target \in [Requests -> Gigs \cup {NoGig}] /\ tries \in [Requests -> 0..MaxRetries]
  /\ stored \in [Requests -> BOOLEAN] /\ again \in [Requests -> BOOLEAN]
  /\ \A q \in Requests : page[q] \subseteq Gigs \/ page[q] = NoPage
  /\ calls \in 0..MaxCalls /\ failures \in 0..MaxFailures
  /\ unguarded \subseteq Gigs /\ faulted \subseteq Gigs /\ halved \subseteq Gigs

Resolutions(g) == events[g]["accept"] + events[g]["cancel"] + events[g]["expire"]

\* A gig is accepted, cancelled or expired once and once only: its event is published once,
\* and a resolved gig never opens again. (Guards of accept, cancel and expire, "no-op if it
\* was already resolved by the time the sweep reached it".)
ResolvedOnce ==
  \A g \in Gigs \ faulted :
    Resolutions(g) <= 1 /\ (gigs[g] = "open" => Resolutions(g) = 0)

\* The same as long as nothing else on the connection ended the watch of a request that had
\* the gig in hand. (WATCH, the guards and the abort of EXEC.)
ResolvedOnceIfWatched ==
  \A g \in Gigs \ (faulted \cup unguarded) :
    Resolutions(g) <= 1 /\ (gigs[g] = "open" => Resolutions(g) = 0)

\* The open gigs are those of the expiry index, however mutations race, whatever connection
\* fails before or after an EXEC is applied and whatever is retried: none escapes the sweep,
\* and the sweep finds no other. What Redis does not roll back is left out: a transaction of
\* which the row was written and the index not, or the other way round, until the next one
\* on that gig. (The MULTIs keep row and index together.)
OpenIsIndexed == \A g \in Gigs \ halved : gigs[g] = "open" <=> index[g] # "out"

\* A cached page shows the open gigs of the list once no mutation is at work any more, unless
\* a search had read them before a mutation wrote. (invalidateSearchCache after every EXEC.)
PageIsCurrent ==
  cache # NoPage /\ ~overtaken /\ (\A q \in Requests : step[q] \notin {"append", "members", "drop"})
    => cache = ListedOpen
=============================================================================

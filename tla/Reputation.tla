----------------------------- MODULE Reputation -----------------------------
(***************************************************************************)
(* ReputationService over ReputationScoreStore: the completion or the       *)
(* dispute of an escrow counts for its depositor and then for its           *)
(* beneficiary. A score is a record that is read, changed and written back; *)
(* each instance runs one such change at a time, in the order of its queue, *)
(* and falls back to a map of its own for a call to Redis that fails.       *)
(***************************************************************************)
EXTENDS Naturals, Sequences, Functions

CONSTANTS
  Outcomes,       \* completed or resolved escrows
  Parties,        \* of each: <<depositor, beneficiary>>
  Handler,        \* the instance that records it
  MaxOutages      \* bounds the failing calls

Handlers == {Handler[c] : c \in Outcomes}
Addresses == UNION {Range(Parties[c]) : c \in Outcomes}

VARIABLES
  score,          \* reputation:score:<address>: the contributions it counts
  ownScore,       \* per instance: the fallback map
  mutationQueue,  \* per instance: the changes that wait or run
  turn,           \* per outcome: the party it is counted for, and the record read
  outages,
  counted,        \* history: contributions written
  clobbered       \* history: addresses two instances changed at once, or with a failure

vars == <<score, ownScore, mutationQueue, turn, outages, counted, clobbered>>

Idle == [party |-> 0, phase |-> "idle", record |-> {}]
Init ==
  /\ score = [a \in Addresses |-> {}] /\ ownScore = [h \in Handlers |-> [a \in Addresses |-> {}]]
  /\ mutationQueue = [h \in Handlers |-> <<>>] /\ turn = [c \in Outcomes |-> Idle]
  /\ outages = 0 /\ counted = {} /\ clobbered = {}

Outage == outages < MaxOutages /\ outages' = outages + 1
Concerned(c) == Parties[c][turn[c].party]
Busy(a) == {c \in Outcomes : turn[c].phase = "writing" /\ Concerned(c) = a}
Queued(c) == [mutationQueue EXCEPT ![Handler[c]] = Append(@, c)]

----------------------------------------------------------------------------
(* recordEscrowCompleted, recordDisputeResolved: nobody is rated by himself. *)
Count(c) ==
  /\ turn[c] = Idle
  /\ IF Parties[c][1] = Parties[c][2]
     THEN turn' = [turn EXCEPT ![c].phase = "over"] /\ UNCHANGED mutationQueue
     ELSE turn' = [turn EXCEPT ![c] = [Idle EXCEPT !.party = 1, !.phase = "queued"]]
          /\ mutationQueue' = Queued(c)
  /\ UNCHANGED <<score, ownScore, outages, counted, clobbered>>

\* Variant: the change does not wait for its turn.
MayRunAtOnce(c) == turn[c].phase = "queued"
\* withLock
MayRun(c) == turn[c].phase = "queued" /\ Head(mutationQueue[Handler[c]]) = c
ReadScore(c) ==
  LET a == Concerned(c) IN
  /\ MayRun(c)
  /\ \/ turn' = [turn EXCEPT ![c].phase = "writing", ![c].record = score[a]]
        /\ clobbered' = (IF \E d \in Busy(a) : Handler[d] # Handler[c] THEN clobbered \cup {a} ELSE clobbered)
        /\ UNCHANGED outages
     \/ Outage /\ turn' = [turn EXCEPT ![c].phase = "writing", ![c].record = ownScore[Handler[c]][a]]
        /\ clobbered' = clobbered \cup {a}
  /\ UNCHANGED <<score, ownScore, mutationQueue, counted>>

(* save, and on to the other party, behind whatever has queued up meanwhile. *)
WriteScore(c) ==
  LET a == Concerned(c) h == Handler[c] new == turn[c].record \cup {c} IN
  /\ turn[c].phase = "writing"
  /\ \/ score' = [score EXCEPT ![a] = new] /\ UNCHANGED <<ownScore, outages, clobbered>>
     \/ /\ Outage /\ score' \in {score, [score EXCEPT ![a] = new]}
        /\ ownScore' = [ownScore EXCEPT ![h][a] = new] /\ clobbered' = clobbered \cup {a}
  /\ counted' = counted \cup {<<c, a>>}
  /\ LET rest == Tail(mutationQueue[h]) IN
     IF turn[c].party = 1
     THEN /\ turn' = [turn EXCEPT ![c] = [Idle EXCEPT !.party = 2, !.phase = "queued"]]
          /\ mutationQueue' = [mutationQueue EXCEPT ![h] = Append(rest, c)]
     ELSE /\ turn' = [turn EXCEPT ![c].phase = "over", ![c].record = {}]
          /\ mutationQueue' = [mutationQueue EXCEPT ![h] = rest]

Next == \E c \in Outcomes : Count(c) \/ ReadScore(c) \/ WriteScore(c)
Spec == Init /\ [][Next]_vars

----------------------------------------------------------------------------
TypeOK ==
  /\ score \in [Addresses -> SUBSET Outcomes] /\ outages \in 0 .. MaxOutages
  /\ ownScore \in [Handlers -> [Addresses -> SUBSET Outcomes]] /\ clobbered \subseteq Addresses
  /\ \A h \in Handlers : mutationQueue[h] \in Seq(Outcomes) /\ IsInjective(mutationQueue[h])
  /\ turn \in [Outcomes -> [party : 0 .. 2, phase : {"idle", "queued", "writing", "over"},
                            record : SUBSET Outcomes]]
  /\ counted \subseteq Outcomes \X Addresses

(* A contribution that was written stays in the score, whatever requests overlap, *)
(* unless two instances changed the score at once or a call to Redis failed       *)
(* (mutationQueue); and an outcome that is over counts for both of its parties.   *)
ScoresAddUp ==
  /\ \A pair \in counted : pair[1] \in score[pair[2]] \/ pair[2] \in clobbered
  /\ \A c \in Outcomes : turn[c].phase = "over" /\ Parties[c][1] # Parties[c][2]
       => \A i \in 1 .. 2 : <<c, Parties[c][i]>> \in counted
=============================================================================

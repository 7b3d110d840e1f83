---------------------------- MODULE AtLeastOnce ----------------------------
(* What an outbox promises: a row that was appended stays owed until its    *)
(* targets have accepted it or it is given up, and whoever reports late may *)
(* have it sent again, but may not make it vanish.                          *)
EXTENDS FiniteSets

CONSTANT Rows

VARIABLES
  fate,     \* "new", "owed", "done" (accepted, and nobody will send it) or "dead"
  accepted  \* the rows all targets have accepted at least once

Init == fate = [e \in Rows |-> "new"] /\ accepted = {}

Turns(e, from, to) ==
  /\ fate[e] \in from
  /\ fate' = [fate EXCEPT ![e] = to]
  /\ UNCHANGED accepted

AppendRow(e) == Turns(e, {"new"}, "owed")
Accept(e) == fate[e] # "new" /\ accepted' = accepted \cup {e} /\ UNCHANGED fate
Settle(e) == e \in accepted /\ Turns(e, {"owed", "dead"}, "done")
GiveUp(e) == Turns(e, {"owed", "done"}, "dead")
Reopen(e) == Turns(e, {"done", "dead"}, "owed")   \* a replay, or a worker that comes late

Next == \E e \in Rows : AppendRow(e) \/ Accept(e) \/ Settle(e) \/ GiveUp(e) \/ Reopen(e)

Spec == Init /\ [][Next]_<<fate, accepted>>
=============================================================================

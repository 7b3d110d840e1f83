----------------------------- MODULE MCWorkers ------------------------------
(* Two instances of everything; what runs where, the chain, and the deadlines. *)
EXTENDS Workers, TLC

CONSTANTS q1, q2, q3, i1, i2, p1, p2, g1

HostOf == q1 :> i1 @@ q2 :> i1 @@ q3 :> i2
LedgersIngested == <<2, 3, 3>>
KeysIngested == <<NoKey, "k", "k">>
HomeOf == p1 :> i1 @@ p2 :> i2
LedgersIndexed == <<1, 2, 2, 3>>
CallHomeOf == [c \in Runs \cup Undos |-> IF c = "r1" THEN i1 ELSE i2]
DeadlineOf == [g \in OpenAtFirst |-> 3]
=============================================================================

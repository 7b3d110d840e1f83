--------------------------- MODULE MCDisputeSaga ---------------------------
(* Two calls of one process. Three jurors with five votes between them: two of one
   side and one of another, or one of each. *)
EXTENDS DisputeSaga, TLC

CONSTANTS i1, j1, j2, j3

HostOf == [q \in Requests |-> i1]
Votes == j1 :> {"depositor"} @@ j2 :> {"beneficiary"} @@ j3 :> Sides
Symmetry == Permutations(Requests) \cup Permutations(Sagas)
=============================================================================

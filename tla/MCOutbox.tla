------------------------------ MODULE MCOutbox ------------------------------
(* Small instances of Outbox for TLC. *)
EXTENDS Outbox

CONSTANTS p2, q2, i1, i2

\* p2 and q2 run in an instance of their own; the other workers share i1, so that a
\* crash or a blocked event loop of i1 takes several of them at once.
HostOf == [w \in Workers |-> IF w \in {p2, q2} THEN i2 ELSE i1]
=============================================================================

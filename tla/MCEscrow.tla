------------------------------ MODULE MCEscrow ------------------------------
(* Two requests in flight, each served by an instance of its own. *)
EXTENDS Escrow, TLC

CONSTANTS q1, q2, i1, i2

HostOf == q1 :> i1 @@ q2 :> i2
=============================================================================

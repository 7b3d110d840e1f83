---------------------------- MODULE MCEscrowSync ----------------------------
(* Small instances of EscrowSync: one backend process. *)
EXTENDS EscrowSync

CONSTANTS i1

HostOf == [q \in Requests |-> i1]
=============================================================================

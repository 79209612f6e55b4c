------------------------------ MODULE MCLease -------------------------------
(* Bounded instance of Lease for TLC. *)
EXTENDS Lease

CONSTANTS p1, p2

MCPids == {p1, p2}

=============================================================================

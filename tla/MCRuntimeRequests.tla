------------------------- MODULE MCRuntimeRequests -------------------------
(* An instance of RuntimeRequests for TLC. *)
EXTENDS RuntimeRequests
=============================================================================

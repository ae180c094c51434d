--------------------------- MODULE MCHostedRuntime ---------------------------
(* Instances of HostedRuntime for TLC. *)
EXTENDS HostedRuntime, TLC

HostedSymmetry == Permutations(Call) \cup Permutations(Name)
==============================================================================

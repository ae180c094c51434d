--------------------------- MODULE MCCommandQueue ---------------------------
(* Instances of CommandQueue for TLC: symmetry of processes and calls. *)
EXTENDS CommandQueue, TLC

\* Commands are ordered and keys are not; processes and calls are interchangeable.
CallSymmetry == Permutations(Instance) \cup Permutations(Dispatcher)
=============================================================================

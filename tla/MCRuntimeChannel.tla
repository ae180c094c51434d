-------------------------- MODULE MCRuntimeChannel --------------------------
(* Instances of RuntimeChannel for TLC: symmetry of the ids. *)
EXTENDS RuntimeChannel, TLC

\* No definition tells one stream from another, nor one runtime from another.
RuntimeSymmetry == Permutations(Stream) \cup Permutations(Runtime)
=============================================================================

--------------------------- MODULE MCLiveDelivery ---------------------------
(* Instances of LiveDelivery for TLC. *)
EXTENDS LiveDelivery, TLC

SessionSymmetry == Permutations(Sub)
=============================================================================

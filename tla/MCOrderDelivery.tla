-------------------------- MODULE MCOrderDelivery --------------------------
(* Instances of OrderDelivery for TLC. *)
EXTENDS OrderDelivery
=============================================================================

-------------------------- MODULE MCOrderCreation --------------------------
(* Instances of OrderCreation for TLC. *)
EXTENDS OrderCreation
=============================================================================

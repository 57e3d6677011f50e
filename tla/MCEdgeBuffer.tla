---------------------------- MODULE MCEdgeBuffer ----------------------------
(* Instances of EdgeBuffer for TLC. *)
EXTENDS EdgeBuffer, TLC

Symmetry == Permutations(Points) \cup Permutations(Collectors)
=============================================================================

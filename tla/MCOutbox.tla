------------------------------ MODULE MCOutbox ------------------------------
(* Instances of Outbox for TLC. *)
EXTENDS Outbox, TLC

\* Tokens and events are interchangeable in the safety runs.
Symmetry == Permutations(Tokens) \cup Permutations(Msgs)
=============================================================================

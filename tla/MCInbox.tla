------------------------------ MODULE MCInbox ------------------------------
(* Instances of Inbox for TLC. *)
EXTENDS Inbox, TLC

\* Copies, consumers and tokens are interchangeable in the safety runs.
Symmetry == Permutations(Tokens) \cup Permutations(Copies) \cup Permutations(Consumers)
=============================================================================

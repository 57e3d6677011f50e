---------------------------- MODULE MCWorkOrder ----------------------------
(* Instances of WorkOrder for TLC. *)
EXTENDS WorkOrder, TLC

CONSTANTS lead, manager

MCUsers == {lead, manager}

MCRoleOf == [u \in MCUsers |-> IF u = lead THEN "lead" ELSE "manager"]

\* A chain of two steps, the second with a named approver, and one of one step.
TwoSteps == {<<[role |-> "lead", only |-> Nobody], [role |-> "manager", only |-> manager]>>}
MCTemplates == TwoSteps \cup {<<[role |-> "lead", only |-> Nobody]>>}

Symmetry == Permutations(Rounds) \cup Permutations(Slots)
=============================================================================

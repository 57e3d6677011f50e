---------------------------- MODULE MCAlertEngine ----------------------------
(* Instances of AlertEngine for TLC. *)
EXTENDS AlertEngine, TLC

CONSTANTS i1, i2, w1, w2

\* Both evaluations in one instance, or each in one of its own.
MCPlacements == {w1 :> i1 @@ w2 :> i1, w1 :> i1 @@ w2 :> i2}
=============================================================================

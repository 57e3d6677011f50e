---------------------------- MODULE MCTimerLock ----------------------------
(* Instances of TimerLock for TLC. *)
EXTENDS TimerLock
=============================================================================

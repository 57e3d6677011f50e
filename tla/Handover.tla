------------------------------ MODULE Handover ------------------------------
(***************************************************************************)
(* What every stage that passes work on promises in this system: it keeps   *)
(* what it has accepted until the work is finished.  The outbox keeps a row *)
(* until the broker has the event, the broker keeps a copy until the        *)
(* handler's work is recorded or the copy is in the dead queue, an event    *)
(* stays due until its work order exists, and the browser keeps an          *)
(* operation until the server has answered it.                              *)
(*                                                                         *)
(* Accepting an item again, finishing it more than once, and keeping it     *)
(* after it was finished are all allowed: delivery is at least once.        *)
(***************************************************************************)

CONSTANT Items

VARIABLES
    kept,      \* items the stage answers for
    finished   \* items whose outcome is final

Init == kept = {} /\ finished = {}

Accept(i) ==
    /\ kept' = kept \cup {i}
    /\ UNCHANGED finished

\* Outcomes become known, of one item or of several at once.
Finish ==
    /\ finished \subseteq finished' /\ finished' \subseteq Items
    /\ UNCHANGED kept

\* Items are let go, whose outcomes are known by then.
Release ==
    /\ finished \subseteq finished' /\ finished' \subseteq Items
    /\ kept' \subseteq kept
    /\ kept \ kept' \subseteq finished'

Next == (\E i \in Items : Accept(i)) \/ Finish \/ Release

Spec == Init /\ [][Next]_<<kept, finished>>
=============================================================================

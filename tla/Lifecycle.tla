----------------------------- MODULE Lifecycle -----------------------------
(***************************************************************************)
(* What a user may count on about one work order: its status and its chain *)
(* of approval steps, where a request either does all it has to do or      *)
(* nothing.  Steps are decided in order.  The last approval accepts the    *)
(* order; a rejection sends it back to work and leaves no step open.       *)
(*                                                                         *)
(* A decision does not look at the status: a step that is still open may   *)
(* be decided when the order has gone on by another way.                   *)
(***************************************************************************)
EXTENDS Naturals

CONSTANT Moves   \* the statuses that may follow each status

VARIABLES
    status,
    open, approved, rejected   \* steps of the chain

steps == <<open, approved, rejected>>

Init ==
    /\ status = "PendingDispatch"
    /\ open = {} /\ approved = {} /\ rejected = {}

Move ==
    /\ status' \in Moves[status]
    /\ UNCHANGED steps

\* A submitted order gets a chain of steps 1, 2, ...; what there was of an
\* earlier one is gone.
NewChain ==
    /\ status = "SubmittedForApproval"
    /\ open' # {} /\ \A k \in open' : k \in Nat \ {0} /\ 1..k \subseteq open'
    /\ approved' = {} /\ rejected' = {}
    /\ UNCHANGED status

Approve ==
    /\ \E k \in open :
          /\ \A other \in open : k <= other
          /\ open' = open \ {k}
          /\ approved' = approved \cup {k}
    /\ status' = IF open' = {} THEN "Accepted" ELSE status
    /\ UNCHANGED rejected

Reject ==
    /\ open # {}
    /\ open' = {}
    /\ rejected' = rejected \cup open
    /\ status' = "InProgress"
    /\ UNCHANGED approved

Next == Move \/ NewChain \/ Approve \/ Reject

Spec == Init /\ [][Next]_<<status, steps>>
=============================================================================

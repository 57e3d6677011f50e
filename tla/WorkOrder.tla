----------------------------- MODULE WorkOrder -----------------------------
(***************************************************************************)
(* One work order: the row that WorkOrderService moves through its         *)
(* lifecycle, the approval records that ApprovalChainService keeps for     *)
(* it, and the requests that work on both.  Every request loads what it    *)
(* needs, decides, and saves the changed columns; nothing is locked in     *)
(* between.  WorkOrder.RowVersion is a bytea column that PostgreSQL never  *)
(* changes, so the concurrency check of the save compares NULL with NULL   *)
(* and is no guard.  With one slot requests follow one another; with two   *)
(* they overlap.                                                           *)
(***************************************************************************)
EXTENDS Integers, Sequences, FiniteSets

CONSTANTS
    Slots,      \* requests that may be served at once
    Users, Nobody,
    RoleOf,     \* the role of each user
    Templates,  \* approval chains: sequences of [role, only]
    NoTemplate, NoOrder, NoRow,
    Rounds,     \* identities for the records of one submission
    MaxTime,    \* bound on the clock
    Faults      \* "abort": a request may end between two steps;
                \* "template": no enabled template may match

Never == 0
NoHours == -1
Need == [role : {RoleOf[u] : u \in Users}, only : Users \cup {Nobody}]

ASSUME ConstantsOK ==
    /\ Nobody \notin Users
    /\ Templates \subseteq Seq(Need) \ {<<>>}
    /\ NoTemplate \notin Templates
    /\ MaxTime \in Nat \ {0}
    /\ Faults \subseteq {"abort", "template"}

VARIABLES
    order,      \* row of work_orders
    rows,       \* rows of work_order_approvals, by identity
    req,        \* the request in each slot
    announced,  \* the newest WorkOrderStatusChangedEvent
    now

vars == <<order, rows, req, announced, now>>

Status == {"PendingDispatch", "Assigned", "InProgress", "Completed", "Accepted",
           "Rejected", "SubmittedForApproval", "Closed", "Cancelled"}

Times == Never..MaxTime
Order == [status : Status, assignee : Users \cup {Nobody}, startedAt : Times,
          completedAt : Times, closedAt : Times, hours : NoHours..MaxTime]
RowIds == Rounds \X Nat
Row == [need : Need, action : {"Pending", "Approved", "Rejected"}, by : Users \cup {Nobody}]

ASSUME NullsOK ==
    /\ NoOrder \notin Order
    /\ NoRow \notin RowIds

Request == [stage : {"idle", "save", "match", "replace", "review", "load", "decide"},
            snap : Order \cup {NoOrder}, new : Order \cup {NoOrder},
            template : Templates \cup {NoTemplate},
            verb : {"none", "Approved", "Rejected"}, by : Users \cup {Nobody},
            row : RowIds \cup {NoRow}, others : SUBSET RowIds]

Idle == [stage |-> "idle", snap |-> NoOrder, new |-> NoOrder, template |-> NoTemplate,
         verb |-> "none", by |-> Nobody, row |-> NoRow, others |-> {}]

TypeOK ==
    /\ order \in Order
    /\ DOMAIN rows \subseteq RowIds
    /\ \A id \in DOMAIN rows : rows[id] \in Row
    /\ req \in [Slots -> Request]
    /\ announced \in [from : Status, to : Status]
    /\ now \in 1..MaxTime

\* CreateAsync has committed the order with its log entry and event.
Init ==
    /\ order = [status |-> "PendingDispatch", assignee |-> Nobody, startedAt |-> Never,
                completedAt |-> Never, closedAt |-> Never, hours |-> NoHours]
    /\ rows = <<>>
    /\ req = [s \in Slots |-> Idle]
    /\ announced = [from |-> "PendingDispatch", to |-> "PendingDispatch"]
    /\ now = 1

-----------------------------------------------------------------------------
(* Loading the order and deciding on its new columns *)

ValidTransitions ==
    [st \in Status |->
        CASE st = "PendingDispatch" -> {"Assigned", "Cancelled"}
          [] st = "Assigned" -> {"InProgress", "Cancelled"}
          [] st = "InProgress" -> {"Completed", "Cancelled", "SubmittedForApproval"}
          [] st = "Completed" -> {"Accepted", "Rejected", "SubmittedForApproval"}
          [] st = "SubmittedForApproval" -> {"Accepted", "InProgress"}
          [] st = "Accepted" -> {"Closed"}
          [] st = "Rejected" -> {"InProgress"}
          [] OTHER -> {}]

\* Mutant of ActualHours: not clamped.
SignedHours(o) ==
    IF o.startedAt # Never /\ o.completedAt # Never
    THEN o.completedAt - o.startedAt ELSE o.hours

\* ComputeActualHours: the hours column, clamped to what is not negative.
ActualHours(o) ==
    IF o.startedAt # Never /\ o.completedAt # Never
    THEN IF o.completedAt > o.startedAt THEN o.completedAt - o.startedAt ELSE 0
    ELSE o.hours

\* A service call loads the order, checks the transition and edits its copy.
Load(s, target, edited) ==
    /\ req[s] = Idle
    /\ target \in ValidTransitions[order.status]
    /\ req' = [req EXCEPT ![s] = [Idle EXCEPT !.stage = "save", !.snap = order,
                                              !.new = [edited EXCEPT !.status = target]]]
    /\ UNCHANGED <<order, rows, announced, now>>

\* Mutant of Start: rework forgets when the order was completed.
StartAfresh(s) ==
    Load(s, "InProgress", [order EXCEPT !.startedAt = now, !.completedAt = Never])

Assign(s, u) == Load(s, "Assigned", [order EXCEPT !.assignee = u])
Start(s) == Load(s, "InProgress", [order EXCEPT !.startedAt = now])
Accept(s) == Load(s, "Accepted", order)
Reject(s) == Load(s, "Rejected", order)
Close(s) == Load(s, "Closed", [order EXCEPT !.closedAt = now])
Cancel(s) == Load(s, "Cancelled", order)

Complete(s) ==
    LET done == [order EXCEPT !.completedAt = now]
    IN  Load(s, "Completed", [done EXCEPT !.hours = ActualHours(done)])

Submit(s) ==
    LET done == [order EXCEPT !.completedAt = IF @ = Never THEN now ELSE @]
    IN  /\ order.status \in {"InProgress", "Completed"}
        /\ Load(s, "SubmittedForApproval", [done EXCEPT !.hours = ActualHours(done)])

-----------------------------------------------------------------------------
(* Saving *)

\* SaveChanges writes the columns in which the copy differs from what was loaded.
Merged(snap, new) ==
    [c \in DOMAIN order |-> IF new[c] # snap[c] THEN new[c] ELSE order[c]]

\* Mutant of SaveOrder: the old status is taken after the new one was set.
SaveOrderLate(s) ==
    /\ order' = Merged(req[s].snap, req[s].new)
    /\ announced' = [from |-> req[s].new.status, to |-> req[s].new.status]

\* The changed columns and the event are one transaction (TransactionalEventBus).
SaveOrder(s) ==
    /\ order' = Merged(req[s].snap, req[s].new)
    /\ announced' = [from |-> req[s].snap.status, to |-> req[s].new.status]

\* Submit goes on to its approval records (the WorkOrderLog is left out).
Save(s) ==
    /\ req[s].stage = "save"
    /\ SaveOrder(s)
    /\ req' = [req EXCEPT ![s] = IF req[s].new.status = "SubmittedForApproval"
                                 THEN [Idle EXCEPT !.stage = "match"] ELSE Idle]
    /\ UNCHANGED <<rows, now>>

-----------------------------------------------------------------------------
(* Approval records *)

\* The template that fits the order's type and priority, if one is enabled.
MatchTemplate ==
    Templates \cup (IF "template" \in Faults THEN {NoTemplate} ELSE {})

\* CreateApprovalRecords: nothing changes without a template; otherwise the
\* records of the earlier submission are read to be removed.
Match(s) ==
    /\ req[s].stage = "match"
    /\ \E t \in MatchTemplate :
          req' = [req EXCEPT ![s] = IF t = NoTemplate THEN Idle
                                    ELSE [Idle EXCEPT !.stage = "replace", !.template = t,
                                                      !.others = DOMAIN rows]]
    /\ UNCHANGED <<order, rows, announced, now>>

\* Identities are new: no row has them and no request knows them.
UsedRounds ==
    {id[1] : id \in DOMAIN rows \cup UNION {req[s].others : s \in Slots}}
        \cup {req[s].row[1] : s \in {x \in Slots : req[x].row # NoRow}}

\* Mutant of Kept: of the earlier submission only open records are removed.
KeptDecided(old) == {id \in DOMAIN rows : id \notin old \/ rows[id].action # "Pending"}

\* The rows of the earlier submission that stay: none.
Kept(old) == DOMAIN rows \ old

\* Removing a row that is gone fails the whole save.
Replace(s) ==
    LET t == req[s].template
        old == req[s].others
    IN  /\ req[s].stage = "replace"
        /\ old \subseteq DOMAIN rows
        /\ \E r \in Rounds \ UsedRounds :
              rows' = [id \in Kept(old) \cup {<<r, k>> : k \in 1..Len(t)} |->
                          IF id \in Kept(old) THEN rows[id]
                          ELSE [need |-> t[id[2]], action |-> "Pending", by |-> Nobody]]
        /\ req' = [req EXCEPT ![s] = Idle]
        /\ UNCHANGED <<order, announced, now>>

Pending == {id \in DOMAIN rows : rows[id].action = "Pending"}

\* Mutant of FirstPending: not ordered by step.
AnyPending == Pending

\* The pending records of the lowest step.
FirstPending == {id \in Pending : \A other \in Pending : id[2] <= other[2]}

\* EnsureApprovalActor.
Entitled(u, need) ==
    /\ need.only \in {Nobody, u}
    /\ RoleOf[u] = need.role

\* Mutant of Pick: the user may act on some step, not on this one.
PickByAnyStep(s, u, verb) ==
    /\ req[s] = Idle
    /\ \E id \in FirstPending :
          /\ \E other \in Pending : Entitled(u, rows[other].need)
          /\ req' = [req EXCEPT ![s] = [Idle EXCEPT !.stage = "review", !.verb = verb,
                                                    !.by = u, !.row = id]]
    /\ UNCHANGED <<order, rows, announced, now>>

\* ApproveAsync and RejectAsync find the record to decide on.
Pick(s, u, verb) ==
    /\ req[s] = Idle
    /\ \E id \in FirstPending :
          /\ Entitled(u, rows[id].need)
          /\ req' = [req EXCEPT ![s] = [Idle EXCEPT !.stage = "review", !.verb = verb,
                                                    !.by = u, !.row = id]]
    /\ UNCHANGED <<order, rows, announced, now>>

\* Mutant of ReviewApproval: the records are read without the pending change.
ReviewUntracked(s) ==
    LET final == \A id \in DOMAIN rows : rows[id].action = "Approved"
    IN  /\ req[s].stage = "review" /\ req[s].verb = "Approved"
        /\ req' = [req EXCEPT ![s].stage = IF final THEN "load" ELSE "decide"]
        /\ UNCHANGED <<order, rows, announced, now>>

\* All records are read: those approved so far decide whether this one is the last.
ReviewApproval(s) ==
    LET final == \A id \in DOMAIN rows \ {req[s].row} : rows[id].action = "Approved"
    IN  /\ req[s].stage = "review" /\ req[s].verb = "Approved"
        /\ req' = [req EXCEPT ![s].stage = IF final THEN "load" ELSE "decide"]
        /\ UNCHANGED <<order, rows, announced, now>>

\* The pending records of later steps are rejected along with this one.
ReviewRejection(s) ==
    /\ req[s].stage = "review" /\ req[s].verb = "Rejected"
    /\ req' = [req EXCEPT ![s].stage = "load",
                          ![s].others = {id \in Pending : id[2] > req[s].row[2]}]
    /\ UNCHANGED <<order, rows, announced, now>>

\* The order is loaded and its status set, whatever it was.
LoadOrder(s) ==
    LET target == IF req[s].verb = "Approved" THEN "Accepted" ELSE "InProgress"
    IN  /\ req[s].stage = "load"
        /\ req' = [req EXCEPT ![s].stage = "decide", ![s].snap = order,
                              ![s].new = [order EXCEPT !.status = target]]
        /\ UNCHANGED <<order, rows, announced, now>>

Touched(s) == {req[s].row} \cup req[s].others

\* Updating a row that is gone fails the whole save.
Decide(s) ==
    /\ req[s].stage = "decide"
    /\ Touched(s) \subseteq DOMAIN rows
    /\ rows' = [id \in DOMAIN rows |->
                   IF id = req[s].row
                   THEN [rows[id] EXCEPT !.action = req[s].verb, !.by = req[s].by]
                   ELSE IF id \in req[s].others
                        THEN [rows[id] EXCEPT !.action = "Rejected"] ELSE rows[id]]
    /\ IF req[s].snap = NoOrder THEN UNCHANGED <<order, announced>> ELSE SaveOrder(s)
    /\ req' = [req EXCEPT ![s] = Idle]
    /\ UNCHANGED now

\* A save that touches removed rows throws DbUpdateConcurrencyException.
SaveThrows(s) ==
    /\ \/ req[s].stage = "replace" /\ ~(req[s].others \subseteq DOMAIN rows)
       \/ req[s].stage = "decide" /\ ~(Touched(s) \subseteq DOMAIN rows)
    /\ req' = [req EXCEPT ![s] = Idle]
    /\ UNCHANGED <<order, rows, announced, now>>

\* A failed query, a cancelled call or a dead process: the rest does not happen.
Abort(s) ==
    /\ "abort" \in Faults
    /\ req[s] # Idle
    /\ req' = [req EXCEPT ![s] = Idle]
    /\ UNCHANGED <<order, rows, announced, now>>

Tick ==
    /\ now < MaxTime
    /\ now' = now + 1
    /\ UNCHANGED <<order, rows, req, announced>>

Service(s) ==
    \/ \E u \in Users : Assign(s, u)
    \/ Start(s) \/ Complete(s) \/ Accept(s) \/ Reject(s) \/ Close(s) \/ Cancel(s)
    \/ Submit(s) \/ Save(s)

Approvals(s) ==
    \/ Match(s) \/ Replace(s)
    \/ \E u \in Users, verb \in {"Approved", "Rejected"} : Pick(s, u, verb)
    \/ ReviewApproval(s) \/ ReviewRejection(s) \/ LoadOrder(s) \/ Decide(s)
    \/ SaveThrows(s)

Next ==
    \/ \E s \in Slots : Service(s) \/ Approvals(s) \/ Abort(s)
    \/ Tick

Spec == Init /\ [][Next]_vars

-----------------------------------------------------------------------------
(* Properties *)

\* What an order in its status must have: an assignee, the time it was started,
\* the time it was completed with its hours, the time it was closed.
Reached(o) ==
    /\ o.status \notin {"PendingDispatch", "Cancelled"} => o.assignee # Nobody
    /\ o.status \notin {"PendingDispatch", "Assigned", "Cancelled"} => o.startedAt # Never
    /\ o.status \in {"Completed", "SubmittedForApproval", "Accepted", "Rejected", "Closed"} =>
          o.completedAt # Never /\ o.hours # NoHours
    /\ o.status = "Closed" => o.closedAt # Never

\* The stored order has the columns its status presupposes.  Requests overlap
\* and overwrite each other's status, and approvals set it unchecked, and still
\* none is ever stored without them (reports, SLA and knowledge capture read
\* these columns by status).
MilestonesRecorded == Reached(order)

\* A decided record names a user who was entitled to that step, also when two
\* users decide the same record at once or the chain was replaced meanwhile.
DecidersEntitled ==
    \A id \in DOMAIN rows :
        rows[id].by # Nobody => Entitled(rows[id].by, rows[id].need)

\* Requests one after the other: a step is approved only when every earlier
\* step of the chain is, and no step stays open after a rejected one, whatever
\* was rejected and submitted again before.
ChainInOrder ==
    \A id, later \in DOMAIN rows : id[2] < later[2] =>
        /\ rows[later].action = "Approved" => rows[id].action = "Approved"
        /\ rows[id].action = "Rejected" => rows[later].action = "Rejected"

\* Requests one after the other: a chain whose last step is approved has
\* brought the order to Accepted; it is never left waiting with all approved.
FinishedChainAccepts ==
    DOMAIN rows # {} /\ (\A id \in DOMAIN rows : rows[id].action = "Approved") =>
        order.status \in {"Accepted", "Closed"}

StepsIn(action) == {id[2] : id \in {x \in DOMAIN rows : rows[x].action = action}}

\* Requests one after the other: however a request is split into queries and
\* saves, and wherever it is cut off, users see whole requests: steps decided in
\* order, a chain for submitted orders only, and a status that moves along the
\* table of transitions, to Accepted by the last approval, or back to work by a
\* rejection that leaves no step open.
Requests == INSTANCE Lifecycle WITH
    Moves <- ValidTransitions,
    status <- order.status,
    open <- StepsIn("Pending"),
    approved <- StepsIn("Approved"),
    rejected <- StepsIn("Rejected")

WholeRequests == Requests!Spec

\* Every change of status is announced by one event that tells the old and the
\* new status as they were stored, so that the events of an order form a chain.
EventsChain ==
    [][order'.status # order.status =>
         announced' = [from |-> order.status, to |-> order'.status]]_vars
=============================================================================

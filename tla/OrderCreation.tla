--------------------------- MODULE OrderCreation ---------------------------
(***************************************************************************)
(* The creation of work orders on one day: by the handler of the alert      *)
(* events (WorkOrderAutoCreateHandler) and by users (WorkOrderService),     *)
(* which share WorkOrderCodeGenerator.  Codes are the day's sequence        *)
(* numbers, unique over all tenants by an index; they are written with at   *)
(* least four digits and compared as text.                                  *)
(*                                                                         *)
(* Every creation is a transaction (READ COMMITTED).  A code that another   *)
(* transaction has inserted makes an insert wait; when that one commits,    *)
(* the insert fails and only its savepoint is rolled back.                  *)
(*                                                                         *)
(* A user's order may name an alert, and nobody looks whether the alert has *)
(* one.  A handler that no longer holds its event, since it timed out or    *)
(* its inbox lease lapsed, runs on beside the one that has the event next.  *)
(***************************************************************************)
EXTENDS Integers, FiniteSets

CONSTANTS
    Events,       \* events of triggered alerts whose rule creates orders
    NoEvent,
    Handlers,     \* handlers that may run at once
    Requests,     \* users' requests that may run at once
    NoOrder, Manual,   \* no such row; an order that names no alert
    Widest,       \* the last sequence number of four digits, 9999
    MaxRequests,  \* bound: how many orders users create
    MaxClosed,    \* bound: how many orders are closed
    MaxFaults     \* bound: failures and crashes

ASSUME ConstantsOK ==
    /\ IsFiniteSet(Events) /\ NoEvent \notin Events
    /\ Handlers \cap Requests = {}
    /\ NoOrder \notin Events \cup {Manual} /\ Manual \notin Events
    /\ Widest \in Nat \ {0}
    /\ MaxRequests \in Nat /\ MaxClosed \in Nat /\ MaxFaults \in Nat

VARIABLES
    announced,  \* events that were registered with their alert
    processed,  \* events whose handling is recorded in the inbox
    order,      \* the alert (its event) that the order with each code names
    closed,     \* codes of alerts' orders that were closed or cancelled
    aside,      \* history: codes of orders not created by who held an event
    stray,      \* handlers that run on without holding their event
    pc,         \* where each creation is
    event,      \* the event it handles
    code,       \* the code it has generated
    attempt,    \* conflicts so far
    before,     \* history: the number of orders when it started
    refused,    \* history: events handled without an order
    requests, faults

workVars == <<pc, event, code, attempt, before, stray>>
vars == <<announced, processed, order, closed, aside, pc, event, code, attempt, before,
          stray, refused, requests, faults>>

MaxAttempts == 3
Creators == Handlers \cup Requests
LastCode == MaxRequests + Cardinality(Events) + MaxFaults
Codes == 1..LastCode
Rows == {c \in Codes : order[c] # NoOrder}
OrdersOf(e) == {c \in Codes : order[c] = e}

TypeOK ==
    /\ announced \subseteq Events
    /\ processed \subseteq announced
    /\ order \in [Codes -> Events \cup {NoOrder, Manual}]
    /\ closed \subseteq Rows /\ aside \subseteq Rows
    /\ stray \subseteq Handlers
    /\ pc \in [Creators -> {"idle", "look", "read", "insert", "commit", "mark"}]
    /\ event \in [Creators -> Events \cup {NoEvent}]
    /\ code \in [Creators -> Codes \cup {0}]
    /\ attempt \in [Creators -> 0..(MaxAttempts - 1)]
    /\ before \in [Creators -> 0..LastCode]
    /\ refused \subseteq announced
    /\ requests \in 0..MaxRequests
    /\ faults \in 0..MaxFaults

Init ==
    /\ announced = {} /\ processed = {}
    /\ order = [c \in Codes |-> NoOrder]
    /\ closed = {} /\ aside = {} /\ stray = {}
    /\ pc = [w \in Creators |-> "idle"]
    /\ event = [w \in Creators |-> NoEvent]
    /\ code = [w \in Creators |-> 0]
    /\ attempt = [w \in Creators |-> 0]
    /\ before = [w \in Creators |-> 0]
    /\ refused = {}
    /\ requests = 0 /\ faults = 0

-----------------------------------------------------------------------------
(* Helpers *)

\* Mutant of Greatest: the tenant filter is on, and hides the others' orders.
GreatestOfTenant(w) ==
    LET own == {c \in Rows \cap 1..Widest : c \in aside <=> w \in Requests}
    IN  IF own = {} THEN 0 ELSE CHOOSE c \in own : \A d \in own : d <= c

\* The first code in descending order, of all tenants, that is committed.  As
\* text, "10000" comes before "9999": a code of five digits is never the first.
Greatest(w) == LET seen == Rows \cap 1..Widest IN
               IF seen = {} THEN 0 ELSE CHOOSE c \in seen : \A d \in seen : d <= c

\* The code after the widest is in use, and will be generated for ever.
Full == Widest + 1 \in Rows

\* Orders of the alert that are neither closed nor cancelled.
OpenOrders(e) == OrdersOf(e) \ closed

\* The handlers that hold the event they handle: the inbox has one for an event.
Holders == Handlers \ stray
Handled(e) == \E h \in Holders : event[h] = e

Goto(w, stage) ==
    /\ pc' = [pc EXCEPT ![w] = stage]
    /\ UNCHANGED <<event, code, attempt, before, stray>>

Leave(w) ==
    /\ pc' = [pc EXCEPT ![w] = "idle"]
    /\ event' = [event EXCEPT ![w] = NoEvent]
    /\ code' = [code EXCEPT ![w] = 0]
    /\ attempt' = [attempt EXCEPT ![w] = 0]
    /\ before' = [before EXCEPT ![w] = 0]
    /\ stray' = stray \ {w}

Begin(w, e, stage) ==
    /\ pc' = [pc EXCEPT ![w] = stage]
    /\ event' = [event EXCEPT ![w] = e]
    /\ before' = [before EXCEPT ![w] = Cardinality(Rows)]
    /\ UNCHANGED <<code, attempt, stray>>

\* Mutant of Ended: the event counts as processed although its handler failed.
EndedAnyway(w) == processed' = processed \cup ({event[w]} \cap Events)

\* A creation that failed leaves nothing behind: an event is delivered again.
Ended(w) == UNCHANGED processed

-----------------------------------------------------------------------------
(* Actions *)

\* The alert engine commits an alert with its event.
Announce(e) ==
    /\ e \notin announced
    /\ announced' = announced \cup {e}
    /\ UNCHANGED <<processed, order, closed, aside, workVars, refused, requests, faults>>

\* The event is delivered to a handler that will hold it, and nobody else does.
Deliver(h, e) ==
    /\ pc[h] = "idle" /\ e \in announced \ processed /\ ~Handled(e)
    /\ Begin(h, e, "look")
    /\ UNCHANGED <<announced, processed, order, closed, aside, refused, requests, faults>>

\* A user creates an order, which may name any alert that exists.
Request(r) ==
    /\ pc[r] = "idle" /\ requests < MaxRequests
    /\ requests' = requests + 1
    /\ \E e \in announced \cup {NoEvent} : Begin(r, e, "read")
    /\ UNCHANGED <<announced, processed, order, closed, aside, refused, faults>>

\* Mutant of Look: nobody looks.
LookAway(h) ==
    /\ pc[h] = "look"
    /\ Goto(h, "read")
    /\ UNCHANGED <<announced, processed, order, closed, aside, refused, requests, faults>>

\* An open order of the alert is announced again instead of creating another.
Look(h) ==
    /\ pc[h] = "look"
    /\ Goto(h, IF OpenOrders(event[h]) = {} THEN "read" ELSE "mark")
    /\ UNCHANGED <<announced, processed, order, closed, aside, refused, requests, faults>>

\* Mutant of GenerateCode: every further attempt leaves another code out.
GenerateCodeAhead(w) ==
    /\ pc[w] = "read" /\ Greatest(w) + 1 + attempt[w] \in Codes
    /\ code' = [code EXCEPT ![w] = Greatest(w) + 1 + attempt[w]]
    /\ pc' = [pc EXCEPT ![w] = "insert"]
    /\ UNCHANGED <<announced, processed, order, closed, aside, event, attempt, before,
                   stray, refused, requests, faults>>

\* GenerateCodeAsync
GenerateCode(w) ==
    /\ pc[w] = "read" /\ Greatest(w) + 1 \in Codes
    /\ code' = [code EXCEPT ![w] = Greatest(w) + 1]
    /\ pc' = [pc EXCEPT ![w] = "insert"]
    /\ UNCHANGED <<announced, processed, order, closed, aside, event, attempt, before,
                   stray, refused, requests, faults>>

\* SaveChangesAsync succeeds: the code is free, and no transaction has it.
Insert(w) ==
    /\ pc[w] = "insert" /\ code[w] \notin Rows
    /\ \A v \in Creators : pc[v] = "commit" => code[v] # code[w]
    /\ Goto(w, "commit")
    /\ UNCHANGED <<announced, processed, order, closed, aside, refused, requests, faults>>

\* It violates the unique index: the next attempt reads again; after the last
\* one the handler returns, and a user gets an error.
Conflict(w) ==
    /\ pc[w] = "insert" /\ code[w] \in Rows
    /\ IF attempt[w] + 1 < MaxAttempts
       THEN /\ attempt' = [attempt EXCEPT ![w] = @ + 1]
            /\ pc' = [pc EXCEPT ![w] = "read"]
            /\ code' = [code EXCEPT ![w] = 0]
            /\ UNCHANGED <<event, before, stray, refused>>
       ELSE IF w \in Handlers
       THEN Goto(w, "mark") /\ refused' = refused \cup {event[h] : h \in {w} \cap Holders}
       ELSE Leave(w) /\ UNCHANGED refused
    /\ UNCHANGED <<announced, processed, order, closed, aside, requests, faults>>

\* The order, its log and its event are committed together.
Commit(w) ==
    /\ pc[w] = "commit"
    /\ order' = [order EXCEPT ![code[w]] = IF event[w] = NoEvent THEN Manual ELSE event[w]]
    /\ aside' = aside \cup {code[v] : v \in {w} \ Holders}
    /\ IF w \in Handlers THEN Goto(w, "mark") ELSE Leave(w)
    /\ UNCHANGED <<announced, processed, closed, refused, requests, faults>>

\* The inbox records that the event was processed, if the handler still holds it.
MarkProcessed(h) ==
    /\ pc[h] = "mark"
    /\ processed' = processed \cup {event[g] : g \in {h} \cap Holders}
    /\ Leave(h)
    /\ UNCHANGED <<announced, order, closed, aside, refused, requests, faults>>

\* A call fails or the process dies, at any point: what was not committed is
\* rolled back.
Fail(w) ==
    /\ pc[w] # "idle" /\ faults < MaxFaults
    /\ faults' = faults + 1
    /\ Ended(w)
    /\ Leave(w)
    /\ UNCHANGED <<announced, order, closed, aside, refused, requests>>

\* A handler times out, or its lease lapses: the event is delivered again, while
\* the handler runs on and its transaction commits.
GiveUp(h) ==
    /\ h \in Holders /\ pc[h] # "idle" /\ faults < MaxFaults
    /\ faults' = faults + 1
    /\ stray' = stray \cup {h}
    /\ UNCHANGED <<announced, processed, order, closed, aside, pc, event, code, attempt,
                   before, refused, requests>>

\* The order of an alert is closed or cancelled.
Close(c) ==
    /\ c \in Rows \ closed /\ order[c] # Manual /\ Cardinality(closed) < MaxClosed
    /\ closed' = closed \cup {c}
    /\ UNCHANGED <<announced, processed, order, aside, workVars, refused, requests, faults>>

Step(w) ==
    \/ Look(w) \/ GenerateCode(w) \/ Insert(w) \/ Conflict(w) \/ Commit(w) \/ MarkProcessed(w)

Next ==
    \/ \E e \in Events : Announce(e) \/ \E h \in Handlers : Deliver(h, e)
    \/ \E r \in Requests : Request(r)
    \/ \E w \in Creators : Step(w) \/ Fail(w)
    \/ \E h \in Handlers : GiveUp(h)
    \/ \E c \in Codes : Close(c)

Spec == Init /\ [][Next]_vars

\* Calls return, and the inbox delivers again what was not processed.
Fairness ==
    /\ \A w \in Creators : WF_vars(Step(w))
    /\ \A h \in Handlers, e \in Events : WF_vars(Deliver(h, e))

FairSpec == Spec /\ Fairness

-----------------------------------------------------------------------------
(* Properties *)

\* Every conflict is due to another order that was committed since the creation
\* started: no creation conflicts with the same order twice, so an order is
\* refused only when three others came first, or the day's codes are used up.
BeatenByOthers ==
    \A w \in Creators :
        pc[w] # "idle" /\ ~Full => attempt[w] <= Cardinality(Rows) - before[w]

\* Whoever creates orders at the same time, and whichever attempts fail or are
\* rolled back, the codes of the day number its orders without a gap; and the
\* day has room for one order more than there are codes of four digits.
CodesInSequence == \E n \in 0..(Widest + 1) : Rows = 1..n

\* Of the open orders of an alert, handlers that held its event have created at
\* most one, though it is delivered again after a crash behind the commit or while
\* its last handler runs on, and orders are closed meanwhile.  Any further one is
\* a user's, or was committed by a handler that no longer held the event.
SecondOrderHasCause == \A e \in Events : Cardinality(OpenOrders(e) \ aside) <= 1

\* An event is due until its alert has had an order, or three attempts lost.
Due == INSTANCE Handover WITH
    Items <- Events,
    kept <- announced \ processed,
    finished <- {e \in Events : OrdersOf(e) # {}} \cup refused

DueUntilOrdered == Due!Spec

\* Every alert whose rule says so gets its order, unless three attempts lost.
EventuallyOrdered ==
    \A e \in Events : e \in announced ~> OrdersOf(e) # {} \/ e \in refused
=============================================================================

---------------------------- MODULE AlertEngine ----------------------------
(***************************************************************************)
(* The alert engine for one alert key (tenant, device, rule and metric):    *)
(* evaluations of telemetry (AlertEvaluationService) that run in several    *)
(* instances of the back end, each with a concurrency gate of its own; the  *)
(* aggregation window they share in Redis, with a window in the process to  *)
(* fall back on (AlertAggregator); and users who acknowledge and resolve    *)
(* alerts (AlertQueryService).                                              *)
(*                                                                         *)
(* A database call is a step.  A row is read in one step and saved in       *)
(* another: EF Core saves the columns that were set, by primary key, and    *)
(* alerts have no concurrency token.  Time does not appear: a window may    *)
(* expire at any moment after its first trigger.                            *)
(***************************************************************************)
EXTENDS Integers, FiniteSets

CONSTANTS
    Alerts,       \* names of rows of the table alerts
    NoAlert,
    Instances,
    Workers,      \* evaluations that may be under way at once
    Placements,   \* how they may be spread over the instances
    NoWorker,
    Users,        \* users' requests that may be under way at once
    MaxFaults     \* bound: failed calls, redeliveries and crashes

ASSUME ConstantsOK ==
    /\ NoAlert \notin Alerts /\ NoWorker \notin Workers
    /\ Placements \subseteq [Workers -> Instances]
    /\ IsFiniteSet(Instances) /\ IsFiniteSet(Workers)
    /\ MaxFaults \in Nat

VARIABLES
    home,      \* the instance each evaluation runs in
    high,      \* the metric is outside its threshold
    status,    \* Status of each alert, "gone" when it is resolved or there is no row
    count,     \* the counter in Redis, up to MaxCount
    local,     \* the fallback counter of each instance
    gate,      \* the worker that holds each instance's gate
    pc,        \* where each evaluation is
    reading,   \* what it evaluates: the rule is triggered
    target,    \* the row it has read
    act,       \* what each user's request does, "none" when there is none
    seen,      \* the row it has read
    faults     \* faults so far

envVars == <<home, high>>
windowVars == <<count, local>>
userVars == <<act, seen>>
vars == <<home, high, status, count, local, gate, pc, reading, target, act, seen, faults>>

MaxCount == 4   \* more than the three triggers that are not silenced

Statuses == {"gone", "Active", "Acknowledged"}
Stages == {"idle", "enter", "count", "create", "update", "insert",
           "recover", "resolve", "retry"}

\* Stages in which the gate of the instance is held.
Inside == Stages \ {"idle", "enter", "retry"}

TypeOK ==
    /\ home \in Placements
    /\ high \in BOOLEAN
    /\ status \in [Alerts -> Statuses]
    /\ count \in 0..MaxCount
    /\ local \in [Instances -> 0..MaxCount]
    /\ gate \in [Instances -> Workers \cup {NoWorker}]
    /\ pc \in [Workers -> Stages]
    /\ reading \in [Workers -> BOOLEAN]
    /\ target \in [Workers -> Alerts \cup {NoAlert}]
    /\ \A w \in Workers : pc[w] = "resolve" => target[w] # NoAlert
    /\ act \in [Users -> {"none", "acknowledge", "resolve"}]
    /\ seen \in [Users -> Alerts \cup {NoAlert}]
    /\ \A u \in Users : act[u] # "none" => seen[u] # NoAlert
    /\ faults \in 0..MaxFaults

Init ==
    /\ home \in Placements
    /\ high = FALSE
    /\ status = [a \in Alerts |-> "gone"]
    /\ count = 0
    /\ local = [i \in Instances |-> 0]
    /\ gate = [i \in Instances |-> NoWorker]
    /\ pc = [w \in Workers |-> "idle"]
    /\ reading = [w \in Workers |-> FALSE]
    /\ target = [w \in Workers |-> NoAlert]
    /\ act = [u \in Users |-> "none"]
    /\ seen = [u \in Users |-> NoAlert]
    /\ faults = 0

-----------------------------------------------------------------------------
(* Helpers *)

Active == {a \in Alerts : status[a] = "Active"}
Open == {a \in Alerts : status[a] \in {"Active", "Acknowledged"}}

\* Mutant of Newest: asks for the only active alert (SingleOrDefault).
OnlyActive == IF Cardinality(Active) = 1 THEN Active ELSE {}

\* The newest active alert, by OccurredAt.  With several of them, OccurredAt
\* comes from the clocks of several instances: it may be any.
Newest == Active

\* A counter, of which no more is asked than whether it is above three.
Counted(n) == IF n < MaxCount THEN n + 1 ELSE MaxCount

\* What is done with the n-th trigger of a window.
Decision(n) == IF n = 1 THEN "create" ELSE IF n <= 3 THEN "update" ELSE "silence"

Fault ==
    /\ faults < MaxFaults
    /\ faults' = faults + 1

\* Mutant of Leave: the gate is kept.
LeaveHolding(w, stage) ==
    /\ pc' = [pc EXCEPT ![w] = stage]
    /\ reading' = [reading EXCEPT ![w] = @ /\ stage = "retry"]
    /\ target' = [target EXCEPT ![w] = NoAlert]
    /\ UNCHANGED gate

\* The end of the iteration releases the gate; stage is "idle", or "retry" when
\* the message will be delivered again.
Leave(w, stage) ==
    /\ pc' = [pc EXCEPT ![w] = stage]
    /\ reading' = [reading EXCEPT ![w] = @ /\ stage = "retry"]
    /\ target' = [target EXCEPT ![w] = NoAlert]
    /\ gate' = [gate EXCEPT ![home[w]] = NoWorker]

\* The evaluation is over.  If the message could not be acknowledged, it is
\* delivered again.
Finish(w) ==
    \/ Leave(w, "idle") /\ UNCHANGED faults
    \/ Leave(w, "retry") /\ Fault

\* A call to the database fails, and with it the handler.
Fail(w) ==
    /\ Leave(w, "retry") /\ Fault
    /\ UNCHANGED <<envVars, status, windowVars, userVars>>

Goto(w, stage) ==
    /\ pc' = [pc EXCEPT ![w] = stage]
    /\ UNCHANGED <<reading, target, gate>>

-----------------------------------------------------------------------------
(* Actions *)

\* The environment.
Change ==
    /\ high' = ~high
    /\ UNCHANGED <<home, status, windowVars, gate, pc, reading, target, userVars, faults>>

\* A telemetry message is delivered, and the rule evaluated.
Receive(w) ==
    /\ pc[w] = "idle"
    /\ pc' = [pc EXCEPT ![w] = "enter"]
    /\ reading' = [reading EXCEPT ![w] = high]
    /\ UNCHANGED <<envVars, status, windowVars, gate, target, userVars, faults>>

\* A message that was not processed is delivered again, or given up.
Redeliver(w) ==
    /\ pc[w] = "retry"
    /\ \/ pc' = [pc EXCEPT ![w] = "enter"] /\ UNCHANGED reading
       \/ pc' = [pc EXCEPT ![w] = "idle"] /\ reading' = [reading EXCEPT ![w] = FALSE]
    /\ UNCHANGED <<envVars, status, windowVars, gate, target, userVars, faults>>

\* EnterAsync
Enter(w) ==
    /\ pc[w] = "enter" /\ gate[home[w]] = NoWorker
    /\ gate' = [gate EXCEPT ![home[w]] = w]
    /\ pc' = [pc EXCEPT ![w] = IF reading[w] THEN "count" ELSE "recover"]
    /\ UNCHANGED <<envVars, status, windowVars, reading, target, userVars, faults>>

Decide(w, n) ==
    IF Decision(n) = "silence"
    THEN Finish(w)
    ELSE Goto(w, Decision(n)) /\ UNCHANGED faults

\* EvaluateAsync of the aggregator, with Redis ...
Count(w) ==
    /\ pc[w] = "count"
    /\ count' = Counted(count)
    /\ Decide(w, count')
    /\ UNCHANGED <<envVars, status, local, userVars>>

\* ... and without: the call fails, after Redis has counted it or before, and
\* the window of the process decides.
CountLocally(w) ==
    LET i == home[w]
        n == Counted(local[i])
    IN  /\ pc[w] = "count"
        /\ Fault
        /\ count' \in {count, Counted(count)}
        /\ local' = [local EXCEPT ![i] = n]
        /\ IF Decision(n) = "silence" THEN Leave(w, "idle") ELSE Goto(w, Decision(n))
        /\ UNCHANGED <<envVars, status, userVars>>

\* Mutant of CheckActive: the first trigger of a window creates an alert.
CheckNothing(w) ==
    /\ pc[w] = "create"
    /\ Goto(w, "insert")
    /\ UNCHANGED <<envVars, status, windowVars, userVars, faults>>

\* hasActive, which guards against a counter that was lost or has expired.
\* UpdateExistingAlertAsync sets no status, and its result is ignored here ...
CheckActive(w) ==
    /\ pc[w] = "create"
    /\ \/ Active # {} /\ Finish(w)
       \/ Active = {} /\ Goto(w, "insert") /\ UNCHANGED faults
    /\ UNCHANGED <<envVars, status, windowVars, userVars>>

\* ... while for the second and third trigger an alert is created when there
\* was none to update.
Update(w) ==
    /\ pc[w] = "update"
    /\ \/ Active # {} /\ Finish(w)
       \/ Active = {} /\ Goto(w, "insert") /\ UNCHANGED faults
    /\ UNCHANGED <<envVars, status, windowVars, userVars>>

\* CreateAlertAsync and PublishAsync: one transaction for the alert and its
\* event.  Names of resolved alerts that nobody works on are used again.
Insert(w) ==
    /\ pc[w] = "insert"
    /\ \E a \in Alerts :
          /\ status[a] = "gone"
          /\ \A v \in Workers : target[v] # a
          /\ \A u \in Users : seen[u] # a
          /\ status' = [status EXCEPT ![a] = "Active"]
    /\ Finish(w)
    /\ UNCHANGED <<envVars, windowVars, userVars>>

\* TryAutoResolveAsync: the newest active alert is read ...
Recover(w) ==
    /\ pc[w] = "recover"
    /\ \/ /\ Newest = {} /\ Finish(w)
       \/ \E a \in Newest :
             /\ target' = [target EXCEPT ![w] = a]
             /\ pc' = [pc EXCEPT ![w] = "resolve"]
             /\ UNCHANGED <<reading, gate, faults>>
    /\ UNCHANGED <<envVars, status, windowVars, userVars>>

\* ... and saved as resolved, whatever has become of it.
AutoResolve(w) ==
    /\ pc[w] = "resolve"
    /\ status' = [status EXCEPT ![target[w]] = "gone"]
    /\ Finish(w)
    /\ UNCHANGED <<envVars, windowVars, userVars>>

\* A process dies: its gate and its window are gone, its messages come back.
Crash(i) ==
    /\ Fault
    /\ gate' = [gate EXCEPT ![i] = NoWorker]
    /\ local' = [local EXCEPT ![i] = 0]
    /\ pc' = [w \in Workers |->
                IF home[w] = i /\ pc[w] # "idle" THEN "retry" ELSE pc[w]]
    /\ target' = [w \in Workers |-> IF home[w] = i THEN NoAlert ELSE target[w]]
    /\ UNCHANGED <<envVars, status, count, reading, userVars>>

\* The key expires in Redis, and thirty minutes pass in a process's window.
Expire ==
    /\ count > 0
    /\ count' = 0
    /\ UNCHANGED <<envVars, status, local, gate, pc, reading, target, userVars, faults>>

ExpireLocally(i) ==
    /\ local[i] > 0
    /\ local' = [local EXCEPT ![i] = 0]
    /\ UNCHANGED <<envVars, status, count, gate, pc, reading, target, userVars, faults>>

\* AcknowledgeAsync: only an active alert is accepted ...
ReadToAcknowledge(u, a) ==
    /\ act[u] = "none" /\ status[a] = "Active"
    /\ act' = [act EXCEPT ![u] = "acknowledge"]
    /\ seen' = [seen EXCEPT ![u] = a]
    /\ UNCHANGED <<envVars, status, windowVars, gate, pc, reading, target, faults>>

\* ResolveAsync: any that is not resolved.
ReadToResolve(u, a) ==
    /\ act[u] = "none" /\ a \in Open
    /\ act' = [act EXCEPT ![u] = "resolve"]
    /\ seen' = [seen EXCEPT ![u] = a]
    /\ UNCHANGED <<envVars, status, windowVars, gate, pc, reading, target, faults>>

\* ... and saved with its event, or not at all.
SaveAct(u) ==
    /\ act[u] # "none"
    /\ \/ status' = [status EXCEPT ![seen[u]] =
                       IF act[u] = "resolve" THEN "gone" ELSE "Acknowledged"]
       \/ UNCHANGED status
    /\ act' = [act EXCEPT ![u] = "none"]
    /\ seen' = [seen EXCEPT ![u] = NoAlert]
    /\ UNCHANGED <<envVars, windowVars, gate, pc, reading, target, faults>>

\* The calls of an evaluation.
Step(w) ==
    \/ Enter(w) \/ Count(w) \/ CheckActive(w) \/ Update(w)
    \/ Insert(w) \/ Recover(w) \/ AutoResolve(w)

Next ==
    \/ Change \/ Expire
    \/ \E w \in Workers :
          \/ Receive(w) \/ Redeliver(w) \/ Step(w) \/ CountLocally(w)
          \/ pc[w] \in Inside /\ Fail(w)
    \/ \E i \in Instances : Crash(i) \/ ExpireLocally(i)
    \/ \E u \in Users :
          \/ \E a \in Alerts : ReadToAcknowledge(u, a) \/ ReadToResolve(u, a)
          \/ SaveAct(u)

Spec == Init /\ [][Next]_vars

\* Telemetry keeps coming, calls return, windows expire.
Fairness ==
    /\ \A w \in Workers : WF_vars(Receive(w)) /\ WF_vars(Redeliver(w)) /\ WF_vars(Step(w))
    /\ WF_vars(Expire) /\ \A i \in Instances : WF_vars(ExpireLocally(i))
    /\ \A u \in Users : WF_vars(SaveAct(u))

FairSpec == Spec /\ Fairness

-----------------------------------------------------------------------------
(* Properties *)

\* The gate serialises one instance only.  There are never more active alerts of
\* a key than instances that evaluate it, however often windows expire, counters
\* are lost, handlers are run again and alerts are resolved: with one instance
\* there is one.
ActiveBounded == Cardinality(Active) <= Cardinality({home[w] : w \in Workers})

\* While the metric stays high and telemetry keeps coming, there is an open
\* alert again and again: silencing, lost commits and alerts resolved too early
\* do not keep the condition hidden for ever.
EventuallyAlarmed == <>[]high => []<>(Open # {})

\* When the metric stays low, no active alert remains, duplicates included.
EventuallyCleared == <>[]~high => <>[](Active = {})
=============================================================================

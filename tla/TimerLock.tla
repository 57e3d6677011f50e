----------------------------- MODULE TimerLock -----------------------------
(***************************************************************************)
(* A background job that runs on every instance of the server, and the lock *)
(* in Redis that lets one of them run it at a time (LockedTimerService and  *)
(* RedisDistributedLockProvider).  Time passes in ticks; the duration of a  *)
(* stage that the code, the Redis client or the job limits counts down.     *)
(***************************************************************************)
EXTENDS Integers

CONSTANTS
    Instances,
    NoOne,      \* nobody holds the lock
    Stale,      \* the token of a holder that has gone or never knew
    Expiry,     \* the lock's time to live (LockExpiry)
    LeastInterval, MostInterval,   \* bounds of the renewal interval
    Answer,     \* the time in which a call to Redis returns or fails
    Grace,      \* the time a cancelled job takes to stop
    Period,     \* the time between two rounds of an instance
    MaxFaults   \* bound: failed calls and crashes

\* The renewal interval: a third of the time to live, within its bounds.
Interval ==
    LET third == Expiry \div 3
        capped == IF third <= MostInterval THEN third ELSE MostInterval
    IN  IF capped >= LeastInterval THEN capped ELSE LeastInterval

ASSUME ConstantsOK ==
    /\ NoOne # Stale /\ {NoOne, Stale} \cap Instances = {}
    /\ Expiry \in Nat /\ Answer \in Nat \ {0} /\ Grace \in Nat
    /\ LeastInterval \in Nat \ {0} /\ MostInterval \in Nat
    /\ Period \in Nat \ {0} /\ MaxFaults \in Nat

\* The lock outlives a renewal interval, two calls and a cancellation.
ASSUME Timely == 2 * Answer + Interval + Grace < Expiry

VARIABLES
    key,      \* who holds the lock in Redis
    ttl,      \* the time it has left; 0 when it has none
    pc,       \* where each instance is in its round
    left,     \* the time the stage may still take
    faults

vars == <<key, ttl, pc, left, faults>>

\* The job runs: between renewals, while one is sent or answered, or cancelled.
Busy == {"working", "renewing", "renewed", "stopping"}
Running == {i \in Instances : pc[i] \in Busy}

\* Stages that end when their time is over; "idle" may last longer and
\* "closing" and "releasing" take any time.
Limited == {"asking", "granted", "refused"} \cup Busy
Longest ==
    LET a == IF Answer >= Interval THEN Answer ELSE Interval
        b == IF Grace >= Period THEN Grace ELSE Period
    IN  IF a >= b THEN a ELSE b

TypeOK ==
    /\ key \in Instances \cup {NoOne, Stale}
    /\ ttl \in 0..Expiry
    /\ key # NoOne => ttl > 0
    /\ pc \in [Instances -> {"idle", "closing", "releasing"} \cup Limited]
    /\ left \in [Instances -> 0..Longest]
    /\ faults \in 0..MaxFaults

Init ==
    /\ key = NoOne /\ ttl = 0
    /\ pc = [i \in Instances |-> "idle"]
    /\ left = [i \in Instances |-> 0]
    /\ faults = 0

-----------------------------------------------------------------------------
(* Helpers *)

Goto(i, stage, time) ==
    /\ pc' = [pc EXCEPT ![i] = stage]
    /\ left' = [left EXCEPT ![i] = time]

Fault == faults < MaxFaults /\ faults' = faults + 1

\* Mutant of Take: the key is set without a time to live.
TakeForever(holder) == key' = holder /\ ttl' = 0

\* SET key token NX PX expiry, executed while nobody holds the lock.
Take(holder) == key' = holder /\ ttl' = Expiry

\* RenewScript and ReleaseScript act only on the caller's own token.
Extended(i) == key = i

\* Mutant of Freed: whoever holds the lock loses it.
FreedAnyway(i) == key' = NoOne /\ ttl' = 0

Freed(i) ==
    IF key = i THEN key' = NoOne /\ ttl' = 0 ELSE UNCHANGED <<key, ttl>>

\* The token of an instance that will not use it again.
Abandoned(i) == IF key = i THEN Stale ELSE key

-----------------------------------------------------------------------------
(* Actions: a round of an instance *)

\* The delay is over: the lock is asked for.
Ask(i) ==
    /\ pc[i] = "idle" /\ left[i] = 0
    /\ Goto(i, "asking", Answer)
    /\ UNCHANGED <<key, ttl, faults>>

\* Redis executes the SET: the lock is the instance's, or was taken already.
ExecuteSet(i) ==
    /\ pc[i] = "asking"
    /\ IF key = NoOne
       THEN Take(i) /\ Goto(i, "granted", left[i])
       ELSE UNCHANGED <<key, ttl>> /\ Goto(i, "refused", left[i])
    /\ UNCHANGED faults

\* The reply: the job and its renewals start, ...
Start(i) ==
    /\ pc[i] = "granted"
    /\ Goto(i, "working", Interval)
    /\ UNCHANGED <<key, ttl, faults>>

\* ... or the round is skipped.
Skip(i) ==
    /\ pc[i] = "refused"
    /\ Goto(i, "idle", Period)
    /\ UNCHANGED <<key, ttl, faults>>

\* The interval is over: a renewal is sent.
SendRenewal(i) ==
    /\ pc[i] = "working" /\ left[i] = 0
    /\ Goto(i, "renewing", Answer)
    /\ UNCHANGED <<key, ttl, faults>>

\* Redis executes the script: the lock has all its time again, or is lost.
ExecuteRenewal(i) ==
    /\ pc[i] = "renewing"
    /\ IF Extended(i)
       THEN ttl' = Expiry /\ Goto(i, "renewed", left[i])
       ELSE UNCHANGED ttl /\ Goto(i, "stopping", Grace)
    /\ UNCHANGED <<key, faults>>

Renewed(i) ==
    /\ pc[i] = "renewed"
    /\ Goto(i, "working", Interval)
    /\ UNCHANGED <<key, ttl, faults>>

\* Mutant of RenewalFails: the job goes on, and so do the renewals.
RenewalIgnored(i) ==
    /\ pc[i] \in {"renewing", "renewed"} /\ Fault
    /\ Goto(i, "working", Interval)
    /\ UNCHANGED <<key, ttl>>

\* The renewal fails, before or after the script: the job is cancelled.
RenewalFails(i) ==
    /\ pc[i] \in {"renewing", "renewed"} /\ Fault
    /\ Goto(i, "stopping", Grace)
    /\ UNCHANGED <<key, ttl>>

\* The job ends, by itself or because it was cancelled; a renewal that is
\* under way is awaited first.
BodyEnds(i) ==
    /\ pc[i] \in Busy
    /\ Goto(i, IF pc[i] = "renewing" THEN "closing" ELSE "releasing", 0)
    /\ UNCHANGED <<key, ttl, faults>>

CloseRenewal(i) ==
    /\ pc[i] = "closing"
    /\ ttl' \in {ttl} \cup (IF Extended(i) THEN {Expiry} ELSE {})
    /\ Goto(i, "releasing", 0)
    /\ UNCHANGED <<key, faults>>

Release(i) ==
    /\ pc[i] = "releasing"
    /\ Freed(i)
    /\ Goto(i, "idle", Period)
    /\ UNCHANGED faults

-----------------------------------------------------------------------------
(* Actions: faults *)

\* The SET fails for its caller: it was not executed, or its reply is lost.
AskFails(i) ==
    /\ pc[i] \in {"asking", "granted", "refused"} /\ Fault
    /\ \/ pc[i] = "asking" /\ key = NoOne /\ Take(Stale)
       \/ key' = Abandoned(i) /\ UNCHANGED ttl
    /\ Goto(i, "idle", Period)

\* The release fails: the key stays until its time is over.
ReleaseFails(i) ==
    /\ pc[i] = "releasing" /\ Fault
    /\ key' = Abandoned(i)
    /\ Goto(i, "idle", Period)
    /\ UNCHANGED ttl

\* The process ends and starts again.
Crash(i) ==
    /\ pc[i] # "idle" /\ Fault
    /\ key' = Abandoned(i)
    /\ Goto(i, "idle", Period)
    /\ UNCHANGED ttl

-----------------------------------------------------------------------------
(* Time *)

\* Mutant of Lapse: the key of a holder that is gone stays.
Remains == ttl' = (IF ttl > 1 THEN ttl - 1 ELSE ttl) /\ UNCHANGED key

\* Redis removes the key when its time is over.
Lapse ==
    /\ ttl' = IF ttl > 0 THEN ttl - 1 ELSE 0
    /\ key' = IF ttl = 1 THEN NoOne ELSE key

Tick ==
    /\ \A i \in Instances : pc[i] \in Limited => left[i] > 0
    /\ Lapse
    /\ left' = [i \in Instances |-> IF left[i] > 0 THEN left[i] - 1 ELSE 0]
    /\ UNCHANGED <<pc, faults>>

-----------------------------------------------------------------------------

Step(i) ==
    \/ Ask(i) \/ ExecuteSet(i) \/ Start(i) \/ Skip(i)
    \/ SendRenewal(i) \/ ExecuteRenewal(i) \/ Renewed(i)
    \/ BodyEnds(i) \/ CloseRenewal(i) \/ Release(i)

Failure(i) == RenewalFails(i) \/ AskFails(i) \/ ReleaseFails(i) \/ Crash(i)

Next == Tick \/ \E i \in Instances : Step(i) \/ Failure(i)

Spec == Init /\ [][Next]_vars

\* Calls are executed and answered, cancelled jobs stop and time passes.
\* Nothing makes a job that was not cancelled end.
Fairness ==
    /\ WF_vars(Tick)
    /\ \A i \in Instances :
        /\ WF_vars(Ask(i)) /\ WF_vars(ExecuteSet(i)) /\ WF_vars(Start(i))
        /\ WF_vars(Skip(i)) /\ WF_vars(SendRenewal(i))
        /\ WF_vars(ExecuteRenewal(i)) /\ WF_vars(Renewed(i))
        /\ WF_vars(pc[i] = "stopping" /\ BodyEnds(i))
        /\ WF_vars(CloseRenewal(i)) /\ WF_vars(Release(i))

FairSpec == Spec /\ Fairness

-----------------------------------------------------------------------------
(* Properties *)

\* The job runs on one instance at a time, whatever calls fail and whoever
\* crashes, for as long as a cancelled job stops within Grace (the guarantee
\* at the end of LockedTimerService, ExecuteWorkAsync).
OneBody == \A i, j \in Running : i = j

\* The time for which an instance may still believe in its lock.
Believes(i) ==
    CASE pc[i] = "granted"  -> left[i] + Interval + Answer + Grace
      [] pc[i] = "working"  -> left[i] + Answer + Grace
      [] pc[i] = "renewing" -> left[i] + Grace
      [] pc[i] = "renewed"  -> left[i] + Interval + Answer + Grace
      [] pc[i] = "stopping" -> left[i]
      [] OTHER -> 0

\* Whoever runs the job, or is about to, holds the lock, and holds it for
\* longer than it may go on without having extended it: no renewal ever comes
\* too late (RenewLockUntilCancelledAsync).
HolderIsSafe ==
    \A i \in Instances :
        pc[i] \in Busy \cup {"granted"} => key = i /\ Believes(i) < ttl

\* The calls that are under way are answered within Answer.
AnswersInTime ==
    \A i \in Instances :
        pc[i] \in {"asking", "granted", "refused", "renewing", "renewed"}
            => left[i] <= Answer

\* The job goes on being run: a lock that a crash or a lost reply left behind
\* does not keep every instance from its work.
RunsAgain == []<>(Running # {})
=============================================================================

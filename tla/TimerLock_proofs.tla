-------------------------- MODULE TimerLock_proofs --------------------------
(* That the locked job runs on one instance at a time, for every value of    *)
(* the constants that satisfies Timely.                                      *)
EXTENDS TimerLock, TLAPS

\* The renewal interval is at least one tick.
LEMMA IntervalType == Interval \in Nat \ {0}
<1> DEFINE third == Expiry \div 3
<1>1. third \in Int
  BY ConstantsOK
<1> HIDE DEF third
<1>2. Interval = LET capped == IF third <= MostInterval THEN third ELSE MostInterval
                 IN  IF capped >= LeastInterval THEN capped ELSE LeastInterval
  BY DEF Interval, third
<1> QED
  BY <1>1, <1>2, ConstantsOK

\* Every duration fits into Longest.
LEMMA LongestType ==
  /\ Longest \in Nat
  /\ Answer <= Longest /\ Interval <= Longest
  /\ Grace <= Longest /\ Period <= Longest
  BY IntervalType, ConstantsOK DEF Longest

\* The inductive invariant: whoever believes in its lock has it for longer, and
\* that needs the bound of the calls under way.
IInv == TypeOK /\ AnswersInTime /\ HolderIsSafe

\* The initial state satisfies the invariant.
LEMMA InitIInv == Init => IInv
<1> SUFFICES ASSUME Init PROVE IInv
  OBVIOUS
<1> USE ConstantsOK, LongestType DEF Init
<1>1. TypeOK
  BY DEF TypeOK, Limited, Busy
<1>2. AnswersInTime
  BY DEF AnswersInTime
<1>3. HolderIsSafe
  BY DEF HolderIsSafe, Busy
<1> QED
  BY <1>1, <1>2, <1>3 DEF IInv

-----------------------------------------------------------------------------
(* What a step of one instance must do *)

\* The stages of an instance.
Stages == {"idle", "closing", "releasing"} \cup Limited

\* A step of instance i that takes it to a stage with a time limit, and leaves
\* what others hold to them, keeps the invariant when it is right about i.
LEMMA StepOfOne ==
  ASSUME IInv, NEW i \in Instances, NEW stage \in Stages, NEW time \in 0..Longest,
         Goto(i, stage, time),
         stage \in {"asking", "granted", "refused", "renewing", "renewed"}
            => time <= Answer,
         key' \in Instances \cup {NoOne, Stale}, ttl' \in 0..Expiry,
         key' # NoOne => ttl' > 0,
         faults' \in 0..MaxFaults,
         \A j \in Instances \ {i} : key = j => key' = j /\ ttl' = ttl,
         stage \in Busy \cup {"granted"} => key' = i /\ Believes(i)' < ttl'
  PROVE  IInv'
<1>1. /\ pc' = [pc EXCEPT ![i] = stage]
      /\ left' = [left EXCEPT ![i] = time]
      /\ pc \in [Instances -> Stages]
      /\ left \in [Instances -> 0..Longest]
  BY DEF Goto, IInv, TypeOK, Stages
<1>2. /\ pc'[i] = stage /\ left'[i] = time
      /\ \A j \in Instances \ {i} : pc'[j] = pc[j] /\ left'[j] = left[j]
  BY <1>1
<1>3. TypeOK'
  <2>1. pc' \in [Instances -> Stages] /\ left' \in [Instances -> 0..Longest]
    BY <1>1
  <2> QED
    BY <2>1 DEF TypeOK, Stages
<1>4. AnswersInTime'
  BY <1>2 DEF IInv, AnswersInTime
<1>5. HolderIsSafe'
  <2> SUFFICES ASSUME NEW j \in Instances, pc'[j] \in Busy \cup {"granted"}
               PROVE  key' = j /\ Believes(j)' < ttl'
    BY DEF HolderIsSafe, Busy
  <2>1. CASE j = i
    BY <2>1, <1>2
  <2>2. CASE j # i
    <3>1. pc'[j] = pc[j] /\ left'[j] = left[j]
      BY <1>2, <2>2
    <3>2. key = j /\ Believes(j) < ttl
      BY <3>1 DEF IInv, HolderIsSafe
    <3>3. Believes(j)' = Believes(j)
      BY <3>1 DEF Believes
    <3> QED
      BY <2>2, <3>2, <3>3
  <2> QED
    BY <2>1, <2>2
<1> QED
  BY <1>3, <1>4, <1>5 DEF IInv

\* An instance that has gone leaves its token, which nobody uses.
LEMMA Gone ==
  ASSUME IInv, NEW i \in Instances
  PROVE  /\ Abandoned(i) \in Instances \cup {NoOne, Stale}
         /\ Abandoned(i) # NoOne => ttl > 0
         /\ \A j \in Instances \ {i} : key = j => Abandoned(i) = j
  BY ConstantsOK DEF IInv, TypeOK, Abandoned

-----------------------------------------------------------------------------
(* Every step keeps the invariant *)

\* A step of an instance that does not fail.
LEMMA StepIInv ==
  ASSUME IInv, NEW i \in Instances, Step(i)
  PROVE  IInv'
<1> USE ConstantsOK, LongestType, IntervalType DEF Stages, Limited, Busy
<1>1. /\ pc[i] \in Stages /\ left[i] \in 0..Longest
      /\ key \in Instances \cup {NoOne, Stale} /\ ttl \in 0..Expiry
      /\ key # NoOne => ttl > 0
      /\ faults \in 0..MaxFaults
  BY DEF IInv, TypeOK
<1>2. /\ pc[i] \in {"asking", "granted", "refused", "renewing", "renewed"}
            => left[i] <= Answer
      /\ pc[i] \in Busy \cup {"granted"} => key = i /\ Believes(i) < ttl
  BY DEF IInv, AnswersInTime, HolderIsSafe
<1>3. ASSUME NEW stage, NEW time, Goto(i, stage, time)
      PROVE  pc'[i] = stage /\ left'[i] = time
  BY <1>3 DEF Goto, IInv, TypeOK
<1>a. CASE Ask(i)
  BY <1>a, <1>1, StepOfOne DEF Ask
<1>b. CASE ExecuteSet(i)
  <2>1. CASE key = NoOne
    <3>1. key' = i /\ ttl' = Expiry /\ Goto(i, "granted", left[i]) /\ faults' = faults
      BY <1>b, <2>1 DEF ExecuteSet, Take
    <3>2. left[i] <= Answer
      BY <1>b, <1>2 DEF ExecuteSet
    <3>3. Believes(i)' = left[i] + Interval + Answer + Grace
      BY <3>1, <1>3 DEF Believes
    <3>4. Believes(i)' < ttl'
      BY <3>1, <3>2, <3>3, <1>1, Timely
    <3>5. Expiry > 0
      BY Timely
    <3>6. \A j \in Instances \ {i} : key = j => key' = j /\ ttl' = ttl
      BY <2>1
    <3> QED
      BY <3>1, <3>2, <3>4, <3>5, <3>6, <1>1, StepOfOne
  <2>2. CASE key # NoOne
    BY <1>b, <2>2, <1>1, <1>2, StepOfOne DEF ExecuteSet
  <2> QED
    BY <2>1, <2>2
<1>c. CASE Start(i)
  <2>1. key' = key /\ ttl' = ttl /\ faults' = faults /\ Goto(i, "working", Interval)
    BY <1>c DEF Start
  <2>2. Believes(i)' = Interval + Answer + Grace
    BY <2>1, <1>3 DEF Believes
  <2>3. key = i /\ left[i] + Interval + Answer + Grace < ttl
    BY <1>c, <1>2 DEF Start, Believes
  <2> QED
    BY <2>1, <2>2, <2>3, <1>1, StepOfOne
<1>d. CASE Skip(i)
  BY <1>d, <1>1, StepOfOne DEF Skip
<1>e. CASE SendRenewal(i)
  <2>1. key' = key /\ ttl' = ttl /\ faults' = faults /\ Goto(i, "renewing", Answer)
    BY <1>e DEF SendRenewal
  <2>2. Believes(i)' = Answer + Grace
    BY <2>1, <1>3 DEF Believes
  <2>3. key = i /\ left[i] + Answer + Grace < ttl
    BY <1>e, <1>2 DEF SendRenewal, Believes
  <2> QED
    BY <2>1, <2>2, <2>3, <1>1, StepOfOne
<1>f. CASE ExecuteRenewal(i)
  <2>1. key = i /\ left[i] + Grace < ttl /\ left[i] <= Answer
    BY <1>f, <1>2 DEF ExecuteRenewal, Believes
  <2>2. key' = i /\ ttl' = Expiry /\ faults' = faults /\ Goto(i, "renewed", left[i])
    BY <1>f, <2>1 DEF ExecuteRenewal, Extended
  <2>3. Believes(i)' = left[i] + Interval + Answer + Grace
    BY <2>2, <1>3 DEF Believes
  <2>4. Believes(i)' < ttl' /\ Expiry > 0
    BY <2>1, <2>2, <2>3, <1>1, Timely
  <2>5. \A j \in Instances \ {i} : key = j => key' = j /\ ttl' = ttl
    BY <2>1
  <2> QED
    BY <2>1, <2>2, <2>4, <2>5, <1>1, StepOfOne
<1>g. CASE Renewed(i)
  <2>1. key' = key /\ ttl' = ttl /\ faults' = faults /\ Goto(i, "working", Interval)
    BY <1>g DEF Renewed
  <2>2. Believes(i)' = Interval + Answer + Grace
    BY <2>1, <1>3 DEF Believes
  <2>3. key = i /\ left[i] + Interval + Answer + Grace < ttl
    BY <1>g, <1>2 DEF Renewed, Believes
  <2> QED
    BY <2>1, <2>2, <2>3, <1>1, StepOfOne
<1>h. CASE BodyEnds(i)
  <2>1. PICK stage \in {"closing", "releasing"} :
          key' = key /\ ttl' = ttl /\ faults' = faults /\ Goto(i, stage, 0)
    BY <1>h DEF BodyEnds
  <2> QED
    BY <2>1, <1>1, StepOfOne
<1>i. CASE CloseRenewal(i)
  <2>1. /\ key' = key /\ faults' = faults /\ Goto(i, "releasing", 0)
        /\ ttl' \in {ttl, Expiry} /\ (ttl' # ttl => key = i)
    BY <1>i DEF CloseRenewal, Extended
  <2>2. Expiry > 0
    BY Timely
  <2>3. \A j \in Instances \ {i} : key = j => key' = j /\ ttl' = ttl
    BY <2>1
  <2> QED
    BY <2>1, <2>2, <2>3, <1>1, StepOfOne
<1>j. CASE Release(i)
  <2>1. /\ faults' = faults /\ Goto(i, "idle", Period)
        /\ IF key = i THEN key' = NoOne /\ ttl' = 0 ELSE key' = key /\ ttl' = ttl
    BY <1>j DEF Release, Freed
  <2>2. \A j \in Instances \ {i} : key = j => key' = j /\ ttl' = ttl
    BY <2>1
  <2>3. /\ key' \in Instances \cup {NoOne, Stale} /\ ttl' \in 0..Expiry
        /\ key' # NoOne => ttl' > 0
    BY <2>1, <1>1
  <2> QED
    BY <2>1, <2>2, <2>3, <1>1, StepOfOne
<1> QED
  BY <1>a, <1>b, <1>c, <1>d, <1>e, <1>f, <1>g, <1>h, <1>i, <1>j DEF Step

\* A failed call or a crash.
LEMMA FailureIInv ==
  ASSUME IInv, NEW i \in Instances, Failure(i)
  PROVE  IInv'
<1> USE ConstantsOK, LongestType, IntervalType DEF Stages, Limited, Busy
<1>1. /\ key \in Instances \cup {NoOne, Stale} /\ ttl \in 0..Expiry
      /\ key # NoOne => ttl > 0
      /\ faults \in 0..MaxFaults
  BY DEF IInv, TypeOK
<1>2. Fault => faults' \in 0..MaxFaults
  BY <1>1 DEF Fault
<1>a. CASE RenewalFails(i)
  <2>1. key' = key /\ ttl' = ttl /\ Fault /\ Goto(i, "stopping", Grace)
    BY <1>a DEF RenewalFails
  <2>2. /\ pc[i] \in {"renewing", "renewed"} /\ left[i] \in 0..Longest
        /\ key = i /\ Believes(i) < ttl
    BY <1>a DEF RenewalFails, IInv, HolderIsSafe, TypeOK
  <2>3. Grace < ttl
    BY <2>2, <1>1 DEF Believes
  <2>4. Believes(i)' = Grace
    BY <2>1 DEF Goto, Believes, IInv, TypeOK
  <2> QED
    BY <2>1, <2>2, <2>3, <2>4, <1>1, <1>2, StepOfOne
<1>b. CASE AskFails(i)
  <2>1. Fault /\ Goto(i, "idle", Period)
    BY <1>b DEF AskFails
  <2>2. CASE key = NoOne /\ Take(Stale)
    <3>1. key' = Stale /\ ttl' = Expiry /\ Expiry > 0
      BY <2>2, Timely DEF Take
    <3> QED
      BY <2>1, <2>2, <3>1, <1>1, <1>2, StepOfOne
  <2>3. CASE key' = Abandoned(i) /\ UNCHANGED ttl
    BY <2>1, <2>3, <1>1, <1>2, Gone, StepOfOne
  <2> QED
    BY <1>b, <2>2, <2>3 DEF AskFails
<1>c. CASE ReleaseFails(i)
  BY <1>c, <1>1, <1>2, Gone, StepOfOne DEF ReleaseFails
<1>d. CASE Crash(i)
  BY <1>d, <1>1, <1>2, Gone, StepOfOne DEF Crash
<1> QED
  BY <1>a, <1>b, <1>c, <1>d DEF Failure

\* Time passes for the lock and for its holder alike.
LEMMA TickIInv ==
  ASSUME IInv, Tick
  PROVE  IInv'
<1> USE ConstantsOK, LongestType, IntervalType
<1>1. /\ key \in Instances \cup {NoOne, Stale} /\ ttl \in 0..Expiry
      /\ key # NoOne => ttl > 0
      /\ left \in [Instances -> 0..Longest]
      /\ pc' = pc /\ faults' = faults
      /\ ttl' = (IF ttl > 0 THEN ttl - 1 ELSE 0)
      /\ key' = (IF ttl = 1 THEN NoOne ELSE key)
      /\ left' = [i \in Instances |-> IF left[i] > 0 THEN left[i] - 1 ELSE 0]
  BY DEF IInv, TypeOK, Tick, Lapse
<1>2. TypeOK'
  <2>1. left' \in [Instances -> 0..Longest]
    BY <1>1
  <2> QED
    BY <1>1, <2>1 DEF IInv, TypeOK
<1>3. AnswersInTime'
  <2> SUFFICES ASSUME NEW i \in Instances,
                      pc[i] \in {"asking", "granted", "refused", "renewing", "renewed"}
               PROVE  left'[i] <= Answer
    BY <1>1 DEF AnswersInTime
  <2>1. left[i] <= Answer /\ left[i] \in 0..Longest
    BY <1>1 DEF IInv, AnswersInTime
  <2> QED
    BY <1>1, <2>1
<1>4. HolderIsSafe'
  <2> SUFFICES ASSUME NEW i \in Instances, pc[i] \in Busy \cup {"granted"}
               PROVE  key' = i /\ Believes(i)' < ttl'
    BY <1>1 DEF HolderIsSafe, Busy
  <2>1. key = i /\ Believes(i) < ttl
    BY DEF IInv, HolderIsSafe
  <2>2. left[i] > 0 /\ left[i] \in 0..Longest
    BY <1>1 DEF Tick, Limited, Busy
  <2>3. left'[i] = left[i] - 1 /\ pc'[i] = pc[i]
    BY <1>1, <2>2
  <2>4. Believes(i)' = Believes(i) - 1 /\ Believes(i) \in Nat /\ Believes(i) >= 1
    BY <2>2, <2>3 DEF Believes, Busy
  <2> QED
    BY <1>1, <2>1, <2>4
<1> QED
  BY <1>2, <1>3, <1>4 DEF IInv

\* The invariant is inductive.
LEMMA NextIInv == IInv /\ [Next]_vars => IInv'
<1> SUFFICES ASSUME IInv, [Next]_vars PROVE IInv'
  OBVIOUS
<1>1. CASE Tick
  BY <1>1, TickIInv
<1>2. ASSUME NEW i \in Instances, Step(i) PROVE IInv'
  BY <1>2, StepIInv
<1>3. ASSUME NEW i \in Instances, Failure(i) PROVE IInv'
  BY <1>3, FailureIInv
<1>4. CASE UNCHANGED vars
  BY <1>4 DEF vars, IInv, TypeOK, AnswersInTime, HolderIsSafe, Believes
<1> QED
  BY <1>1, <1>2, <1>3, <1>4 DEF Next

\* The inductive invariant always holds.
THEOREM Invariance == Spec => []IInv
  BY InitIInv, NextIInv, PTL DEF Spec

\* Type correctness, for every value of the constants.
THEOREM TypeCorrect == Spec => []TypeOK
<1>1. IInv => TypeOK
  BY DEF IInv
<1> QED
  BY <1>1, Invariance, PTL

\* No instance outlives its lock (RenewLockUntilCancelledAsync), ...
THEOREM LockOutlivesJob == Spec => []HolderIsSafe
<1>1. IInv => HolderIsSafe
  BY DEF IInv
<1> QED
  BY <1>1, Invariance, PTL

\* ... so the job runs on one instance at a time (LockedTimerService): two that
\* run it would both hold the lock.
THEOREM MutualExclusion == Spec => []OneBody
<1>1. IInv => OneBody
  BY DEF IInv, HolderIsSafe, OneBody, Running
<1> QED
  BY <1>1, Invariance, PTL
=============================================================================

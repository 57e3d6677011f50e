------------------------- MODULE AlertEngine_proofs -------------------------
(* That a key has at most as many active alerts as instances evaluate it, for *)
(* any number of instances, evaluations, users and faults.                    *)
EXTENDS AlertEngine, TLAPS, FiniteSetTheorems

\* Whoever is inside holds the gate of its instance.
GateHeld == \A w \in Workers : pc[w] \in Inside => gate[home[w]] = w

\* The instances that evaluate the key, and those about to insert an alert.
Used == {home[w] : w \in Workers}
Inserting == {i \in Used : \E w \in Workers : home[w] = i /\ pc[w] = "insert"}

\* An insertion was decided upon while there was no active alert, so active
\* alerts and pending insertions share the instances.
Shared ==
    /\ IsFiniteSet(Active)
    /\ Cardinality(Active) + Cardinality(Inserting) <= Cardinality(Used)

IInv == TypeOK /\ GateHeld /\ Shared

-----------------------------------------------------------------------------
(* Types *)

\* The initial states are well-formed.
LEMMA TypeInit == Init => TypeOK
  <1> SUFFICES ASSUME Init PROVE TypeOK
    OBVIOUS
  <1> USE ConstantsOK DEF Init
  <1>1. /\ status \in [Alerts -> Statuses]
        /\ count \in 0..MaxCount /\ local \in [Instances -> 0..MaxCount]
        /\ faults \in 0..MaxFaults
    BY DEF MaxCount, Statuses
  <1>2. /\ gate \in [Instances -> Workers \cup {NoWorker}]
        /\ pc \in [Workers -> Stages] /\ target \in [Workers -> Alerts \cup {NoAlert}]
        /\ act \in [Users -> {"none", "acknowledge", "resolve"}]
        /\ seen \in [Users -> Alerts \cup {NoAlert}]
    BY DEF Stages
  <1>3. reading \in [Workers -> BOOLEAN] /\ high \in BOOLEAN
    BY Zenon
  <1>4. /\ \A w \in Workers : pc[w] # "resolve"
        /\ \A u \in Users : act[u] = "none"
    OBVIOUS
  <1>5. QED
    BY <1>1, <1>2, <1>3, <1>4 DEF TypeOK

\* What the calls of an evaluation share.
LEMMA MoveType ==
  ASSUME TypeOK, NEW w \in Workers, NEW stage \in Stages \ {"resolve"},
         Leave(w, stage) \/ Goto(w, stage)
  PROVE  /\ gate' \in [Instances -> Workers \cup {NoWorker}]
         /\ pc' \in [Workers -> Stages]
         /\ reading' \in [Workers -> BOOLEAN]
         /\ target' \in [Workers -> Alerts \cup {NoAlert}]
         /\ \A v \in Workers : pc'[v] = "resolve" => target'[v] # NoAlert
  <1> USE ConstantsOK DEF TypeOK
  <1>1. CASE Leave(w, stage)
    <2>1. reading' \in [Workers -> BOOLEAN]
      BY <1>1, Zenon DEF Leave
    <2>2. QED
      BY <1>1, <2>1 DEF Leave, Stages
  <1>2. CASE Goto(w, stage)
    BY <1>2 DEF Goto
  <1>3. QED
    BY <1>1, <1>2

LEMMA FaultType == TypeOK /\ Fault => faults' \in 0..MaxFaults
  BY ConstantsOK DEF TypeOK, Fault

LEMMA CountedType == \A n \in 0..MaxCount : Counted(n) \in 0..MaxCount
  BY DEF Counted, MaxCount

\* Every decision is "create", "update" or "silence".
LEMMA Decided == \A n : Decision(n) \in {"create", "update", "silence"}
  BY DEF Decision

\* A call of an evaluation keeps the types.
LEMMA StepType ==
  ASSUME TypeOK, NEW w \in Workers, Step(w) \/ CountLocally(w) \/ Fail(w)
  PROVE  TypeOK'
  <1> USE DEF TypeOK, envVars, windowVars, userVars
  <1>0. ASSUME Finish(w)
        PROVE  faults' \in 0..MaxFaults /\ \E stage \in {"idle", "retry"} : Leave(w, stage)
    BY <1>0, FaultType DEF Finish
  <1>m. ASSUME NEW stage \in Stages \ {"resolve"}, Leave(w, stage) \/ Goto(w, stage),
               status' \in [Alerts -> Statuses], count' \in 0..MaxCount,
               local' \in [Instances -> 0..MaxCount], faults' \in 0..MaxFaults,
               UNCHANGED <<home, high, act, seen>>
        PROVE  TypeOK'
    BY <1>m, MoveType
  <1>1. CASE Enter(w)
    <2>1. pc' \in [Workers -> Stages] /\ gate' \in [Instances -> Workers \cup {NoWorker}]
      BY <1>1 DEF Enter, Stages
    <2>2. \A v \in Workers : pc'[v] = "resolve" => pc[v] = "resolve"
      BY <1>1 DEF Enter
    <2>3. QED
      BY <1>1, <2>1, <2>2 DEF Enter
  <1>2. CASE Count(w)
    <2>1. count' \in 0..MaxCount /\ UNCHANGED <<home, high, status, local, act, seen>>
      BY <1>2, CountedType DEF Count
    <2>2. CASE Finish(w)
      BY <1>0, <1>m, <2>1, <2>2 DEF Stages
    <2>3. CASE ~ Finish(w)
      <3>1. \E stage \in {"create", "update"} : Goto(w, stage)
        BY <1>2, <2>3, Decided DEF Count, Decide
      <3>2. UNCHANGED faults
        BY <1>2, <2>3 DEF Count, Decide
      <3>3. QED
        BY <1>m, <2>1, <3>1, <3>2 DEF Stages
    <2>4. QED
      BY <2>2, <2>3
  <1>3. CASE CountLocally(w)
    <2>1. home[w] \in Instances
      BY ConstantsOK
    <2>2. local' \in [Instances -> 0..MaxCount] /\ count' \in 0..MaxCount
      BY <1>3, <2>1, CountedType DEF CountLocally
    <2>3. faults' \in 0..MaxFaults /\ UNCHANGED <<home, high, status, act, seen>>
      BY <1>3, FaultType DEF CountLocally
    <2>4. Leave(w, "idle") \/ \E stage \in {"create", "update"} : Goto(w, stage)
      BY <1>3, Decided DEF CountLocally
    <2>5. QED
      BY <1>m, <2>2, <2>3, <2>4 DEF Stages
  <1>4. CASE CheckActive(w) \/ Update(w)
    <2>1. UNCHANGED <<home, high, status, count, local, act, seen>>
      BY <1>4 DEF CheckActive, Update
    <2>2. Finish(w) \/ (Goto(w, "insert") /\ UNCHANGED faults)
      BY <1>4 DEF CheckActive, Update
    <2>3. QED
      BY <1>0, <1>m, <2>1, <2>2 DEF Stages
  <1>5. CASE Insert(w) \/ AutoResolve(w)
    <2>1. UNCHANGED <<home, high, count, local, act, seen>> /\ Finish(w)
      BY <1>5 DEF Insert, AutoResolve
    <2>2. status' \in [Alerts -> Statuses]
      BY <1>5 DEF Insert, AutoResolve, Statuses
    <2>3. QED
      BY <1>0, <1>m, <2>1, <2>2 DEF Stages
  <1>6. CASE Recover(w)
    <2>1. UNCHANGED <<home, high, status, count, local, act, seen>>
      BY <1>6 DEF Recover
    <2>2. CASE Finish(w)
      BY <1>0, <1>m, <2>1, <2>2 DEF Stages
    <2>3. CASE ~ Finish(w)
      <3>1. PICK a \in Alerts : target' = [target EXCEPT ![w] = a]
        BY <1>6, <2>3 DEF Recover, Newest, Active
      <3>2. pc' = [pc EXCEPT ![w] = "resolve"] /\ UNCHANGED <<reading, gate, faults>>
        BY <1>6, <2>3 DEF Recover
      <3>3. \A v \in Workers : pc'[v] = "resolve" => target'[v] # NoAlert
        BY <3>1, <3>2, ConstantsOK
      <3>4. QED
        BY <2>1, <3>1, <3>2, <3>3 DEF Stages
    <2>4. QED
      BY <2>2, <2>3
  <1>7. CASE Fail(w)
    BY <1>m, <1>7, FaultType DEF Fail, Stages
  <1>8. QED
    BY <1>1, <1>2, <1>3, <1>4, <1>5, <1>6, <1>7 DEF Step

\* Every step keeps the types.
LEMMA TypeStep == TypeOK /\ [Next]_vars => TypeOK'
  <1> SUFFICES ASSUME TypeOK, [Next]_vars PROVE TypeOK'
    OBVIOUS
  <1> USE ConstantsOK DEF TypeOK, envVars, windowVars, userVars
  <1>1. CASE Change \/ Expire
    <2>0. high' \in BOOLEAN
      BY <1>1, Zenon DEF Change, Expire
    <2>1. count' \in 0..MaxCount
      BY <1>1 DEF Change, Expire, MaxCount
    <2>2. UNCHANGED <<home, status, local, gate, pc, reading, target, act, seen, faults>>
      BY <1>1 DEF Change, Expire
    <2>3. QED
      BY <2>0, <2>1, <2>2
  <1>2. ASSUME NEW w \in Workers, Receive(w) \/ Redeliver(w) PROVE TypeOK'
    <2>1. pc' \in [Workers -> Stages]
      BY <1>2 DEF Receive, Redeliver, Stages
    <2>2. reading' \in [Workers -> BOOLEAN]
      BY <1>2, Zenon DEF Receive, Redeliver
    <2>3. \A v \in Workers : pc'[v] = "resolve" => pc[v] = "resolve"
      BY <1>2 DEF Receive, Redeliver
    <2>4. QED
      BY <1>2, <2>1, <2>2, <2>3 DEF Receive, Redeliver
  <1>3. ASSUME NEW w \in Workers, Step(w) \/ CountLocally(w) \/ Fail(w) PROVE TypeOK'
    BY <1>3, StepType
  <1>4. ASSUME NEW i \in Instances, Crash(i) PROVE TypeOK'
    <2>1. pc' \in [Workers -> Stages] /\ target' \in [Workers -> Alerts \cup {NoAlert}]
      BY <1>4 DEF Crash, Stages
    <2>2. \A v \in Workers : pc'[v] = "resolve" => target'[v] # NoAlert
      BY <1>4 DEF Crash
    <2>3. faults' \in 0..MaxFaults
      BY <1>4, FaultType DEF Crash
    <2>4. QED
      BY <1>4, <2>1, <2>2, <2>3 DEF Crash, MaxCount
  <1>5. ASSUME NEW i \in Instances, ExpireLocally(i) PROVE TypeOK'
    BY <1>5 DEF ExpireLocally, MaxCount
  <1>6. ASSUME NEW u \in Users, NEW a \in Alerts,
               ReadToAcknowledge(u, a) \/ ReadToResolve(u, a)
        PROVE  TypeOK'
    BY <1>6 DEF ReadToAcknowledge, ReadToResolve
  <1>7. ASSUME NEW u \in Users, SaveAct(u) PROVE TypeOK'
    <2>1. status' \in [Alerts -> Statuses]
      BY <1>7 DEF SaveAct, Statuses
    <2>2. QED
      BY <1>7, <2>1 DEF SaveAct
  <1>8. CASE UNCHANGED vars
    BY <1>8 DEF vars
  <1>9. QED
    BY <1>1, <1>2, <1>3, <1>4, <1>5, <1>6, <1>7, <1>8 DEF Next

-----------------------------------------------------------------------------
(* The gate *)

\* A worker that is inside and goes on, or leaves and gives its gate back.
LEMMA MoveGate ==
  ASSUME TypeOK, GateHeld, NEW w \in Workers, pc[w] \in Inside, UNCHANGED home,
         \/ \E stage \in {"idle", "retry"} : Leave(w, stage)
         \/ \E stage \in Inside : pc' = [pc EXCEPT ![w] = stage] /\ UNCHANGED gate
  PROVE  GateHeld'
  <1> USE ConstantsOK DEF TypeOK, GateHeld
  <1>1. ASSUME NEW stage \in {"idle", "retry"}, Leave(w, stage) PROVE GateHeld'
    <2> SUFFICES ASSUME NEW v \in Workers, pc'[v] \in Inside PROVE gate'[home[v]] = v
      OBVIOUS
    <2>1. v # w
      BY <1>1 DEF Leave, Inside
    <2>2. pc[v] \in Inside /\ gate[home[v]] = v /\ gate[home[w]] = w
      BY <1>1, <2>1 DEF Leave
    <2>3. home[v] # home[w]
      BY <2>1, <2>2
    <2>4. QED
      BY <1>1, <2>2, <2>3 DEF Leave
  <1>2. ASSUME NEW stage \in Inside, pc' = [pc EXCEPT ![w] = stage], UNCHANGED gate
        PROVE  GateHeld'
    BY <1>2
  <1>3. QED
    BY <1>1, <1>2

\* How the calls inside the gate move their worker.
LEMMA InsideMoves ==
  ASSUME TypeOK, NEW w \in Workers,
         \/ Count(w) \/ CheckActive(w) \/ Update(w) \/ Insert(w) \/ Recover(w)
         \/ AutoResolve(w) \/ CountLocally(w) \/ (pc[w] \in Inside /\ Fail(w))
  PROVE  /\ pc[w] \in Inside /\ UNCHANGED home
         /\ \/ \E stage \in {"idle", "retry"} : Leave(w, stage)
            \/ \E stage \in Inside : pc' = [pc EXCEPT ![w] = stage] /\ UNCHANGED gate
  <1>1. UNCHANGED home
    BY DEF Count, CheckActive, Update, Insert, Recover, AutoResolve, CountLocally, Fail, envVars
  <1>2. pc[w] \in Inside
    BY DEF Count, CheckActive, Update, Insert, Recover, AutoResolve, CountLocally, Inside, Stages
  <1>3. ASSUME NEW stage \in {"create", "update", "insert"}, Goto(w, stage)
        PROVE  \E s \in Inside : pc' = [pc EXCEPT ![w] = s] /\ UNCHANGED gate
    BY <1>3 DEF Goto, Inside, Stages
  <1>4. Finish(w) => \E stage \in {"idle", "retry"} : Leave(w, stage)
    BY DEF Finish
  <1>5. CASE Count(w)
    BY <1>1, <1>2, <1>3, <1>4, <1>5, Decided DEF Count, Decide
  <1>6. CASE CountLocally(w)
    BY <1>1, <1>2, <1>3, <1>6, Decided DEF CountLocally
  <1>7. CASE CheckActive(w) \/ Update(w)
    BY <1>1, <1>2, <1>3, <1>4, <1>7 DEF CheckActive, Update
  <1>8. CASE Insert(w) \/ AutoResolve(w) \/ Fail(w)
    BY <1>1, <1>2, <1>4, <1>8 DEF Insert, AutoResolve, Fail
  <1>9. CASE Recover(w)
    BY <1>1, <1>2, <1>4, <1>9 DEF Recover, Inside, Stages
  <1>10. QED
    BY <1>5, <1>6, <1>7, <1>8, <1>9

\* Every step keeps the gates with those who are inside.
LEMMA GateStep ==
  ASSUME TypeOK, GateHeld, [Next]_vars
  PROVE  GateHeld'
  <1> USE ConstantsOK DEF TypeOK, GateHeld
  <1>1. CASE Change \/ Expire \/ (\E i \in Instances : ExpireLocally(i)) \/ UNCHANGED vars
    BY <1>1 DEF Change, Expire, ExpireLocally, envVars, vars
  <1>2. ASSUME NEW w \in Workers, Receive(w) \/ Redeliver(w) PROVE GateHeld'
    <2>1. UNCHANGED <<gate, home>> /\ \A v \in Workers : pc'[v] \in Inside => pc[v] \in Inside
      BY <1>2 DEF Receive, Redeliver, envVars, Inside
    <2>2. QED
      BY <2>1
  <1>3. ASSUME NEW w \in Workers, Enter(w) PROVE GateHeld'
    <2> SUFFICES ASSUME NEW v \in Workers, pc'[v] \in Inside PROVE gate'[home[v]] = v
      BY <1>3 DEF Enter, envVars
    <2>1. CASE v = w
      BY <1>3, <2>1 DEF Enter
    <2>2. CASE v # w
      <3>1. pc[v] \in Inside /\ gate[home[v]] = v
        BY <1>3, <2>2 DEF Enter
      <3>2. home[v] # home[w]
        BY <1>3, <3>1 DEF Enter
      <3>3. QED
        BY <1>3, <3>1, <3>2 DEF Enter
    <2>3. QED
      BY <2>1, <2>2
  <1>4. ASSUME NEW w \in Workers,
               \/ Count(w) \/ CheckActive(w) \/ Update(w) \/ Insert(w) \/ Recover(w)
               \/ AutoResolve(w) \/ CountLocally(w) \/ (pc[w] \in Inside /\ Fail(w))
        PROVE  GateHeld'
    BY <1>4, InsideMoves, MoveGate
  <1>5. ASSUME NEW i \in Instances, Crash(i) PROVE GateHeld'
    <2> SUFFICES ASSUME NEW v \in Workers, pc'[v] \in Inside PROVE gate'[home[v]] = v
      BY <1>5 DEF Crash, envVars
    <2>1. home[v] # i /\ pc[v] \in Inside
      BY <1>5 DEF Crash, Inside
    <2>2. QED
      BY <1>5, <2>1 DEF Crash
  <1>6. ASSUME NEW u \in Users,
               SaveAct(u) \/ \E a \in Alerts : ReadToAcknowledge(u, a) \/ ReadToResolve(u, a)
        PROVE  GateHeld'
    BY <1>6 DEF SaveAct, ReadToAcknowledge, ReadToResolve, envVars
  <1>7. QED
    BY <1>1, <1>2, <1>3, <1>4, <1>5, <1>6 DEF Next, Step

-----------------------------------------------------------------------------
(* The bound *)

\* The instances are finitely many, and so are those that insert.
LEMMA UsedFinite ==
  ASSUME TypeOK
  PROVE  /\ IsFiniteSet(Used) /\ Cardinality(Used) \in Nat
         /\ IsFiniteSet(Inserting) /\ Cardinality(Inserting) \in Nat
         /\ Cardinality(Inserting) <= Cardinality(Used)
  <1>1. Used \subseteq Instances
    BY ConstantsOK DEF TypeOK, Used
  <1>2. IsFiniteSet(Used)
    BY <1>1, ConstantsOK, FS_Subset
  <1>3. Inserting \subseteq Used
    BY DEF Inserting
  <1>4. QED
    BY <1>2, <1>3, FS_Subset, FS_CardinalityType

\* Fewer active alerts and fewer pending insertions.
LEMMA Shrinks ==
  ASSUME TypeOK, Shared, UNCHANGED home,
         Active' \subseteq Active,
         \A v \in Workers : pc'[v] = "insert" => pc[v] = "insert"
  PROVE  Shared'
  <1>1. Used' = Used /\ Inserting' \subseteq Inserting
    BY DEF Used, Inserting
  <1>2. /\ IsFiniteSet(Active') /\ Cardinality(Active') <= Cardinality(Active)
        /\ Cardinality(Active') \in Nat /\ Cardinality(Active) \in Nat
    BY FS_Subset, FS_CardinalityType DEF Shared
  <1>3. /\ Cardinality(Inserting') <= Cardinality(Inserting)
        /\ Cardinality(Inserting') \in Nat /\ Cardinality(Inserting) \in Nat
        /\ Cardinality(Used) \in Nat
    BY <1>1, UsedFinite, FS_Subset, FS_CardinalityType
  <1>4. QED
    BY <1>1, <1>2, <1>3 DEF Shared

\* An insertion is decided upon: there is no active alert.
LEMMA Decides ==
  ASSUME TypeOK, Shared, UNCHANGED <<home, status>>, Active = {}
  PROVE  Shared'
  <1>1. Used' = Used /\ Inserting' \subseteq Used
    BY DEF Used, Inserting
  <1>2. Active' = {} /\ IsFiniteSet(Active') /\ Cardinality(Active') = 0
    BY FS_EmptySet DEF Active
  <1>3. /\ Cardinality(Inserting') <= Cardinality(Used)
        /\ Cardinality(Inserting') \in Nat /\ Cardinality(Used) \in Nat
    BY <1>1, UsedFinite, FS_Subset, FS_CardinalityType
  <1>4. QED
    BY <1>1, <1>2, <1>3 DEF Shared

\* The insertion: its instance gives up its place for the alert.
LEMMA Inserts ==
  ASSUME TypeOK, GateHeld, Shared, NEW w \in Workers, Insert(w)
  PROVE  Shared'
  <1> USE DEF TypeOK
  <1>1. PICK a \in Alerts : status' = [status EXCEPT ![a] = "Active"]
    BY DEF Insert
  <1>2. Active' = Active \cup {a}
    BY <1>1 DEF Active
  <1>3. /\ IsFiniteSet(Active') /\ Cardinality(Active) \in Nat /\ Cardinality(Active') \in Nat
        /\ Cardinality(Active') <= Cardinality(Active) + 1
    <2>1. IsFiniteSet(Active)
      BY DEF Shared
    <2>2. /\ IsFiniteSet(Active')
          /\ Cardinality(Active') = Cardinality(Active) \/ Cardinality(Active') = Cardinality(Active) + 1
      BY <1>2, <2>1, FS_AddElement
    <2>3. Cardinality(Active) \in Nat
      BY <2>1, FS_CardinalityType
    <2>4. QED
      BY <2>2, <2>3
  <1>4. UNCHANGED home /\ pc[w] = "insert"
        /\ \E stage \in {"idle", "retry"} : pc' = [pc EXCEPT ![w] = stage]
    BY DEF Insert, envVars, Finish, Leave
  <1>5. home[w] \in Inserting
    BY <1>4 DEF Inserting, Used
  <1>6. ASSUME NEW v \in Workers, pc'[v] = "insert" PROVE pc[v] = "insert" /\ home[v] # home[w]
    <2>1. v # w /\ pc[v] = "insert"
      BY <1>4, <1>6
    <2>2. gate[home[v]] = v /\ gate[home[w]] = w
      BY <1>4, <2>1 DEF GateHeld, Inside, Stages
    <2>3. QED
      BY <2>1, <2>2
  <1>7. Used' = Used /\ Inserting' \subseteq Inserting \ {home[w]}
    BY <1>4, <1>6 DEF Used, Inserting
  <1>8. /\ IsFiniteSet(Inserting \ {home[w]})
        /\ Cardinality(Inserting \ {home[w]}) = Cardinality(Inserting) - 1
    BY <1>5, UsedFinite, FS_RemoveElement
  <1>9. Cardinality(Inserting') <= Cardinality(Inserting) - 1 /\ Cardinality(Inserting') \in Nat
    BY <1>7, <1>8, FS_Subset, FS_CardinalityType
  <1>10. QED
    BY <1>3, <1>7, <1>9, UsedFinite DEF Shared

\* Every step keeps the instances shared.
LEMMA SharedStep ==
  ASSUME TypeOK, GateHeld, Shared, [Next]_vars
  PROVE  Shared'
  <1> USE DEF TypeOK
  <1>1. ASSUME UNCHANGED <<home, status, pc>> PROVE Shared'
    BY <1>1, Shrinks DEF Active
  <1>2. CASE \/ Change \/ Expire \/ UNCHANGED vars
             \/ \E i \in Instances : ExpireLocally(i)
             \/ \E u \in Users, a \in Alerts : ReadToAcknowledge(u, a) \/ ReadToResolve(u, a)
    BY <1>1, <1>2 DEF Change, Expire, ExpireLocally, ReadToAcknowledge, ReadToResolve, envVars, vars
  <1>3. ASSUME NEW u \in Users, SaveAct(u) PROVE Shared'
    <2>1. UNCHANGED <<home, pc>> /\ Active' \subseteq Active
      BY <1>3 DEF SaveAct, envVars, Active
    <2>2. QED
      BY <2>1, Shrinks
  <1>4. ASSUME NEW i \in Instances, Crash(i) PROVE Shared'
    <2>1. UNCHANGED <<home, status>> /\ \A v \in Workers : pc'[v] = "insert" => pc[v] = "insert"
      BY <1>4 DEF Crash, envVars
    <2>2. QED
      BY <2>1, Shrinks DEF Active
  <1>5. ASSUME NEW w \in Workers, NEW stage \in Stages \ {"insert"}, UNCHANGED home,
               pc' = [pc EXCEPT ![w] = stage], Active' \subseteq Active
        PROVE  Shared'
    BY <1>5, Shrinks
  <1>6. ASSUME NEW w \in Workers,
               Receive(w) \/ Redeliver(w) \/ Enter(w) \/ (pc[w] \in Inside /\ Fail(w))
        PROVE  Shared'
    <2>1. UNCHANGED <<home, status>>
      BY <1>6 DEF Receive, Redeliver, Enter, Fail, envVars
    <2>2. \E stage \in Stages \ {"insert"} : pc' = [pc EXCEPT ![w] = stage]
      BY <1>6 DEF Receive, Redeliver, Enter, Fail, Leave, Stages
    <2>3. QED
      BY <1>5, <2>1, <2>2 DEF Active
  <1>7. ASSUME NEW w \in Workers, Count(w) \/ CountLocally(w) PROVE Shared'
    <2>1. UNCHANGED <<home, status>>
      BY <1>7 DEF Count, CountLocally, envVars
    <2>2. \E stage \in Stages \ {"insert"} : pc' = [pc EXCEPT ![w] = stage]
      BY <1>7, Decided DEF Count, CountLocally, Decide, Finish, Leave, Goto, Stages
    <2>3. QED
      BY <1>5, <2>1, <2>2 DEF Active
  <1>8. ASSUME NEW w \in Workers, CheckActive(w) \/ Update(w) PROVE Shared'
    <2>1. UNCHANGED <<home, status>>
      BY <1>8 DEF CheckActive, Update, envVars
    <2>2. CASE Active = {}
      BY <2>1, <2>2, Decides
    <2>3. CASE Active # {}
      <3>1. \E stage \in {"idle", "retry"} : pc' = [pc EXCEPT ![w] = stage]
        BY <1>8, <2>3 DEF CheckActive, Update, Finish, Leave
      <3>2. QED
        BY <1>5, <2>1, <3>1 DEF Active, Stages
    <2>4. QED
      BY <2>2, <2>3
  <1>9. ASSUME NEW w \in Workers, Insert(w) PROVE Shared'
    BY <1>9, Inserts
  <1>10. ASSUME NEW w \in Workers, Recover(w) \/ AutoResolve(w) PROVE Shared'
    <2>1. UNCHANGED home /\ Active' \subseteq Active
      BY <1>10 DEF Recover, AutoResolve, envVars, Active
    <2>2. \E stage \in {"idle", "retry", "resolve"} : pc' = [pc EXCEPT ![w] = stage]
      BY <1>10 DEF Recover, AutoResolve, Finish, Leave
    <2>3. QED
      BY <1>5, <2>1, <2>2 DEF Stages
  <1>11. QED
    BY <1>2, <1>3, <1>4, <1>6, <1>7, <1>8, <1>9, <1>10 DEF Next, Step

-----------------------------------------------------------------------------

\* There are no alerts and no evaluations to begin with.
LEMMA InitIInv == Init => IInv
  <1> SUFFICES ASSUME Init PROVE IInv
    OBVIOUS
  <1>1. TypeOK
    BY TypeInit
  <1>2. GateHeld
    BY DEF Init, GateHeld, Inside
  <1>3. Active = {} /\ Inserting = {}
    BY DEF Init, Active, Inserting
  <1>4. QED
    BY <1>1, <1>2, <1>3, UsedFinite, FS_EmptySet DEF IInv, Shared

\* The invariant that ActiveBounded rests on.
THEOREM Inductive == Spec => []IInv
  <1>1. IInv /\ [Next]_vars => IInv'
    BY TypeStep, GateStep, SharedStep DEF IInv
  <1>2. QED
    BY <1>1, InitIInv, PTL DEF Spec

\* Every reachable state of the alert engine is well-formed.
THEOREM TypeCorrect == Spec => []TypeOK
  <1>1. IInv => TypeOK
    BY DEF IInv
  <1>2. QED
    BY <1>1, Inductive, PTL

\* A key never has more active alerts than instances that evaluate it: with one
\* instance, one, whatever windows, counters and handlers do.
THEOREM AtMostOnePerInstance == Spec => []ActiveBounded
  <1>1. IInv => ActiveBounded
    <2> SUFFICES ASSUME IInv PROVE ActiveBounded
      OBVIOUS
    <2>1. Cardinality(Active) \in Nat
      BY FS_CardinalityType DEF IInv, Shared
    <2>2. Cardinality(Inserting) \in Nat /\ Cardinality(Used) \in Nat
      BY UsedFinite DEF IInv
    <2>3. Cardinality(Active) <= Cardinality(Used)
      BY <2>1, <2>2 DEF IInv, Shared
    <2>4. QED
      BY <2>3 DEF ActiveBounded, Used
  <1>2. QED
    BY <1>1, Inductive, PTL
=============================================================================

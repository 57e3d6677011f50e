-------------------------- MODULE EdgeBuffer_proofs --------------------------
(* Machine-checked proofs about EdgeBuffer, for any number of points and      *)
(* collectors, any sizes of the queue and the batch, any retention and any    *)
(* set of faults.                                                             *)
EXTENDS EdgeBuffer, TLAPS, SequenceTheorems

\* A collector has a point, an evicted point or record, and a batch at the
\* stages that work on them, and nowhere else.
ShapeOf(c) ==
    /\ IF pc[c] \in {"idle", "store"} THEN cur[c] = NoPoint ELSE cur[c] \in Points
    /\ pc[c] = "store" => sub[c] \in Points
    /\ pc[c] = "mark" => sub[c] \in todo[c]
    /\ pc[c] \notin {"store", "mark"} => sub[c] = NoPoint
    /\ pc[c] \notin {"send", "mark", "clean"} => todo[c] = {}

LocalShape == \A c \in Collectors : ShapeOf(c)

\* One collector replays at a time, and it holds the gate.
GateHeld == \A c \in Collectors : pc[c] \in Replaying <=> gate = c

\* The record that is being marked has reached the broker.
MarkedAreCopied == \A c \in Collectors : pc[c] = "mark" => copies[sub[c]] > 0

\* The batch holds records that are still to be sent: only its owner changes them.
BatchPending == \A c \in Collectors : todo[c] \subseteq Backlog

\* The positions of p in the queue.
At(p) == {k \in 1..Len(queue) : queue[k] = p}

\* c carries p, on its way to the broker, the queue or the store.
Carries(c, p) == cur[c] = p \/ (pc[c] = "store" /\ sub[c] = p)

\* A point is in one place: one collector's hands, one position of the queue,
\* or the store.
OnePlace(p) ==
    /\ \A c, d \in Collectors : Carries(c, p) /\ Carries(d, p) => c = d
    /\ \A j, k \in At(p) : j = k
    /\ \A c \in Collectors : Carries(c, p) => p \notin Queued /\ row[p] = "none"
    /\ p \in Queued => row[p] = "none"

\* A copy at the broker is the only one, and nothing but a record that is being
\* marked could lead to another.
SentOnce(p) ==
    /\ copies[p] < 2
    /\ copies[p] > 0 =>
          /\ p \notin Queued
          /\ \A c \in Collectors : Carries(c, p) => pc[c] \in Replaying \cup {"wait"}
          /\ row[p] = "pending" => \E c \in Collectors : pc[c] = "mark" /\ sub[c] = p

UnexcusedOnce == \A p \in Points \ excused : OnePlace(p) /\ SentOnce(p)

IInv ==
    /\ TypeOK /\ LocalShape /\ GateHeld /\ MarkedAreCopied /\ BatchPending
    /\ Accounted /\ UnexcusedOnce

-----------------------------------------------------------------------------
(* Lemmas about the queue *)

LEMMA LastOrBefore ==
  ASSUME NEW n \in Nat, NEW k \in 1..n PROVE k = n \/ k \in 1..(n - 1)
  OBVIOUS

\* Appending adds the point to what is queued and moves nothing.
LEMMA Appended ==
  ASSUME queue \in Seq(Points), NEW p \in Points, queue' = Append(queue, p)
  PROVE  /\ Queued' = Queued \cup {p}
         /\ \A q \in Points : At(q)' = At(q) \cup IF q = p THEN {Len(queue) + 1} ELSE {}
  <1>1. Len(queue) \in Nat /\ Len(queue') = Len(queue) + 1
    OBVIOUS
  <1>2. /\ \A k \in 1..Len(queue) : queue'[k] = queue[k]
        /\ queue'[Len(queue) + 1] = p
    OBVIOUS
  <1>3. 1..Len(queue') = 1..Len(queue) \cup {Len(queue) + 1}
    BY <1>1
  <1>4. Queued' = Queued \cup {p}
    BY <1>2, <1>3 DEF Queued
  <1>5. ASSUME NEW q \in Points
        PROVE  At(q)' = At(q) \cup IF q = p THEN {Len(queue) + 1} ELSE {}
    BY <1>1, <1>2, <1>3 DEF At
  <1>6. QED
    BY <1>4, <1>5

\* An eviction takes the head out, moves the rest by one and adds the point.
LEMMA Shifted ==
  ASSUME queue \in Seq(Points), queue # <<>>, NEW p \in Points,
         queue' = Append(Tail(queue), p)
  PROVE  /\ Queued' \cup {Head(queue)} = Queued \cup {p}
         /\ Head(queue) \in Points
         /\ p \in Queued'
         /\ Len(queue) \in Nat /\ Len(queue') = Len(queue)
         /\ 1 \in At(Head(queue))
         /\ \A q \in Points : \A k \in At(q)' :
               k + 1 \in At(q) \/ (k = Len(queue) /\ q = p)
  <1>1. Len(queue) \in Nat /\ Len(queue) > 0 /\ Len(queue') = Len(queue)
    BY EmptySeq, LenProperties
  <1>2. /\ \A k \in 1..(Len(queue) - 1) : queue'[k] = queue[k + 1]
        /\ queue'[Len(queue)] = p
        /\ queue[1] = Head(queue) /\ Head(queue) \in Points
    BY <1>1, EmptySeq
  <1>3. ASSUME NEW x \in Queued' PROVE x \in Queued \/ x = p
    <2>1. PICK k \in 1..Len(queue) : x = queue'[k]
      BY <1>1 DEF Queued
    <2>2. CASE k = Len(queue)
      BY <1>2, <2>1, <2>2
    <2>3. CASE k \in 1..(Len(queue) - 1)
      <3>1. k + 1 \in 1..Len(queue) /\ queue[k + 1] = x
        BY <1>1, <1>2, <2>1, <2>3
      <3>2. QED
        BY <3>1 DEF Queued
    <2>4. k = Len(queue) \/ k \in 1..(Len(queue) - 1)
      BY <1>1, <2>1, LastOrBefore
    <2>5. QED
      BY <2>2, <2>3, <2>4
  <1>4. p \in Queued'
    <2>1. Len(queue) \in 1..Len(queue')
      BY <1>1
    <2>2. QED
      BY <1>2, <2>1 DEF Queued
  <1>5. ASSUME NEW x \in Queued, x # Head(queue) PROVE x \in Queued'
    <2>1. PICK k \in 1..Len(queue) : queue[k] = x
      BY DEF Queued
    <2>2. k - 1 \in 1..Len(queue') /\ queue'[k - 1] = x
      BY <1>1, <1>2, <1>5, <2>1
    <2>3. QED
      BY <2>2 DEF Queued
  <1>6. Head(queue) \in Queued /\ 1 \in At(Head(queue))
    BY <1>1, <1>2 DEF Queued, At
  <1>7. ASSUME NEW q \in Points, NEW k \in At(q)'
        PROVE  k + 1 \in At(q) \/ (k = Len(queue) /\ q = p)
    <2>1. k \in 1..Len(queue) /\ queue'[k] = q
      BY <1>1 DEF At
    <2>2. CASE k = Len(queue)
      BY <1>2, <2>1, <2>2
    <2>3. CASE k \in 1..(Len(queue) - 1)
      <3>1. k + 1 \in 1..Len(queue) /\ queue[k + 1] = q
        BY <1>1, <1>2, <2>1, <2>3
      <3>2. QED
        BY <3>1 DEF At
    <2>4. k = Len(queue) \/ k \in 1..(Len(queue) - 1)
      BY <1>1, <2>1, LastOrBefore
    <2>5. QED
      BY <2>2, <2>3, <2>4
  <1>8. QED
    BY <1>1, <1>2, <1>3, <1>4, <1>5, <1>6, <1>7

\* What is queued is exactly what has a position.
LEMMA QueuedAt == \A p : p \in Queued <=> At(p) # {}
  BY DEF Queued, At

\* An eviction is possible only when something is queued.
LEMMA EvictsSome ==
  ASSUME TypeOK, Evicts PROVE queue \in Seq(Points) /\ queue # <<>>
  <1>1. queue \in Seq(Points) /\ Len(queue) > 0
    BY ConstantsOK DEF TypeOK, Evicts
  <1>2. QED
    BY <1>1, EmptySeq

-----------------------------------------------------------------------------
(* Types and the collectors' own state *)

LEMMA TypeInit == Init => TypeOK
  <1> SUFFICES ASSUME Init PROVE TypeOK
    OBVIOUS
  <1>1. queue \in Seq(Points) /\ Len(queue) <= Capacity
    BY ConstantsOK, EmptySeq DEF Init
  <1>2. age \in [Points -> 0..(Retention + 1)] /\ copies \in [Points -> 0..2]
    BY ConstantsOK DEF Init
  <1>3. QED
    BY <1>1, <1>2 DEF Init, TypeOK, Stages

LEMMA NoneOrSome == ASSUME TypeOK, NEW p \in Points PROVE copies[p] = 0 \/ copies[p] > 0
  <1>1. copies[p] \in 0..2
    BY DEF TypeOK
  <1>2. QED
    BY <1>1

\* The broker's count goes up, to two at most.
LEMMA CopyAdded ==
  ASSUME TypeOK, NEW p \in Points, AddCopy(p)
  PROVE  /\ copies' \in [Points -> 0..2]
         /\ copies'[p] > 0
         /\ copies[p] = 0 => copies'[p] = 1
         /\ \A q \in Points \ {p} : copies'[q] = copies[q]
  <1>1. copies \in [Points -> 0..2]
    BY DEF TypeOK
  <1>2. copies[p] \in 0..2
    BY <1>1
  <1>3. PICK n \in 0..2 : n = IF copies[p] < 2 THEN copies[p] + 1 ELSE 2
    BY <1>2
  <1>4. copies' = [copies EXCEPT ![p] = n]
    BY <1>3 DEF AddCopy
  <1>5. n > 0 /\ (copies[p] = 0 => n = 1)
    BY <1>2, <1>3
  <1>6. QED
    BY <1>1, <1>4, <1>5

LEMMA QueueTypeStep ==
  ASSUME TypeOK, LocalShape, [Next]_vars
  PROVE  queue' \in Seq(Points) /\ Len(queue') <= Capacity
  <1>1. ASSUME NEW c \in Collectors, Enqueue(c)
        PROVE  queue' \in Seq(Points) /\ Len(queue') <= Capacity
    <2>1. cur[c] \in Points /\ queue \in Seq(Points) /\ Capacity \in Nat
      BY <1>1, ConstantsOK DEF Enqueue, LocalShape, ShapeOf, TypeOK
    <2>2. CASE Evicts
      <3>1. queue # <<>>
        BY <2>2, EvictsSome
      <3>2. queue' = Append(Tail(queue), cur[c])
        BY <1>1, <2>2 DEF Enqueue
      <3>3. Len(queue') = Len(queue) /\ Tail(queue) \in Seq(Points)
        BY <2>1, <3>1, <3>2, Shifted, HeadTailProperties
      <3>4. QED
        BY <2>1, <3>2, <3>3, AppendProperties DEF TypeOK
    <2>3. CASE ~Evicts
      <3>1. queue' = Append(queue, cur[c])
        BY <1>1, <2>3 DEF Enqueue
      <3>2. Len(queue) < Capacity /\ Len(queue) \in Nat
        BY <2>1, <2>3 DEF Evicts
      <3>3. QED
        BY <2>1, <3>1, <3>2, AppendProperties
    <2>4. QED
      BY <2>2, <2>3
  <1>2. CASE queue' = <<>>
    BY <1>2, EmptySeq, ConstantsOK
  <1>3. CASE UNCHANGED queue
    BY <1>3 DEF TypeOK
  <1>4. QED
    BY <1>1, <1>2, <1>3 DEF Next, Upload, Replay, Collect, Publish, PublishThrows, Store,
       StoreThrows, Enter, ReplayThrows, List, Send, SendThrows, EndLoop, MarkAsSent,
       MarkThrows, CleanupOld, Cancel, Restart, Connect, Disconnect, Tick, vars

LocalTypeOK ==
    /\ pc \in [Collectors -> Stages]
    /\ cur \in [Collectors -> Points \cup {NoPoint}]
    /\ sub \in [Collectors -> Points \cup {NoPoint}]
    /\ todo \in [Collectors -> SUBSET Points]

\* The other collectors are where they were.
OthersStay(c) ==
    \A d \in Collectors \ {c} :
        pc'[d] = pc[d] /\ cur'[d] = cur[d] /\ sub'[d] = sub[d] /\ todo'[d] = todo[d]

\* A collector's step moves only itself, to a place of the right shape.
LEMMA LocalStep ==
  ASSUME TypeOK, LocalShape, NEW c \in Collectors, Upload(c) \/ Replay(c) \/ Cancel(c)
  PROVE  LocalTypeOK' /\ ShapeOf(c)' /\ OthersStay(c)
  <1> DEFINE Goal == LocalTypeOK' /\ ShapeOf(c)' /\ OthersStay(c)
  <1>0. LocalTypeOK /\ ShapeOf(c)
    BY DEF TypeOK, LocalShape, LocalTypeOK
  <1> USE <1>0 DEF LocalTypeOK, ShapeOf, OthersStay, GoTo, Stages
  <1>1. CASE Return(c)
    BY <1>1 DEF Return
  <1>2. ASSUME NEW p \in Points, Collect(c, p) PROVE Goal
    BY <1>2 DEF Collect
  <1>3. CASE Publish(c) \/ PublishThrows(c)
    BY <1>3 DEF Publish, PublishThrows
  <1>4. CASE Enqueue(c) /\ Evicts
    <2>1. Head(queue) \in Points
      BY <1>4, EvictsSome, HeadTailProperties
    <2>2. QED
      BY <1>4, <2>1 DEF Enqueue
  <1>5. CASE Enter(c) \/ ReplayThrows(c) \/ EndLoop(c)
    BY <1>5 DEF Enter, ReplayThrows, EndLoop, Replaying
  <1>6. CASE List(c) /\ online
    <2>1. PICK b \in SUBSET Points : todo' = [todo EXCEPT ![c] = b]
      BY <1>6 DEF List, Batches, Backlog
    <2>2. QED
      BY <1>6, <2>1 DEF List
  <1>7. CASE Send(c)
    BY <1>7 DEF Send, NextRecord
  <1>8. CASE SendThrows(c)
    BY <1>8 DEF SendThrows
  <1>9. CASE MarkAsSent(c) \/ MarkThrows(c)
    BY <1>9 DEF MarkAsSent, MarkThrows
  <1>10. QED
    BY <1>1, <1>2, <1>3, <1>4, <1>5, <1>6, <1>7, <1>8, <1>9
    DEF Upload, Replay, Cancel, Enqueue, Store, StoreThrows, List, CleanupOld, Leave

LEMMA TypeStep ==
  ASSUME TypeOK, LocalShape, [Next]_vars
  PROVE  TypeOK' /\ LocalShape'
  <1>1. CASE Restart
    <2>1. queue' \in Seq(Points) /\ Len(queue') <= Capacity
      BY QueueTypeStep
    <2>2. given' \subseteq Points
      <3>1. Queued \subseteq Points
        BY DEF TypeOK, Queued
      <3>2. \A c \in Collectors : /\ pc[c] \in {"publish", "buffer"} => cur[c] \in Points
                                  /\ pc[c] = "store" => sub[c] \in Points
        BY DEF LocalShape, ShapeOf
      <3>3. QED
        BY <1>1, <3>1, <3>2 DEF Restart, TypeOK
    <2>3. excused' \subseteq Points
      <3>1. \A c \in Collectors : pc[c] = "mark" => sub[c] \in Points
        BY DEF LocalShape, ShapeOf, TypeOK
      <3>2. QED
        BY <1>1, <3>1 DEF Restart, TypeOK
    <2>4. LocalTypeOK' /\ LocalShape'
      BY <1>1 DEF Restart, LocalTypeOK, LocalShape, ShapeOf, Stages
    <2>5. online' \in BOOLEAN /\ gate' = Nobody /\ UNCHANGED <<row, age, collected, copies>>
      BY <1>1 DEF Restart
    <2>6. QED
      BY <2>1, <2>2, <2>3, <2>4, <2>5 DEF TypeOK, LocalTypeOK
  <1>2. CASE Tick
    <2>1. age' \in [Points -> 0..(Retention + 1)]
      BY <1>2, ConstantsOK DEF Tick, TypeOK
    <2>2. QED
      BY <1>2, <2>1 DEF Tick, TypeOK, LocalShape, ShapeOf, localVars, history
  <1>3. CASE Connect \/ Disconnect \/ UNCHANGED vars
    BY <1>3 DEF Connect, Disconnect, vars, TypeOK, LocalShape, ShapeOf, localVars, history
  <1>4. ASSUME NEW c \in Collectors, Upload(c) \/ Replay(c) \/ Cancel(c)
        PROVE  TypeOK' /\ LocalShape'
    <2>1. LocalTypeOK' /\ LocalShape'
      BY <1>4, LocalStep DEF LocalShape, ShapeOf, OthersStay
    <2>2. gate' \in Collectors \cup {Nobody} /\ online' \in BOOLEAN
      BY <1>4 DEF Upload, Replay, Collect, Publish, PublishThrows, Enqueue, Store, StoreThrows,
         Enter, ReplayThrows, List, Send, SendThrows, EndLoop, MarkAsSent, MarkThrows,
         CleanupOld, Cancel, Leave, TypeOK
    <2>3. /\ row' \in [Points -> {"none", "pending", "sent"}]
          /\ age' \in [Points -> 0..(Retention + 1)]
      <3>1. CASE Store(c)
        <4>1. 0 \in 0..(Retention + 1)
          BY ConstantsOK
        <4>2. QED
          BY <3>1, <4>1 DEF Store, TypeOK
      <3>2. CASE MarkAsSent(c)
        BY <3>2 DEF MarkAsSent, TypeOK
      <3>3. CASE CleanupOld(c)
        BY <3>3, ConstantsOK DEF CleanupOld, TypeOK
      <3>4. CASE UNCHANGED <<row, age>>
        BY <3>4 DEF TypeOK
      <3>5. QED
        BY <1>4, <3>1, <3>2, <3>3, <3>4
        DEF Upload, Replay, Collect, Publish, PublishThrows, Enqueue, StoreThrows,
            Enter, ReplayThrows, List, Send, SendThrows, EndLoop, MarkThrows, Cancel
    <2>4. copies' \in [Points -> 0..2]
      <3>1. ASSUME NEW p, AddCopy(p) PROVE copies' \in [Points -> 0..2]
        <4>1. CASE p \in Points
          BY <3>1, <4>1, CopyAdded
        <4>2. CASE p \notin Points
          BY <3>1, <4>2 DEF AddCopy, TypeOK
        <4>3. QED
          BY <4>1, <4>2
      <3>2. CASE \E p \in Points : Collect(c, p)
        BY <3>2 DEF Collect, TypeOK
      <3>3. CASE UNCHANGED copies
        BY <3>3 DEF TypeOK
      <3>4. QED
        BY <1>4, <3>1, <3>2, <3>3
        DEF Upload, Replay, Publish, PublishThrows, Enqueue, Store, StoreThrows, Enter,
            ReplayThrows, List, Send, SendThrows, EndLoop, MarkAsSent, MarkThrows,
            CleanupOld, Cancel, Unconfirmed, history
    <2>5. collected' \subseteq Points /\ given' \subseteq Points /\ excused' \subseteq Points
      <3>1. /\ pc[c] \notin {"idle", "store"} => cur[c] \in Points
            /\ pc[c] \in {"store", "mark"} => sub[c] \in Points
        BY DEF LocalShape, ShapeOf, TypeOK
      <3>2. CASE \E p \in Points : Collect(c, p)
        BY <3>2 DEF Collect, TypeOK
      <3>3. CASE PublishThrows(c) \/ SendThrows(c)
        BY <3>1, <3>3 DEF PublishThrows, SendThrows, Unconfirmed, history, TypeOK
      <3>4. CASE StoreThrows(c) \/ ReplayThrows(c) \/ MarkThrows(c) \/ CleanupOld(c)
        BY <3>1, <3>4 DEF StoreThrows, ReplayThrows, MarkThrows, CleanupOld, Backlog, TypeOK
      <3>5. CASE Cancel(c)
        BY <3>1, <3>5 DEF Cancel, TypeOK
      <3>6. CASE UNCHANGED <<collected, given, excused>>
        BY <3>6 DEF TypeOK
      <3>7. QED
        BY <1>4, <3>2, <3>3, <3>4, <3>5, <3>6
        DEF Upload, Replay, Publish, Enqueue, Store, Enter, List, Send, EndLoop, MarkAsSent,
            history
    <2>6. QED
      BY <2>1, <2>2, <2>3, <2>4, <2>5, QueueTypeStep DEF TypeOK, LocalTypeOK
  <1>5. QED
    BY <1>1, <1>2, <1>3, <1>4 DEF Next

-----------------------------------------------------------------------------
(* The gate and the backlog *)

LEMMA GateStep ==
  ASSUME TypeOK, LocalShape, GateHeld, [Next]_vars
  PROVE  GateHeld'
  <1>1. CASE Restart
    BY <1>1, ConstantsOK DEF Restart, GateHeld, Replaying
  <1>2. CASE Connect \/ Disconnect \/ Tick \/ UNCHANGED vars
    BY <1>2 DEF Connect, Disconnect, Tick, vars, GateHeld, localVars
  <1>3. ASSUME NEW c \in Collectors, Upload(c) \/ Replay(c) \/ Cancel(c)
        PROVE  GateHeld'
    <2>1. OthersStay(c)
      BY <1>3, LocalStep
    <2>2. CASE UNCHANGED gate /\ (pc'[c] \in Replaying <=> pc[c] \in Replaying)
      BY <2>1, <2>2 DEF GateHeld, OthersStay
    <2>3. CASE gate' = Nobody /\ gate = c /\ pc'[c] \notin Replaying
      BY <2>1, <2>3, ConstantsOK DEF GateHeld, OthersStay
    <2>4. CASE gate = Nobody /\ gate' = c /\ pc'[c] \in Replaying
      BY <2>1, <2>4, ConstantsOK DEF GateHeld, OthersStay
    <2>5. pc \in [Collectors -> Stages] /\ (pc[c] \in Replaying <=> gate = c)
      BY DEF TypeOK, GateHeld
    <2>6. CASE Upload(c)
      BY <2>2, <2>5, <2>6 DEF Upload, Collect, Publish, PublishThrows, Enqueue, Store, StoreThrows,
         Return, GoTo, Replaying, Stages
    <2>7. CASE Replay(c)
      BY <2>2, <2>3, <2>4, <2>5, <2>7 DEF Replay, Enter, ReplayThrows, List, Send, SendThrows,
         EndLoop, MarkAsSent, MarkThrows, CleanupOld, Leave, Return, GoTo, Replaying, Stages
    <2>8. CASE Cancel(c)
      BY <2>2, <2>3, <2>5, <2>8 DEF Cancel, Return, GoTo, Replaying, Stages
    <2>9. QED
      BY <1>3, <2>6, <2>7, <2>8
  <1>4. QED
    BY <1>1, <1>2, <1>3 DEF Next

\* Marking and cleaning, which take records out of the backlog, need the gate.
LEMMA BatchStep ==
  ASSUME TypeOK, LocalShape, GateHeld, BatchPending, [Next]_vars
  PROVE  BatchPending'
  <1>1. CASE Restart
    BY <1>1 DEF Restart, BatchPending
  <1>2. CASE Connect \/ Disconnect \/ Tick \/ UNCHANGED vars
    BY <1>2 DEF Connect, Disconnect, Tick, vars, BatchPending, Backlog, localVars
  <1>3. ASSUME NEW c \in Collectors, Upload(c) \/ Replay(c) \/ Cancel(c)
        PROVE  BatchPending'
    <2>1. OthersStay(c) /\ ShapeOf(c)'
      BY <1>3, LocalStep
    <2>2. ASSUME Backlog \subseteq Backlog', todo'[c] \subseteq Backlog' PROVE BatchPending'
      BY <2>1, <2>2 DEF BatchPending, OthersStay
    <2>3. todo[c] \subseteq Backlog
      BY DEF BatchPending
    <2>4. CASE Store(c)
      <3>1. Backlog \subseteq Backlog'
        BY <2>4 DEF Store, Backlog, TypeOK
      <3>2. todo'[c] = {}
        BY <2>1, <2>4 DEF Store, Return, GoTo, ShapeOf, TypeOK
      <3>3. QED
        BY <2>2, <3>1, <3>2
    <2>5. CASE MarkAsSent(c) \/ CleanupOld(c)
      <3>1. pc[c] \in Replaying
        BY <2>5 DEF MarkAsSent, CleanupOld, Replaying
      <3>2. \A d \in Collectors \ {c} : pc'[d] \notin Replaying
        BY <2>1, <3>1, ConstantsOK DEF GateHeld, OthersStay
      <3>3. \A d \in Collectors \ {c} : todo'[d] = {}
        BY <2>1, <3>2 DEF LocalShape, ShapeOf, OthersStay, Replaying
      <3>4. CASE MarkAsSent(c)
        <4>1. todo'[c] = todo[c] \ {sub[c]}
          BY <3>4 DEF MarkAsSent, TypeOK
        <4>2. \A p \in Backlog : p # sub[c] => p \in Backlog'
          BY <3>4 DEF MarkAsSent, Backlog, TypeOK
        <4>3. QED
          BY <2>3, <3>3, <4>1, <4>2 DEF BatchPending
      <3>5. CASE CleanupOld(c)
        <4>1. todo'[c] = {}
          BY <3>5 DEF CleanupOld, Leave, Return, TypeOK
        <4>2. QED
          BY <3>3, <4>1 DEF BatchPending
      <3>6. QED
        BY <2>5, <3>4, <3>5
    <2>6. CASE List(c) /\ online
      <3>1. PICK b \in Batches : todo' = [todo EXCEPT ![c] = b]
        BY <2>6 DEF List
      <3>2. b \subseteq Backlog /\ Backlog' = Backlog
        BY <2>6 DEF List, Batches, Backlog
      <3>3. QED
        BY <2>2, <3>1, <3>2 DEF TypeOK
    <2>7. CASE UNCHANGED row /\ (todo'[c] = todo[c] \/ todo'[c] = {})
      BY <2>2, <2>3, <2>7 DEF Backlog
    <2>8. QED
      BY <1>3, <2>4, <2>5, <2>6, <2>7
      DEF Upload, Replay, Collect, Publish, PublishThrows, Enqueue, StoreThrows, Enter,
          ReplayThrows, List, Send, SendThrows, EndLoop, MarkThrows, Cancel, Leave, Return, TypeOK
  <1>4. QED
    BY <1>1, <1>2, <1>3 DEF Next

-----------------------------------------------------------------------------
(* What is at the broker *)

\* Only collecting a point anew takes copies away, and only from that point.
LEMMA CopiesStay ==
  ASSUME TypeOK, [Next]_vars, NEW p \in Points, copies[p] > 0
  PROVE  copies'[p] > 0 \/ \E c \in Collectors : Collect(c, p)
  <1>0. copies \in [Points -> 0..2]
    BY DEF TypeOK
  <1>1. CASE UNCHANGED copies
    BY <1>1
  <1>2. ASSUME NEW q, AddCopy(q) PROVE copies'[p] > 0
    BY <1>0, <1>2 DEF AddCopy
  <1>3. ASSUME NEW c \in Collectors, NEW q \in Points, Collect(c, q)
        PROVE  copies'[p] > 0 \/ Collect(c, p)
    BY <1>0, <1>3 DEF Collect
  <1>4. QED
    BY <1>1, <1>2, <1>3
    DEF Next, Upload, Replay, Publish, PublishThrows, Enqueue, Store, StoreThrows, Enter,
        ReplayThrows, List, Send, SendThrows, EndLoop, MarkAsSent, MarkThrows, CleanupOld,
        Cancel, Restart, Connect, Disconnect, Tick, Unconfirmed, history, vars

LEMMA MarkedStep ==
  ASSUME TypeOK, LocalShape, MarkedAreCopied, [Next]_vars
  PROVE  MarkedAreCopied'
  <1>1. CASE Restart
    BY <1>1 DEF Restart, MarkedAreCopied
  <1>2. CASE Connect \/ Disconnect \/ Tick \/ UNCHANGED vars
    BY <1>2 DEF Connect, Disconnect, Tick, vars, MarkedAreCopied, localVars, history
  <1>3. ASSUME NEW c \in Collectors, Upload(c) \/ Replay(c) \/ Cancel(c)
        PROVE  MarkedAreCopied'
    <2>1. OthersStay(c)
      BY <1>3, LocalStep
    <2>2. \A d \in Collectors : pc[d] = "mark" => sub[d] \in Points
      BY DEF LocalShape, ShapeOf, TypeOK
    <2>3. ASSUME NEW d \in Collectors \ {c}, pc'[d] = "mark" PROVE copies'[sub'[d]] > 0
      <3>1. pc[d] = "mark" /\ sub'[d] = sub[d] /\ copies[sub[d]] > 0
        BY <2>1, <2>3 DEF OthersStay, MarkedAreCopied
      <3>2. ~ \E e \in Collectors : Collect(e, sub[d])
        BY DEF Collect, Fresh
      <3>3. QED
        BY <2>2, <3>1, <3>2, CopiesStay
    <2>4. pc'[c] = "mark" => copies'[sub'[c]] > 0
      <3>1. CASE Send(c)
        <4>1. PICK p \in Points : AddCopy(p) /\ sub' = [sub EXCEPT ![c] = p]
          BY <3>1 DEF Send
        <4>2. sub'[c] = p /\ copies'[p] > 0
          BY <4>1, CopyAdded DEF TypeOK
        <4>3. QED
          BY <4>2
      <3>2. CASE pc'[c] # "mark"
        BY <3>2
      <3>3. QED
        BY <1>3, <3>1, <3>2
        DEF Upload, Replay, Collect, Publish, PublishThrows, Enqueue, Store, StoreThrows, Enter,
            ReplayThrows, List, SendThrows, EndLoop, MarkAsSent, MarkThrows, CleanupOld, Cancel,
            Leave, Return, GoTo, TypeOK, Stages
    <2>5. QED
      BY <2>3, <2>4 DEF MarkedAreCopied
  <1>4. QED
    BY <1>1, <1>2, <1>3 DEF Next

-----------------------------------------------------------------------------
(* No point vanishes *)

AccountedFor(p) ==
    \/ copies[p] > 0 \/ p \in given
    \/ p \in Queued \/ row[p] = "pending" \/ Carried(p)

\* Who carries a point passes it on, sends it or gives it up.
LEMMA CarriedStep ==
  ASSUME TypeOK, LocalShape, [Next]_vars, NEW p \in Points, Carried(p)
  PROVE  AccountedFor(p)'
  <1>1. PICK c \in Collectors : \/ pc[c] \in {"publish", "buffer"} /\ cur[c] = p
                                \/ pc[c] = "store" /\ sub[c] = p
    BY DEF Carried
  <1>2. CASE Restart
    BY <1>1, <1>2 DEF Restart, AccountedFor
  <1>3. CASE Connect \/ Disconnect \/ Tick \/ UNCHANGED vars
    BY <1>1, <1>3 DEF Connect, Disconnect, Tick, vars, AccountedFor, Carried, localVars
  <1>4. ASSUME NEW d \in Collectors \ {c}, Upload(d) \/ Replay(d) \/ Cancel(d)
        PROVE  AccountedFor(p)'
    <2>1. OthersStay(d)
      BY <1>4, LocalStep
    <2>2. QED
      BY <1>1, <2>1 DEF OthersStay, AccountedFor, Carried
  <1>5. CASE Publish(c)
    BY <1>1, <1>5, CopyAdded DEF Publish, AccountedFor
  <1>6. CASE PublishThrows(c)
    <2>1. pc'[c] = "buffer" /\ cur'[c] = p
      BY <1>1, <1>6 DEF PublishThrows, GoTo, TypeOK
    <2>2. QED
      BY <2>1 DEF AccountedFor, Carried
  <1>7. CASE Enqueue(c)
    <2>1. cur[c] = p
      BY <1>1, <1>7 DEF Enqueue
    <2>2. p \in Queued'
      <3>1. CASE Evicts
        BY <1>7, <2>1, <3>1, EvictsSome, Shifted DEF Enqueue
      <3>2. CASE ~Evicts
        BY <1>7, <2>1, <3>2, Appended DEF Enqueue, TypeOK
      <3>3. QED
        BY <3>1, <3>2
    <2>3. QED
      BY <2>2 DEF AccountedFor
  <1>8. CASE Store(c)
    BY <1>1, <1>8 DEF Store, AccountedFor, TypeOK
  <1>9. CASE StoreThrows(c)
    BY <1>1, <1>9 DEF StoreThrows, AccountedFor
  <1>10. CASE Cancel(c)
    BY <1>1, <1>10 DEF Cancel, AccountedFor
  <1>11. QED
    BY <1>1, <1>2, <1>3, <1>4, <1>5, <1>6, <1>7, <1>8, <1>9, <1>10
    DEF Next, Upload, Replay, Collect, Enter, ReplayThrows, List, Send, SendThrows, EndLoop,
        MarkAsSent, MarkThrows, CleanupOld

\* What is queued stays queued, is evicted into the hands of the collector that
\* makes room, or goes with the process.
LEMMA QueuedStep ==
  ASSUME TypeOK, LocalShape, [Next]_vars, NEW p \in Points, p \in Queued
  PROVE  AccountedFor(p)'
  <1>1. CASE UNCHANGED queue
    BY <1>1 DEF AccountedFor, Queued
  <1>2. CASE Restart
    BY <1>2 DEF Restart, AccountedFor
  <1>3. ASSUME NEW c \in Collectors, Enqueue(c) PROVE AccountedFor(p)'
    <2>1. cur[c] \in Points
      BY <1>3 DEF Enqueue, LocalShape, ShapeOf
    <2>2. CASE ~Evicts
      BY <1>3, <2>1, <2>2, Appended DEF Enqueue, TypeOK, AccountedFor
    <2>3. CASE Evicts
      <3>1. queue \in Seq(Points) /\ queue # <<>> /\ queue' = Append(Tail(queue), cur[c])
        BY <1>3, <2>3, EvictsSome DEF Enqueue
      <3>2. p \in Queued' \/ p = Head(queue)
        BY <2>1, <3>1, Shifted
      <3>3. pc'[c] = "store" /\ sub'[c] = Head(queue)
        BY <1>3, <2>3 DEF Enqueue, GoTo, TypeOK
      <3>4. QED
        BY <3>2, <3>3 DEF AccountedFor, Carried
    <2>4. QED
      BY <2>2, <2>3
  <1>4. QED
    BY <1>1, <1>2, <1>3
    DEF Next, Upload, Replay, Collect, Publish, PublishThrows, Store, StoreThrows, Enter,
        ReplayThrows, List, Send, SendThrows, EndLoop, MarkAsSent, MarkThrows, CleanupOld,
        Cancel, Connect, Disconnect, Tick, vars

\* A pending record is marked after it was sent, or given up with its retention.
LEMMA PendingStep ==
  ASSUME TypeOK, LocalShape, MarkedAreCopied, [Next]_vars,
         NEW p \in Points, row[p] = "pending"
  PROVE  \/ row'[p] = "pending"
         \/ copies[p] > 0 /\ UNCHANGED copies
         \/ age[p] > Retention /\ p \in given'
  <1>1. CASE UNCHANGED row
    BY <1>1
  <1>2. ASSUME NEW c \in Collectors, Store(c) PROVE row'[p] = "pending"
    BY <1>2 DEF Store, TypeOK
  <1>3. ASSUME NEW c \in Collectors, MarkAsSent(c)
        PROVE  row'[p] = "pending" \/ (copies[p] > 0 /\ UNCHANGED copies)
    BY <1>3 DEF MarkAsSent, MarkedAreCopied, TypeOK, history
  <1>4. ASSUME NEW c \in Collectors, CleanupOld(c)
        PROVE  row'[p] = "pending" \/ (age[p] > Retention /\ p \in given')
    BY <1>4 DEF CleanupOld, Expired, Backlog, TypeOK
  <1>5. QED
    BY <1>1, <1>2, <1>3, <1>4
    DEF Next, Upload, Replay, Collect, Publish, PublishThrows, Enqueue, StoreThrows, Enter,
        ReplayThrows, List, Send, SendThrows, EndLoop, MarkThrows, Cancel, Restart, Connect,
        Disconnect, Tick, vars

LEMMA AccountedStep ==
  ASSUME TypeOK, LocalShape, MarkedAreCopied, Accounted, [Next]_vars
  PROVE  Accounted'
  <1>1. ASSUME NEW c \in Collectors, NEW p \in Points, Collect(c, p)
        PROVE  AccountedFor(p)'
    <2>1. pc'[c] \in {"publish", "buffer"} /\ cur'[c] = p
      BY <1>1 DEF Collect, GoTo, TypeOK
    <2>2. QED
      BY <2>1 DEF AccountedFor, Carried
  <1>2. ASSUME NEW p \in Points, ~ \E c \in Collectors : Collect(c, p)
        PROVE  (p \in collected' => p \in collected) /\ given \cap {p} \subseteq given'
    BY <1>2
    DEF Next, Upload, Replay, Collect, Publish, PublishThrows, Enqueue, Store, StoreThrows, Enter,
        ReplayThrows, List, Send, SendThrows, EndLoop, MarkAsSent, MarkThrows, CleanupOld,
        Cancel, Restart, Connect, Disconnect, Tick, Unconfirmed, history, vars
  <1>3. ASSUME NEW p \in collected', ~ \E c \in Collectors : Collect(c, p), p \in Points
        PROVE  AccountedFor(p)'
    <2>1. AccountedFor(p)
      BY <1>2, <1>3 DEF Accounted, AccountedFor
    <2>2. CASE copies[p] > 0
      BY <1>3, <2>2, CopiesStay DEF AccountedFor
    <2>3. CASE p \in given
      BY <1>2, <1>3, <2>3 DEF AccountedFor
    <2>4. CASE p \in Queued
      BY <1>3, <2>4, QueuedStep
    <2>5. CASE row[p] = "pending"
      BY <1>3, <2>5, PendingStep DEF AccountedFor
    <2>6. CASE Carried(p)
      BY <1>3, <2>6, CarriedStep
    <2>7. QED
      BY <2>1, <2>2, <2>3, <2>4, <2>5, <2>6 DEF AccountedFor
  <1>4. collected' \subseteq Points
    BY TypeStep DEF TypeOK
  <1>5. QED
    BY <1>1, <1>3, <1>4 DEF Accounted, AccountedFor

-----------------------------------------------------------------------------
(* No unexcused second copy *)

Once(p) == OnePlace(p) /\ SentOnce(p)

\* A step that moves p nowhere new keeps it in one place.
LEMMA Quiet ==
  ASSUME TypeOK, NEW p \in Points, Once(p), NEW c \in Collectors, OthersStay(c),
         UNCHANGED queue, copies'[p] = copies[p],
         \/ row'[p] \in {row[p], "none"}
         \/ row[p] = "pending" /\ row'[p] = "sent",
         Carries(c, p)' => /\ Carries(c, p)
                           /\ pc'[c] \in Replaying \cup {"wait"} \/ copies[p] = 0,
         pc[c] = "mark" /\ sub[c] = p => row'[p] # "pending"
  PROVE  Once(p)'
  <1>1. \A d \in Collectors : Carries(d, p)' => Carries(d, p)
    BY DEF OthersStay, Carries
  <1>2. Queued' = Queued /\ At(p)' = At(p)
    BY DEF Queued, At
  <1>3. OnePlace(p)'
    BY <1>1, <1>2 DEF Once, OnePlace
  <1>4. ASSUME copies[p] > 0, NEW d \in Collectors, Carries(d, p)'
        PROVE  pc'[d] \in Replaying \cup {"wait"}
    <2>1. CASE d = c
      BY <1>4, <2>1
    <2>2. CASE d # c
      BY <1>1, <1>4, <2>2 DEF Once, SentOnce, OthersStay
    <2>3. QED
      BY <2>1, <2>2
  <1>5. ASSUME copies[p] > 0, row'[p] = "pending"
        PROVE  \E d \in Collectors : pc'[d] = "mark" /\ sub'[d] = p
    <2>1. row[p] = "pending"
      BY <1>5
    <2>2. PICK d \in Collectors : pc[d] = "mark" /\ sub[d] = p
      BY <1>5, <2>1 DEF Once, SentOnce
    <2>3. QED
      BY <1>5, <2>2 DEF OthersStay
  <1>6. QED
    BY <1>2, <1>3, <1>4, <1>5 DEF Once, SentOnce

\* Collecting brings in a point of which no trace is left.
LEMMA CollectOnce ==
  ASSUME TypeOK, LocalShape, NEW c \in Collectors, NEW p \in Points, Collect(c, p)
  PROVE  Once(p)'
  <1>1. OthersStay(c)
    BY LocalStep DEF Upload
  <1>2. p \notin Queued' /\ row'[p] = "none" /\ copies'[p] = 0 /\ At(p)' = {}
    BY DEF Collect, Fresh, Queued, At, TypeOK
  <1>3. \A d \in Collectors : Carries(d, p)' => d = c
    BY <1>1 DEF Collect, Fresh, Carries, OthersStay
  <1>4. QED
    BY <1>2, <1>3 DEF Once, OnePlace, SentOnce

LEMMA PublishOnce ==
  ASSUME TypeOK, LocalShape, NEW c \in Collectors, Publish(c), NEW p \in Points, Once(p)
  PROVE  Once(p)'
  <1>1. OthersStay(c) /\ pc'[c] = "wait" /\ cur'[c] = cur[c] /\ sub'[c] = sub[c]
    BY LocalStep DEF Upload, Publish, GoTo, TypeOK
  <1>2. cur[c] \in Points /\ pc[c] = "publish"
    BY DEF Publish, LocalShape, ShapeOf
  <1>3. CASE p # cur[c]
    <2>1. copies'[p] = copies[p]
      BY <1>2, <1>3, CopyAdded DEF Publish
    <2>2. QED
      BY <1>1, <1>2, <1>3, <2>1, Quiet DEF Publish, Carries
  <1>4. CASE p = cur[c]
    <2>1. copies[p] = 0
      BY <1>2, <1>4, NoneOrSome DEF Once, SentOnce, Carries, Replaying
    <2>2. copies'[p] = 1
      BY <1>4, <2>1, CopyAdded DEF Publish
    <2>3. p \notin Queued /\ row[p] = "none" /\ \A d \in Collectors : Carries(d, p) => d = c
      BY <1>4 DEF Once, OnePlace, Carries
    <2>4. \A d \in Collectors : Carries(d, p)' <=> Carries(d, p)
      BY <1>1, <1>2 DEF Carries, OthersStay
    <2>5. Queued' = Queued /\ At(p)' = At(p) /\ row' = row
      BY DEF Publish, Queued, At
    <2>6. OnePlace(p)'
      BY <2>4, <2>5 DEF Once, OnePlace
    <2>7. QED
      BY <1>1, <2>2, <2>3, <2>4, <2>5, <2>6 DEF Once, SentOnce
  <1>5. QED
    BY <1>3, <1>4

LEMMA EnqueueOnce ==
  ASSUME TypeOK, LocalShape, NEW c \in Collectors, Enqueue(c), NEW p \in Points, Once(p)
  PROVE  Once(p)'
  <1>1. OthersStay(c) /\ UNCHANGED <<row, copies>>
    BY LocalStep DEF Upload, Enqueue, history
  <1>2. cur[c] \in Points /\ sub[c] = NoPoint /\ pc[c] = "buffer" /\ cur'[c] = NoPoint
    BY DEF Enqueue, Return, LocalShape, ShapeOf, TypeOK
  <1>3. cur[c] = p => copies[p] = 0 /\ p \notin Queued /\ row[p] = "none"
    BY <1>2, NoneOrSome DEF Once, OnePlace, SentOnce, Carries, Replaying
  <1>4. \A d \in Collectors \ {c} : Carries(d, p)' <=> Carries(d, p)
    BY <1>1 DEF OthersStay, Carries
  <1>5. \A d \in Collectors : cur[c] = p /\ Carries(d, p) => d = c
    BY DEF Once, OnePlace, Carries
  <1>6. \A j, k \in At(p) : j = k
    BY DEF Once, OnePlace
  <1>7. CASE ~Evicts
    <2>1. Queued' = Queued \cup {cur[c]}
      BY <1>2, <1>7, Appended DEF Enqueue, TypeOK
    <2>2. At(p)' = At(p) \cup IF p = cur[c] THEN {Len(queue) + 1} ELSE {}
      BY <1>2, <1>7, Appended DEF Enqueue, TypeOK
    <2>3. \A j, k \in At(p)' : j = k
      BY <1>3, <1>6, <2>2, QueuedAt
    <2>4. ~ Carries(c, p)'
      BY <1>2, <1>7, ConstantsOK DEF Enqueue, Return, GoTo, Carries, TypeOK
    <2>5. OnePlace(p)'
      BY <1>1, <1>3, <1>4, <1>5, <2>1, <2>3, <2>4 DEF Once, OnePlace
    <2>6. SentOnce(p)'
      BY <1>1, <1>2, <1>3, <1>4, <2>1, <2>4 DEF Once, SentOnce, OthersStay
    <2>7. QED
      BY <2>5, <2>6 DEF Once
  <1>8. CASE Evicts
    <2>1. queue \in Seq(Points) /\ queue # <<>> /\ queue' = Append(Tail(queue), cur[c])
      BY <1>8, EvictsSome DEF Enqueue
    <2>2. /\ Queued' \cup {Head(queue)} = Queued \cup {cur[c]}
          /\ Head(queue) \in Points /\ Len(queue) \in Nat
          /\ 1 \in At(Head(queue))
          /\ \A k \in At(p)' : k + 1 \in At(p) \/ (k = Len(queue) /\ p = cur[c])
      BY <1>2, <2>1, Shifted
    <2>3. pc'[c] = "store" /\ sub'[c] = Head(queue)
      BY <1>8 DEF Enqueue, GoTo, TypeOK
    <2>4. Carries(c, p)' <=> p = Head(queue)
      BY <1>2, <2>3, ConstantsOK DEF Carries
    <2>5. At(p)' \subseteq Nat
      BY <2>1, LenProperties, <1>2, Shifted DEF At
    <2>6. Head(queue) \in Queued
      BY <2>2, QueuedAt
    <2>7. \A j, k \in At(p)' : j = k
      BY <1>3, <1>6, <2>2, <2>5, QueuedAt
    <2>8. p = Head(queue) => p \notin Queued'
      <3>1. SUFFICES ASSUME p = Head(queue) PROVE At(p)' = {}
        BY QueuedAt DEF Queued, At
      <3>2. p # cur[c]
        BY <1>3, <2>6, <3>1
      <3>3. \A k \in At(p)' : k + 1 = 1
        BY <1>6, <2>2, <3>1, <3>2
      <3>4. \A k \in At(p)' : k \in Nat /\ k >= 1
        BY <2>5 DEF At
      <3>5. QED
        BY <3>3, <3>4
    <2>9. p = Head(queue) => /\ row[p] = "none" /\ copies[p] = 0
                             /\ \A d \in Collectors : ~Carries(d, p)
      BY <2>6, NoneOrSome DEF Once, OnePlace, SentOnce
    <2>10. OnePlace(p)'
      BY <1>1, <1>3, <1>4, <1>5, <2>2, <2>4, <2>7, <2>8, <2>9 DEF Once, OnePlace
    <2>11. SentOnce(p)'
      BY <1>1, <1>2, <1>3, <1>4, <2>2, <2>4, <2>9 DEF Once, SentOnce, OthersStay
    <2>12. QED
      BY <2>10, <2>11 DEF Once
  <1>9. QED
    BY <1>7, <1>8

LEMMA SendOnce ==
  ASSUME TypeOK, LocalShape, GateHeld, BatchPending, NEW c \in Collectors, Send(c),
         NEW p \in Points, Once(p)
  PROVE  Once(p)'
  <1>1. PICK q \in Points : NextRecord(c, q) /\ AddCopy(q) /\ sub' = [sub EXCEPT ![c] = q]
    BY DEF Send
  <1>2. OthersStay(c) /\ pc[c] = "send" /\ pc'[c] = "mark" /\ cur'[c] = cur[c] /\ sub'[c] = q
    BY <1>1, LocalStep DEF Replay, Send, GoTo, TypeOK
  <1>3. CASE q # p
    <2>1. copies'[p] = copies[p]
      BY <1>1, <1>3, CopyAdded
    <2>2. QED
      BY <1>2, <2>1, Quiet DEF Send, Carries, Replaying
  <1>4. CASE q = p
    <2>1. row[p] = "pending"
      BY <1>1, <1>4 DEF NextRecord, BatchPending, Backlog
    <2>2. \A d \in Collectors : pc[d] # "mark"
      BY <1>2, ConstantsOK DEF GateHeld, Replaying
    <2>3. copies'[p] = 1
      BY <1>1, <1>4, <2>1, <2>2, NoneOrSome, CopyAdded DEF Once, SentOnce
    <2>4. p \notin Queued /\ \A d \in Collectors : ~Carries(d, p)
      BY <2>1 DEF Once, OnePlace
    <2>5. \A d \in Collectors : ~Carries(d, p)'
      BY <1>2, <2>4 DEF Carries, OthersStay
    <2>6. Queued' = Queued /\ At(p)' = At(p) /\ row' = row
      BY DEF Send, Queued, At
    <2>7. OnePlace(p)'
      BY <2>4, <2>5, <2>6 DEF Once, OnePlace
    <2>8. QED
      BY <1>2, <1>4, <2>3, <2>4, <2>5, <2>6, <2>7 DEF Once, SentOnce
  <1>5. QED
    BY <1>3, <1>4

LEMMA StoreOnce ==
  ASSUME TypeOK, LocalShape, NEW c \in Collectors, Store(c), NEW p \in Points, Once(p)
  PROVE  Once(p)'
  <1>1. OthersStay(c) /\ cur'[c] = NoPoint /\ pc'[c] = "idle"
    BY LocalStep DEF Upload, Store, Return, GoTo, TypeOK
  <1>2. ~ Carries(c, p)' /\ UNCHANGED <<queue, copies>>
    BY <1>1, ConstantsOK DEF Store, Carries, history
  <1>3. CASE p # sub[c]
    BY <1>1, <1>2, <1>3, Quiet DEF Store, TypeOK
  <1>4. CASE p = sub[c]
    <2>1. Carries(c, p) /\ pc[c] = "store"
      BY <1>4 DEF Store, Carries
    <2>2. copies[p] = 0 /\ p \notin Queued /\ \A d \in Collectors : Carries(d, p) => d = c
      BY <2>1, NoneOrSome DEF Once, OnePlace, SentOnce, Replaying
    <2>3. \A d \in Collectors : ~ Carries(d, p)'
      BY <1>1, <1>2, <2>2 DEF OthersStay, Carries
    <2>4. Queued' = Queued /\ At(p)' = At(p)
      BY <1>2 DEF Queued, At
    <2>5. OnePlace(p)'
      BY <2>2, <2>3, <2>4 DEF Once, OnePlace
    <2>6. QED
      BY <1>2, <2>2, <2>5 DEF Once, SentOnce
  <1>5. QED
    BY <1>3, <1>4

\* Marking ends what sending began: no copy is left to be sent.
LEMMA MarkOnce ==
  ASSUME TypeOK, LocalShape, BatchPending, NEW c \in Collectors, MarkAsSent(c),
         NEW p \in Points, Once(p)
  PROVE  Once(p)'
  <1>1. OthersStay(c) /\ cur'[c] = cur[c] /\ pc'[c] = "send"
    BY LocalStep DEF Replay, MarkAsSent, GoTo, TypeOK
  <1>2. Carries(c, p)' => Carries(c, p)
    BY <1>1 DEF Carries
  <1>3. p = sub[c] => row[p] = "pending" /\ row'[p] = "sent"
    BY DEF MarkAsSent, BatchPending, Backlog, LocalShape, ShapeOf, TypeOK
  <1>4. p # sub[c] => row'[p] = row[p]
    BY DEF MarkAsSent, TypeOK
  <1>5. QED
    BY <1>1, <1>2, <1>3, <1>4, Quiet DEF MarkAsSent, Replaying, history

LEMMA RestartOnce ==
  ASSUME TypeOK, LocalShape, Restart, NEW p \in Points \ excused', Once(p)
  PROVE  Once(p)'
  <1>1. Queued' = {} /\ At(p)' = {} /\ UNCHANGED <<row, copies>>
    BY DEF Restart, Queued, At
  <1>2. \A d \in Collectors : ~ Carries(d, p)'
    BY ConstantsOK DEF Restart, Carries
  <1>3. \A d \in Collectors : pc[d] = "mark" => sub[d] # p
    BY DEF Restart
  <1>4. QED
    BY <1>1, <1>2, <1>3 DEF Once, OnePlace, SentOnce

\* The steps that send, store and queue nothing.
LEMMA QuietStep ==
  ASSUME TypeOK, LocalShape, NEW c \in Collectors,
         \/ PublishThrows(c) \/ StoreThrows(c) \/ Enter(c) \/ ReplayThrows(c) \/ List(c)
         \/ SendThrows(c) \/ EndLoop(c) \/ MarkThrows(c) \/ CleanupOld(c) \/ Cancel(c),
         NEW p \in Points \ excused', Once(p)
  PROVE  Once(p)'
  <1> DEFINE Frame == /\ copies'[p] = copies[p]
                      /\ row'[p] \in {row[p], "none"}
                      /\ Carries(c, p)' => /\ Carries(c, p)
                                           /\ pc'[c] \in Replaying \cup {"wait"} \/ copies[p] = 0
                      /\ pc[c] = "mark" /\ sub[c] = p => row'[p] # "pending"
  <1>1. OthersStay(c) /\ UNCHANGED queue
    BY LocalStep
    DEF Upload, Replay, PublishThrows, StoreThrows, Enter, ReplayThrows, List, SendThrows,
        EndLoop, MarkThrows, CleanupOld, Cancel, Leave
  <1>2. Return(c) => ~ Carries(c, p)'
    BY ConstantsOK DEF Return, GoTo, Carries, TypeOK
  <1>3. pc[c] \in Replaying \cup {"wait"} => pc[c] # "store"
    BY DEF Replaying
  <1>4. CASE PublishThrows(c)
    <2>1. cur[c] \in Points /\ pc[c] = "publish" /\ pc'[c] = "buffer" /\ cur'[c] = cur[c]
      BY <1>4 DEF PublishThrows, GoTo, LocalShape, ShapeOf, TypeOK
    <2>2. copies'[p] = copies[p]
      BY <1>4, <2>1, CopyAdded DEF PublishThrows, Unconfirmed, history, TypeOK
    <2>3. Carries(c, p)' => Carries(c, p)
      BY <2>1 DEF Carries
    <2>4. Carries(c, p) => copies[p] = 0
      BY <2>1, NoneOrSome DEF Once, SentOnce, Replaying
    <2>5. Frame
      BY <1>4, <2>1, <2>2, <2>3, <2>4 DEF PublishThrows
    <2>6. QED
      BY <1>1, <2>5, Quiet
  <1>5. CASE StoreThrows(c)
    BY <1>1, <1>2, <1>5, Quiet DEF StoreThrows
  <1>6. CASE Enter(c) \/ EndLoop(c)
    BY <1>1, <1>6, Quiet DEF Enter, EndLoop, Carries, GoTo, history, Replaying, TypeOK
  <1>7. CASE ReplayThrows(c)
    <2>1. cur[c] # p /\ cur'[c] = cur[c] /\ sub'[c] = NoPoint /\ pc[c] # "mark"
      BY <1>7 DEF ReplayThrows, TypeOK
    <2>2. ~ Carries(c, p)'
      BY <2>1, ConstantsOK DEF Carries
    <2>3. QED
      BY <1>1, <1>7, <2>1, <2>2, Quiet DEF ReplayThrows
  <1>8. CASE List(c)
    <2>1. CASE online
      BY <1>1, <1>8, <2>1, Quiet DEF List, Carries, GoTo, history, Replaying, TypeOK
    <2>2. CASE ~online
      BY <1>1, <1>2, <1>8, <2>2, Quiet DEF List, Leave, history
    <2>3. QED
      BY <2>1, <2>2
  <1>9. CASE SendThrows(c)
    <2>1. copies'[p] = copies[p]
      BY <1>9, CopyAdded DEF SendThrows, Unconfirmed, history, TypeOK
    <2>2. QED
      BY <1>1, <1>9, <2>1, Quiet DEF SendThrows, Carries, GoTo, Replaying, TypeOK
  <1>10. CASE MarkThrows(c)
    BY <1>1, <1>10, Quiet DEF MarkThrows, Carries, GoTo, Replaying, TypeOK
  <1>11. CASE CleanupOld(c)
    BY <1>1, <1>2, <1>11, Quiet DEF CleanupOld, Leave
  <1>12. CASE Cancel(c)
    BY <1>1, <1>2, <1>12, Quiet DEF Cancel
  <1>13. QED
    BY <1>4, <1>5, <1>6, <1>7, <1>8, <1>9, <1>10, <1>11, <1>12

LEMMA UnexcusedStep ==
  ASSUME TypeOK, LocalShape, GateHeld, BatchPending, UnexcusedOnce, [Next]_vars
  PROVE  UnexcusedOnce'
  <1>1. SUFFICES ASSUME NEW p \in Points \ excused' PROVE Once(p)'
    BY DEF UnexcusedOnce, Once
  <1>2. CASE \E c \in Collectors : Collect(c, p)
    BY <1>2, CollectOnce
  <1>3. CASE ~ \E c \in Collectors : Collect(c, p)
    <2>1. p \notin excused
      BY <1>3
      DEF Next, Upload, Replay, Collect, Publish, PublishThrows, Enqueue, Store, StoreThrows,
          Enter, ReplayThrows, List, Send, SendThrows, EndLoop, MarkAsSent, MarkThrows,
          CleanupOld, Cancel, Restart, Connect, Disconnect, Tick, Unconfirmed, history, vars
    <2>2. Once(p)
      BY <2>1 DEF UnexcusedOnce, Once
    <2>3. CASE Restart
      BY <2>2, <2>3, RestartOnce
    <2>4. CASE Connect \/ Disconnect \/ Tick \/ UNCHANGED vars
      BY <2>2, <2>4
      DEF Connect, Disconnect, Tick, vars, localVars, history, Once, OnePlace, SentOnce,
          Carries, Queued, At
    <2>5. ASSUME NEW c \in Collectors, NEW q \in Points \ {p}, Collect(c, q) PROVE Once(p)'
      <3>1. OthersStay(c)
        BY <2>5, LocalStep DEF Upload
      <3>2. copies'[p] = copies[p] /\ ~ Carries(c, p)' /\ UNCHANGED <<queue, row>>
        BY <2>5, ConstantsOK DEF Collect, Carries, GoTo, TypeOK
      <3>3. QED
        BY <2>2, <2>5, <3>1, <3>2, Quiet DEF Collect
    <2>6. ASSUME NEW c \in Collectors, Upload(c) \/ Replay(c) \/ Cancel(c),
                 \A q \in Points : ~Collect(c, q)
          PROVE  Once(p)'
      BY <2>2, <2>6, PublishOnce, EnqueueOnce, StoreOnce, SendOnce, MarkOnce, QuietStep
      DEF Upload, Replay
    <2>7. QED
      BY <1>3, <2>3, <2>4, <2>5, <2>6 DEF Next
  <1>4. QED
    BY <1>2, <1>3

-----------------------------------------------------------------------------
(* The theorems *)

LEMMA InitIInv == Init => IInv
  <1> SUFFICES ASSUME Init PROVE IInv
    OBVIOUS
  <1>1. Queued = {} /\ \A p : At(p) = {}
    BY DEF Init, Queued, At
  <1>2. LocalShape /\ GateHeld /\ MarkedAreCopied /\ BatchPending /\ Accounted
    BY ConstantsOK DEF Init, LocalShape, ShapeOf, GateHeld, MarkedAreCopied, BatchPending,
       Accounted, Replaying
  <1>3. UnexcusedOnce
    BY <1>1, ConstantsOK DEF Init, UnexcusedOnce, OnePlace, SentOnce, Carries
  <1>4. QED
    BY <1>2, <1>3, TypeInit DEF IInv

LEMMA NextIInv == IInv /\ [Next]_vars => IInv'
  BY TypeStep, GateStep, MarkedStep, BatchStep, AccountedStep, UnexcusedStep DEF IInv

\* The invariant of all the safety properties: who replays holds the gate, its
\* batch is pending, and an unexcused point is in one place and sent once.
THEOREM InductiveInvariant == Spec => []IInv
  BY InitIInv, NextIInv, PTL DEF Spec

\* The queue never exceeds its capacity, whatever the collectors do at once
\* (LocalBuffer.EnqueueAsync); every variable has its type.
THEOREM TypeCorrect == Spec => []TypeOK
  <1>1. IInv => TypeOK
    BY DEF IInv
  <1>2. QED
    BY <1>1, InductiveInvariant, PTL

\* No collected point vanishes between the uploader, the queue and the store.
THEOREM NoPointVanishes == Spec => []Accounted
  <1>1. IInv => Accounted
    BY DEF IInv
  <1>2. QED
    BY <1>1, InductiveInvariant, PTL

\* A point is at the broker twice only for one of the causes the code has.
THEOREM NoUncausedDuplicate == Spec => []DuplicateHasCause
  <1>1. IInv => DuplicateHasCause
    <2>1. SUFFICES ASSUME IInv, NEW p \in Points, copies[p] > 1 PROVE p \in excused
      BY DEF DuplicateHasCause
    <2>2. copies[p] \in 0..2 /\ ~(copies[p] < 2)
      BY <2>1 DEF IInv, TypeOK
    <2>3. QED
      BY <2>1, <2>2 DEF IInv, UnexcusedOnce, SentOnce
  <1>2. QED
    BY <1>1, InductiveInvariant, PTL

\* A stored point leaves the backlog only when the broker has it or when its
\* retention is over.
THEOREM BacklogKept == Spec => StoredUntilSent
  <1>1. IInv /\ [Next]_vars =>
           [\A p \in Points : row[p] = "pending" /\ row'[p] # "pending" =>
                copies[p] > 0 \/ age[p] > Retention]_vars
    BY PendingStep DEF IInv
  <1>2. QED
    BY <1>1, InductiveInvariant, PTL DEF Spec, StoredUntilSent

-----------------------------------------------------------------------------
(* Collectors alone *)

\* What gives a point a cause for a second copy is always one of the faults.
LEMMA BlameStep ==
  ASSUME Faults = {}, excused = {}, [Next]_vars
  PROVE  excused' = {}
  <1>1. CASE Restart
    BY <1>1 DEF Restart
  <1>2. ASSUME NEW c \in Collectors, NEW p \in Points, Collect(c, p)
        PROVE  excused' = {}
    BY <1>2 DEF Collect
  <1>3. ASSUME NEW c \in Collectors,
               \/ Publish(c) \/ PublishThrows(c) \/ Enqueue(c) \/ Store(c) \/ StoreThrows(c)
               \/ Replay(c) \/ Cancel(c)
        PROVE  excused' = {}
    <2>1. CASE Publish(c) \/ PublishThrows(c) \/ Enqueue(c) \/ Store(c) \/ StoreThrows(c)
      BY <2>1 DEF Publish, PublishThrows, Unconfirmed, Enqueue, Store, StoreThrows, history
    <2>2. CASE Replay(c)
      BY <2>2 DEF Replay, Unconfirmed, Enter, ReplayThrows, List, Send, SendThrows, EndLoop,
         MarkAsSent, MarkThrows, CleanupOld, history
    <2>3. CASE Cancel(c)
      BY <2>3 DEF Cancel
    <2>4. QED
      BY <1>3, <2>1, <2>2, <2>3
  <1>4. CASE Connect \/ Disconnect \/ Tick \/ UNCHANGED vars
    BY <1>4 DEF Connect, Disconnect, Tick, vars, history
  <1>5. QED
    BY <1>1, <1>2, <1>3, <1>4 DEF Next, Upload

\* As long as a publication that fails has not reached the broker, SQLite works
\* and nobody is stopped, a point reaches the broker at most once: that collectors replay one backlog after another and that the
\* connection goes and comes between any two of their steps duplicates nothing
\* (the replay gate and the status of the records, CloudUploader.cs:224-253).
THEOREM CollectorsNeverDuplicate ==
  ASSUME Faults = {}
  PROVE  Spec => [](\A p \in Points : copies[p] <= 1)
  <1> DEFINE Blameless == excused = {}
             AtMostOnce == \A p \in Points : copies[p] <= 1
  <1>1. Init => Blameless
    BY DEF Init
  <1>2. Blameless /\ [Next]_vars => Blameless'
    BY BlameStep
  <1>3. IInv /\ Blameless => AtMostOnce
    <2>1. SUFFICES ASSUME IInv, excused = {}, NEW p \in Points
                   PROVE  copies[p] <= 1
      OBVIOUS
    <2>2. copies[p] \in 0..2 /\ SentOnce(p)
      BY <2>1 DEF IInv, TypeOK, UnexcusedOnce
    <2>3. QED
      BY <2>2 DEF SentOnce
  <1> HIDE DEF Blameless, AtMostOnce
  <1>4. Spec => []AtMostOnce
    BY <1>1, <1>2, <1>3, InductiveInvariant, PTL DEF Spec
  <1>5. QED
    BY <1>4 DEF AtMostOnce
=============================================================================

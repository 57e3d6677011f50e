----------------------------- MODULE EdgeBuffer -----------------------------
(***************************************************************************)
(* The edge gateway's protection against a lost connection: collectors     *)
(* upload each point (CloudUploader), points that cannot be uploaded go to *)
(* a bounded memory queue (LocalBuffer), what the queue evicts goes to     *)
(* SQLite (SqliteBufferStore), and every successful upload replays the     *)
(* SQLite backlog.  Collectors run concurrently; the queue is locked while *)
(* it is changed, each SQLite call is atomic, and one replay runs at a     *)
(* time.                                                                   *)
(*                                                                         *)
(* A point that is nowhere any more may be collected anew: its name then   *)
(* stands for a new point, so that collection never has to end.            *)
(***************************************************************************)
EXTENDS Integers, Sequences, FiniteSets

CONSTANTS
    Points, Collectors, NoPoint, Nobody,
    Capacity,    \* GatewayOptions.BufferSize
    BatchLimit,  \* records read by one replay (100)
    Retention,   \* RetentionDays, in units of time
    Faults       \* "ambiguous": a publication fails after the broker took it;
                 \* "disk": SQLite calls fail; "restart": the process ends;
                 \* "cancel": a collector is stopped

ASSUME ConstantsOK ==
    /\ NoPoint \notin Points /\ Nobody \notin Collectors
    /\ Capacity \in Nat \ {0} /\ BatchLimit \in Nat \ {0} /\ Retention \in Nat
    /\ Faults \subseteq {"ambiguous", "disk", "restart", "cancel"}

VARIABLES
    online,   \* IMqttClient.IsConnected
    queue,    \* LocalBuffer._queue
    row,      \* buffer_messages by point: "none", "pending" or "sent"
    age,      \* time since created_at
    gate,     \* holder of _replayGate
    pc, cur,  \* where each collector is, and the point it uploads
    sub,      \* the evicted point it stores, or the record it replays
    todo,     \* records of its replay still to be sent
    collected,  \* history: points that were ever collected
    copies,   \* copies at the broker, counted up to 2
    given,    \* history: points given up, for a reason the code names
    excused   \* history: points with a cause for a second copy

localVars == <<pc, cur, sub, todo>>
history == <<collected, copies, given, excused>>
vars == <<online, queue, row, age, gate, pc, cur, sub, todo,
          collected, copies, given, excused>>

Stages == {"idle", "publish", "buffer", "store", "wait", "list", "send", "mark", "clean"}
Replaying == {"list", "send", "mark", "clean"}

Queued == {queue[k] : k \in 1..Len(queue)}

TypeOK ==
    /\ online \in BOOLEAN
    /\ queue \in Seq(Points) /\ Len(queue) <= Capacity
    /\ row \in [Points -> {"none", "pending", "sent"}]
    /\ age \in [Points -> 0..(Retention + 1)]
    /\ gate \in Collectors \cup {Nobody}
    /\ pc \in [Collectors -> Stages]
    /\ cur \in [Collectors -> Points \cup {NoPoint}]
    /\ sub \in [Collectors -> Points \cup {NoPoint}]
    /\ todo \in [Collectors -> SUBSET Points]
    /\ copies \in [Points -> 0..2]
    /\ collected \subseteq Points /\ given \subseteq Points /\ excused \subseteq Points

Init ==
    /\ online = FALSE
    /\ queue = <<>>
    /\ row = [p \in Points |-> "none"] /\ age = [p \in Points |-> 0]
    /\ gate = Nobody
    /\ pc = [c \in Collectors |-> "idle"]
    /\ cur = [c \in Collectors |-> NoPoint] /\ sub = [c \in Collectors |-> NoPoint]
    /\ todo = [c \in Collectors |-> {}]
    /\ copies = [p \in Points |-> 0]
    /\ collected = {} /\ given = {} /\ excused = {}

AddCopy(p) == copies' = [copies EXCEPT ![p] = IF @ < 2 THEN @ + 1 ELSE 2]
GoTo(c, stage) == pc' = [pc EXCEPT ![c] = stage]

\* The collector is back in its polling loop.
Return(c) ==
    /\ GoTo(c, "idle")
    /\ cur' = [cur EXCEPT ![c] = NoPoint]
    /\ sub' = [sub EXCEPT ![c] = NoPoint]
    /\ todo' = [todo EXCEPT ![c] = {}]

-----------------------------------------------------------------------------
(* Uploading one point *)

\* No trace of an earlier point of this name is left.
Fresh(p) ==
    /\ p \notin Queued /\ row[p] = "none"
    /\ \A c \in Collectors : p \notin {cur[c], sub[c]} \cup todo[c]

\* CollectOnceAsync has read and normalised a point.
Collect(c, p) ==
    /\ pc[c] = "idle" /\ Fresh(p)
    /\ GoTo(c, IF online THEN "publish" ELSE "buffer")
    /\ cur' = [cur EXCEPT ![c] = p]
    /\ copies' = [copies EXCEPT ![p] = 0]
    /\ collected' = collected \cup {p}
    /\ given' = given \ {p} /\ excused' = excused \ {p}
    /\ UNCHANGED <<online, queue, row, age, gate, sub, todo>>

Publish(c) ==
    /\ pc[c] = "publish" /\ online
    /\ AddCopy(cur[c])
    /\ GoTo(c, "wait")
    /\ UNCHANGED <<online, queue, row, age, gate, cur, sub, todo, collected, given, excused>>

\* A failed publication, which the broker may have accepted all the same.
Unconfirmed(p) ==
    \/ UNCHANGED history
    \/ "ambiguous" \in Faults /\ AddCopy(p) /\ excused' = excused \cup {p}
       /\ UNCHANGED <<collected, given>>

PublishThrows(c) ==
    /\ pc[c] = "publish"
    /\ Unconfirmed(cur[c])
    /\ GoTo(c, "buffer")
    /\ UNCHANGED <<online, queue, row, age, gate, cur, sub, todo>>

\* Mutant of Evicts: one point too many is let in.
EvictsLate == Len(queue) > Capacity

Evicts == Len(queue) >= Capacity

\* Mutant of Enqueue: the evicted point is not kept for the store.
EnqueueForgetful(c) ==
    /\ pc[c] = "buffer"
    /\ queue' = Append(IF Evicts THEN Tail(queue) ELSE queue, cur[c])
    /\ Return(c)
    /\ UNCHANGED <<online, row, age, gate, history>>

\* The locked part of EnqueueAsync.
Enqueue(c) ==
    /\ pc[c] = "buffer"
    /\ IF Evicts
       THEN /\ queue' = Append(Tail(queue), cur[c])
            /\ GoTo(c, "store")
            /\ sub' = [sub EXCEPT ![c] = Head(queue)]
            /\ cur' = [cur EXCEPT ![c] = NoPoint]
            /\ UNCHANGED todo
       ELSE queue' = Append(queue, cur[c]) /\ Return(c)
    /\ UNCHANGED <<online, row, age, gate, history>>

Store(c) ==
    /\ pc[c] = "store"
    /\ row' = [row EXCEPT ![sub[c]] = "pending"]
    /\ age' = [age EXCEPT ![sub[c]] = 0]
    /\ Return(c)
    /\ UNCHANGED <<online, queue, gate, history>>

\* SQLite fails: the point is dropped and counted (BufferDroppedTotal).
StoreThrows(c) ==
    /\ pc[c] = "store" /\ "disk" \in Faults
    /\ given' = given \cup {sub[c]}
    /\ Return(c)
    /\ UNCHANGED <<online, queue, row, age, gate, collected, copies, excused>>

-----------------------------------------------------------------------------
(* Replaying the backlog: ReplayOfflineDataAsync *)

\* Mutant of Enter: the gate is not waited for.
EnterAnyway(c) ==
    /\ pc[c] = "wait"
    /\ gate' = c
    /\ GoTo(c, "list")
    /\ UNCHANGED <<online, queue, row, age, cur, sub, todo, history>>

Enter(c) ==
    /\ pc[c] = "wait" /\ gate = Nobody
    /\ gate' = c
    /\ GoTo(c, "list")
    /\ UNCHANGED <<online, queue, row, age, cur, sub, todo, history>>

\* The replay is over and the point of this upload was published before it.
Leave(c) == gate' = Nobody /\ Return(c)

\* An exception of the replay reaches UploadWithFallbackAsync, which takes it
\* for a failed upload: the point is buffered although it was published.
ReplayThrows(c) ==
    /\ "disk" \in Faults
    /\ pc[c] \in {"list", "clean"}
    /\ gate' = Nobody
    /\ excused' = excused \cup {cur[c]}
    /\ GoTo(c, "buffer")
    /\ sub' = [sub EXCEPT ![c] = NoPoint]
    /\ todo' = [todo EXCEPT ![c] = {}]
    /\ UNCHANGED <<online, queue, row, age, cur, collected, copies, given>>

Backlog == {p \in Points : row[p] = "pending"}

\* The results of GetPendingAsync: the oldest records, at most BatchLimit.
Batches ==
    {b \in SUBSET Backlog :
        /\ b = Backlog \/ Cardinality(b) = BatchLimit
        /\ Cardinality(b) <= BatchLimit
        /\ \A p \in b, q \in Backlog \ b : age[p] >= age[q]}

List(c) ==
    /\ pc[c] = "list"
    /\ IF online
       THEN /\ \E b \in Batches : todo' = [todo EXCEPT ![c] = b]
            /\ GoTo(c, "send")
            /\ UNCHANGED <<gate, cur, sub>>
       ELSE Leave(c)
    /\ UNCHANGED <<online, queue, row, age, history>>

\* The record the loop comes to next.
NextRecord(c, p) == p \in todo[c] /\ \A q \in todo[c] : age[p] >= age[q]

Send(c) ==
    /\ pc[c] = "send" /\ online
    /\ \E p \in Points :
          /\ NextRecord(c, p)
          /\ AddCopy(p)
          /\ sub' = [sub EXCEPT ![c] = p]
    /\ GoTo(c, "mark")
    /\ UNCHANGED <<online, queue, row, age, gate, cur, todo, collected, given, excused>>

SendThrows(c) ==
    /\ pc[c] = "send"
    /\ \E p \in Points : NextRecord(c, p) /\ Unconfirmed(p)
    /\ GoTo(c, "clean")
    /\ UNCHANGED <<online, queue, row, age, gate, cur, sub, todo>>

\* The loop ends: every record is sent, or the connection is gone.
EndLoop(c) ==
    /\ pc[c] = "send"
    /\ todo[c] = {} \/ ~online
    /\ GoTo(c, "clean")
    /\ UNCHANGED <<online, queue, row, age, gate, cur, sub, todo, history>>

MarkAsSent(c) ==
    /\ pc[c] = "mark"
    /\ row' = [row EXCEPT ![sub[c]] = "sent"]
    /\ todo' = [todo EXCEPT ![c] = @ \ {sub[c]}]
    /\ sub' = [sub EXCEPT ![c] = NoPoint]
    /\ GoTo(c, "send")
    /\ UNCHANGED <<online, queue, age, gate, cur, history>>

MarkThrows(c) ==
    /\ pc[c] = "mark" /\ "disk" \in Faults
    /\ excused' = excused \cup {sub[c]}
    /\ sub' = [sub EXCEPT ![c] = NoPoint]
    /\ GoTo(c, "clean")
    /\ UNCHANGED <<online, queue, row, age, gate, cur, todo, collected, copies, given>>

\* Mutant of Expired: a record is removed one unit early.
ExpiredEarly == {p \in Points : row[p] # "none" /\ age[p] >= Retention}

Expired == {p \in Points : row[p] # "none" /\ age[p] > Retention}

\* CleanupOldAsync does not ask whether a record was sent.
CleanupOld(c) ==
    /\ pc[c] = "clean"
    /\ row' = [p \in Points |-> IF p \in Expired THEN "none" ELSE row[p]]
    /\ age' = [p \in Points |-> IF p \in Expired THEN 0 ELSE age[p]]
    /\ given' = given \cup (Expired \cap Backlog)
    /\ Leave(c)
    /\ UNCHANGED <<online, queue, collected, copies, excused>>

-----------------------------------------------------------------------------
(* Cancellation, restart, connection and time *)

\* DeviceManager stops the collector: a publication that is under way is given
\* up and its point not buffered; a replay is left with its gate released, and
\* a record that the broker has but has not confirmed will be sent again.
Cancel(c) ==
    /\ "cancel" \in Faults
    /\ pc[c] \in {"publish", "wait", "send", "mark"}
    /\ given' = IF pc[c] = "publish" THEN given \cup {cur[c]} ELSE given
    /\ excused' = IF pc[c] = "mark" THEN excused \cup {sub[c]} ELSE excused
    /\ gate' = IF gate = c THEN Nobody ELSE gate
    /\ Return(c)
    /\ UNCHANGED <<online, queue, row, age, collected, copies>>

\* The process ends, by a crash or a stop (DisposeAsync clears the queue): only
\* SQLite is left.  A record being marked will be sent again.
Restart ==
    /\ "restart" \in Faults
    /\ online' = FALSE /\ queue' = <<>> /\ gate' = Nobody
    /\ given' = given \cup Queued
                      \cup {cur[c] : c \in {d \in Collectors : pc[d] \in {"publish", "buffer"}}}
                      \cup {sub[c] : c \in {d \in Collectors : pc[d] = "store"}}
    /\ excused' = excused \cup {sub[c] : c \in {d \in Collectors : pc[d] = "mark"}}
    /\ pc' = [c \in Collectors |-> "idle"]
    /\ cur' = [c \in Collectors |-> NoPoint] /\ sub' = [c \in Collectors |-> NoPoint]
    /\ todo' = [c \in Collectors |-> {}]
    /\ UNCHANGED <<row, age, collected, copies>>

\* ConnectAsync, by whoever hosts the uploader.
Connect ==
    /\ ~online
    /\ online' = TRUE
    /\ UNCHANGED <<queue, row, age, gate, localVars, history>>

Disconnect ==
    /\ online
    /\ online' = FALSE
    /\ UNCHANGED <<queue, row, age, gate, localVars, history>>

Tick ==
    /\ age' = [p \in Points |-> IF row[p] # "none" /\ age[p] <= Retention
                                THEN age[p] + 1 ELSE age[p]]
    /\ UNCHANGED <<online, queue, row, gate, localVars, history>>

Upload(c) ==
    \/ (\E p \in Points : Collect(c, p))
    \/ Publish(c) \/ PublishThrows(c) \/ Enqueue(c) \/ Store(c) \/ StoreThrows(c)

Replay(c) ==
    \/ Enter(c) \/ ReplayThrows(c) \/ List(c) \/ Send(c) \/ SendThrows(c) \/ EndLoop(c)
    \/ MarkAsSent(c) \/ MarkThrows(c) \/ CleanupOld(c)

Next ==
    \/ \E c \in Collectors : Upload(c) \/ Replay(c) \/ Cancel(c)
    \/ Restart \/ Connect \/ Disconnect \/ Tick

Spec == Init /\ [][Next]_vars

\* Every collector goes on, the broker does not refuse publications for ever,
\* and the host connects again.
Fairness ==
    /\ WF_vars(Connect)
    /\ \A c \in Collectors :
          /\ WF_vars(Upload(c)) /\ WF_vars(Replay(c))
          /\ SF_vars(Publish(c)) /\ SF_vars(Send(c))

FairSpec == Spec /\ Fairness

-----------------------------------------------------------------------------
(* Properties *)

\* A collector carries the point, evicted or not yet buffered.
Carried(p) ==
    \E c \in Collectors :
        \/ pc[c] \in {"publish", "buffer"} /\ cur[c] = p
        \/ pc[c] = "store" /\ sub[c] = p

\* No point vanishes: until the broker has it, it is carried, queued or stored,
\* or was given up with the process, by a cancellation, by a failing disk or
\* after its retention, whatever evictions and replays run at once.
Accounted ==
    \A p \in collected :
        \/ copies[p] > 0 \/ p \in given
        \/ p \in Queued \/ row[p] = "pending" \/ Carried(p)

\* A point reaches the broker twice only after an ambiguous publication, a
\* failed or interrupted MarkAsSent, or a failure of the replay that follows
\* its upload: collectors that replay at once never send one record twice.
DuplicateHasCause ==
    \A p \in Points : copies[p] > 1 => p \in excused

\* The backlog survives restarts and failures: a stored point leaves it only
\* when the broker has it or when it is older than the retention.
StoredUntilSent ==
    [][\A p \in Points :
          row[p] = "pending" /\ row'[p] # "pending" => copies[p] > 0 \/ age[p] > Retention]_vars

-----------------------------------------------------------------------------
(* What the code says of itself, and a run refutes *)

\* "Online, points are uploaded directly and the backlog is replayed": when the
\* connection stays up and replays are completed again and again, what was
\* buffered in memory does not stay there.
BacklogReplayed ==
    <>[]online /\ []<>(\E c \in Collectors : pc[c] = "clean") =>
        \A p \in Points : p \in Queued ~> p \notin Queued
=============================================================================

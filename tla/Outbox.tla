------------------------------- MODULE Outbox -------------------------------
(***************************************************************************)
(* The transactional outbox of EquipAI.Infrastructure/Messaging: business  *)
(* transactions register events as rows (TransactionalEventBus), and one   *)
(* OutboxDispatcher per application instance claims rows under a lease,    *)
(* publishes them to the broker and records the outcome with updates that  *)
(* are conditional on the lease token (OutboxMessageStore).                *)
(*                                                                         *)
(* Time is kept as what is left of each interval: lock is what remains of  *)
(* LockedUntil - now, avail of AvailableAt - now, and age is the time since *)
(* PublishedAt.  Clocks of instances and database are assumed to agree.    *)
(***************************************************************************)
EXTENDS Integers, Sequences, FiniteSets

CONSTANTS
    Msgs,         \* event identifiers
    Dispatchers,  \* application instances that run an OutboxDispatcher
    Tokens,       \* lease tokens (Guid.NewGuid)
    NoToken, NoMsg,
    Poison,       \* events whose payload can never be deserialized
    Mortal,       \* the instances that may crash or be stopped, at any time
    BatchSize, Lease, MaxBackoff, Retention,
    AttemptCap,   \* AttemptCount saturates here (see BackoffSaturates)
    Faults,       \* the faults the environment may show
    Timely        \* TRUE: no live dispatcher falls behind its leases and polls

ASSUME ConstantsOK ==
    /\ Poison \subseteq Msgs /\ Mortal \subseteq Dispatchers
    /\ NoToken \notin Tokens /\ NoMsg \notin Msgs
    /\ BatchSize \in Nat \ {0} /\ Lease \in Nat \ {0}
    /\ MaxBackoff \in Nat \ {0} /\ Retention \in Nat \ {0}
    /\ AttemptCap \in Nat \ {0}
    /\ Faults \subseteq {"database", "ambiguous", "republish"}
    /\ Timely \in BOOLEAN

\* Beyond AttemptCap the delay is MaxBackoff whatever the count.
ASSUME BackoffSaturates == AttemptCap <= 29 /\ 2^AttemptCap >= MaxBackoff

VARIABLES
    row,         \* outbox_messages: "absent", "pending" or "published"
    avail,       \* what remains until AvailableAt
    lock,        \* what remains until LockedUntil
    token,       \* LockToken
    attempts,    \* AttemptCount
    age,         \* time since PublishedAt
    older,       \* <<m, n>>: row m was created before row n
    pc,          \* where each dispatcher is
    todo,        \* candidates of the batch still to be visited
    cur,         \* the message the dispatcher works on
    tok,         \* its OutboxLease.LockToken
    tries,       \* the AttemptCount it read after claiming
    expired,     \* the rows CleanupPublishedMessagesAsync has selected
    hold,        \* history: what remains of the time its lease was granted for
    registered,  \* history: events whose registration committed
    copies,      \* copies accepted by the broker, counted up to 2
    excused      \* history: events with a cause for a second copy

columns == <<row, avail, lock, token, attempts, age>>
tableVars == <<columns, older>>
localVars == <<pc, todo, cur, tok, tries, expired>>
historyVars == <<registered, copies, excused>>
vars == <<row, avail, lock, token, attempts, age, older,
          pc, todo, cur, tok, tries, expired, hold, registered, copies, excused>>

Batches == UNION {[1..n -> Msgs] : n \in 0..BatchSize}
Stages == {"down", "poll", "work", "read", "publish", "mark", "fail", "sweep"}

TableTypeOK ==
    /\ row \in [Msgs -> {"absent", "pending", "published"}]
    /\ avail \in [Msgs -> 0..MaxBackoff]
    /\ lock \in [Msgs -> 0..Lease]
    /\ token \in [Msgs -> Tokens \cup {NoToken}]
    /\ attempts \in [Msgs -> 0..AttemptCap]
    /\ age \in [Msgs -> 0..(Retention + 1)]
    /\ older \subseteq Msgs \X Msgs

LocalTypeOK ==
    /\ pc \in [Dispatchers -> Stages]
    /\ todo \in [Dispatchers -> Seq(Msgs)]
    /\ cur \in [Dispatchers -> Msgs \cup {NoMsg}]
    /\ tok \in [Dispatchers -> Tokens \cup {NoToken}]
    /\ tries \in [Dispatchers -> 0..AttemptCap]
    /\ expired \in [Dispatchers -> SUBSET Msgs]

HistoryTypeOK ==
    /\ registered \subseteq Msgs
    /\ copies \in [Msgs -> 0..2]
    /\ excused \subseteq Msgs

TypeOK ==
    TableTypeOK /\ LocalTypeOK /\ HistoryTypeOK /\ hold \in [Dispatchers -> 0..Lease]

Init ==
    /\ row = [m \in Msgs |-> "absent"]
    /\ avail = [m \in Msgs |-> 0]
    /\ lock = [m \in Msgs |-> 0]
    /\ token = [m \in Msgs |-> NoToken]
    /\ attempts = [m \in Msgs |-> 0]
    /\ age = [m \in Msgs |-> 0]
    /\ older = {}
    /\ pc = [d \in Dispatchers |-> "poll"]
    /\ todo = [d \in Dispatchers |-> <<>>]
    /\ cur = [d \in Dispatchers |-> NoMsg]
    /\ tok = [d \in Dispatchers |-> NoToken]
    /\ tries = [d \in Dispatchers |-> 0]
    /\ expired = [d \in Dispatchers |-> {}]
    /\ hold = [d \in Dispatchers |-> 0]
    /\ registered = {}
    /\ copies = [m \in Msgs |-> 0]
    /\ excused = {}

-----------------------------------------------------------------------------
(* Queries and helpers *)

\* Mutants of Claimable: the lease is not looked at; a row is given up after
\* AttemptCap claims.
ClaimableLocked(m) ==
    row[m] = "pending" /\ avail[m] = 0
ClaimableFewTimes(m) ==
    /\ row[m] = "pending" /\ avail[m] = 0 /\ lock[m] = 0
    /\ attempts[m] < AttemptCap

\* The candidate condition of the batch query and of TryClaimAsync.
Claimable(m) ==
    /\ row[m] = "pending"
    /\ avail[m] = 0
    /\ lock[m] = 0

\* Mutant of HoldsLease: the updates are not conditional on the token.
HoldsAnyLease(d) == cur[d] \in Msgs /\ row[cur[d]] = "pending"

\* The row still carries the dispatcher's token and is unpublished.
HoldsLease(d) ==
    /\ cur[d] \in Msgs
    /\ row[cur[d]] = "pending"
    /\ token[cur[d]] = tok[d]

\* A batch: the oldest claimable rows in order of creation, at most BatchSize.
OldestFirst(s) ==
    /\ \A i \in DOMAIN s : Claimable(s[i])
    /\ \A i, j \in DOMAIN s : i < j => <<s[i], s[j]>> \in older
    /\ \A m \in Msgs : Claimable(m) /\ (\A i \in DOMAIN s : s[i] # m)
          => /\ Len(s) = BatchSize
             /\ \A i \in DOMAIN s : <<s[i], m>> \in older

FreshTokens == Tokens \ ({token[m] : m \in Msgs}
                         \cup {tok[d] : d \in Dispatchers})

\* Mutant of GetDelay: the exponent is not capped by MaxBackoffSeconds.
UncappedDelay(attempt) == 2^(attempt - 1)

\* Mutant of GetDelay: a failed row may be tried again at once.
NoDelay(attempt) == 0

\* OutboxRetryPolicy.GetDelay
GetDelay(attempt) ==
    LET safe == IF attempt < 1 THEN 1 ELSE IF attempt > 30 THEN 30 ELSE attempt
        seconds == 2^(safe - 1)
    IN  IF seconds \in 0..MaxBackoff THEN seconds ELSE MaxBackoff

Working == {"read", "publish", "mark", "fail"}

\* The dispatcher leaves the row it worked on and with it the lease.
LetGo(d) == hold' = [hold EXCEPT ![d] = 0]

\* The dispatcher is done with its current message: next of the foreach.
NextMessage(d) ==
    /\ pc' = [pc EXCEPT ![d] = "work"]
    /\ cur' = [cur EXCEPT ![d] = NoMsg]
    /\ tok' = [tok EXCEPT ![d] = NoToken]
    /\ tries' = [tries EXCEPT ![d] = 0]
    /\ LetGo(d)
    /\ UNCHANGED <<todo, expired>>

\* The round ends and everything local to it is gone.
LeaveRound(d, stage) ==
    /\ pc' = [pc EXCEPT ![d] = stage]
    /\ todo' = [todo EXCEPT ![d] = <<>>]
    /\ cur' = [cur EXCEPT ![d] = NoMsg]
    /\ tok' = [tok EXCEPT ![d] = NoToken]
    /\ tries' = [tries EXCEPT ![d] = 0]
    /\ expired' = [expired EXCEPT ![d] = {}]

AddCopy(m) == copies' = [copies EXCEPT ![m] = IF @ < 2 THEN @ + 1 ELSE 2]
Excuse(m) == excused' = excused \cup {m}

\* A claim takes over a lease that lapsed without a result.
TakesOver(m) == token[m] # NoToken /\ lock[m] = 0
ExcuseTakeover(m) == excused' = IF TakesOver(m) THEN excused \cup {m} ELSE excused

\* The updates of TryClaimAsync, MarkPublishedAsync and MarkFailedAsync.
SetClaimed(m, t) ==
    /\ lock' = [lock EXCEPT ![m] = Lease]
    /\ token' = [token EXCEPT ![m] = t]
    /\ attempts' = [attempts EXCEPT ![m] = IF @ < AttemptCap THEN @ + 1 ELSE @]
    /\ UNCHANGED <<row, avail, age>>

SetPublished(m) ==
    /\ row' = [row EXCEPT ![m] = "published"]
    /\ age' = [age EXCEPT ![m] = 0]
    /\ lock' = [lock EXCEPT ![m] = 0]
    /\ token' = [token EXCEPT ![m] = NoToken]
    /\ UNCHANGED <<avail, attempts>>

SetFailed(m, delay) ==
    /\ avail' = [avail EXCEPT ![m] = delay]
    /\ lock' = [lock EXCEPT ![m] = 0]
    /\ token' = [token EXCEPT ![m] = NoToken]
    /\ UNCHANGED <<row, attempts, age>>

-----------------------------------------------------------------------------
(* Actions *)

\* TransactionalEventBus.PublishAsync: no row with this id, so one is inserted
\* together with the business change.  After cleanup the same id may come
\* again (WorkOrderAutoCreateHandler re-announces an existing work order).
Register(m) ==
    /\ row[m] = "absent"
    /\ m \in registered => "republish" \in Faults
    /\ row' = [row EXCEPT ![m] = "pending"]
    /\ UNCHANGED <<avail, lock, token, attempts, age>>
    /\ older' = older \cup {<<n, m>> : n \in {k \in Msgs : row[k] # "absent"}}
    /\ registered' = registered \cup {m}
    /\ excused' = IF m \in registered THEN excused \cup {m} ELSE excused
    /\ UNCHANGED <<localVars, hold, copies>>

\* DispatchBatchAsync: the candidate query.
Fetch(d) ==
    /\ pc[d] = "poll"
    /\ \E s \in Batches :
          /\ OldestFirst(s)
          /\ todo' = [todo EXCEPT ![d] = s]
    /\ pc' = [pc EXCEPT ![d] = "work"]
    /\ UNCHANGED <<tableVars, cur, tok, tries, expired, hold, historyVars>>

\* TryClaimAsync succeeds.  Taking over a lapsed lease whose holder may have
\* published already is a cause for a second copy.
Claim(d, m) ==
    /\ pc[d] = "work" /\ todo[d] # <<>> /\ m = Head(todo[d])
    /\ Claimable(m)
    /\ \E t \in FreshTokens :
          /\ SetClaimed(m, t)
          /\ tok' = [tok EXCEPT ![d] = t]
    /\ ExcuseTakeover(m)
    /\ todo' = [todo EXCEPT ![d] = Tail(@)]
    /\ cur' = [cur EXCEPT ![d] = m]
    /\ hold' = [hold EXCEPT ![d] = Lease]
    /\ pc' = [pc EXCEPT ![d] = "read"]
    /\ UNCHANGED <<older, tries, expired, registered, copies>>

\* TryClaimAsync returns null: another instance was faster.
Skip(d) ==
    /\ pc[d] = "work" /\ todo[d] # <<>>
    /\ ~Claimable(Head(todo[d]))
    /\ todo' = [todo EXCEPT ![d] = Tail(@)]
    /\ UNCHANGED <<tableVars, pc, cur, tok, tries, expired, hold, historyVars>>

\* The claim's round trip fails, after or before the update took effect.
ClaimThrows(d) ==
    /\ "database" \in Faults
    /\ pc[d] = "work" /\ todo[d] # <<>>
    /\ LET m == Head(todo[d]) IN
          \/ UNCHANGED <<columns, excused>>
          \/ /\ Claimable(m)
             /\ \E t \in FreshTokens : SetClaimed(m, t)
             /\ ExcuseTakeover(m)
    /\ LeaveRound(d, "poll")
    /\ UNCHANGED <<older, hold, registered, copies>>

\* The claimed row is read again; it may be gone or published by now.
Read(d) ==
    /\ pc[d] = "read"
    /\ IF row[cur[d]] = "pending"
       THEN /\ tries' = [tries EXCEPT ![d] = attempts[cur[d]]]
            /\ pc' = [pc EXCEPT ![d] = "publish"]
            /\ UNCHANGED <<todo, cur, tok, expired, hold>>
       ELSE NextMessage(d)
    /\ UNCHANGED <<tableVars, historyVars>>

\* PublishAsync returns: the broker confirmed the message.
PublishOk(d) ==
    /\ pc[d] = "publish" /\ cur[d] \notin Poison
    /\ AddCopy(cur[d])
    /\ pc' = [pc EXCEPT ![d] = "mark"]
    /\ UNCHANGED <<tableVars, todo, cur, tok, tries, expired, hold, registered, excused>>

\* Mutant of PublishThrows: the failure is logged and the row marked anyway.
PublishSwallowed(d) ==
    /\ pc[d] = "publish"
    /\ pc' = [pc EXCEPT ![d] = "mark"]
    /\ UNCHANGED <<tableVars, todo, cur, tok, tries, expired, hold, historyVars>>

\* Deserialization or PublishAsync throws; when the confirmation is what got
\* lost, the broker has the message all the same.
PublishThrows(d) ==
    /\ pc[d] = "publish"
    /\ \/ UNCHANGED <<copies, excused>>
       \/ /\ "ambiguous" \in Faults /\ cur[d] \notin Poison
          /\ AddCopy(cur[d]) /\ Excuse(cur[d])
    /\ pc' = [pc EXCEPT ![d] = "fail"]
    /\ UNCHANGED <<tableVars, todo, cur, tok, tries, expired, hold, registered>>

\* MarkPublishedAsync: conditional on the token; without it nothing changes.
MarkPublished(d) ==
    /\ pc[d] = "mark"
    /\ IF HoldsLease(d) THEN SetPublished(cur[d]) ELSE UNCHANGED columns
    /\ NextMessage(d)
    /\ UNCHANGED <<older, historyVars>>

\* MarkPublishedAsync throws, with or without effect, into the same catch
\* clause as a failed publish.
MarkPublishedThrows(d) ==
    /\ "database" \in Faults
    /\ pc[d] = "mark"
    /\ \/ UNCHANGED columns /\ Excuse(cur[d])
       \/ HoldsLease(d) /\ SetPublished(cur[d]) /\ UNCHANGED excused
    /\ pc' = [pc EXCEPT ![d] = "fail"]
    /\ UNCHANGED <<older, todo, cur, tok, tries, expired, hold, registered, copies>>

\* MarkFailedAsync: the lease is released and the row backs off.
MarkFailed(d) ==
    /\ pc[d] = "fail"
    /\ IF HoldsLease(d) THEN SetFailed(cur[d], GetDelay(tries[d] + 1))
                        ELSE UNCHANGED columns
    /\ NextMessage(d)
    /\ UNCHANGED <<older, historyVars>>

\* The database fails in the re-read, in MarkFailedAsync or in the cleanup: the
\* round is over and a lease that was not released stays until it lapses.
RoundThrows(d) ==
    /\ "database" \in Faults
    /\ pc[d] \in {"read", "fail", "sweep"}
    /\ \/ UNCHANGED columns
       \/ pc[d] = "fail" /\ HoldsLease(d) /\ SetFailed(cur[d], GetDelay(tries[d] + 1))
    /\ LeaveRound(d, "poll")
    /\ LetGo(d)
    /\ UNCHANGED <<older, historyVars>>

\* CleanupPublishedMessagesAsync: select what is past its retention ...
SelectExpired(d) ==
    /\ pc[d] = "work" /\ todo[d] = <<>>
    /\ LET old == {m \in Msgs : row[m] = "published" /\ age[m] > Retention} IN
          /\ expired' = [expired EXCEPT ![d] = old]
          /\ pc' = [pc EXCEPT ![d] = IF old = {} THEN "poll" ELSE "sweep"]
    /\ UNCHANGED <<tableVars, todo, cur, tok, tries, hold, historyVars>>

Reset(column, S, value) == [m \in Msgs |-> IF m \in S THEN value ELSE column[m]]

\* ... and delete it by primary key.  A row another instance deleted meanwhile
\* makes SaveChangesAsync throw and nothing is deleted.  A lease ends with its row.
Sweep(d) ==
    /\ pc[d] = "sweep"
    /\ IF \A m \in expired[d] : row[m] # "absent"
       THEN /\ row' = Reset(row, expired[d], "absent")
            /\ token' = Reset(token, expired[d], NoToken)
            /\ avail' = Reset(avail, expired[d], 0)
            /\ lock' = Reset(lock, expired[d], 0)
            /\ attempts' = Reset(attempts, expired[d], 0)
            /\ age' = Reset(age, expired[d], 0)
            /\ older' = {p \in older : p[1] \notin expired[d] /\ p[2] \notin expired[d]}
            /\ hold' = [e \in Dispatchers |-> IF cur[e] \in expired[d] THEN 0 ELSE hold[e]]
       ELSE UNCHANGED <<tableVars, hold>>
    /\ LeaveRound(d, "poll")
    /\ UNCHANGED <<historyVars>>

\* The process dies or is stopped at any point; its lease stays behind.
Crash(d) ==
    /\ d \in Mortal
    /\ pc[d] # "down"
    /\ LeaveRound(d, "down")
    /\ LetGo(d)
    /\ UNCHANGED <<tableVars, historyVars>>

Start(d) ==
    /\ pc[d] = "down"
    /\ pc' = [pc EXCEPT ![d] = "poll"]
    /\ UNCHANGED <<tableVars, todo, cur, tok, tries, expired, hold, historyVars>>

Less(n) == IF n = 0 THEN 0 ELSE n - 1

LeaseWouldLapse ==
    \E d \in Dispatchers : HoldsLease(d) /\ lock[cur[d]] = 1

\* A dispatcher that is not publishing is behind: its database calls take no time,
\* and its polls come round before the back-off of another row ends.
Behind(d) ==
    /\ pc[d] \notin {"down", "publish"}
    /\ \/ pc[d] \in {"read", "mark", "fail", "sweep"} \/ todo[d] # <<>>
       \/ \E m \in Msgs : Claimable(m)

\* One unit of time passes for every row.
Tick ==
    /\ Timely => ~LeaseWouldLapse /\ \A d \in Dispatchers : ~Behind(d)
    /\ avail' = [m \in Msgs |-> Less(avail[m])]
    /\ lock' = [m \in Msgs |-> Less(lock[m])]
    /\ hold' = [d \in Dispatchers |-> Less(hold[d])]
    /\ age' = [m \in Msgs |-> IF row[m] = "published" /\ age[m] <= Retention
                               THEN age[m] + 1 ELSE age[m]]
    /\ UNCHANGED <<row, token, attempts>>
    /\ UNCHANGED <<older, localVars, historyVars>>

Step(d) ==
    \/ Fetch(d) \/ (\E m \in Msgs : Claim(d, m)) \/ Skip(d) \/ ClaimThrows(d)
    \/ Read(d) \/ PublishOk(d) \/ PublishThrows(d)
    \/ MarkPublished(d) \/ MarkPublishedThrows(d)
    \/ MarkFailed(d) \/ RoundThrows(d)
    \/ SelectExpired(d) \/ Sweep(d) \/ Crash(d) \/ Start(d)

Next ==
    \/ Tick
    \/ \E m \in Msgs : Register(m)
    \/ \E d \in Dispatchers : Step(d)

Spec == Init /\ [][Next]_vars

\* What the hosting justifies: time passes; an instance runs its loop and is
\* started again after a crash; crashes do not go on for ever; the broker does
\* not reject the same event for ever.  The database answers ("database" is
\* not among the Faults of the runs with fairness).
Progress(d) ==
    \/ Fetch(d) \/ (\E m \in Msgs : Claim(d, m)) \/ Skip(d) \/ Read(d)
    \/ PublishOk(d) \/ PublishThrows(d) \/ MarkPublished(d) \/ MarkFailed(d)
    \/ SelectExpired(d) \/ Sweep(d) \/ Start(d)

Fairness ==
    /\ WF_vars(Tick)
    /\ <>[][\A d \in Dispatchers : ~Crash(d)]_vars
    /\ \A d \in Dispatchers :
          /\ WF_vars(Progress(d))
          /\ \A m \in Msgs \ Poison : SF_vars(PublishOk(d) /\ cur[d] = m)

FairSpec == Spec /\ Fairness

-----------------------------------------------------------------------------
(* Properties *)

\* The outbox answers for an event from its registration on: a row ceases to be
\* unpublished, or is deleted, only when the broker has accepted a copy, whatever
\* crashed, lapsed or was swept in between.
Custody == INSTANCE Handover WITH
    Items <- Msgs,
    kept <- {m \in Msgs : row[m] = "pending"},
    finished <- {m \in Msgs : copies[m] > 0}

KeptUntilSent == Custody!Spec

\* An event whose business change committed is never lost: until the broker has
\* accepted a copy there is an unpublished row that will be tried again,
\* whatever crashed, lapsed, or was swept in between.
NoSilentLoss ==
    \A m \in registered : copies[m] > 0 \/ row[m] = "pending"

\* Two instances never work on the same row within the time each was granted for
\* it: neither a lost race for a claim, nor the late result, failure or retry of
\* an earlier holder puts a row into a second dispatcher's hands before the first
\* one's time is over.  (A row that is deleted takes its lease along, see Sweep.)
LeaseIsExclusive ==
    \A d, e \in Dispatchers :
        hold[d] > 0 /\ hold[e] > 0 /\ cur[d] = cur[e] => d = e

\* The broker gets a second copy of an event only for a reason the design names:
\* a lapsed lease that was taken over, a confirmation or an update whose outcome
\* got lost, or an event registered anew after cleanup.
DuplicateHasCause ==
    \A m \in Msgs : copies[m] > 1 => m \in excused

\* A lease that has not lapsed ends only by its holder's own result: no other
\* instance, retry or late answer overwrites it.  (Deletion is left out: an
\* instance whose cleanup is delayed may delete a row that was registered anew
\* under an id it selected; NoSilentLoss still holds then.)
LeaseIsFenced ==
    [][\A m \in Msgs :
          row[m] = "pending" /\ lock[m] > 0 /\ token[m] # NoToken
          /\ token'[m] # token[m] /\ row'[m] # "absent"
          => \E d \in Dispatchers :
                /\ cur[d] = m /\ tok[d] = token[m]
                /\ pc[d] \in {"mark", "fail"} /\ pc'[d] # pc[d]]_vars

\* Every event that can be published reaches the broker in the end, although
\* instances crash with its lease in hand and undeliverable events compete for
\* the batch.
EventuallyDelivered ==
    \A m \in Msgs \ Poison : m \in registered ~> copies[m] > 0

\* When publishing stays within the lease, every row is also marked published,
\* and is eventually removed from the table.
EventuallyCleaned ==
    \A m \in Msgs \ Poison : m \in registered ~> row[m] = "absent"
=============================================================================

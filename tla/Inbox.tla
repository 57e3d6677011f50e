------------------------------- MODULE Inbox -------------------------------
(***************************************************************************)
(* The consuming side of RabbitMqEventBus for one (event, handler) pair:   *)
(* copies of the event in the handler's main queue, the retry queue that   *)
(* gives them back after a delay, the dead queue, and the row of           *)
(* inbox_messages whose lease decides which delivery may run the handler   *)
(* (InboxMessageStore).  Rows of other pairs are independent of this one.  *)
(*                                                                         *)
(* A consumer is one dispatch loop: it handles one delivery at a time.     *)
(* Time is kept as what is left of each interval, as in Outbox.  A copy    *)
(* that is prefetched but not yet dispatched counts as still in the queue. *)
(***************************************************************************)
EXTENDS Integers, FiniteSets

CONSTANTS
    Copies,          \* copies of the event the publisher may send
    Consumers,       \* dispatch loops
    Tokens, NoToken, NoCopy,
    MaxRetryCount,   \* deliveries before the dead queue
    RetryInterval,   \* x-message-ttl of the retry queue
    HandlerTimeout,  \* HandlerTimeoutSeconds
    MaxCrashes,      \* how often a consumer may die or lose its channel
    Faults,          \* "handler", "slow", "database", "dead", "channel"
    Prompt           \* TRUE: expired timers and database results come at once

ASSUME ConstantsOK ==
    /\ NoToken \notin Tokens /\ NoCopy \notin Copies
    /\ MaxRetryCount \in Nat \ {0} /\ RetryInterval \in Nat \ {0}
    /\ HandlerTimeout \in Nat \ {0} /\ MaxCrashes \in Nat
    /\ Faults \subseteq {"handler", "slow", "database", "dead", "channel"}
    /\ Prompt \in BOOLEAN

VARIABLES
    place,     \* where the broker has each copy
    rejected,  \* its x-death count for the main queue, reason "rejected"
    ttl,       \* what remains of its stay in the retry queue
    buried,    \* copies with a message in the dead queue
    row,       \* inbox row: "absent", "open" or "processed"
    lock,      \* what remains until LockedUntil, negative when it is over
    token,     \* LockToken
    pc,        \* where each consumer is
    cop,       \* the copy it handles
    seen,      \* the rejected count in the headers it received
    owns,      \* its delivery tag is still good
    left,      \* what remains of its timeout
    tok,       \* InboxClaim.LockToken
    zombie,    \* a handler it stopped waiting for still runs
    effects,   \* history: times the handler's work took effect, up to 2
    excused,   \* history: there is a cause for a second effect
    crashes

brokerVars == <<place, rejected, ttl, buried>>
rowVars == <<row, lock, token>>
localVars == <<pc, cop, seen, owns, left, tok>>
historyVars == <<effects, excused>>
vars == <<place, rejected, ttl, buried, row, lock, token, pc, cop, seen, owns, left,
          tok, zombie, effects, excused, crashes>>

Lease == 2 * HandlerTimeout

\* LockedUntil is not set, or lies so far back that no claim's clock is behind it.
NoLock == -Lease

TypeOK ==
    /\ place \in [Copies -> {"unsent", "main", "held", "retry", "done"}]
    /\ rejected \in [Copies -> 0..MaxRetryCount]
    /\ ttl \in [Copies -> 0..RetryInterval]
    /\ buried \subseteq Copies
    /\ row \in {"absent", "open", "processed"}
    /\ lock \in NoLock..Lease
    /\ token \in Tokens \cup {NoToken}
    /\ pc \in [Consumers -> {"down", "idle", "find", "insert", "claim", "latest", "handle",
                             "record", "release", "reject", "ack", "settle"}]
    /\ cop \in [Consumers -> Copies \cup {NoCopy}]
    /\ seen \in [Consumers -> 0..MaxRetryCount]
    /\ owns \in [Consumers -> BOOLEAN]
    /\ left \in [Consumers -> 0..HandlerTimeout]
    /\ tok \in [Consumers -> Tokens \cup {NoToken}]
    /\ zombie \in [Consumers -> BOOLEAN]
    /\ effects \in 0..2
    /\ excused \in BOOLEAN
    /\ crashes \in 0..MaxCrashes

Init ==
    /\ place = [c \in Copies |-> "unsent"]
    /\ rejected = [c \in Copies |-> 0]
    /\ ttl = [c \in Copies |-> 0]
    /\ buried = {}
    /\ row = "absent" /\ lock = NoLock /\ token = NoToken
    /\ pc = [i \in Consumers |-> "idle"]
    /\ cop = [i \in Consumers |-> NoCopy]
    /\ seen = [i \in Consumers |-> 0]
    /\ owns = [i \in Consumers |-> FALSE]
    /\ left = [i \in Consumers |-> 0]
    /\ tok = [i \in Consumers |-> NoToken]
    /\ zombie = [i \in Consumers |-> FALSE]
    /\ effects = 0 /\ excused = FALSE
    /\ crashes = 0

-----------------------------------------------------------------------------
(* Helpers *)

FreshTokens == Tokens \ ({token} \cup {tok[i] : i \in Consumers})

\* The stages in which the timeout can cut the consumer off.
Timed == {"find", "insert", "claim", "latest", "handle"}

Goto(i, stage) ==
    /\ pc' = [pc EXCEPT ![i] = stage]
    /\ left' = [left EXCEPT ![i] = IF stage \in Timed THEN @ ELSE 0]

\* The consumer is through with its delivery.
Finish(i, stage) ==
    /\ pc' = [pc EXCEPT ![i] = stage]
    /\ cop' = [cop EXCEPT ![i] = NoCopy]
    /\ seen' = [seen EXCEPT ![i] = 0]
    /\ owns' = [owns EXCEPT ![i] = FALSE]
    /\ left' = [left EXCEPT ![i] = 0]
    /\ tok' = [tok EXCEPT ![i] = NoToken]

\* How old the "now" of TryClaimAsync is: HandleMessageAsync takes it as it begins
\* and the store uses it for all of the claim.  A call the timeout should have cut
\* off is over within the lease.
NowAges(i) ==
    IF left[i] > 0 \/ Prompt THEN {HandlerTimeout - left[i]} ELSE HandlerTimeout..Lease

\* LockedUntil > now, for a "now" of that age.
LockedAt(age) == lock + age > 0

\* Mutant of Answer: a lease held elsewhere counts as processed.
AnswerLockedDone(age) ==
    IF row = "absent" THEN "insert" ELSE
    IF row = "processed" \/ LockedAt(age) THEN "ack" ELSE "claim"

\* What the row that was read calls for.
Answer(age) == CASE row = "absent" -> "insert"
                 [] row = "processed" -> "ack"
                 [] row = "open" /\ LockedAt(age) -> "reject"
                 [] OTHER -> "claim"

\* Mutants of Lapsed: the update lost a conjunct of its condition.
LapsedProcessed(age) == row # "absent" /\ ~LockedAt(age)
LapsedLocked(age) == row = "open"

\* The condition of the conditional update that takes a lease over.
Lapsed(age) == row = "open" /\ ~LockedAt(age)

\* Mutant of HoldsLease: results are recorded without comparing tokens.
HoldsAnyLease(i) == row = "open"

HoldsLease(i) == row = "open" /\ token = tok[i]

\* The lease is taken: by an insert or by the conditional update.
Lock(t, age) == row' = "open" /\ lock' = Lease - age /\ token' = t
Release == lock' = NoLock /\ token' = NoToken /\ UNCHANGED row
Complete == row' = "processed" /\ lock' = NoLock /\ token' = NoToken

AddEffect == effects' = IF effects < 2 THEN effects + 1 ELSE 2
Excuse == excused' = TRUE

\* A lapsed lease is taken over from a holder whose work may have taken effect.
ExcuseTakeover == excused' = (excused \/ token # NoToken)

\* Mutant of Nack: the time to live is taken in the wrong unit.
NackWrongUnit(i) ==
    IF owns[i]
    THEN /\ place' = [place EXCEPT ![cop[i]] = "retry"]
         /\ ttl' = [ttl EXCEPT ![cop[i]] = RetryInterval * 1000]
         /\ rejected' = [rejected EXCEPT ![cop[i]] = IF @ < MaxRetryCount THEN @ + 1 ELSE @]
    ELSE UNCHANGED <<place, ttl, rejected>>

\* BasicNack without requeue: the broker moves the copy to the retry queue and
\* counts the rejection (beyond MaxRetryCount the count no longer matters); a
\* stale delivery tag changes nothing.
Nack(i) ==
    IF owns[i]
    THEN /\ place' = [place EXCEPT ![cop[i]] = "retry"]
         /\ ttl' = [ttl EXCEPT ![cop[i]] = RetryInterval]
         /\ rejected' = [rejected EXCEPT ![cop[i]] = IF @ < MaxRetryCount THEN @ + 1 ELSE @]
    ELSE UNCHANGED <<place, ttl, rejected>>

-----------------------------------------------------------------------------
(* The broker *)

\* A copy arrives: the outbox delivers at least once, so there may be several.
Send(c) ==
    /\ place[c] = "unsent"
    /\ place' = [place EXCEPT ![c] = "main"]
    /\ UNCHANGED <<rejected, ttl, buried, rowVars, localVars, zombie, historyVars, crashes>>

\* The retry queue's time to live is over: back to the main queue.
Return(c) ==
    /\ place[c] = "retry" /\ ttl[c] = 0
    /\ place' = [place EXCEPT ![c] = "main"]
    /\ UNCHANGED <<rejected, ttl, buried, rowVars, localVars, zombie, historyVars, crashes>>

-----------------------------------------------------------------------------
(* The consumer *)

\* HandleMessageAsync begins; its timeout starts now.
Deliver(i, c) ==
    /\ pc[i] = "idle" /\ place[c] = "main"
    /\ place' = [place EXCEPT ![c] = "held"]
    /\ cop' = [cop EXCEPT ![i] = c]
    /\ seen' = [seen EXCEPT ![i] = rejected[c]]
    /\ owns' = [owns EXCEPT ![i] = TRUE]
    /\ left' = [left EXCEPT ![i] = HandlerTimeout]
    /\ pc' = [pc EXCEPT ![i] = "find"]
    /\ UNCHANGED <<rejected, ttl, buried, rowVars, tok, zombie, historyVars, crashes>>

\* TryClaimAsync: the row is read ...
Find(i) ==
    /\ pc[i] = "find"
    /\ \E age \in NowAges(i) : Goto(i, Answer(age))
    /\ UNCHANGED <<brokerVars, rowVars, cop, seen, owns, tok, zombie, historyVars, crashes>>

\* ... and inserted when there was none; when another instance inserted it in
\* the meantime the unique key makes the insert fail and it is read again ...
Insert(i) ==
    /\ pc[i] = "insert"
    /\ IF row = "absent"
       THEN /\ \E t \in FreshTokens, age \in NowAges(i) :
                   Lock(t, age) /\ tok' = [tok EXCEPT ![i] = t]
            /\ Goto(i, "handle")
       ELSE /\ Goto(i, "find")
            /\ UNCHANGED <<rowVars, tok>>
    /\ UNCHANGED <<brokerVars, cop, seen, owns, zombie, effects, excused, crashes>>

\* ... or taken over when its lease had lapsed, unless somebody else did.
Claim(i) ==
    /\ pc[i] = "claim"
    /\ \E age \in NowAges(i) :
          IF Lapsed(age)
          THEN /\ \E t \in FreshTokens : Lock(t, age) /\ tok' = [tok EXCEPT ![i] = t]
               /\ Goto(i, "handle") /\ ExcuseTakeover
          ELSE /\ Goto(i, "latest")
               /\ UNCHANGED <<rowVars, tok, excused>>
    /\ UNCHANGED <<brokerVars, cop, seen, owns, zombie, effects, crashes>>

Latest(i) ==
    /\ pc[i] = "latest"
    /\ Goto(i, IF row = "processed" THEN "ack" ELSE "reject")
    /\ UNCHANGED <<brokerVars, rowVars, cop, seen, owns, tok, zombie, historyVars, crashes>>

\* The database fails, or the timeout cancels the call, before or after the
\* claim took effect.  This is outside the try block: nothing is released.
ClaimThrows(i) ==
    /\ pc[i] \in Timed \ {"handle"}
    /\ "database" \in Faults \/ ("slow" \in Faults /\ left[i] = 0)
    /\ \/ UNCHANGED <<rowVars, excused>>
       \/ /\ \E age \in NowAges(i), t \in FreshTokens :
                /\ (pc[i] = "insert" /\ row = "absent") \/ (pc[i] = "claim" /\ Lapsed(age))
                /\ Lock(t, age)
          /\ ExcuseTakeover
    /\ Goto(i, "reject")
    /\ UNCHANGED <<brokerVars, cop, seen, owns, tok, zombie, effects, crashes>>

\* The handler returns in time.
HandlerOk(i) ==
    /\ pc[i] = "handle"
    /\ AddEffect
    /\ Goto(i, "record")
    /\ UNCHANGED <<brokerVars, rowVars, cop, seen, owns, tok, zombie,
                   excused, crashes>>

\* The handler throws, with or without its work having taken effect.
HandlerThrows(i) ==
    /\ "handler" \in Faults /\ pc[i] = "handle"
    /\ \/ AddEffect /\ Excuse
       \/ UNCHANGED <<effects, excused>>
    /\ Goto(i, "release")
    /\ UNCHANGED <<brokerVars, rowVars, cop, seen, owns, tok, zombie, crashes>>

\* WaitAsync gives up at the timeout; the handler itself goes on.
HandlerTimesOut(i) ==
    /\ "slow" \in Faults /\ pc[i] = "handle" /\ left[i] = 0
    /\ zombie' = [zombie EXCEPT ![i] = TRUE]
    /\ Excuse
    /\ Goto(i, "release")
    /\ UNCHANGED <<brokerVars, rowVars, cop, seen, owns, tok, effects, crashes>>

ZombieEnds(i) ==
    /\ zombie[i]
    /\ zombie' = [zombie EXCEPT ![i] = FALSE]
    /\ AddEffect \/ UNCHANGED effects
    /\ UNCHANGED <<brokerVars, rowVars, localVars, excused, crashes>>

\* MarkProcessedAsync; a lost lease makes InvokeHandlerAsync throw.
MarkProcessed(i) ==
    /\ pc[i] = "record"
    /\ IF HoldsLease(i)
       THEN Complete /\ Goto(i, "ack") /\ tok' = [tok EXCEPT ![i] = NoToken]
       ELSE UNCHANGED <<rowVars, tok>> /\ Goto(i, "release")
    /\ UNCHANGED <<brokerVars, cop, seen, owns, zombie, historyVars, crashes>>

\* The call fails with or without effect, into the same catch clause.
MarkProcessedThrows(i) ==
    /\ "database" \in Faults /\ pc[i] = "record"
    /\ \/ UNCHANGED rowVars /\ Excuse
       \/ HoldsLease(i) /\ Complete /\ UNCHANGED excused
    /\ Goto(i, "release")
    /\ UNCHANGED <<brokerVars, cop, seen, owns, tok, zombie, effects, crashes>>

\* MarkFailedAsync releases the lease so that a retry can have it; its own
\* failure is swallowed.
MarkFailed(i) ==
    /\ pc[i] = "release"
    /\ \/ HoldsLease(i) /\ Release
       \/ ~HoldsLease(i) /\ UNCHANGED rowVars
       \/ "database" \in Faults /\ UNCHANGED rowVars
    /\ tok' = [tok EXCEPT ![i] = NoToken]
    /\ Goto(i, "reject")
    /\ UNCHANGED <<brokerVars, cop, seen, owns, zombie, historyVars, crashes>>

\* BasicAckAsync, after the work ("ack") or after the burial ("settle"); with a
\* stale delivery tag it changes nothing.
Ack(i) ==
    /\ pc[i] \in {"ack", "settle"}
    /\ place' = IF owns[i] THEN [place EXCEPT ![cop[i]] = "done"] ELSE place
    /\ Finish(i, "idle")
    /\ UNCHANGED <<rejected, ttl, buried, rowVars, zombie, historyVars, crashes>>

\* On a closed channel it throws, inside the try block: the catch clause rejects or
\* buries a copy whose work is recorded.  (The catch clause of the burial only
\* tries a nack on the same channel, which is what Ack does without the tag.)
AckThrows(i) ==
    /\ "channel" \in Faults
    /\ pc[i] = "ack" /\ ~owns[i]
    /\ Goto(i, "reject")
    /\ UNCHANGED <<brokerVars, rowVars, cop, seen, owns, tok, zombie, historyVars, crashes>>

\* Mutant of ShouldDeadLetter: the count is lost.
ShouldDeadLetterNever(n) == FALSE

ShouldDeadLetter(n) == n + 1 >= MaxRetryCount

\* The catch clause of HandleMessageAsync below the limit.
Reject(i) ==
    /\ pc[i] = "reject" /\ ~ShouldDeadLetter(seen[i])
    /\ Nack(i)
    /\ Finish(i, "idle")
    /\ UNCHANGED <<buried, rowVars, zombie, historyVars, crashes>>

\* At the limit, MoveToDeadLetterAsync: publish to the dead queue, then ack.
Bury(i) ==
    /\ pc[i] = "reject" /\ ShouldDeadLetter(seen[i])
    /\ buried' = buried \cup {cop[i]}
    /\ Goto(i, "settle")
    /\ UNCHANGED <<place, rejected, ttl, rowVars, cop, seen, owns, tok, zombie,
                   historyVars, crashes>>

\* Without a confirmation the copy goes round the retry queue once more.
BuryThrows(i) ==
    /\ "dead" \in Faults
    /\ pc[i] = "reject" /\ ShouldDeadLetter(seen[i])
    /\ buried' \in {buried, buried \cup {cop[i]}}
    /\ Nack(i)
    /\ Finish(i, "idle")
    /\ UNCHANGED <<rowVars, zombie, historyVars, crashes>>

-----------------------------------------------------------------------------
(* Failures and time *)

BackToMain(i) == place' = IF owns[i] THEN [place EXCEPT ![cop[i]] = "main"] ELSE place

\* The process dies or is stopped: StopAsync leaves the delivery unacked and
\* records nothing; the broker gives it to somebody else.  The work of a handler
\* that is cut off may have taken effect.
Crash(i) ==
    /\ crashes < MaxCrashes /\ pc[i] # "down"
    /\ crashes' = crashes + 1
    /\ BackToMain(i)
    /\ \/ UNCHANGED effects
       \/ (pc[i] = "handle" \/ zombie[i]) /\ AddEffect
    /\ zombie' = [zombie EXCEPT ![i] = FALSE]
    /\ Finish(i, "down")
    /\ UNCHANGED <<rejected, ttl, buried, rowVars, excused>>

Restart(i) ==
    /\ pc[i] = "down"
    /\ Goto(i, "idle")
    /\ UNCHANGED <<brokerVars, rowVars, cop, seen, owns, tok, zombie, historyVars, crashes>>

\* The channel closes under a delivery: the copy is redelivered while its first
\* handler still runs.
ChannelLost(i) ==
    /\ "channel" \in Faults /\ crashes < MaxCrashes
    /\ owns[i]
    /\ crashes' = crashes + 1
    /\ BackToMain(i)
    /\ owns' = [owns EXCEPT ![i] = FALSE]
    /\ UNCHANGED <<rejected, ttl, buried, rowVars, pc, cop, seen, left, tok, zombie, historyVars>>

Less(n) == IF n = 0 THEN 0 ELSE n - 1

\* Somebody would have to act before time goes on.
Overdue ==
    \E i \in Consumers :
        \/ pc[i] \in Timed /\ left[i] = 0
        \/ pc[i] \in {"record", "release"}

Tick ==
    /\ Prompt => ~Overdue
    /\ "slow" \notin Faults => \A i \in Consumers : pc[i] \in Timed => left[i] > 0
    /\ lock' = IF lock = NoLock THEN lock ELSE lock - 1
    /\ ttl' = [c \in Copies |-> Less(ttl[c])]
    /\ left' = [i \in Consumers |-> Less(left[i])]
    /\ UNCHANGED <<place, rejected, buried, row, token, pc, cop, seen, owns, tok, zombie,
                   historyVars, crashes>>

Work(i) ==
    \/ (\E c \in Copies : Deliver(i, c))
    \/ Find(i) \/ Insert(i) \/ Claim(i) \/ Latest(i) \/ HandlerOk(i) \/ HandlerTimesOut(i)
    \/ MarkProcessed(i) \/ MarkFailed(i) \/ Ack(i) \/ Reject(i) \/ Bury(i) \/ Restart(i)

Next ==
    \/ Tick
    \/ \E c \in Copies : Send(c) \/ Return(c)
    \/ \E i \in Consumers :
          \/ Work(i) \/ ClaimThrows(i) \/ HandlerThrows(i) \/ ZombieEnds(i)
          \/ MarkProcessedThrows(i) \/ AckThrows(i) \/ BuryThrows(i) \/ Crash(i) \/ ChannelLost(i)

Spec == Init /\ [][Next]_vars

\* Time passes, the retry queue gives its messages back, every consumer goes on
\* with its delivery and is restarted; the dead queue accepts a message that is
\* offered to it for ever (MaxCrashes bounds the crashes).
Fairness ==
    /\ WF_vars(Tick)
    /\ \A c \in Copies : WF_vars(Return(c))
    /\ \A i \in Consumers : WF_vars(Work(i)) /\ SF_vars(Bury(i))

FairSpec == Spec /\ Fairness

-----------------------------------------------------------------------------
(* Properties *)

\* The broker and the consumers answer for a copy from its arrival on: it is
\* acknowledged only when the handler's work is recorded or the copy is in the
\* dead queue, whatever crash, lost lease or refused claim comes between.
Custody == INSTANCE Handover WITH
    Items <- Copies,
    kept <- {c \in Copies : place[c] \notin {"unsent", "done"}},
    finished <- {c \in Copies : row = "processed" \/ c \in buried}

KeptUntilSettled == Custody!Spec

\* The broker forgets a copy only when the handler's work is recorded or the
\* copy is in the dead queue: no crash, lost lease or refused claim drops it.
NothingLost ==
    \A c \in Copies : place[c] = "done" => row = "processed" \/ c \in buried

\* The row is "processed" only after the handler's work took effect, and a
\* second effect has a cause: a crash or a lost connection in the middle, a
\* handler that failed late or was given up on, or a result that got lost.
EffectsMatch ==
    /\ row = "processed" => effects > 0
    /\ effects > 1 => excused

\* While timers and results are prompt, two deliveries never wait for a handler at
\* the same time, whatever was redelivered, taken over or released: the lease is
\* twice the timeout.  A handler that WaitAsync gave up on is not waited for; it
\* does go on beside its retry (HandlerTimesOut, ZombieEnds).
AwaitedAlone ==
    \A i, j \in Consumers : pc[i] = "handle" /\ pc[j] = "handle" => i = j

\* The handler runs for the consumer, awaited or given up on.
Running(i) == pc[i] = "handle" \/ zombie[i]

\* Where handlers end within their timeout, none runs beside another at all.
HandlersApart ==
    \A i, j \in Consumers : Running(i) /\ Running(j) => i = j

\* Completion is final, and made only by the holder of the current lease: no
\* delivery starts the handler again and no late result reopens the row.
ProcessedIsFinal ==
    [][/\ row = "processed" =>
             /\ row' = "processed"
             /\ \A i \in Consumers : pc'[i] = "handle" => pc[i] = "handle"
       /\ row # "processed" /\ row' = "processed" =>
             \E i \in Consumers : pc[i] = "record" /\ tok[i] = token]_vars

\* A lease that has not lapsed is ended only by its holder.
LeaseIsFenced ==
    [][lock > 0 /\ token' # token =>
          \E i \in Consumers : tok[i] = token /\ pc[i] \in {"record", "release"}]_vars

\* Every copy that was sent is settled in the end, by an acknowledgement after
\* the work or by the dead queue.
EventuallySettled == \A c \in Copies : place[c] = "main" ~> place[c] = "done"
=============================================================================

---------------------------- MODULE Inbox_proofs ----------------------------
(* Machine-checked proofs about Inbox, for any number of copies, consumers and *)
(* tokens, any timeout and retry limit and any set of faults.                  *)
EXTENDS Inbox, TLAPS

Leased == {"handle", "record", "release"}

\* A consumer has a copy while it handles a delivery, and a token of its own
\* while it works under a lease.
LocalShape ==
    \A i \in Consumers :
        /\ pc[i] \notin {"down", "idle"} => cop[i] \in Copies
        /\ owns[i] => cop[i] \in Copies
        /\ pc[i] \in Leased <=> tok[i] # NoToken

TokensApart ==
    \A i, j \in Consumers : tok[i] # NoToken /\ tok[i] = tok[j] => i = j

\* Only an open row is leased.
RowShape == row # "open" => lock = NoLock /\ token = NoToken

\* Only copies that are done with are acknowledged.
AcksSound ==
    \A i \in Consumers :
        /\ pc[i] = "ack" => row = "processed"
        /\ pc[i] = "settle" => cop[i] \in buried

\* The work precedes its record.
RecordsSound == \A i \in Consumers : pc[i] = "record" => effects > 0

\* As long as nothing excused a second effect, the handler runs under the
\* current lease and for the first time, and work whose record is due still
\* has its lease.
UnexcusedOnce ==
    ~ excused =>
        /\ effects < 2
        /\ effects > 0 => row = "processed" \/ (row = "open" /\ token # NoToken)
        /\ \A i \in Consumers :
              /\ ~ zombie[i]
              /\ pc[i] = "handle" => HoldsLease(i) /\ effects = 0
              /\ pc[i] = "release" /\ HoldsLease(i) => effects = 0

\* While everybody is prompt, a lease outlives the handler that runs under it.
LeaseOutlives ==
    Prompt => \A i \in Consumers : pc[i] = "handle" => HoldsLease(i) /\ lock > left[i]

IInv ==
    /\ TypeOK /\ LocalShape /\ TokensApart /\ RowShape /\ AcksSound /\ RecordsSound
    /\ NothingLost /\ EffectsMatch /\ UnexcusedOnce /\ LeaseOutlives

-----------------------------------------------------------------------------
(* One consumer at a time *)

Failing(i) ==
    \/ ClaimThrows(i) \/ HandlerThrows(i) \/ ZombieEnds(i)
    \/ MarkProcessedThrows(i) \/ AckThrows(i) \/ BuryThrows(i) \/ Crash(i) \/ ChannelLost(i)

LocalTypeOK ==
    /\ pc \in [Consumers -> {"down", "idle", "find", "insert", "claim", "latest", "handle",
                             "record", "release", "reject", "ack", "settle"}]
    /\ cop \in [Consumers -> Copies \cup {NoCopy}]
    /\ seen \in [Consumers -> 0..MaxRetryCount]
    /\ owns \in [Consumers -> BOOLEAN]
    /\ left \in [Consumers -> 0..HandlerTimeout]
    /\ tok \in [Consumers -> Tokens \cup {NoToken}]
    /\ zombie \in [Consumers -> BOOLEAN]

ShapeOf(i) ==
    /\ pc[i] \notin {"down", "idle"} => cop[i] \in Copies
    /\ owns[i] => cop[i] \in Copies
    /\ pc[i] \in Leased <=> tok[i] # NoToken

OthersStay(i) ==
    \A j \in Consumers \ {i} :
        /\ pc'[j] = pc[j] /\ cop'[j] = cop[j] /\ owns'[j] = owns[j]
        /\ left'[j] = left[j] /\ tok'[j] = tok[j] /\ zombie'[j] = zombie[j]

\* A consumer's step moves only itself, to a state of the right shape.
LEMMA LocalStep ==
  ASSUME TypeOK, LocalShape, NEW i \in Consumers, Work(i) \/ Failing(i)
  PROVE  LocalTypeOK' /\ ShapeOf(i)' /\ OthersStay(i)
  <1> DEFINE Goal == LocalTypeOK' /\ ShapeOf(i)' /\ OthersStay(i)
  <1>0. LocalTypeOK /\ ShapeOf(i) /\ 0 \in 0..HandlerTimeout /\ HandlerTimeout \in 0..HandlerTimeout
        /\ 0 \in 0..MaxRetryCount
    BY ConstantsOK DEF TypeOK, LocalShape, ShapeOf, LocalTypeOK
  <1> USE <1>0, ConstantsOK DEF LocalTypeOK, ShapeOf, OthersStay, Leased
  <1>1. ASSUME NEW stage \in {"idle", "down"}, Finish(i, stage),
               UNCHANGED zombie \/ zombie' = [zombie EXCEPT ![i] = FALSE]
        PROVE  Goal
    BY <1>1 DEF Finish
  <1>2. ASSUME NEW stage \in {"idle", "find", "insert", "claim", "latest", "reject", "ack",
                             "settle"},
               Goto(i, stage), pc[i] \notin Leased, pc[i] \notin {"down", "idle"} \/ stage = "idle",
               UNCHANGED <<cop, seen, owns, tok, zombie>>
        PROVE  Goal
    BY <1>2 DEF Goto
  <1>3. ASSUME NEW stage \in {"record", "release"}, Goto(i, stage), pc[i] \in Leased,
               UNCHANGED <<cop, seen, owns, tok>>,
               UNCHANGED zombie \/ zombie' = [zombie EXCEPT ![i] = TRUE]
        PROVE  Goal
    BY <1>3 DEF Goto
  <1>4. ASSUME NEW t \in FreshTokens, tok' = [tok EXCEPT ![i] = t], Goto(i, "handle"),
               pc[i] \notin {"down", "idle"}, UNCHANGED <<cop, seen, owns, zombie>>
        PROVE  Goal
    BY <1>4 DEF Goto, FreshTokens
  <1>5. ASSUME NEW stage \in {"ack", "reject"}, tok' = [tok EXCEPT ![i] = NoToken], Goto(i, stage),
               pc[i] \in Leased, UNCHANGED <<cop, seen, owns, zombie>>
        PROVE  Goal
    BY <1>5 DEF Goto
  <1>6. ASSUME NEW c \in Copies, Deliver(i, c) PROVE Goal
    <2>1. rejected[c] \in 0..MaxRetryCount
      BY DEF TypeOK
    <2>2. QED
      BY <1>6, <2>1 DEF Deliver
  <1>7. CASE Find(i)
    <2>1. \A age : Answer(age) \in {"insert", "ack", "reject", "claim"}
      BY DEF Answer
    <2>2. QED
      BY <1>2, <1>7, <2>1 DEF Find
  <1>8. CASE Insert(i)
    BY <1>2, <1>4, <1>8 DEF Insert, rowVars
  <1>9. CASE Claim(i)
    BY <1>2, <1>4, <1>9 DEF Claim, rowVars
  <1>10. CASE Latest(i)
    BY <1>2, <1>10 DEF Latest
  <1>11. CASE ClaimThrows(i)
    BY <1>2, <1>11 DEF ClaimThrows, Timed
  <1>12. CASE HandlerOk(i) \/ HandlerThrows(i) \/ HandlerTimesOut(i) \/ MarkProcessedThrows(i)
    BY <1>3, <1>12 DEF HandlerOk, HandlerThrows, HandlerTimesOut, MarkProcessedThrows
  <1>13. CASE ZombieEnds(i)
    BY <1>13 DEF ZombieEnds, localVars
  <1>14. CASE MarkProcessed(i)
    BY <1>3, <1>5, <1>14 DEF MarkProcessed
  <1>15. CASE MarkFailed(i)
    BY <1>5, <1>15 DEF MarkFailed
  <1>16. CASE Ack(i) \/ Reject(i) \/ BuryThrows(i) \/ Crash(i)
    BY <1>1, <1>16 DEF Ack, AckThrows, Reject, BuryThrows, Crash
  <1>17. CASE Bury(i) \/ Restart(i) \/ AckThrows(i)
    BY <1>2, <1>17 DEF Bury, Restart, AckThrows
  <1>18. CASE ChannelLost(i)
    BY <1>18 DEF ChannelLost
  <1>19. QED
    BY <1>6, <1>7, <1>8, <1>9, <1>10, <1>11, <1>12, <1>13, <1>14, <1>15, <1>16, <1>17, <1>18
    DEF Work, Failing

-----------------------------------------------------------------------------
(* Types *)

BrokerTypeOK ==
    /\ place \in [Copies -> {"unsent", "main", "held", "retry", "done"}]
    /\ rejected \in [Copies -> 0..MaxRetryCount]
    /\ ttl \in [Copies -> 0..RetryInterval]
    /\ buried \subseteq Copies

RowTypeOK ==
    /\ row \in {"absent", "open", "processed"}
    /\ lock \in NoLock..Lease
    /\ token \in Tokens \cup {NoToken}
    /\ effects \in 0..2
    /\ excused \in BOOLEAN
    /\ crashes \in 0..MaxCrashes

LEMMA LessBounded == ASSUME NEW n \in Nat, NEW k \in 0..n PROVE Less(k) \in 0..n
  BY DEF Less

LEMMA LeaseNat == Lease \in Nat /\ Lease > HandlerTimeout /\ NoLock \in Int /\ NoLock = -Lease
  BY ConstantsOK DEF Lease, NoLock

\* The clock of a claim is between now and a lease ago, and while timers are prompt
\* exactly as old as the delivery.
LEMMA AgesBounded ==
  ASSUME TypeOK, NEW i \in Consumers, NEW age \in NowAges(i)
  PROVE  age \in 0..Lease /\ (Prompt => age = HandlerTimeout - left[i])
  <1>1. left[i] \in 0..HandlerTimeout /\ HandlerTimeout \in Nat
    BY ConstantsOK DEF TypeOK
  <1>2. QED
    BY <1>1, LeaseNat DEF NowAges

LEMMA TypeInit == Init => TypeOK
  <1>1. /\ 0 \in 0..MaxRetryCount /\ 0 \in 0..RetryInterval /\ 0 \in 0..HandlerTimeout
        /\ NoLock \in NoLock..Lease /\ 0 \in 0..MaxCrashes
    BY ConstantsOK, LeaseNat
  <1>2. SUFFICES ASSUME Init PROVE BrokerTypeOK /\ LocalTypeOK /\ RowTypeOK
    BY DEF TypeOK, BrokerTypeOK, LocalTypeOK, RowTypeOK
  <1>3. BrokerTypeOK
    BY <1>1, <1>2 DEF Init, BrokerTypeOK
  <1>4. LocalTypeOK
    BY <1>1, <1>2 DEF Init, LocalTypeOK
  <1>5. RowTypeOK
    <2>1. row = "absent" /\ token = NoToken /\ lock = NoLock /\ effects = 0 /\ crashes = 0
      BY <1>2 DEF Init
    <2>2. excused \in BOOLEAN
      BY <1>2 DEF Init
    <2>3. QED
      BY <1>1, <2>1, <2>2 DEF RowTypeOK
  <1>6. QED
    BY <1>3, <1>4, <1>5

LEMMA BrokerTypeStep ==
  ASSUME TypeOK, LocalShape, [Next]_vars
  PROVE  BrokerTypeOK'
  <1>0. BrokerTypeOK
    BY DEF TypeOK, BrokerTypeOK
  <1> USE <1>0 DEF BrokerTypeOK
  <1>1. CASE UNCHANGED brokerVars
    BY <1>1 DEF brokerVars
  <1>2. CASE Tick
    <2>1. \A c \in Copies : Less(ttl[c]) \in 0..RetryInterval
      BY ConstantsOK, LessBounded
    <2>2. QED
      BY <1>2, <2>1 DEF Tick
  <1>3. ASSUME NEW c \in Copies, Send(c) \/ Return(c) PROVE BrokerTypeOK'
    BY <1>3 DEF Send, Return
  <1>4. ASSUME NEW i \in Consumers, Nack(i), buried' \in {buried, buried \cup {cop[i]}},
               pc[i] = "reject"
        PROVE  BrokerTypeOK'
    <2>1. cop[i] \in Copies
      BY <1>4 DEF LocalShape
    <2>2. \A n \in 0..MaxRetryCount : (IF n < MaxRetryCount THEN n + 1 ELSE n) \in 0..MaxRetryCount
      BY ConstantsOK
    <2>3. rejected' \in [Copies -> 0..MaxRetryCount]
      BY <1>4, <2>1, <2>2 DEF Nack
    <2>4. place' \in [Copies -> {"unsent", "main", "held", "retry", "done"}]
      BY <1>4 DEF Nack
    <2>5. ttl' \in [Copies -> 0..RetryInterval]
      <3>1. RetryInterval \in 0..RetryInterval
        BY ConstantsOK
      <3>2. QED
        BY <1>4, <3>1 DEF Nack
    <2>6. QED
      BY <1>4, <2>1, <2>3, <2>4, <2>5
  <1>5. ASSUME NEW where \in {"main", "held", "done"}, NEW c,
               place' = [place EXCEPT ![c] = where] \/ place' = place,
               UNCHANGED <<rejected, ttl, buried>>
        PROVE  BrokerTypeOK'
    BY <1>5
  <1>6. ASSUME NEW i \in Consumers, Bury(i) PROVE BrokerTypeOK'
    BY <1>6 DEF Bury, LocalShape
  <1>7. ASSUME NEW i \in Consumers, Ack(i) \/ Crash(i) \/ ChannelLost(i) \/ \E c \in Copies : Deliver(i, c)
        PROVE  BrokerTypeOK'
    BY <1>5, <1>7 DEF Ack, Crash, ChannelLost, BackToMain, Deliver
  <1>8. ASSUME NEW i \in Consumers, Reject(i) \/ BuryThrows(i) PROVE BrokerTypeOK'
    BY <1>4, <1>8 DEF Reject, BuryThrows
  <1>9. QED
    BY <1>1, <1>2, <1>3, <1>6, <1>7, <1>8
    DEF Next, Work, Find, Insert, Claim, Latest, ClaimThrows, HandlerOk, HandlerThrows,
        HandlerTimesOut, ZombieEnds, MarkProcessed, MarkProcessedThrows, MarkFailed, AckThrows,
        Restart, brokerVars, vars

LEMMA RowTypeStep ==
  ASSUME TypeOK, [Next]_vars
  PROVE  RowTypeOK'
  <1>0. RowTypeOK /\ NoLock \in NoLock..Lease
    BY LeaseNat DEF TypeOK, RowTypeOK
  <1>1. row' \in {"absent", "open", "processed"} /\ token' \in Tokens \cup {NoToken}
    BY <1>0
    DEF RowTypeOK, Next, Work, Tick, Send, Return, Deliver, Find, Insert, Claim, Latest,
        ClaimThrows, HandlerOk, HandlerThrows, HandlerTimesOut, ZombieEnds, MarkProcessed,
        MarkProcessedThrows, MarkFailed, Ack, AckThrows, Reject, Bury, BuryThrows, Crash, Restart,
        ChannelLost, Lock, Release, Complete, FreshTokens, rowVars, vars
  <1>2. lock' \in NoLock..Lease
    <2>1. CASE Tick
      BY <1>0, <2>1, LeaseNat DEF RowTypeOK, Tick
    <2>2. ASSUME NEW i \in Consumers, NEW age \in NowAges(i), NEW t, Lock(t, age)
          PROVE  lock' \in NoLock..Lease
      BY <2>2, LeaseNat, AgesBounded DEF Lock
    <2>3. Tick \/ UNCHANGED lock \/ lock' = NoLock
          \/ \E i \in Consumers : \E age \in NowAges(i), t \in FreshTokens : Lock(t, age)
      BY DEF Next, Work, Send, Return, Deliver, Find, Insert, Claim, Latest,
          ClaimThrows, HandlerOk, HandlerThrows, HandlerTimesOut, ZombieEnds, MarkProcessed,
          MarkProcessedThrows, MarkFailed, Ack, AckThrows, Reject, Bury, BuryThrows, Crash,
          Restart, ChannelLost, Release, Complete, rowVars, vars
    <2>4. QED
      BY <1>0, <2>1, <2>2, <2>3 DEF RowTypeOK
  <1>3. effects' \in 0..2
    <2>1. AddEffect => effects' \in 0..2
      BY <1>0 DEF AddEffect, RowTypeOK
    <2>2. QED
      BY <1>0, <2>1
      DEF RowTypeOK, Next, Work, Tick, Send, Return, Deliver, Find, Insert, Claim, Latest,
          ClaimThrows, HandlerOk, HandlerThrows, HandlerTimesOut, ZombieEnds, MarkProcessed,
          MarkProcessedThrows, MarkFailed, Ack, AckThrows, Reject, Bury, BuryThrows, Crash, Restart,
          ChannelLost, historyVars, vars
  <1>4. excused' \in BOOLEAN
    <2>1. Excuse \/ ExcuseTakeover \/ UNCHANGED excused => excused' \in BOOLEAN
      BY <1>0 DEF Excuse, ExcuseTakeover, RowTypeOK
    <2>2. QED
      BY <2>1
      DEF Next, Work, Tick, Send, Return, Deliver, Find, Insert, Claim, Latest,
          ClaimThrows, HandlerOk, HandlerThrows, HandlerTimesOut, ZombieEnds, MarkProcessed,
          MarkProcessedThrows, MarkFailed, Ack, AckThrows, Reject, Bury, BuryThrows, Crash, Restart,
          ChannelLost, historyVars, vars
  <1>5. crashes' \in 0..MaxCrashes
    <2>1. crashes < MaxCrashes => crashes + 1 \in 0..MaxCrashes
      BY <1>0, ConstantsOK DEF RowTypeOK
    <2>2. QED
      BY <1>0, <2>1
      DEF RowTypeOK, Next, Work, Tick, Send, Return, Deliver, Find, Insert, Claim, Latest,
          ClaimThrows, HandlerOk, HandlerThrows, HandlerTimesOut, ZombieEnds, MarkProcessed,
          MarkProcessedThrows, MarkFailed, Ack, AckThrows, Reject, Bury, BuryThrows, Crash, Restart,
          ChannelLost, vars
  <1>6. QED
    BY <1>1, <1>2, <1>3, <1>4, <1>5 DEF RowTypeOK

LEMMA TypeStep ==
  ASSUME TypeOK, LocalShape, [Next]_vars
  PROVE  TypeOK' /\ LocalShape'
  <1>1. LocalTypeOK' /\ LocalShape'
    <2>1. CASE Tick
      <3>1. left' \in [Consumers -> 0..HandlerTimeout]
        <4>1. \A i \in Consumers : Less(left[i]) \in 0..HandlerTimeout
          BY ConstantsOK, LessBounded DEF TypeOK
        <4>2. QED
          BY <2>1, <4>1 DEF Tick
      <3>2. QED
        BY <2>1, <3>1 DEF Tick, TypeOK, LocalTypeOK, LocalShape
    <2>2. CASE (\E c \in Copies : Send(c) \/ Return(c)) \/ UNCHANGED vars
      BY <2>2 DEF Send, Return, vars, localVars, TypeOK, LocalTypeOK, LocalShape
    <2>3. ASSUME NEW i \in Consumers, Work(i) \/ Failing(i) PROVE LocalTypeOK' /\ LocalShape'
      BY <2>3, LocalStep DEF LocalShape, ShapeOf, OthersStay
    <2>4. QED
      BY <2>1, <2>2, <2>3 DEF Next, Failing
  <1>2. QED
    BY <1>1, BrokerTypeStep, RowTypeStep DEF TypeOK, LocalTypeOK, BrokerTypeOK, RowTypeOK

-----------------------------------------------------------------------------
(* The row and its lease *)

\* Each token is new when it is written, so no two consumers ever share one.
LEMMA TokensStep ==
  ASSUME TypeOK, LocalShape, TokensApart, [Next]_vars
  PROVE  TokensApart'
  <1>1. CASE Tick \/ (\E c \in Copies : Send(c) \/ Return(c)) \/ UNCHANGED vars
    BY <1>1 DEF Tick, Send, Return, vars, localVars, TokensApart
  <1>2. ASSUME NEW i \in Consumers, Work(i) \/ Failing(i) PROVE TokensApart'
    <2>1. OthersStay(i)
      BY <1>2, LocalStep
    <2>2. tok'[i] \in {tok[i], NoToken} \cup FreshTokens
      BY <1>2
      DEF Work, Failing, Deliver, Find, Insert, Claim, Latest, ClaimThrows, HandlerOk,
          HandlerThrows, HandlerTimesOut, ZombieEnds, MarkProcessed, MarkProcessedThrows,
          MarkFailed, Ack, AckThrows, Reject, Bury, BuryThrows, Crash, Restart, ChannelLost, Finish,
          localVars, TypeOK
    <2>3. QED
      BY <2>1, <2>2 DEF TokensApart, OthersStay, FreshTokens
  <1>3. QED
    BY <1>1, <1>2 DEF Next, Failing

\* The row is there for the taking, by the clock of a consumer that claims it.
Free ==
    row = "absent" \/ \E i \in Consumers : \E age \in NowAges(i) : Lapsed(age)

\* A clock that is behind finds no lease over that is not.
LEMMA FreeIsOver ==
  ASSUME TypeOK, RowShape, Free
  PROVE  row \in {"absent", "open"} /\ lock <= 0
  <1>1. CASE row = "absent"
    BY <1>1, LeaseNat DEF RowShape
  <1>2. ASSUME NEW i \in Consumers, NEW age \in NowAges(i), Lapsed(age)
        PROVE  row = "open" /\ lock <= 0
    <2>1. age \in Nat /\ lock \in Int
      BY AgesBounded, LeaseNat DEF TypeOK
    <2>2. QED
      BY <1>2, <2>1 DEF Lapsed, LockedAt
  <1>3. QED
    BY <1>1, <1>2 DEF Free

\* How a step may change the row.
RowStep ==
    \/ UNCHANGED rowVars
    \/ UNCHANGED <<row, token>> /\ lock' = (IF lock = NoLock THEN lock ELSE lock - 1)
    \/ Free /\ \E i \in Consumers : \E age \in NowAges(i), t \in FreshTokens : Lock(t, age)
    \/ \E i \in Consumers : pc[i] = "record" /\ HoldsLease(i) /\ Complete
    \/ \E i \in Consumers : pc[i] = "release" /\ HoldsLease(i) /\ Release

LEMMA RowSteps == ASSUME [Next]_vars PROVE RowStep
  BY DEF RowStep, Free, Next, Work, Tick, Send, Return, Deliver, Find, Insert, Claim, Latest,
         ClaimThrows, HandlerOk, HandlerThrows, HandlerTimesOut, ZombieEnds, MarkProcessed,
         MarkProcessedThrows, MarkFailed, Ack, AckThrows, Reject, Bury, BuryThrows, Crash, Restart,
         ChannelLost, rowVars, vars

LEMMA RowShapeStep ==
  ASSUME RowShape, [Next]_vars
  PROVE  RowShape' /\ (row = "processed" => row' = "processed")
  <1>1. Free => row # "processed"
    BY DEF Free, Lapsed
  <1>2. QED
    BY <1>1, RowSteps DEF RowStep, RowShape, HoldsLease, Lock, Complete, Release, rowVars

\* What is in the dead queue stays there.
LEMMA BuriedStays == ASSUME [Next]_vars PROVE buried \subseteq buried'
  BY DEF Next, Work, Tick, Send, Return, Deliver, Find, Insert, Claim, Latest,
         ClaimThrows, HandlerOk, HandlerThrows, HandlerTimesOut, ZombieEnds, MarkProcessed,
         MarkProcessedThrows, MarkFailed, Ack, AckThrows, Reject, Bury, BuryThrows, Crash, Restart,
         ChannelLost, brokerVars, vars

-----------------------------------------------------------------------------
(* Acknowledgements *)

LEMMA AcksStep ==
  ASSUME TypeOK, LocalShape, RowShape, AcksSound, [Next]_vars
  PROVE  AcksSound'
  <1>0. buried \subseteq buried' /\ (row = "processed" => row' = "processed")
    BY BuriedStays, RowShapeStep
  <1>1. CASE Tick \/ (\E c \in Copies : Send(c) \/ Return(c)) \/ UNCHANGED vars
    BY <1>0, <1>1 DEF Tick, Send, Return, vars, localVars, AcksSound
  <1>2. ASSUME NEW i \in Consumers, Work(i) \/ Failing(i) PROVE AcksSound'
    <2>1. OthersStay(i)
      BY <1>2, LocalStep
    <2>2. /\ pc'[i] = "ack" => row' = "processed"
          /\ pc'[i] = "settle" => cop'[i] \in buried'
      <3>1. CASE Find(i)
        <4>1. PICK age \in NowAges(i) : pc'[i] = Answer(age)
          BY <3>1 DEF Find, Goto, TypeOK
        <4>2. (Answer(age) = "ack" => row = "processed") /\ Answer(age) # "settle"
          BY DEF Answer
        <4>3. QED
          BY <1>0, <4>1, <4>2
      <3>2. CASE Latest(i)
        BY <1>0, <3>2 DEF Latest, Goto, TypeOK
      <3>3. CASE MarkProcessed(i)
        BY <3>3 DEF MarkProcessed, Complete, Goto, TypeOK
      <3>4. CASE Bury(i)
        BY <3>4 DEF Bury, Goto, TypeOK
      <3>5. CASE ZombieEnds(i) \/ ChannelLost(i)
        BY <1>0, <3>5 DEF ZombieEnds, ChannelLost, localVars, AcksSound
      <3>6. CASE pc'[i] \notin {"ack", "settle"}
        BY <3>6
      <3>7. QED
        BY <1>2, <3>1, <3>2, <3>3, <3>4, <3>5, <3>6
        DEF Work, Failing, Deliver, Insert, Claim, ClaimThrows, HandlerOk, HandlerThrows,
            HandlerTimesOut, MarkProcessedThrows, MarkFailed, Ack, AckThrows, Reject, BuryThrows,
            Crash,
            Restart, Goto, Finish, TypeOK
    <2>3. QED
      BY <1>0, <2>1, <2>2 DEF AcksSound, OthersStay
  <1>3. QED
    BY <1>1, <1>2 DEF Next, Failing

\* A copy is gone from the broker only through an acknowledgement.
LEMMA NothingLostStep ==
  ASSUME TypeOK, LocalShape, RowShape, AcksSound, NothingLost, [Next]_vars
  PROVE  NothingLost'
  <1>0. buried \subseteq buried' /\ (row = "processed" => row' = "processed")
    BY BuriedStays, RowShapeStep
  <1>1. ASSUME NEW c \in Copies, place'[c] = "done", place[c] # "done"
        PROVE  row' = "processed" \/ c \in buried'
    <2>1. PICK i \in Consumers : Ack(i)
      BY <1>1
      DEF Next, Work, Tick, Send, Return, Deliver, Find, Insert, Claim, Latest, ClaimThrows,
          HandlerOk, HandlerThrows, HandlerTimesOut, ZombieEnds, MarkProcessed,
          MarkProcessedThrows, MarkFailed, AckThrows, Reject, Bury, BuryThrows, Crash, Restart,
          ChannelLost, Nack, BackToMain, brokerVars, vars, TypeOK
    <2>2. cop[i] = c /\ pc[i] \in {"ack", "settle"}
      BY <1>1, <2>1 DEF Ack, TypeOK
    <2>3. QED
      BY <1>0, <2>2 DEF AcksSound
  <1>2. QED
    BY <1>0, <1>1 DEF NothingLost

-----------------------------------------------------------------------------
(* Effects *)

\* The count of effects never falls.
LEMMA EffectsStay ==
  ASSUME TypeOK, [Next]_vars
  PROVE  /\ effects > 0 => effects' > 0
         /\ excused => excused'
  <1>0. effects \in 0..2 /\ excused \in BOOLEAN
    BY DEF TypeOK
  <1>1. AddEffect => effects' > 0
    BY <1>0 DEF AddEffect
  <1>2. effects > 0 => effects' > 0
    BY <1>1
    DEF Next, Work, Tick, Send, Return, Deliver, Find, Insert, Claim, Latest, ClaimThrows,
        HandlerOk, HandlerThrows, HandlerTimesOut, ZombieEnds, MarkProcessed,
        MarkProcessedThrows, MarkFailed, Ack, AckThrows, Reject, Bury, BuryThrows, Crash, Restart,
        ChannelLost, historyVars, vars
  <1>3. Excuse \/ ExcuseTakeover \/ UNCHANGED excused
    BY DEF Next, Work, Tick, Send, Return, Deliver, Find, Insert, Claim, Latest, ClaimThrows,
        HandlerOk, HandlerThrows, HandlerTimesOut, ZombieEnds, MarkProcessed,
        MarkProcessedThrows, MarkFailed, Ack, AckThrows, Reject, Bury, BuryThrows, Crash, Restart,
        ChannelLost, historyVars, vars
  <1>4. excused => excused'
    BY <1>3 DEF Excuse, ExcuseTakeover
  <1>5. QED
    BY <1>2, <1>4

LEMMA RecordsStep ==
  ASSUME TypeOK, LocalShape, RecordsSound, [Next]_vars
  PROVE  RecordsSound'
  <1>1. CASE Tick \/ (\E c \in Copies : Send(c) \/ Return(c)) \/ UNCHANGED vars
    BY <1>1 DEF Tick, Send, Return, vars, localVars, historyVars, RecordsSound
  <1>2. ASSUME NEW i \in Consumers, Work(i) \/ Failing(i) PROVE RecordsSound'
    <2>1. OthersStay(i) /\ (effects > 0 => effects' > 0)
      BY <1>2, LocalStep, EffectsStay
    <2>2. pc'[i] = "record" => effects' > 0
      <3>1. CASE HandlerOk(i)
        <4>1. effects \in 0..2
          BY DEF TypeOK
        <4>2. QED
          BY <3>1, <4>1 DEF HandlerOk, AddEffect
      <3>2. CASE pc'[i] = pc[i]
        BY <2>1, <3>2 DEF RecordsSound
      <3>3. CASE pc'[i] # "record"
        BY <3>3
      <3>4. QED
        BY <1>2, <3>1, <3>2, <3>3
        DEF Work, Failing, Deliver, Find, Answer, Insert, Claim, Latest, ClaimThrows,
            HandlerThrows, HandlerTimesOut, ZombieEnds, MarkProcessed, MarkProcessedThrows,
            MarkFailed, Ack, AckThrows, Reject, Bury, BuryThrows, Crash, Restart, ChannelLost, Goto,
            Finish, localVars, TypeOK
    <2>3. QED
      BY <2>1, <2>2 DEF RecordsSound, OthersStay
  <1>3. QED
    BY <1>1, <1>2 DEF Next, Failing

\* Two consumers that hold the lease are one.
LEMMA OneHolder ==
  ASSUME LocalShape, TokensApart,
         NEW i \in Consumers, pc[i] \in Leased, HoldsLease(i),
         NEW j \in Consumers, pc[j] \in Leased, HoldsLease(j)
  PROVE  i = j
  BY DEF LocalShape, TokensApart, HoldsLease

\* A new token is nobody's.
LEMMA NobodysToken ==
  ASSUME TypeOK, LocalShape, TokensApart, NEW t \in FreshTokens
  PROVE  t # NoToken /\ t # token /\ \A i \in Consumers : tok[i] # t
  BY ConstantsOK DEF FreshTokens

\* What holds of consumer i while nothing is excused.
Sound(i) ==
    /\ ~ zombie[i]
    /\ pc[i] = "handle" => HoldsLease(i) /\ effects = 0
    /\ pc[i] = "release" /\ HoldsLease(i) => effects = 0

Recoverable == effects > 0 => row = "processed" \/ (row = "open" /\ token # NoToken)

\* The steps that leave the row and the effects alone.
LEMMA StillSound ==
  ASSUME UNCHANGED <<row, token, effects>>, NEW j \in Consumers, Sound(j),
         pc'[j] = pc[j] \/ pc'[j] \notin {"handle", "release"}, tok'[j] = tok[j] \/ pc'[j] \notin Leased,
         ~ zombie'[j]
  PROVE  Sound(j)'
  BY DEF Sound, HoldsLease, Leased

\* A lease that is taken where no effect is possible yet.
LEMMA LockSound ==
  ASSUME TypeOK, LocalShape, TokensApart, RowShape, Recoverable,
         NEW i \in Consumers, OthersStay(i), \A j \in Consumers : Sound(j),
         Free, NEW t \in FreshTokens, NEW age, Lock(t, age),
         token = NoToken, UNCHANGED <<effects, zombie>>,
         \/ pc'[i] = "handle" /\ tok'[i] = t
         \/ pc'[i] \notin Leased
  PROVE  Recoverable' /\ \A j \in Consumers : Sound(j)'
  <1>1. effects = 0
    <2>1. ~ (effects > 0) /\ effects \in 0..2
      BY FreeIsOver DEF Recoverable, TypeOK
    <2>2. QED
      BY <2>1
  <1>2. \A j \in Consumers : pc[j] # "handle"
    <2>1. \A j \in Consumers : pc[j] = "handle" => tok[j] = NoToken
      BY DEF Sound, HoldsLease
    <2>2. QED
      BY <2>1 DEF LocalShape, Leased
  <1>3. ASSUME NEW j \in Consumers PROVE Sound(j)'
    <2>1. CASE j = i
      BY <1>1, <2>1 DEF Sound, HoldsLease, Lock, Leased
    <2>2. CASE j # i
      BY <1>1, <1>2, <2>2 DEF Sound, OthersStay
    <2>3. QED
      BY <2>1, <2>2
  <1>4. QED
    BY <1>1, <1>3 DEF Recoverable

LEMMA UnexcusedStep ==
  ASSUME TypeOK, LocalShape, TokensApart, RowShape, RecordsSound, UnexcusedOnce, [Next]_vars
  PROVE  UnexcusedOnce'
  <1>1. SUFFICES ASSUME ~ excused'
                 PROVE  effects' < 2 /\ Recoverable' /\ \A j \in Consumers : Sound(j)'
    BY DEF UnexcusedOnce, Recoverable, Sound
  <1> DEFINE Goal == effects' < 2 /\ Recoverable' /\ \A j \in Consumers : Sound(j)'
  <1>2. ~ excused /\ effects < 2 /\ Recoverable /\ \A j \in Consumers : Sound(j)
    BY <1>1, EffectsStay DEF UnexcusedOnce, Recoverable, Sound
  <1>3. CASE Tick \/ (\E c \in Copies : Send(c) \/ Return(c)) \/ UNCHANGED vars
    BY <1>2, <1>3
    DEF Tick, Send, Return, vars, localVars, rowVars, historyVars, Recoverable, Sound, HoldsLease
  <1>4. ASSUME NEW i \in Consumers, Work(i) \/ Failing(i) PROVE Goal
    <2>1. OthersStay(i) /\ ShapeOf(i)'
      BY <1>4, LocalStep
    <2>2. ASSUME UNCHANGED <<row, token, effects>>, ~ zombie'[i],
                 pc'[i] = pc[i] \/ pc'[i] \notin {"handle", "release"},
                 tok'[i] = tok[i] \/ pc'[i] \notin Leased
          PROVE  Goal
      <3>1. \A j \in Consumers : Sound(j)'
        <4>1. ASSUME NEW j \in Consumers \ {i} PROVE Sound(j)'
          BY <1>2, <2>1, <2>2, StillSound DEF OthersStay, Sound
        <4>2. Sound(i)'
          BY <1>2, <2>2, StillSound
        <4>3. QED
          BY <4>1, <4>2
      <3>2. QED
        BY <1>2, <2>2, <3>1 DEF Recoverable
    <2>3. ASSUME NEW t \in FreshTokens, NEW age, Lock(t, age), Free, token = NoToken,
                 UNCHANGED <<effects, zombie>>,
                 (pc'[i] = "handle" /\ tok'[i] = t) \/ pc'[i] \notin Leased
          PROVE  Goal
      BY <1>2, <2>1, <2>3, LockSound
    <2>4. row = "absent" => token = NoToken
      BY DEF RowShape
    <2>5. ~ zombie[i]
      BY <1>2 DEF Sound
    <2>6. CASE Insert(i) /\ row = "absent"
      BY <2>3, <2>4, <2>6 DEF Insert, Goto, TypeOK, Free
    <2>7. CASE Claim(i) /\ ~ UNCHANGED rowVars
      <3>1. PICK age \in NowAges(i), t \in FreshTokens :
                Lapsed(age) /\ Lock(t, age) /\ tok' = [tok EXCEPT ![i] = t]
        BY <2>7 DEF Claim
      <3>2. Goto(i, "handle") /\ ExcuseTakeover
        BY <2>7 DEF Claim
      <3>3. token = NoToken /\ Free
        BY <1>1, <3>1, <3>2 DEF ExcuseTakeover, Free
      <3>4. pc'[i] = "handle" /\ tok'[i] = t /\ UNCHANGED <<effects, zombie>>
        BY <2>7, <3>1, <3>2 DEF Claim, Goto, TypeOK
      <3>5. QED
        BY <2>3, <3>1, <3>3, <3>4
    <2>8. CASE ClaimThrows(i) /\ ~ UNCHANGED rowVars
      <3>1. PICK age \in NowAges(i), t \in FreshTokens :
                (row = "absent" \/ Lapsed(age)) /\ Lock(t, age)
        BY <2>8 DEF ClaimThrows
      <3>2. Free
        BY <3>1 DEF Free
      <3>3. token = NoToken
        BY <1>1, <2>8 DEF ClaimThrows, ExcuseTakeover
      <3>4. pc'[i] = "reject" /\ UNCHANGED <<effects, zombie>>
        BY <2>8 DEF ClaimThrows, Goto, TypeOK
      <3>5. QED
        BY <2>3, <3>1, <3>2, <3>3, <3>4 DEF Leased
    <2>9. CASE HandlerOk(i)
      <3>1. HoldsLease(i) /\ effects = 0 /\ pc[i] \in Leased /\ tok[i] # NoToken
        BY <1>2, <2>9 DEF HandlerOk, Sound, Leased, LocalShape
      <3>2. effects' = 1 /\ pc'[i] = "record" /\ UNCHANGED <<row, token, zombie>>
        BY <2>9, <3>1 DEF HandlerOk, AddEffect, Goto, rowVars, TypeOK
      <3>3. Recoverable'
        BY <3>1, <3>2 DEF Recoverable, HoldsLease
      <3>4. ASSUME NEW j \in Consumers \ {i} PROVE Sound(j)'
        <4>1. pc[j] \in Leased => ~ HoldsLease(j)
          BY <3>1, OneHolder
        <4>2. QED
          BY <1>2, <2>1, <3>2, <4>1 DEF Sound, OthersStay, HoldsLease, Leased
      <3>5. Sound(i)'
        BY <2>5, <3>2 DEF Sound
      <3>6. QED
        BY <3>2, <3>3, <3>4, <3>5
    <2>10. CASE HandlerThrows(i)
      <3>1. effects = 0 /\ UNCHANGED <<row, token, effects, zombie>> /\ pc'[i] = "release"
        BY <1>1, <1>2, <2>10 DEF HandlerThrows, Excuse, Sound, Goto, rowVars, TypeOK
      <3>2. ASSUME NEW j \in Consumers \ {i} PROVE Sound(j)'
        BY <1>2, <2>1, <3>1, StillSound DEF OthersStay, Sound
      <3>3. Sound(i)'
        BY <2>5, <3>1 DEF Sound
      <3>4. QED
        BY <1>2, <3>1, <3>2, <3>3 DEF Recoverable
    <2>11. CASE HandlerTimesOut(i) \/ ZombieEnds(i)
      BY <1>1, <2>5, <2>11 DEF HandlerTimesOut, ZombieEnds, Excuse
    <2>12. ASSUME pc[i] \in Leased, HoldsLease(i), Complete \/ (Release /\ effects = 0),
                  UNCHANGED <<effects, zombie>>, pc'[i] # "handle"
           PROVE  Goal
      <3>1. ~ HoldsLease(i)' \/ effects' = 0
        BY <2>12 DEF HoldsLease, Complete
      <3>2. ASSUME NEW j \in Consumers \ {i} PROVE Sound(j)'
        <4>1. pc[j] # "handle"
          BY <1>2, <2>12, OneHolder DEF Sound, Leased
        <4>2. pc'[j] # "handle" /\ ~ zombie'[j]
          BY <1>2, <2>1, <4>1 DEF OthersStay, Sound
        <4>3. HoldsLease(j)' => effects' = 0
          BY <2>12 DEF HoldsLease, Complete
        <4>4. QED
          BY <4>2, <4>3 DEF Sound
      <3>3. Sound(i)'
        BY <2>5, <2>12, <3>1 DEF Sound
      <3>4. Recoverable'
        BY <2>12 DEF Recoverable, Complete
      <3>5. QED
        BY <1>2, <2>12, <3>2, <3>3, <3>4
    <2>13. CASE MarkProcessed(i)
      <3>1. pc[i] = "record" /\ UNCHANGED <<effects, zombie>> /\ pc'[i] \in {"ack", "release"}
        BY <2>13 DEF MarkProcessed, Goto, historyVars, TypeOK
      <3>2. CASE HoldsLease(i)
        BY <2>12, <2>13, <3>1, <3>2 DEF MarkProcessed, Leased
      <3>3. CASE ~ HoldsLease(i)
        <4>1. UNCHANGED <<row, token, tok>>
          BY <2>13, <3>3 DEF MarkProcessed, rowVars
        <4>2. Sound(i)'
          BY <2>5, <3>1, <3>3, <4>1 DEF Sound, HoldsLease
        <4>3. ASSUME NEW j \in Consumers \ {i} PROVE Sound(j)'
          BY <1>2, <2>1, <3>1, <4>1, StillSound DEF OthersStay, Sound
        <4>4. QED
          BY <1>2, <3>1, <4>1, <4>2, <4>3 DEF Recoverable
      <3>4. QED
        BY <3>2, <3>3
    <2>14. CASE MarkProcessedThrows(i)
      BY <1>1, <2>12, <2>14 DEF MarkProcessedThrows, Excuse, Leased, Goto, TypeOK
    <2>15. CASE MarkFailed(i)
      <3>1. pc[i] = "release" /\ pc'[i] = "reject" /\ UNCHANGED <<effects, zombie>>
        BY <2>15 DEF MarkFailed, Goto, historyVars, TypeOK
      <3>2. CASE HoldsLease(i) /\ Release
        BY <1>2, <2>12, <3>1, <3>2 DEF Sound, Leased
      <3>3. CASE UNCHANGED rowVars
        BY <2>2, <2>5, <3>1, <3>3 DEF rowVars, Leased
      <3>4. QED
        BY <2>15, <3>2, <3>3 DEF MarkFailed
    <2>16. CASE Crash(i)
      <3>1. pc'[i] = "down" /\ ~ zombie'[i] /\ UNCHANGED <<row, token>>
        BY <2>16 DEF Crash, Finish, rowVars, TypeOK
      <3>2. CASE UNCHANGED effects
        BY <2>2, <3>1, <3>2 DEF Leased
      <3>3. CASE pc[i] = "handle" /\ AddEffect
        <4>1. HoldsLease(i) /\ effects = 0 /\ pc[i] \in Leased /\ tok[i] # NoToken
          BY <1>2, <3>3 DEF Sound, Leased, LocalShape
        <4>2. effects' = 1
          BY <3>3, <4>1 DEF AddEffect
        <4>3. Recoverable'
          BY <3>1, <4>1 DEF Recoverable, HoldsLease
        <4>4. ASSUME NEW j \in Consumers \ {i} PROVE Sound(j)'
          <5>1. pc[j] \in Leased => ~ HoldsLease(j)
            BY <4>1, OneHolder
          <5>2. QED
            BY <1>2, <2>1, <3>1, <5>1 DEF Sound, OthersStay, HoldsLease, Leased
        <4>5. Sound(i)'
          BY <3>1 DEF Sound
        <4>6. QED
          BY <4>2, <4>3, <4>4, <4>5
      <3>4. QED
        BY <2>5, <2>16, <3>2, <3>3 DEF Crash
    <2>17. CASE \/ \E c \in Copies : Deliver(i, c)
                \/ Find(i) \/ (Insert(i) /\ row # "absent") \/ (Claim(i) /\ UNCHANGED rowVars) \/ Latest(i)
                \/ (ClaimThrows(i) /\ UNCHANGED rowVars)
                \/ Bury(i) \/ Restart(i) \/ AckThrows(i)
      <3>1. UNCHANGED <<row, token, effects, zombie>>
        BY <2>17
        DEF Deliver, Find, Insert, Claim, Latest, ClaimThrows, Bury, Restart, AckThrows,
            rowVars, historyVars
      <3>2. \A age : Answer(age) \notin {"handle", "release"}
        BY DEF Answer
      <3>3. ~ (Claim(i) /\ Goto(i, "handle") /\ UNCHANGED rowVars)
        <4>1. \A age : \A t \in FreshTokens : ~ (Lock(t, age) /\ UNCHANGED rowVars)
          BY NobodysToken DEF Lock, rowVars
        <4>2. pc[i] = "claim" /\ Claim(i) /\ Goto(i, "handle") /\ UNCHANGED rowVars => FALSE
          BY <4>1 DEF Claim, Goto, TypeOK
        <4>3. QED
          BY <4>2 DEF Claim
      <3>4. pc'[i] \notin {"handle", "release"}
        BY <2>17, <3>2, <3>3
        DEF Deliver, Find, Insert, Claim, Latest, ClaimThrows, Bury, Restart, AckThrows, Goto,
            TypeOK
      <3>5. tok'[i] = tok[i] \/ pc'[i] \notin Leased
        BY <2>17, <3>3
        DEF Deliver, Find, Insert, Claim, Latest, ClaimThrows, Bury, Restart, AckThrows
      <3>6. QED
        BY <2>2, <2>5, <3>1, <3>4, <3>5
    <2>18. CASE Ack(i) \/ Reject(i) \/ BuryThrows(i)
      BY <2>2, <2>5, <2>18
      DEF Ack, AckThrows, Reject, BuryThrows, Finish, rowVars, historyVars, Leased, TypeOK
    <2>19. CASE ChannelLost(i)
      BY <2>2, <2>5, <2>19 DEF ChannelLost, rowVars, historyVars
    <2>20. QED
      BY <1>4, <2>6, <2>7, <2>8, <2>9, <2>10, <2>11, <2>13, <2>14, <2>15, <2>16, <2>17, <2>18, <2>19
      DEF Work, Failing
  <1>5. QED
    BY <1>3, <1>4 DEF Next, Failing

LEMMA EffectsStep ==
  ASSUME TypeOK, LocalShape, RowShape, RecordsSound, EffectsMatch, UnexcusedOnce, UnexcusedOnce',
         TypeOK', [Next]_vars
  PROVE  EffectsMatch'
  <1>1. effects > 0 => effects' > 0
    BY EffectsStay
  <1>2. row' = "processed" => row = "processed" \/ \E i \in Consumers : pc[i] = "record"
    BY RowSteps DEF RowStep, Lock, Release, rowVars
  <1>3. row' = "processed" => effects' > 0
    BY <1>1, <1>2 DEF EffectsMatch, RecordsSound
  <1>4. effects' \in 0..2 /\ (~ excused' => effects' < 2)
    BY DEF TypeOK, UnexcusedOnce
  <1>5. effects' > 1 => excused'
    BY <1>4
  <1>6. QED
    BY <1>3, <1>5 DEF EffectsMatch

-----------------------------------------------------------------------------
(* The lease and the timeout *)

\* A lease starts at twice the timeout and both run down together, so that a
\* prompt handler is cut off while its lease still stands.
LEMMA OutlivesStep ==
  ASSUME TypeOK, LocalShape, TokensApart, RowShape, LeaseOutlives, [Next]_vars
  PROVE  LeaseOutlives'
  <1>1. SUFFICES ASSUME Prompt, NEW j \in Consumers, pc'[j] = "handle"
                 PROVE  HoldsLease(j)' /\ lock' > left'[j]
    BY DEF LeaseOutlives
  <1>2. \A k \in Consumers : pc[k] = "handle" => HoldsLease(k) /\ lock > left[k]
    BY <1>1 DEF LeaseOutlives
  <1>3. /\ lock \in Int /\ NoLock \in Int /\ NoLock < 1 /\ Lease \in Nat /\ Lease > HandlerTimeout
        /\ left \in [Consumers -> 0..HandlerTimeout] /\ HandlerTimeout \in Nat
    BY LeaseNat, ConstantsOK DEF TypeOK
  <1>4. CASE Tick
    <2>1. pc[j] = "handle" /\ UNCHANGED <<row, token, tok>>
      BY <1>1, <1>4 DEF Tick
    <2>2. left[j] # 0 /\ lock > left[j] /\ left[j] \in Nat
      BY <1>1, <1>2, <1>3, <1>4, <2>1 DEF Tick, Overdue, Timed
    <2>3. lock' = lock - 1 /\ left'[j] = left[j] - 1
      BY <1>3, <1>4, <2>2 DEF Tick, Less
    <2>4. lock' > left'[j]
      BY <1>3, <2>2, <2>3
    <2>5. QED
      BY <1>2, <2>1, <2>4 DEF HoldsLease
  <1>5. CASE (\E c \in Copies : Send(c) \/ Return(c)) \/ UNCHANGED vars
    BY <1>1, <1>2, <1>5 DEF Send, Return, vars, localVars, rowVars, HoldsLease
  <1>6. ASSUME NEW i \in Consumers, Work(i) \/ Failing(i) PROVE HoldsLease(j)' /\ lock' > left'[j]
    <2>1. OthersStay(i)
      BY <1>6, LocalStep
    <2>2. CASE pc[j] = "handle"
      <3>1. HoldsLease(j) /\ lock > left[j] /\ lock > 0 /\ row = "open"
        BY <1>2, <1>3, <2>2 DEF HoldsLease
      <3>2. tok'[j] = tok[j] /\ left'[j] = left[j]
        <4>1. CASE j = i
          BY <1>1, <1>6, <2>2, <4>1
          DEF Work, Failing, Deliver, Find, Insert, Claim, Latest, ClaimThrows, HandlerOk,
              HandlerThrows, HandlerTimesOut, ZombieEnds, MarkProcessed, MarkProcessedThrows,
              MarkFailed, Ack, AckThrows, Reject, Bury, BuryThrows, Crash, Restart, ChannelLost,
              Goto,
              Finish, Timed, localVars, TypeOK
        <4>2. QED
          BY <2>1, <4>1 DEF OthersStay
      <3>3. UNCHANGED rowVars
        <4>1. \A k \in Consumers : pc[k] \in {"record", "release"} => ~ HoldsLease(k)
          BY <2>2, <3>1, OneHolder DEF Leased
        <4>2. ~ Free
          BY <1>3, <3>1, FreeIsOver
        <4>3. QED
          BY <1>6, <4>1, <4>2
          DEF Free, Work, Failing, Deliver, Find, Insert, Claim, Latest, ClaimThrows, HandlerOk,
              HandlerThrows, HandlerTimesOut, ZombieEnds, MarkProcessed, MarkProcessedThrows,
              MarkFailed, Ack, AckThrows, Reject, Bury, BuryThrows, Crash, Restart, ChannelLost,
              rowVars
      <3>4. QED
        BY <3>1, <3>2, <3>3 DEF HoldsLease, rowVars
    <2>3. CASE pc[j] # "handle"
      <3>1. j = i
        BY <1>1, <2>1, <2>3 DEF OthersStay
      <3>2. (Insert(i) /\ row = "absent") \/ (Claim(i) /\ ~ (pc'[i] = "latest"))
        BY <1>1, <1>6, <2>3, <3>1
        DEF Work, Failing, Deliver, Find, Answer, Insert, Claim, Latest, ClaimThrows, HandlerOk,
            HandlerThrows, HandlerTimesOut, ZombieEnds, MarkProcessed, MarkProcessedThrows,
            MarkFailed, Ack, AckThrows, Reject, Bury, BuryThrows, Crash, Restart, ChannelLost, Goto,
            Finish, localVars, TypeOK
      <3>3. PICK t \in FreshTokens, age \in NowAges(i) :
                Lock(t, age) /\ tok' = [tok EXCEPT ![i] = t]
        BY <3>2 DEF Insert, Claim, Goto, TypeOK
      <3>4. left'[i] = left[i]
        BY <3>2 DEF Insert, Claim, Goto, Timed, TypeOK
      <3>5. HoldsLease(j)'
        BY <3>1, <3>3 DEF HoldsLease, Lock, TypeOK
      <3>6. lock' = Lease - (HandlerTimeout - left'[j]) /\ left'[j] \in 0..HandlerTimeout
        BY <1>1, <1>3, <3>1, <3>3, <3>4, AgesBounded DEF Lock
      <3>7. QED
        BY <1>3, <3>5, <3>6
    <2>4. QED
      BY <2>2, <2>3
  <1>7. QED
    BY <1>4, <1>5, <1>6 DEF Next, Failing

-----------------------------------------------------------------------------
(* The theorems *)

LEMMA InitIInv == Init => IInv
  <1> SUFFICES ASSUME Init PROVE IInv
    OBVIOUS
  <1>1. LocalShape /\ TokensApart /\ RowShape /\ AcksSound /\ RecordsSound
    BY DEF Init, LocalShape, TokensApart, RowShape, AcksSound, RecordsSound, Leased
  <1>2. NothingLost /\ EffectsMatch /\ UnexcusedOnce /\ LeaseOutlives
    BY DEF Init, NothingLost, EffectsMatch, UnexcusedOnce, LeaseOutlives
  <1>3. QED
    BY <1>1, <1>2, TypeInit DEF IInv

LEMMA NextIInv == IInv /\ [Next]_vars => IInv'
  <1> SUFFICES ASSUME IInv, [Next]_vars PROVE IInv'
    OBVIOUS
  <1>1. TypeOK' /\ LocalShape' /\ TokensApart' /\ RowShape'
    BY TypeStep, TokensStep, RowShapeStep DEF IInv
  <1>2. AcksSound' /\ NothingLost'
    BY AcksStep, NothingLostStep DEF IInv
  <1>3. RecordsSound' /\ UnexcusedOnce' /\ LeaseOutlives'
    BY RecordsStep, UnexcusedStep, OutlivesStep DEF IInv
  <1>4. EffectsMatch'
    BY <1>1, <1>3, EffectsStep DEF IInv
  <1>5. QED
    BY <1>1, <1>2, <1>3, <1>4 DEF IInv

\* The invariant the results below rest on: tokens are apart, acknowledgements
\* and records are sound, unexcused work runs once under the current lease.
THEOREM Inductive == Spec => []IInv
  BY InitIInv, NextIInv, PTL DEF Spec

\* Every reachable state of the broker, the row and the consumers is well-formed.
THEOREM TypeCorrect == Spec => []TypeOK
  <1>1. IInv => TypeOK
    BY DEF IInv
  <1>2. QED
    BY <1>1, Inductive, PTL

\* However consumers crash, lose channels and leases, no copy is dropped before
\* its work is recorded or it is in the dead queue.
THEOREM NoLoss == Spec => []NothingLost
  <1>1. IInv => NothingLost
    BY DEF IInv
  <1>2. QED
    BY <1>1, Inductive, PTL

\* The record follows the work, and the work is repeated only for a cause.
THEOREM WorkAndRecordAgree == Spec => []EffectsMatch
  <1>1. IInv => EffectsMatch
    BY DEF IInv
  <1>2. QED
    BY <1>1, Inductive, PTL

\* With prompt timers, deliveries of one event never wait for its handler at once:
\* for any timeout, twice the timeout is a long enough lease.
THEOREM OneAwaited == ASSUME Prompt PROVE Spec => []AwaitedAlone
  <1>1. IInv => AwaitedAlone
    <2>1. SUFFICES ASSUME IInv, NEW i \in Consumers, NEW j \in Consumers,
                          pc[i] = "handle", pc[j] = "handle"
                   PROVE  i = j
      BY DEF AwaitedAlone
    <2>2. HoldsLease(i) /\ HoldsLease(j)
      BY <2>1 DEF IInv, LeaseOutlives
    <2>3. QED
      BY <2>1, <2>2, OneHolder DEF IInv, Leased
  <1>2. QED
    BY <1>1, Inductive, PTL

\* Handlers that end within their timeout never run beside each other, awaited or
\* not: whatever crashes, is redelivered or fails, nobody is given up on.
THEOREM HandlerAlone == ASSUME Prompt, "slow" \notin Faults PROVE Spec => []HandlersApart
  <1> DEFINE NoZombie == \A i \in Consumers : ~ zombie[i]
  <1>1. Init => NoZombie
    BY DEF Init
  <1>2. IInv /\ NoZombie /\ [Next]_vars => NoZombie'
    <2>1. SUFFICES ASSUME IInv, NoZombie, [Next]_vars PROVE NoZombie'
      OBVIOUS
    <2>2. CASE Tick \/ (\E c \in Copies : Send(c) \/ Return(c)) \/ UNCHANGED vars
      BY <2>1, <2>2 DEF Tick, Send, Return, vars
    <2>3. ASSUME NEW i \in Consumers, Work(i) \/ Failing(i) PROVE NoZombie'
      <3>1. UNCHANGED zombie \/ zombie' = [zombie EXCEPT ![i] = FALSE]
        BY <2>3
        DEF Work, Failing, Deliver, Find, Insert, Claim, Latest, ClaimThrows, HandlerOk,
            HandlerThrows, HandlerTimesOut, ZombieEnds, MarkProcessed, MarkProcessedThrows,
            MarkFailed, Ack, AckThrows, Reject, Bury, BuryThrows, Crash, Restart, ChannelLost
      <3>2. QED
        BY <2>1, <3>1 DEF IInv, TypeOK
    <2>4. QED
      BY <2>1, <2>2, <2>3 DEF Next, Failing
  <1>3. AwaitedAlone /\ NoZombie => HandlersApart
    BY DEF AwaitedAlone, HandlersApart, Running
  <1> HIDE DEF NoZombie
  <1>4. QED
    BY <1>1, <1>2, <1>3, OneAwaited, Inductive, PTL DEF Spec

\* Completion is final and made by the holder of the current lease.
THEOREM CompletionIsFinal == Spec => ProcessedIsFinal
  <1> DEFINE Final == /\ row = "processed" =>
                            /\ row' = "processed"
                            /\ \A i \in Consumers : pc'[i] = "handle" => pc[i] = "handle"
                      /\ row # "processed" /\ row' = "processed" =>
                            \E i \in Consumers : pc[i] = "record" /\ tok[i] = token
  <1>1. ASSUME IInv, [Next]_vars PROVE Final
    <2>1. row = "processed" => row' = "processed"
      BY <1>1, RowShapeStep DEF IInv
    <2>2. row # "processed" /\ row' = "processed" =>
             \E i \in Consumers : pc[i] = "record" /\ tok[i] = token
      BY <1>1, RowSteps DEF RowStep, Lock, Release, HoldsLease, rowVars
    <2>3. ASSUME row = "processed", NEW i \in Consumers, pc'[i] = "handle" PROVE pc[i] = "handle"
      <3>1. TypeOK /\ LocalShape
        BY <1>1 DEF IInv
      <3>2. CASE Tick \/ (\E c \in Copies : Send(c) \/ Return(c)) \/ UNCHANGED vars
        BY <2>3, <3>2 DEF Tick, Send, Return, vars, localVars
      <3>3. ASSUME NEW j \in Consumers, Work(j) \/ Failing(j), j # i PROVE pc[i] = "handle"
        BY <2>3, <3>1, <3>3, LocalStep DEF OthersStay
      <3>4. CASE Work(i) \/ Failing(i)
        BY <2>3, <3>1, <3>4
        DEF Work, Failing, Deliver, Find, Answer, Insert, Claim, Lapsed, Latest, ClaimThrows,
            LockedAt, HandlerOk, HandlerThrows, HandlerTimesOut, ZombieEnds, MarkProcessed,
            MarkProcessedThrows, MarkFailed, Ack, AckThrows, Reject, Bury, BuryThrows, Crash,
            Restart, ChannelLost, Goto, Finish, localVars, TypeOK
      <3>5. QED
        BY <1>1, <3>2, <3>3, <3>4 DEF Next, Failing
    <2>4. QED
      BY <2>1, <2>2, <2>3
  <1>2. IInv /\ [Next]_vars => [Final]_vars
    BY <1>1
  <1>3. QED
    BY <1>2, Inductive, PTL DEF Spec, ProcessedIsFinal

\* Before it lapses, a lease is ended only by the consumer that holds it.
THEOREM Fenced == Spec => LeaseIsFenced
  <1> DEFINE Fence == lock > 0 /\ token' # token =>
                          \E i \in Consumers : tok[i] = token /\ pc[i] \in {"record", "release"}
  <1>1. ASSUME IInv, [Next]_vars PROVE Fence
    <2>1. TypeOK /\ RowShape /\ lock \in Int
      BY <1>1, LeaseNat DEF IInv, TypeOK
    <2>2. Free => ~ (lock > 0)
      BY <2>1, FreeIsOver
    <2>3. QED
      BY <1>1, <2>1, <2>2, RowSteps DEF RowStep, RowShape, HoldsLease, Complete, Release, rowVars
  <1>2. IInv /\ [Next]_vars => [Fence]_vars
    BY <1>1
  <1>3. QED
    BY <1>2, Inductive, PTL DEF Spec, LeaseIsFenced

-----------------------------------------------------------------------------
(* Custody: the broker and its consumers implement Handover *)

\* A good delivery tag stands for a copy that is out, and for no other tag's.
Owners ==
    /\ \A i \in Consumers : owns[i] => place[cop[i]] = "held"
    /\ \A i, j \in Consumers : owns[i] /\ owns[j] /\ cop[i] = cop[j] => i = j

\* What a consumer's step does to places and to its tag: nothing new, a
\* delivery, or giving up the tag.
Keeps(i) == place' = place /\ (owns'[i] => owns[i] /\ cop'[i] = cop[i])
Takes(i) ==
    \E c \in Copies :
        /\ place[c] = "main" /\ place' = [place EXCEPT ![c] = "held"]
        /\ owns'[i] /\ cop'[i] = c
GivesUp(i) ==
    /\ ~ owns'[i]
    /\ \/ place' = place
       \/ /\ owns[i]
          /\ \E where \in {"retry", "done", "main"} : place' = [place EXCEPT ![cop[i]] = where]

LEMMA PlaceStep ==
  ASSUME TypeOK, NEW i \in Consumers, Work(i) \/ Failing(i)
  PROVE  Keeps(i) \/ Takes(i) \/ GivesUp(i)
  <1> USE DEF TypeOK
  <1>1. CASE \E c \in Copies : Deliver(i, c)
    <2>1. Takes(i)
      BY <1>1 DEF Deliver, Takes
    <2>2. QED
      BY <2>1
  <1>2. CASE Ack(i) \/ Reject(i) \/ BuryThrows(i) \/ Crash(i) \/ ChannelLost(i)
    <2>1. ~ owns'[i]
      BY <1>2 DEF Ack, AckThrows, Reject, BuryThrows, Crash, ChannelLost, Finish
    <2>2. CASE ~ owns[i] \/ place' = place
      BY <2>1, <2>2, <1>2 DEF GivesUp, Ack, AckThrows, Reject, BuryThrows, Crash, ChannelLost, Nack, BackToMain
    <2>3. ASSUME NEW where \in {"retry", "done", "main"}, owns[i],
                 place' = [place EXCEPT ![cop[i]] = where]
          PROVE  GivesUp(i)
      BY <2>1, <2>3 DEF GivesUp
    <2>4. CASE owns[i] /\ Ack(i)
      BY <2>3, <2>4 DEF Ack
    <2>5. CASE owns[i] /\ (Reject(i) \/ BuryThrows(i))
      BY <2>3, <2>5 DEF Reject, BuryThrows, Nack
    <2>6. CASE owns[i] /\ (Crash(i) \/ ChannelLost(i))
      BY <2>3, <2>6 DEF Crash, ChannelLost, BackToMain
    <2>7. QED
      BY <1>2, <2>2, <2>4, <2>5, <2>6
  <1>3. CASE \/ Find(i) \/ Insert(i) \/ Claim(i) \/ Latest(i) \/ HandlerOk(i)
             \/ HandlerTimesOut(i) \/ MarkProcessed(i) \/ MarkFailed(i) \/ Bury(i) \/ Restart(i)
             \/ ClaimThrows(i) \/ HandlerThrows(i) \/ ZombieEnds(i) \/ MarkProcessedThrows(i)
             \/ AckThrows(i)
    <2>1. UNCHANGED <<place, owns, cop>>
      BY <1>3 DEF Find, Insert, Claim, Latest, HandlerOk, HandlerTimesOut, MarkProcessed,
                  MarkFailed, Bury, Restart, ClaimThrows, HandlerThrows, ZombieEnds,
                  MarkProcessedThrows, AckThrows, brokerVars, localVars
    <2>2. QED
      BY <2>1 DEF Keeps
  <1>4. QED
    BY <1>1, <1>2, <1>3 DEF Work, Failing

LEMMA OwnersStep ==
  ASSUME TypeOK, LocalShape, Owners, [Next]_vars
  PROVE  Owners'
  <1> USE DEF TypeOK, Owners
  <1>1. CASE Tick \/ UNCHANGED vars
    BY <1>1 DEF Tick, vars
  <1>2. ASSUME NEW c \in Copies, Send(c) \/ Return(c) PROVE Owners'
    <2>1. UNCHANGED <<owns, cop>> /\ place[c] # "held"
      BY <1>2 DEF Send, Return, localVars
    <2>2. place' = [place EXCEPT ![c] = "main"]
      BY <1>2 DEF Send, Return
    <2>3. QED
      BY <2>1, <2>2 DEF LocalShape
  <1>3. ASSUME NEW i \in Consumers, Work(i) \/ Failing(i) PROVE Owners'
    <2>1. \A j \in Consumers \ {i} : cop'[j] = cop[j] /\ owns'[j] = owns[j]
      BY <1>3, LocalStep DEF OthersStay
    <2>2. CASE Keeps(i)
      BY <2>1, <2>2 DEF Keeps
    <2>3. CASE Takes(i)
      BY <2>1, <2>3 DEF Takes, LocalShape
    <2>4. CASE GivesUp(i)
      BY <2>1, <2>4 DEF GivesUp, LocalShape
    <2>5. QED
      BY <1>3, <2>2, <2>3, <2>4, PlaceStep
  <1>4. QED
    BY <1>1, <1>2, <1>3 DEF Next, Failing

InCustody == {c \in Copies : place[c] \notin {"unsent", "done"}}
Settled == {c \in Copies : row = "processed" \/ c \in buried}

\* Only the arrival of a copy adds to what the broker answers for.
LEMMA OnlySendAdds ==
  ASSUME TypeOK, LocalShape, Owners, [Next]_vars, \A c \in Copies : ~ Send(c)
  PROVE  InCustody' \subseteq InCustody
  <1> USE DEF TypeOK, InCustody
  <1>1. CASE Tick \/ UNCHANGED vars
    BY <1>1 DEF Tick, vars
  <1>2. ASSUME NEW c \in Copies, Return(c) PROVE InCustody' \subseteq InCustody
    BY <1>2 DEF Return
  <1>3. ASSUME NEW i \in Consumers, Work(i) \/ Failing(i)
        PROVE  InCustody' \subseteq InCustody
    <2>1. CASE Keeps(i)
      BY <2>1 DEF Keeps
    <2>2. CASE Takes(i)
      BY <2>2 DEF Takes
    <2>3. CASE GivesUp(i)
      BY <2>3 DEF GivesUp, Owners, LocalShape
    <2>4. QED
      BY <1>3, <2>1, <2>2, <2>3, PlaceStep
  <1>4. QED
    BY <1>1, <1>2, <1>3 DEF Next, Failing

\* Every step of the broker and the consumers is a step of their custody.
LEMMA CustodyStep ==
  ASSUME IInv, IInv', Owners, [Next]_vars
  PROVE  [Custody!Next]_<<InCustody, Settled>>
  <1>1. Settled \subseteq Settled' /\ Settled' \subseteq Copies
    BY BuriedStays, RowShapeStep DEF IInv, Settled
  <1>2. CASE \E c \in Copies : Send(c)
    <2>1. PICK c \in Copies : Send(c)
      BY <1>2
    <2>2. InCustody' = InCustody \cup {c} /\ Settled' = Settled
      BY <2>1 DEF Send, InCustody, Settled, rowVars, IInv, TypeOK
    <2>3. Custody!Accept(c)
      BY <2>2 DEF Custody!Accept, InCustody, Settled
    <2>4. QED
      BY <2>3 DEF Custody!Next
  <1>3. CASE \A c \in Copies : ~ Send(c)
    <2>1. InCustody' \subseteq InCustody
      BY <1>3, OnlySendAdds DEF IInv
    <2>2. ASSUME NEW c \in InCustody \ InCustody' PROVE c \in Settled'
      <3>1. place'[c] = "done" \/ place'[c] = "unsent"
        BY <2>2 DEF InCustody
      <3>2. place'[c] # "unsent"
        BY <2>2
        DEF InCustody, Next, Work, Tick, Send, Return, Deliver, Find, Insert, Claim, Latest,
            ClaimThrows, HandlerOk, HandlerThrows, HandlerTimesOut, ZombieEnds, MarkProcessed,
            MarkProcessedThrows, MarkFailed, Ack, AckThrows, Reject, Bury, BuryThrows, Crash,
            Restart,
            ChannelLost, Nack, BackToMain, brokerVars, vars, IInv, TypeOK
      <3>3. QED
        BY <2>2, <3>1, <3>2 DEF IInv, NothingLost, InCustody, Settled
    <2>3. Custody!Release
      BY <1>1, <2>1, <2>2 DEF Custody!Release, InCustody, Settled
    <2>4. QED
      BY <2>3 DEF Custody!Next
  <1>4. QED
    BY <1>2, <1>3

\* The broker and its consumers keep every copy until it is settled: they
\* implement Handover, with the copies that have arrived for what is kept.
THEOREM ImplementsHandover == Spec => KeptUntilSettled
  <1>1. Init => Custody!Init /\ Owners
    BY DEF Init, Custody!Init, Owners
  <1>2. IInv /\ Owners /\ [Next]_vars => Owners'
    BY OwnersStep DEF IInv
  <1>3. IInv /\ IInv' /\ Owners /\ [Next]_vars
        => [Custody!Next]_<<{c \in Copies : place[c] \notin {"unsent", "done"}},
                            {c \in Copies : row = "processed" \/ c \in buried}>>
    BY CustodyStep DEF InCustody, Settled
  <1>4. QED
    BY <1>1, <1>2, <1>3, Inductive, PTL DEF Spec, KeptUntilSettled, Custody!Spec
-----------------------------------------------------------------------------
(* Redelivery alone *)

\* Copies are sent, redelivered and returned at will, handlers fail, channels
\* close under running handlers and the dead queue refuses messages; but handlers
\* and timers keep to their time and the database does not fail.
Reliable == Prompt /\ Faults \subseteq {"handler", "dead", "channel"}

\* No consumer dies, and a handler that throws leaves nothing behind.
NoTrace == \A i \in Consumers : ~ Crash(i) /\ (HandlerThrows(i) => UNCHANGED effects)

AtWork == {"handle", "record", "release"}

\* A row with a token is under a lease that runs, and its holder is at work.
Attended ==
    token # NoToken =>
        lock > 0 /\ \E i \in Consumers : pc[i] \in AtWork /\ tok[i] = token

Calm == Attended /\ ~ excused

\* A step of i that takes no lease leaves the attendance of the others' lease.
LEMMA StillAttended ==
  ASSUME Attended, UNCHANGED rowVars, NEW i \in Consumers, OthersStay(i),
         pc[i] \in AtWork /\ tok[i] = token /\ token # NoToken =>
             pc'[i] \in AtWork /\ tok'[i] = tok[i]
  PROVE  Attended'
  BY DEF Attended, rowVars, OthersStay, AtWork

LEMMA CalmStep ==
  ASSUME Reliable, IInv, Calm, [Next]_vars, NoTrace
  PROVE  Calm'
  <1>a. /\ lock \in Int /\ NoLock \in Int /\ NoLock < 1 /\ Lease \in Nat
        /\ Lease > HandlerTimeout
        /\ tok \in [Consumers -> Tokens \cup {NoToken}] /\ NoToken \notin Tokens
        /\ left \in [Consumers -> 0..HandlerTimeout] /\ HandlerTimeout \in Nat
    BY LeaseNat, ConstantsOK DEF IInv, TypeOK
  <1>b. /\ Attended /\ ~ excused
        /\ \A i \in Consumers : ~ zombie[i]
        /\ token # NoToken => row = "open"
    BY DEF Calm, IInv, UnexcusedOnce, RowShape
  <1>1. CASE Tick
    <2>1. ASSUME token # NoToken PROVE lock' > 0
      <3>1. PICK i \in Consumers : pc[i] \in AtWork /\ tok[i] = token
        BY <1>b, <2>1 DEF Attended
      <3>2. ~ Overdue
        BY <1>1 DEF Tick, Reliable
      <3>3. pc[i] = "handle" /\ left[i] # 0
        BY <3>1, <3>2 DEF Overdue, Timed, AtWork
      <3>4. lock > left[i] /\ left[i] \in Nat
        BY <1>a, <3>3 DEF IInv, LeaseOutlives, Reliable
      <3>5. QED
        BY <1>1, <1>a, <3>3, <3>4 DEF Tick, Less
    <2>2. QED
      BY <1>1, <1>b, <2>1 DEF Tick, Calm, Attended, historyVars
  <1>2. CASE (\E c \in Copies : Send(c) \/ Return(c)) \/ UNCHANGED vars
    BY <1>2, <1>b DEF Send, Return, vars, rowVars, localVars, historyVars, Calm, Attended
  <1>3. ASSUME NEW i \in Consumers, Work(i) \/ Failing(i) PROVE Calm'
    <2>1. OthersStay(i) /\ ShapeOf(i)' /\ LocalTypeOK'
      BY <1>3, LocalStep DEF IInv
    <2>2. /\ ~ ClaimThrows(i) /\ ~ HandlerTimesOut(i)
          /\ ~ MarkProcessedThrows(i) /\ ~ ZombieEnds(i) /\ ~ Crash(i)
      BY <1>b DEF Reliable, NoTrace, ClaimThrows, HandlerTimesOut,
                  MarkProcessedThrows, ZombieEnds
    <2>3. CASE (Insert(i) /\ row = "absent") \/ (Claim(i) /\ ~ (pc'[i] = "latest"))
      <3>1. PICK t \in FreshTokens, age \in NowAges(i) :
                /\ Lock(t, age) /\ tok' = [tok EXCEPT ![i] = t]
                /\ row = "absent" \/ Lapsed(age)
        BY <2>3 DEF Insert, Claim, Goto, IInv, TypeOK
      <3>2. pc'[i] = "handle"
        BY <2>3 DEF Insert, Claim, Goto, IInv, TypeOK
      <3>3. token = NoToken
        <4>1. lock <= 0
          BY <3>1, FreeIsOver DEF Free, IInv
        <4>2. QED
          BY <1>a, <1>b, <4>1 DEF Attended
      <3>4. ~ excused'
        BY <1>b, <2>3, <3>3 DEF Insert, Claim, ExcuseTakeover
      <3>5. lock' > 0 /\ tok'[i] = token'
        <4>1. left[i] \in 0..HandlerTimeout /\ age = HandlerTimeout - left[i]
          BY <1>a, <3>1, AgesBounded DEF IInv, Reliable
        <4>2. QED
          BY <1>a, <3>1, <4>1 DEF Lock
      <3>6. QED
        BY <3>2, <3>4, <3>5 DEF Calm, Attended, AtWork
    <2>4. CASE MarkProcessed(i) \/ MarkFailed(i)
      <3>1. ~ excused'
        BY <1>b, <2>4 DEF MarkProcessed, MarkFailed, historyVars
      <3>2. CASE token' = NoToken
        BY <3>1, <3>2 DEF Calm, Attended
      <3>3. CASE token' # NoToken
        <4>1. UNCHANGED rowVars
          BY <2>4, <3>3 DEF MarkProcessed, MarkFailed, Complete, Release
        <4>2. ~ (pc[i] \in AtWork /\ tok[i] = token /\ token # NoToken)
          BY <1>b, <2>4, <3>3
          DEF MarkProcessed, MarkFailed, Complete, Release, HoldsLease, Reliable
        <4>3. Attended'
          BY <1>b, <2>1, <4>1, <4>2, StillAttended
        <4>4. QED
          BY <3>1, <4>3 DEF Calm
      <3>4. QED
        BY <3>2, <3>3
    <2>5. CASE ~ (\/ (Insert(i) /\ row = "absent") \/ (Claim(i) /\ ~ (pc'[i] = "latest"))
                  \/ MarkProcessed(i) \/ MarkFailed(i) \/ HandlerThrows(i))
      <3>1. UNCHANGED <<row, lock, token, excused>>
        BY <1>3, <2>2, <2>5
        DEF Work, Failing, Deliver, Find, Insert, Claim, Latest, HandlerOk, Ack, AckThrows,
            Reject, Bury, BuryThrows, Restart, ChannelLost, Goto, IInv, TypeOK, rowVars,
            historyVars
      <3>2. pc[i] \in AtWork =>
                pc'[i] \in AtWork /\ tok'[i] = tok[i]
        BY <1>3, <2>2, <2>5
        DEF Work, Failing, Deliver, Find, Insert, Claim, Latest, HandlerOk, Ack, AckThrows, Reject, Bury,
            BuryThrows, Restart, ChannelLost, Goto, IInv, TypeOK, AtWork
      <3>3. Attended'
        BY <1>b, <2>1, <3>1, <3>2, StillAttended DEF rowVars
      <3>4. QED
        BY <1>b, <3>1, <3>3 DEF Calm
    <2>6. CASE HandlerThrows(i)
      <3>1. UNCHANGED effects /\ effects < 2 /\ effects \in Nat
        BY <1>b, <2>6 DEF NoTrace, IInv, TypeOK, UnexcusedOnce
      <3>2. UNCHANGED excused /\ UNCHANGED rowVars
        BY <2>6, <3>1 DEF HandlerThrows, AddEffect
      <3>3. pc'[i] = "release" /\ tok'[i] = tok[i]
        BY <2>6 DEF HandlerThrows, Goto, IInv, TypeOK
      <3>4. Attended'
        BY <1>b, <2>1, <3>2, <3>3, StillAttended DEF AtWork
      <3>5. QED
        BY <1>b, <3>2, <3>4 DEF Calm
    <2>7. QED
      BY <2>3, <2>4, <2>5, <2>6
  <1>4. QED
    BY <1>1, <1>2, <1>3 DEF Next, Failing

\* The inbox does what it is for: as long as no consumer dies, handlers and
\* timers keep to their time, the database works and a handler that throws has
\* undone its work, this work takes effect at most once however often the event
\* was sent, failed and was delivered again, by any number of consumers; and
\* exactly once where it is recorded.
THEOREM RedeliveryNeverRepeats ==
  ASSUME Reliable
  PROVE  Spec /\ [][NoTrace]_vars => [](effects <= 1 /\ (row = "processed" => effects = 1))
  <1>1. Init => Calm
    BY DEF Init, Calm, Attended
  <1>2. IInv /\ Calm /\ [Next]_vars /\ [NoTrace]_vars => Calm'
    <2>1. IInv /\ Calm /\ UNCHANGED vars => Calm'
      BY DEF vars, Calm, Attended
    <2>2. QED
      BY <2>1, CalmStep
  <1>3. IInv /\ Calm => effects <= 1 /\ (row = "processed" => effects = 1)
    BY DEF IInv, Calm, UnexcusedOnce, TypeOK, EffectsMatch
  <1>4. QED
    BY <1>1, <1>2, <1>3, Inductive, PTL DEF Spec
=============================================================================

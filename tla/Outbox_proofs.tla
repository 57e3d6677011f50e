--------------------------- MODULE Outbox_proofs ---------------------------
(* Machine-checked proofs about Outbox, for any number of events, dispatchers *)
(* and tokens and any lease, backoff and retention.                           *)
EXTENDS Outbox, TLAPS, SequenceTheorems

\* A dispatcher has a message and a token exactly while it works on one.
LocalShape ==
    \A d \in Dispatchers :
        IF pc[d] \in Working THEN cur[d] \in Msgs /\ tok[d] \in Tokens
                             ELSE cur[d] = NoMsg /\ tok[d] = NoToken

\* Only unpublished rows are leased, and only registered events have rows.
RowShape ==
    \A m \in Msgs :
        /\ row[m] # "pending" => token[m] = NoToken
        /\ row[m] # "absent" => m \in registered

\* No token is in two hands, in two rows, or in a row its holder does not work on.
TokensApart ==
    /\ \A d, e \in Dispatchers :
          pc[d] \in Working /\ pc[e] \in Working /\ tok[d] = tok[e] => d = e
    /\ \A d \in Dispatchers, m \in Msgs :
          pc[d] \in Working /\ token[m] = tok[d] => cur[d] = m

\* Whatever may be marked published or deleted is already at the broker.
MarkedAreCopied ==
    /\ \A m \in registered : row[m] # "pending" => copies[m] > 0
    /\ \A d \in Dispatchers : pc[d] = "mark" => copies[cur[d]] > 0
    /\ \A d \in Dispatchers : expired[d] \subseteq {m \in registered : copies[m] > 0}

\* The broker and the dispatchers know registered events only.
OnlyRegistered ==
    /\ \A m \in Msgs : copies[m] > 0 => m \in registered
    /\ \A d \in Dispatchers : pc[d] \in Working => cur[d] \in registered

\* What holds of an event as long as nothing excused a second copy.
OneCopy(m) ==
    /\ copies[m] < 2
    /\ copies[m] > 0 => row[m] # "pending" \/ token[m] # NoToken
    /\ \A d \in Dispatchers : pc[d] \in Working /\ cur[d] = m =>
          \/ row[m] = "pending" /\ token[m] = tok[d]
          \/ pc[d] = "fail" /\ row[m] # "pending"
    /\ \A d \in Dispatchers : cur[d] = m =>
          /\ pc[d] \in {"read", "publish"} => copies[m] = 0
          /\ pc[d] = "fail" => copies[m] = 0 \/ row[m] # "pending"
    /\ \A d \in Dispatchers : m \in expired[d] => row[m] # "pending"

UnexcusedOnce == \A m \in Msgs \ excused : OneCopy(m)

\* A dispatcher whose time is not over still has the lease of its row, with that
\* much time left, unless the row is published already.
WithinItsTime(d) ==
    /\ pc[d] \in Working
    /\ \/ row[cur[d]] = "pending" /\ token[cur[d]] = tok[d] /\ lock[cur[d]] = hold[d]
       \/ row[cur[d]] = "published"

TimeIsLease == \A d \in Dispatchers : hold[d] > 0 => WithinItsTime(d)

IInv ==
    /\ TypeOK /\ LocalShape /\ RowShape /\ TokensApart
    /\ TimeIsLease /\ LeaseIsExclusive
    /\ MarkedAreCopied /\ OnlyRegistered /\ UnexcusedOnce

-----------------------------------------------------------------------------
(* Lemmas about the helpers *)

\* A batch is a sequence of events.
LEMMA BatchType == ASSUME NEW s \in Batches PROVE s \in Seq(Msgs)
  <1>1. PICK n \in 0..BatchSize : s \in [1..n -> Msgs]
    BY DEF Batches
  <1>2. n \in Nat
    BY ConstantsOK
  <1>3. QED
    BY <1>1, <1>2, SeqDef

\* OutboxRetryPolicy.GetDelay never exceeds the configured maximum.
LEMMA DelayBounded == \A n \in Int : GetDelay(n) \in 0..MaxBackoff
  BY ConstantsOK DEF GetDelay

-----------------------------------------------------------------------------
(* Types *)

\* The steps that leave the table alone.
LEMMA TableUntouched ==
  ASSUME NEW d \in Dispatchers,
         \/ Fetch(d) \/ Skip(d) \/ Read(d) \/ PublishOk(d) \/ PublishThrows(d)
         \/ SelectExpired(d) \/ Crash(d) \/ Start(d)
  PROVE  UNCHANGED tableVars
  BY DEF tableVars, columns, Fetch, Skip, Read, PublishOk, PublishThrows,
         SelectExpired, Crash, Start

LEMMA TypeInit == Init => TypeOK
  BY ConstantsOK DEF Init, TypeOK, TableTypeOK, LocalTypeOK, HistoryTypeOK, Stages

LEMMA TableTypeStep ==
  ASSUME TypeOK, [Next]_vars
  PROVE  TableTypeOK'
  <1> USE ConstantsOK DEF TypeOK, TableTypeOK, columns, tableVars
  <1>1. CASE Tick
    <2>1. avail' \in [Msgs -> 0..MaxBackoff] /\ lock' \in [Msgs -> 0..Lease]
      BY <1>1 DEF Tick, Less
    <2>2. age' \in [Msgs -> 0..(Retention + 1)]
      BY <1>1 DEF Tick
    <2>3. UNCHANGED <<row, token, attempts, older>>
      BY <1>1 DEF Tick
    <2>4. QED
      BY <2>1, <2>2, <2>3
  <1>2. ASSUME NEW m \in Msgs, Register(m) PROVE TableTypeOK'
    BY <1>2 DEF Register
  <1>3. ASSUME NEW d \in Dispatchers, NEW m \in Msgs, Claim(d, m) PROVE TableTypeOK'
    BY <1>3, SMTT(30) DEF Claim, SetClaimed, FreshTokens
  <1>4. ASSUME NEW d \in Dispatchers, ClaimThrows(d) PROVE TableTypeOK'
    <2>1. Head(todo[d]) \in Msgs
      BY <1>4 DEF ClaimThrows, LocalTypeOK
    <2>2. CASE UNCHANGED columns
      BY <1>4, <2>2 DEF ClaimThrows
    <2>3. ASSUME NEW t \in Tokens, SetClaimed(Head(todo[d]), t) PROVE TableTypeOK'
      BY <1>4, <2>1, <2>3 DEF ClaimThrows, SetClaimed
    <2>4. QED
      BY <1>4, <2>2, <2>3 DEF ClaimThrows, FreshTokens
  <1>5. ASSUME NEW d \in Dispatchers, MarkPublished(d) \/ MarkPublishedThrows(d)
        PROVE TableTypeOK'
    BY <1>5 DEF MarkPublished, MarkPublishedThrows, SetPublished
  <1>6. ASSUME NEW d \in Dispatchers, MarkFailed(d) \/ RoundThrows(d)
        PROVE TableTypeOK'
    <2> DEFINE n == tries[d] + 1
    <2>1. n \in Int
      BY DEF LocalTypeOK
    <2>2. GetDelay(n) \in 0..MaxBackoff
      BY <2>1, DelayBounded
    <2>3. QED
      BY <1>6, <2>2 DEF MarkFailed, RoundThrows, SetFailed
  <1>7. ASSUME NEW d \in Dispatchers, Sweep(d) PROVE TableTypeOK'
    BY <1>7 DEF Sweep, Reset
  <1>8. CASE UNCHANGED tableVars
    BY <1>8
  <1>9. QED
    BY <1>1, <1>2, <1>3, <1>4, <1>5, <1>6, <1>7, <1>8, TableUntouched
    DEF Next, Step, vars

LEMMA LocalTypeStep ==
  ASSUME TypeOK, LocalShape, [Next]_vars
  PROVE  LocalTypeOK'
  <1> USE ConstantsOK DEF TypeOK, LocalTypeOK, Stages, localVars
  <1>1. CASE Tick \/ (\E m \in Msgs : Register(m)) \/ UNCHANGED vars
    BY <1>1 DEF Tick, Register, vars
  <1>2. ASSUME NEW d \in Dispatchers, Fetch(d) PROVE LocalTypeOK'
    BY <1>2, BatchType DEF Fetch
  <1>3. ASSUME NEW d \in Dispatchers, NEW m \in Msgs, Claim(d, m) PROVE LocalTypeOK'
    BY <1>3 DEF Claim, FreshTokens
  <1>4. ASSUME NEW d \in Dispatchers, Skip(d) PROVE LocalTypeOK'
    BY <1>4 DEF Skip
  <1>5. ASSUME NEW d \in Dispatchers, NEW s \in {"poll", "down"}, LeaveRound(d, s)
        PROVE LocalTypeOK'
    BY <1>5 DEF LeaveRound
  <1>6. ASSUME NEW d \in Dispatchers, NextMessage(d) PROVE LocalTypeOK'
    BY <1>6 DEF NextMessage
  <1>7. ASSUME NEW d \in Dispatchers, Read(d) PROVE LocalTypeOK'
    <2>1. CASE NextMessage(d)
      BY <1>6, <2>1
    <2>2. CASE ~NextMessage(d)
      <3>1. cur[d] \in Msgs
        BY <1>7 DEF Read, LocalShape, Working
      <3>2. attempts[cur[d]] \in 0..AttemptCap
        BY <3>1 DEF TableTypeOK
      <3>3. QED
        BY <1>7, <2>2, <3>2 DEF Read
    <2>3. QED
      BY <2>1, <2>2
  <1>8. ASSUME NEW d \in Dispatchers,
               PublishOk(d) \/ PublishThrows(d) \/ MarkPublishedThrows(d) \/ Start(d)
        PROVE LocalTypeOK'
    BY <1>8 DEF PublishOk, PublishThrows, MarkPublishedThrows, Start
  <1>9. ASSUME NEW d \in Dispatchers, SelectExpired(d) PROVE LocalTypeOK'
    BY <1>9 DEF SelectExpired
  <1>10. QED
    BY <1>1, <1>2, <1>3, <1>4, <1>5, <1>6, <1>7, <1>8, <1>9
    DEF Next, Step, ClaimThrows, RoundThrows, Sweep, Crash, MarkPublished, MarkFailed

LEMMA HistoryTypeStep ==
  ASSUME TypeOK, LocalShape, [Next]_vars
  PROVE  HistoryTypeOK'
  <1> USE DEF TypeOK, HistoryTypeOK, historyVars
  <1>1. CASE Tick \/ (\E m \in Msgs : Register(m)) \/ UNCHANGED vars
    BY <1>1 DEF Tick, Register, vars
  <1>2. ASSUME NEW d \in Dispatchers,
               \/ Fetch(d) \/ Skip(d) \/ Read(d) \/ MarkPublished(d) \/ MarkFailed(d)
               \/ RoundThrows(d) \/ SelectExpired(d) \/ Sweep(d) \/ Crash(d) \/ Start(d)
        PROVE HistoryTypeOK'
    BY <1>2 DEF Fetch, Skip, Read, MarkPublished, MarkFailed, RoundThrows,
                SelectExpired, Sweep, Crash, Start
  <1>3. ASSUME NEW d \in Dispatchers, NEW m \in Msgs, Claim(d, m) PROVE HistoryTypeOK'
    BY <1>3 DEF Claim, ExcuseTakeover
  <1>4. ASSUME NEW d \in Dispatchers, ClaimThrows(d) PROVE HistoryTypeOK'
    <2>1. Head(todo[d]) \in Msgs
      BY <1>4 DEF ClaimThrows, LocalTypeOK
    <2>2. QED
      BY <1>4, <2>1 DEF ClaimThrows, ExcuseTakeover
  <1>5. ASSUME NEW d \in Dispatchers, PublishOk(d) \/ PublishThrows(d) \/ MarkPublishedThrows(d)
        PROVE HistoryTypeOK'
    <2>1. cur[d] \in Msgs
      BY <1>5 DEF PublishOk, PublishThrows, MarkPublishedThrows, LocalShape, Working
    <2>2. QED
      BY <1>5, <2>1 DEF PublishOk, PublishThrows, MarkPublishedThrows, AddCopy, Excuse
  <1>6. QED
    BY <1>1, <1>2, <1>3, <1>4, <1>5 DEF Next, Step

LEMMA LocalShapeStep ==
  ASSUME TypeOK, LocalShape, [Next]_vars
  PROVE  LocalShape'
  <1> USE DEF TypeOK, LocalTypeOK, LocalShape, Stages, Working, localVars
  <1>1. CASE Tick \/ (\E m \in Msgs : Register(m)) \/ UNCHANGED vars
    BY <1>1 DEF Tick, Register, vars
  <1>2. ASSUME NEW d \in Dispatchers, Fetch(d) \/ Skip(d) \/ SelectExpired(d) \/ Start(d)
        PROVE LocalShape'
    BY <1>2 DEF Fetch, Skip, SelectExpired, Start
  <1>3. ASSUME NEW d \in Dispatchers, NEW m \in Msgs, Claim(d, m) PROVE LocalShape'
    BY <1>3 DEF Claim, FreshTokens
  <1>4. ASSUME NEW d \in Dispatchers, NEW s \in {"poll", "down"}, LeaveRound(d, s)
        PROVE LocalShape'
    BY <1>4 DEF LeaveRound
  <1>5. ASSUME NEW d \in Dispatchers, NextMessage(d) PROVE LocalShape'
    BY <1>5 DEF NextMessage
  <1>6. ASSUME NEW d \in Dispatchers, Read(d) PROVE LocalShape'
    BY <1>5, <1>6 DEF Read
  <1>7. ASSUME NEW d \in Dispatchers,
               PublishOk(d) \/ PublishThrows(d) \/ MarkPublishedThrows(d)
        PROVE LocalShape'
    BY <1>7 DEF PublishOk, PublishThrows, MarkPublishedThrows
  <1>8. QED
    BY <1>1, <1>2, <1>3, <1>4, <1>5, <1>6, <1>7
    DEF Next, Step, ClaimThrows, RoundThrows, Sweep, Crash, MarkPublished, MarkFailed

LEMMA HoldTypeStep ==
  ASSUME TypeOK, [Next]_vars
  PROVE  hold' \in [Dispatchers -> 0..Lease]
  <1> USE ConstantsOK DEF TypeOK, LetGo
  <1>1. CASE Tick
    BY <1>1 DEF Tick, Less
  <1>2. ASSUME NEW d \in Dispatchers, Sweep(d) PROVE hold' \in [Dispatchers -> 0..Lease]
    BY <1>2 DEF Sweep
  <1>3. CASE ~ Tick /\ \A d \in Dispatchers : ~ Sweep(d)
    BY <1>3 DEF Next, Step, vars, Register, Fetch, Claim, Skip, ClaimThrows, Read, PublishOk,
                PublishThrows, MarkPublished, MarkPublishedThrows, MarkFailed, RoundThrows,
                SelectExpired, Crash, Start, NextMessage
  <1>4. QED
    BY <1>1, <1>2, <1>3

LEMMA TypeStep == TypeOK /\ LocalShape /\ [Next]_vars => TypeOK' /\ LocalShape'
  BY TableTypeStep, LocalTypeStep, HistoryTypeStep, HoldTypeStep, LocalShapeStep DEF TypeOK

\* Every reachable state of the outbox is well typed.
THEOREM TypeCorrect == Spec => []TypeOK
  <1>1. Init => TypeOK /\ LocalShape
    BY TypeInit DEF Init, LocalShape, Working
  <1>2. QED
    BY <1>1, TypeStep, PTL DEF Spec

-----------------------------------------------------------------------------
(* The inductive invariant *)

\* The steps that change neither the state, the lease nor the history of a row.
LEMMA QuietSteps ==
  ASSUME NEW d \in Dispatchers,
         \/ Fetch(d) \/ Skip(d) \/ Read(d) \/ SelectExpired(d) \/ Crash(d) \/ Start(d)
  PROVE  UNCHANGED <<columns, historyVars>>
  BY DEF Fetch, Skip, Read, SelectExpired, Crash, Start, tableVars, columns, historyVars

LEMMA RowShapeStep ==
  ASSUME IInv, [Next]_vars
  PROVE  RowShape'
  <1> USE DEF IInv, TypeOK, TableTypeOK, RowShape, columns, historyVars
  <1>1. CASE UNCHANGED <<row, token, registered>>
    BY <1>1
  <1>2. ASSUME NEW m \in Msgs, Register(m) PROVE RowShape'
    BY <1>2 DEF Register
  <1>3. ASSUME NEW m \in Msgs, NEW t \in Tokens, Claimable(m), SetClaimed(m, t),
               UNCHANGED registered
        PROVE RowShape'
    BY <1>3 DEF Claimable, SetClaimed
  <1>4. ASSUME NEW d \in Dispatchers, HoldsLease(d), SetPublished(cur[d]),
               UNCHANGED registered
        PROVE RowShape'
    BY <1>4 DEF HoldsLease, SetPublished
  <1>5. ASSUME NEW d \in Dispatchers, NEW delay, HoldsLease(d), SetFailed(cur[d], delay),
               UNCHANGED registered
        PROVE RowShape'
    BY <1>5 DEF HoldsLease, SetFailed
  <1>6. ASSUME NEW d \in Dispatchers, Sweep(d) PROVE RowShape'
    BY <1>6 DEF Sweep, Reset, tableVars
  <1>7. ASSUME NEW d \in Dispatchers, NEW m \in Msgs, Claim(d, m) PROVE RowShape'
    BY <1>3, <1>7 DEF Claim, FreshTokens
  <1>8. ASSUME NEW d \in Dispatchers, ClaimThrows(d) PROVE RowShape'
    <2>1. Head(todo[d]) \in Msgs
      BY <1>8 DEF ClaimThrows, LocalTypeOK
    <2>2. QED
      BY <1>1, <1>3, <1>8, <2>1 DEF ClaimThrows, FreshTokens
  <1>9. ASSUME NEW d \in Dispatchers,
               \/ MarkPublished(d) \/ MarkPublishedThrows(d) \/ MarkFailed(d) \/ RoundThrows(d)
        PROVE RowShape'
    BY <1>1, <1>4, <1>5, <1>9 DEF MarkPublished, MarkPublishedThrows, MarkFailed, RoundThrows
  <1>10. ASSUME NEW d \in Dispatchers, PublishOk(d) \/ PublishThrows(d) PROVE RowShape'
    BY <1>1, <1>10 DEF PublishOk, PublishThrows, tableVars
  <1>11. CASE Tick
    BY <1>1, <1>11 DEF Tick
  <1>12. QED
    BY <1>1, <1>2, <1>6, <1>7, <1>8, <1>9, <1>10, <1>11, QuietSteps DEF Next, Step, vars

LEMMA TokensApartStep ==
  ASSUME IInv, [Next]_vars
  PROVE  TokensApart'
  <1> USE DEF IInv, TypeOK, TableTypeOK, LocalTypeOK, TokensApart, LocalShape,
              Working, Stages, columns, tableVars, localVars
  <1>1. ASSUME NEW d \in Dispatchers, NEW m \in Msgs, Claim(d, m) PROVE TokensApart'
    <2>1. PICK t \in FreshTokens : SetClaimed(m, t) /\ tok' = [tok EXCEPT ![d] = t]
      BY <1>1 DEF Claim
    <2>2. /\ t \in Tokens
          /\ \A n \in Msgs : token[n] # t
          /\ \A e \in Dispatchers : tok[e] # t
      BY DEF FreshTokens
    <2>3. /\ pc' = [pc EXCEPT ![d] = "read"] /\ cur' = [cur EXCEPT ![d] = m]
          /\ token' = [token EXCEPT ![m] = t]
      BY <1>1, <2>1 DEF Claim, SetClaimed
    <2>4. QED
      BY <2>1, <2>2, <2>3, ConstantsOK, SMTT(30)
  <1>2. ASSUME NEW d \in Dispatchers, ClaimThrows(d) PROVE TokensApart'
    <2>1. UNCHANGED token \/ \E t \in FreshTokens : token' = [token EXCEPT ![Head(todo[d])] = t]
      BY <1>2 DEF ClaimThrows, SetClaimed
    <2>2. LeaveRound(d, "poll")
      BY <1>2 DEF ClaimThrows
    <2>3. \A e \in Dispatchers : pc'[e] \in Working =>
              pc[e] \in Working /\ tok'[e] = tok[e] /\ cur'[e] = cur[e]
      BY <2>2 DEF LeaveRound
    <2>4. Head(todo[d]) \in Msgs
      BY <1>2 DEF ClaimThrows
    <2>5. ASSUME NEW e \in Dispatchers, NEW m \in Msgs, token'[m] = tok[e]
          PROVE  token[m] = tok[e]
      <3>1. CASE UNCHANGED token
        BY <2>5, <3>1
      <3>2. ASSUME NEW t \in FreshTokens, token' = [token EXCEPT ![Head(todo[d])] = t]
            PROVE  token[m] = tok[e]
        BY <2>4, <2>5, <3>2 DEF FreshTokens
      <3>3. QED
        BY <2>1, <3>1, <3>2
    <2>6. (\A a, b \in Dispatchers :
              pc[a] \in Working /\ pc[b] \in Working /\ tok[a] = tok[b] => a = b)'
      BY <2>3
    <2>7. ASSUME NEW e \in Dispatchers, NEW m \in Msgs,
                 pc'[e] \in Working, token'[m] = tok'[e]
          PROVE  cur'[e] = m
      <3>1. pc[e] \in Working /\ tok'[e] = tok[e] /\ cur'[e] = cur[e]
        BY <2>3, <2>7
      <3>2. token[m] = tok[e]
        BY <2>5, <2>7, <3>1
      <3>3. QED
        BY <3>1, <3>2
    <2>8. QED
      BY <2>6, <2>7
  <1>3. ASSUME \A e \in Dispatchers : pc'[e] \in Working =>
                  pc[e] \in Working /\ tok'[e] = tok[e] /\ cur'[e] = cur[e],
               \A m \in Msgs : token'[m] \in {token[m], NoToken}
        PROVE TokensApart'
    <2>1. (\A d, e \in Dispatchers :
              pc[d] \in Working /\ pc[e] \in Working /\ tok[d] = tok[e] => d = e)'
      BY <1>3
    <2>2. ASSUME NEW d \in Dispatchers, NEW m \in Msgs,
                 pc'[d] \in Working, token'[m] = tok'[d]
          PROVE  cur'[d] = m
      <3>1. pc[d] \in Working /\ tok'[d] = tok[d] /\ cur'[d] = cur[d] /\ tok[d] \in Tokens
        BY <1>3, <2>2
      <3>2. token[m] = tok[d]
        BY <1>3, <2>2, <3>1, ConstantsOK
      <3>3. QED
        BY <3>1, <3>2
    <2>3. QED
      BY <2>1, <2>2
  <1>4. CASE Tick \/ (\E m \in Msgs : Register(m)) \/ UNCHANGED vars
    BY <1>3, <1>4 DEF Tick, Register, vars
  <1>5. ASSUME NEW d \in Dispatchers,
               \/ Fetch(d) \/ Skip(d) \/ PublishOk(d) \/ PublishThrows(d)
               \/ SelectExpired(d) \/ Start(d)
        PROVE TokensApart'
    BY <1>3, <1>5 DEF Fetch, Skip, PublishOk, PublishThrows, SelectExpired, Start
  <1>6. ASSUME NEW d \in Dispatchers, Read(d) \/ Crash(d) PROVE TokensApart'
    BY <1>3, <1>6 DEF Read, NextMessage, Crash, LeaveRound
  <1>7. ASSUME NEW d \in Dispatchers, MarkPublished(d) \/ MarkPublishedThrows(d)
        PROVE TokensApart'
    BY <1>3, <1>7 DEF MarkPublished, MarkPublishedThrows, SetPublished, NextMessage
  <1>8. ASSUME NEW d \in Dispatchers, MarkFailed(d) \/ RoundThrows(d)
        PROVE TokensApart'
    <2>1. \A m \in Msgs : token'[m] \in {token[m], NoToken}
      BY <1>8 DEF MarkFailed, RoundThrows, SetFailed
    <2>2. \A e \in Dispatchers : pc'[e] \in Working =>
              pc[e] \in Working /\ tok'[e] = tok[e] /\ cur'[e] = cur[e]
      BY <1>8, SMTT(30) DEF MarkFailed, RoundThrows, NextMessage, LeaveRound
    <2>3. QED
      BY <1>3, <2>1, <2>2
  <1>9. ASSUME NEW d \in Dispatchers, Sweep(d) PROVE TokensApart'
    <2>1. \A m \in Msgs : token'[m] \in {token[m], NoToken}
      BY <1>9 DEF Sweep, Reset
    <2>2. \A e \in Dispatchers : pc'[e] \in Working =>
              pc[e] \in Working /\ tok'[e] = tok[e] /\ cur'[e] = cur[e]
      BY <1>9 DEF Sweep, LeaveRound
    <2>3. QED
      BY <1>3, <2>1, <2>2
  <1>10. QED
    BY <1>1, <1>2, <1>4, <1>5, <1>6, <1>7, <1>8, <1>9 DEF Next, Step

\* What a step may do without disturbing MarkedAreCopied.
RowsKeep ==
    /\ registered \subseteq registered'
    /\ \A m \in registered' : row'[m] # "pending" =>
          \/ m \in registered /\ row[m] # "pending"
          \/ copies'[m] > 0

LocalsKeep ==
    /\ \A d \in Dispatchers : pc'[d] = "mark" =>
          \/ pc[d] = "mark" /\ cur'[d] = cur[d]
          \/ copies'[cur'[d]] > 0
    /\ \A d \in Dispatchers : \A m \in expired'[d] :
          m \in expired[d] \/ (m \in registered /\ copies[m] > 0)

CopiesGrow == \A m \in Msgs : copies[m] \in 0..2 /\ copies'[m] \in 0..2 /\ copies[m] <= copies'[m]

LEMMA KeepMarked ==
  ASSUME TypeOK, LocalShape, MarkedAreCopied, RowsKeep, LocalsKeep, CopiesGrow
  PROVE  MarkedAreCopied'
  <1>1. ASSUME NEW m \in registered', row'[m] # "pending" PROVE copies'[m] > 0
    <2>1. CASE m \in registered /\ row[m] # "pending"
      BY <2>1 DEF MarkedAreCopied, CopiesGrow, TypeOK, HistoryTypeOK
    <2>2. QED
      BY <1>1, <2>1 DEF RowsKeep
  <1>2. ASSUME NEW d \in Dispatchers, pc'[d] = "mark" PROVE copies'[cur'[d]] > 0
    <2>1. CASE pc[d] = "mark" /\ cur'[d] = cur[d]
      <3>1. cur[d] \in Msgs /\ copies[cur[d]] > 0
        BY <2>1 DEF MarkedAreCopied, LocalShape, Working
      <3>2. QED
        BY <2>1, <3>1 DEF CopiesGrow
    <2>2. QED
      BY <1>2, <2>1 DEF LocalsKeep
  <1>3. ASSUME NEW d \in Dispatchers, NEW m \in expired'[d]
        PROVE  m \in registered' /\ copies'[m] > 0
    <2>1. m \in registered /\ copies[m] > 0
      BY <1>3 DEF LocalsKeep, MarkedAreCopied
    <2>2. QED
      BY <2>1 DEF RowsKeep, CopiesGrow, TypeOK, HistoryTypeOK
  <1>4. QED
    BY <1>1, <1>2, <1>3 DEF MarkedAreCopied

LEMMA MarkedAreCopiedStep ==
  ASSUME IInv, [Next]_vars
  PROVE  MarkedAreCopied'
  <1> USE DEF IInv, TypeOK, HistoryTypeOK, columns, tableVars, localVars, historyVars
  <1>0. TypeOK'
    BY TypeStep
  <1>1. CASE Tick \/ UNCHANGED vars
    BY <1>1, KeepMarked DEF Tick, vars, RowsKeep, LocalsKeep, CopiesGrow
  <1>2. ASSUME NEW m \in Msgs, Register(m) PROVE MarkedAreCopied'
    BY <1>2, KeepMarked DEF Register, RowsKeep, LocalsKeep, CopiesGrow, TableTypeOK
  <1>3. ASSUME NEW d \in Dispatchers, Fetch(d) \/ Skip(d) \/ Start(d) PROVE MarkedAreCopied'
    BY <1>3, KeepMarked DEF Fetch, Skip, Start, RowsKeep, LocalsKeep, CopiesGrow, LocalTypeOK
  <1>4. ASSUME NEW d \in Dispatchers, NEW m \in Msgs, Claim(d, m) PROVE MarkedAreCopied'
    BY <1>4, KeepMarked DEF Claim, SetClaimed, RowsKeep, LocalsKeep, CopiesGrow, LocalTypeOK
  <1>5. ASSUME NEW d \in Dispatchers, NEW s \in {"poll", "down"}, LeaveRound(d, s)
        PROVE  LocalsKeep
    BY <1>5 DEF LeaveRound, LocalsKeep, LocalTypeOK
  <1>6. ASSUME NEW d \in Dispatchers, NextMessage(d) PROVE LocalsKeep
    BY <1>6 DEF NextMessage, LocalsKeep, LocalTypeOK
  <1>7. ASSUME NEW d \in Dispatchers, ClaimThrows(d) \/ RoundThrows(d) PROVE MarkedAreCopied'
    <2>1. RowsKeep /\ CopiesGrow
      BY <1>7 DEF ClaimThrows, RoundThrows, SetClaimed, SetFailed, RowsKeep, CopiesGrow
    <2>2. QED
      BY <1>5, <1>7, <2>1, KeepMarked DEF ClaimThrows, RoundThrows
  <1>8. ASSUME NEW d \in Dispatchers, Read(d) PROVE MarkedAreCopied'
    <2>1. RowsKeep /\ CopiesGrow
      BY <1>8 DEF Read, RowsKeep, CopiesGrow
    <2>2. LocalsKeep
      BY <1>6, <1>8 DEF Read, LocalsKeep, LocalTypeOK
    <2>3. QED
      BY <2>1, <2>2, KeepMarked
  <1>9. ASSUME NEW d \in Dispatchers, Crash(d) PROVE MarkedAreCopied'
    BY <1>5, <1>9, KeepMarked DEF Crash, RowsKeep, CopiesGrow
  <1>10. ASSUME NEW d \in Dispatchers, PublishOk(d) \/ PublishThrows(d)
         PROVE MarkedAreCopied'
    <2>1. cur[d] \in Msgs
      BY <1>10 DEF PublishOk, PublishThrows, LocalShape, Working
    <2>2. CopiesGrow
      BY <1>10, <2>1 DEF PublishOk, PublishThrows, AddCopy, CopiesGrow
    <2>3. pc'[d] = "mark" => copies'[cur[d]] > 0
      <3>1. CASE PublishOk(d)
        BY <2>1, <3>1 DEF PublishOk, AddCopy
      <3>2. CASE PublishThrows(d)
        BY <3>2 DEF PublishThrows, LocalTypeOK
      <3>3. QED
        BY <1>10, <3>1, <3>2
    <2>4. RowsKeep /\ LocalsKeep
      BY <1>10, <2>3 DEF PublishOk, PublishThrows, RowsKeep, LocalsKeep, LocalTypeOK
    <2>5. QED
      BY <2>2, <2>4, KeepMarked
  <1>11. ASSUME NEW d \in Dispatchers, MarkPublished(d) \/ MarkPublishedThrows(d)
         PROVE MarkedAreCopied'
    <2>1. cur[d] \in Msgs /\ copies[cur[d]] > 0
      BY <1>11 DEF MarkPublished, MarkPublishedThrows, LocalShape, Working, MarkedAreCopied
    <2>2. CopiesGrow
      BY <1>11 DEF MarkPublished, MarkPublishedThrows, CopiesGrow
    <2>3. RowsKeep
      BY <1>11, <2>1 DEF MarkPublished, MarkPublishedThrows, SetPublished, RowsKeep, TableTypeOK
    <2>4. LocalsKeep
      BY <1>6, <1>11 DEF MarkPublished, MarkPublishedThrows, LocalsKeep, LocalTypeOK
    <2>5. QED
      BY <2>2, <2>3, <2>4, KeepMarked
  <1>12. ASSUME NEW d \in Dispatchers, MarkFailed(d) PROVE MarkedAreCopied'
    BY <1>6, <1>12, KeepMarked DEF MarkFailed, SetFailed, RowsKeep, CopiesGrow
  <1>13. ASSUME NEW d \in Dispatchers, SelectExpired(d) PROVE MarkedAreCopied'
    <2>1. \A m \in expired'[d] : m \in registered /\ copies[m] > 0
      BY <1>13 DEF SelectExpired, RowShape, MarkedAreCopied, LocalTypeOK
    <2>2. RowsKeep /\ CopiesGrow
      BY <1>13 DEF SelectExpired, RowsKeep, CopiesGrow
    <2>3. LocalsKeep
      BY <1>13, <2>1 DEF SelectExpired, LocalsKeep, LocalTypeOK
    <2>4. QED
      BY <2>2, <2>3, KeepMarked
  <1>14. ASSUME NEW d \in Dispatchers, Sweep(d) PROVE MarkedAreCopied'
    <2>1. \A m \in expired[d] : copies[m] > 0
      BY DEF MarkedAreCopied
    <2>2. RowsKeep /\ CopiesGrow
      BY <1>14, <2>1 DEF Sweep, Reset, RowsKeep, CopiesGrow
    <2>3. QED
      BY <1>5, <1>14, <2>2, KeepMarked DEF Sweep
  <1>15. QED
    BY <1>1, <1>2, <1>3, <1>4, <1>7, <1>8, <1>9, <1>10, <1>11, <1>12, <1>13, <1>14
    DEF Next, Step

LEMMA OnlyRegisteredStep ==
  ASSUME IInv, [Next]_vars
  PROVE  OnlyRegistered'
  <1> USE DEF IInv, TypeOK, HistoryTypeOK, LocalTypeOK, OnlyRegistered, Working,
              columns, tableVars, localVars, historyVars
  <1>1. CASE Tick \/ (\E m \in Msgs : Register(m)) \/ UNCHANGED vars
    BY <1>1 DEF Tick, Register, vars
  <1>2. ASSUME NEW d \in Dispatchers, Fetch(d) \/ Skip(d) \/ SelectExpired(d) \/ Start(d)
        PROVE OnlyRegistered'
    BY <1>2 DEF Fetch, Skip, SelectExpired, Start
  <1>3. ASSUME NEW d \in Dispatchers, NEW m \in Msgs, Claim(d, m) PROVE OnlyRegistered'
    BY <1>3 DEF Claim, Claimable, RowShape
  <1>4. ASSUME NEW d \in Dispatchers, NEW s \in {"poll", "down"}, LeaveRound(d, s),
               UNCHANGED <<registered, copies>>
        PROVE OnlyRegistered'
    BY <1>4 DEF LeaveRound
  <1>5. ASSUME NEW d \in Dispatchers, NextMessage(d), UNCHANGED <<registered, copies>>
        PROVE OnlyRegistered'
    BY <1>5 DEF NextMessage
  <1>6. ASSUME NEW d \in Dispatchers, Read(d) PROVE OnlyRegistered'
    BY <1>5, <1>6 DEF Read
  <1>7. ASSUME NEW d \in Dispatchers,
               PublishOk(d) \/ PublishThrows(d) \/ MarkPublishedThrows(d)
        PROVE OnlyRegistered'
    <2>1. cur[d] \in registered
      BY <1>7 DEF PublishOk, PublishThrows, MarkPublishedThrows
    <2>2. \A m \in Msgs \ {cur[d]} : copies'[m] = copies[m]
      BY <1>7 DEF PublishOk, PublishThrows, MarkPublishedThrows, AddCopy
    <2>3. UNCHANGED <<registered, cur>> /\ \A e \in Dispatchers \ {d} : pc'[e] = pc[e]
      BY <1>7 DEF PublishOk, PublishThrows, MarkPublishedThrows
    <2>4. QED
      BY <2>1, <2>2, <2>3
  <1>8. QED
    BY <1>1, <1>2, <1>3, <1>4, <1>5, <1>6, <1>7
    DEF Next, Step, ClaimThrows, RoundThrows, Sweep, Crash, MarkPublished, MarkFailed

-----------------------------------------------------------------------------
(* The time a lease was granted for *)

\* The step gives nobody a lease, and whoever keeps time keeps its row and lease.
TimesKeep ==
    \A d \in Dispatchers : hold'[d] > 0 =>
        /\ hold[d] > 0 /\ cur'[d] = cur[d]
        /\ WithinItsTime(d) => WithinItsTime(d)'

LEMMA KeepTimes ==
  ASSUME IInv, TimesKeep
  PROVE  TimeIsLease' /\ LeaseIsExclusive'
  BY DEF IInv, TimesKeep, TimeIsLease, LeaseIsExclusive

\* No time is left to anyone who works on a claimable row.
LEMMA ClaimableIsOver ==
  ASSUME IInv, NEW m \in Msgs, Claimable(m), NEW d \in Dispatchers, hold[d] > 0
  PROVE  cur[d] # m
  BY DEF IInv, TypeOK, TableTypeOK, TimeIsLease, WithinItsTime, Claimable

\* Nobody else has time left on a row whose lease a dispatcher holds.
LEMMA HolderIsOnly ==
  ASSUME IInv, NEW d \in Dispatchers, HoldsLease(d), pc[d] \in Working,
         NEW e \in Dispatchers, hold[e] > 0, cur[e] = cur[d]
  PROVE  e = d
  <1>1. token[cur[d]] = tok[d] /\ token[cur[d]] = tok[e] /\ pc[e] \in Working
    BY DEF IInv, TimeIsLease, WithinItsTime, HoldsLease
  <1>2. QED
    BY <1>1 DEF IInv, TokensApart

LEMMA TimeStep ==
  ASSUME IInv, [Next]_vars
  PROVE  TimeIsLease' /\ LeaseIsExclusive'
  <1> USE DEF columns, tableVars, localVars
  <1>a. /\ row \in [Msgs -> {"absent", "pending", "published"}]
        /\ token \in [Msgs -> Tokens \cup {NoToken}] /\ lock \in [Msgs -> 0..Lease]
        /\ pc \in [Dispatchers -> Stages] /\ hold \in [Dispatchers -> 0..Lease]
        /\ cur \in [Dispatchers -> Msgs \cup {NoMsg}]
        /\ tok \in [Dispatchers -> Tokens \cup {NoToken}]
        /\ Lease \in Nat \ {0} /\ NoMsg \notin Msgs
    BY ConstantsOK DEF IInv, TypeOK, TableTypeOK, LocalTypeOK
  <1>b. \A d \in Dispatchers : pc[d] \in Working => cur[d] \in Msgs
    BY DEF IInv, LocalShape
  <1>c. \A d \in Dispatchers : hold[d] > 0 => pc[d] \in Working
    BY DEF IInv, TimeIsLease, WithinItsTime
  <1>1. CASE Tick
    <2>1. TimesKeep
      BY <1>1, <1>a, <1>b DEF Tick, Less, TimesKeep, WithinItsTime
    <2>2. QED
      BY <2>1, KeepTimes
  <1>2. ASSUME NEW m \in Msgs, Register(m) PROVE TimesKeep
    BY <1>2, <1>a, <1>b DEF Register, TimesKeep, WithinItsTime
  <1>3. ASSUME NEW d \in Dispatchers, NEW m \in Msgs, Claim(d, m)
        PROVE  TimeIsLease' /\ LeaseIsExclusive'
    <2>1. PICK t \in FreshTokens : SetClaimed(m, t) /\ tok' = [tok EXCEPT ![d] = t]
      BY <1>3 DEF Claim
    <2>2. /\ pc' = [pc EXCEPT ![d] = "read"] /\ cur' = [cur EXCEPT ![d] = m]
          /\ token' = [token EXCEPT ![m] = t] /\ lock' = [lock EXCEPT ![m] = Lease]
          /\ hold' = [hold EXCEPT ![d] = Lease] /\ row' = row /\ row[m] = "pending"
      BY <1>3, <2>1 DEF Claim, SetClaimed, Claimable
    <2>3. \A e \in Dispatchers : hold[e] > 0 => cur[e] # m
      BY <1>3, ClaimableIsOver DEF Claim
    <2>4. WithinItsTime(d)'
      BY <1>a, <2>1, <2>2 DEF WithinItsTime, Working
    <2>5. ASSUME NEW e \in Dispatchers, e # d, hold'[e] > 0
          PROVE  hold[e] > 0 /\ cur'[e] = cur[e] /\ cur[e] # m /\ WithinItsTime(e)'
      <3>1. hold[e] > 0 /\ cur'[e] = cur[e] /\ cur[e] # m
        BY <1>a, <2>2, <2>3, <2>5
      <3>2. WithinItsTime(e) /\ cur[e] \in Msgs
        BY <1>b, <3>1 DEF IInv, TimeIsLease, WithinItsTime
      <3>3. /\ pc'[e] = pc[e] /\ tok'[e] = tok[e] /\ hold'[e] = hold[e]
            /\ token'[cur[e]] = token[cur[e]] /\ lock'[cur[e]] = lock[cur[e]]
        BY <1>a, <2>1, <2>2, <2>5, <3>1, <3>2
      <3>4. QED
        BY <2>2, <3>1, <3>2, <3>3 DEF WithinItsTime
    <2>6. cur'[d] = m
      BY <1>a, <2>2
    <2>7. TimeIsLease'
      BY <2>4, <2>5 DEF TimeIsLease
    <2>8. LeaseIsExclusive'
      BY <2>5, <2>6 DEF IInv, LeaseIsExclusive
    <2>9. QED
      BY <2>7, <2>8
  <1>4. ASSUME NEW d \in Dispatchers, ClaimThrows(d) PROVE TimesKeep
    <2>1. pc[d] \notin Working /\ LeaveRound(d, "poll") /\ hold' = hold
      BY <1>4 DEF ClaimThrows, Working
    <2>2. \A e \in Dispatchers : hold[e] > 0 =>
              e # d /\ pc'[e] = pc[e] /\ cur'[e] = cur[e] /\ tok'[e] = tok[e]
      BY <1>a, <1>c, <2>1 DEF LeaveRound
    <2>3. \A e \in Dispatchers : hold[e] > 0 =>
              UNCHANGED <<row[cur[e]], token[cur[e]], lock[cur[e]]>>
      <3>1. CASE UNCHANGED columns
        BY <3>1, <2>2
      <3>2. ASSUME NEW t \in FreshTokens, Claimable(Head(todo[d])), SetClaimed(Head(todo[d]), t)
            PROVE  \A e \in Dispatchers : hold[e] > 0 =>
                      UNCHANGED <<row[cur[e]], token[cur[e]], lock[cur[e]]>>
        <4>1. Head(todo[d]) \in Msgs
          BY <1>4 DEF ClaimThrows, IInv, TypeOK, LocalTypeOK
        <4>2. \A e \in Dispatchers : hold[e] > 0 => cur[e] # Head(todo[d]) /\ cur[e] \in Msgs
          BY <1>b, <1>c, <3>2, <4>1, ClaimableIsOver
        <4>3. QED
          BY <1>a, <2>2, <3>2, <4>2 DEF SetClaimed
      <3>3. QED
        BY <1>4, <3>1, <3>2 DEF ClaimThrows
    <2>4. QED
      BY <2>1, <2>2, <2>3 DEF TimesKeep, WithinItsTime
  <1>5. ASSUME NEW d \in Dispatchers, Fetch(d) \/ Skip(d) \/ SelectExpired(d) \/ Start(d)
        PROVE  TimesKeep
    <2>1. pc[d] \notin Working
      BY <1>5 DEF Fetch, Skip, SelectExpired, Start, Working
    <2>2. /\ UNCHANGED <<row, token, lock, cur, tok, hold>>
          /\ \A e \in Dispatchers \ {d} : pc'[e] = pc[e]
      BY <1>5, <1>a DEF Fetch, Skip, SelectExpired, Start
    <2>3. QED
      BY <1>c, <2>1, <2>2 DEF TimesKeep, WithinItsTime
  <1>6. ASSUME NEW d \in Dispatchers, PublishOk(d) \/ PublishThrows(d) PROVE TimesKeep
    BY <1>6, <1>a DEF PublishOk, PublishThrows, TimesKeep, WithinItsTime, Working
  <1>7. ASSUME NEW d \in Dispatchers, NextMessage(d) \/ (LeaveRound(d, "poll") /\ LetGo(d))
                                      \/ (LeaveRound(d, "down") /\ LetGo(d))
        PROVE  \A e \in Dispatchers : hold'[e] > 0 =>
                  /\ e # d /\ hold'[e] = hold[e] /\ pc'[e] = pc[e]
                  /\ cur'[e] = cur[e] /\ tok'[e] = tok[e]
    BY <1>7, <1>a DEF NextMessage, LeaveRound, LetGo
  <1>8. ASSUME NEW d \in Dispatchers, Read(d) PROVE TimesKeep
    <2>1. UNCHANGED <<row, token, lock>>
      BY <1>8 DEF Read
    <2>2. CASE NextMessage(d)
      BY <1>7, <2>1, <2>2 DEF TimesKeep, WithinItsTime
    <2>3. CASE UNCHANGED <<todo, cur, tok, expired, hold>> /\ pc' = [pc EXCEPT ![d] = "publish"]
      BY <1>a, <2>1, <2>3 DEF TimesKeep, WithinItsTime, Working
    <2>4. QED
      BY <1>8, <2>2, <2>3 DEF Read
  <1>9. ASSUME NEW d \in Dispatchers, Crash(d) PROVE TimesKeep
    BY <1>7, <1>9 DEF Crash, TimesKeep, WithinItsTime
  <1>10. ASSUME NEW d \in Dispatchers, MarkPublished(d) PROVE TimesKeep
    <2>1. NextMessage(d)
      BY <1>10 DEF MarkPublished
    <2>2. CASE UNCHANGED columns
      BY <1>7, <2>1, <2>2 DEF TimesKeep, WithinItsTime
    <2>3. CASE HoldsLease(d) /\ SetPublished(cur[d])
      BY <1>7, <1>a, <1>b, <2>1, <2>3 DEF TimesKeep, WithinItsTime, SetPublished, HoldsLease
    <2>4. QED
      BY <1>10, <2>2, <2>3 DEF MarkPublished
  <1>11. ASSUME NEW d \in Dispatchers, MarkPublishedThrows(d) PROVE TimesKeep
    <2>1. UNCHANGED <<cur, tok, hold>> /\ pc' = [pc EXCEPT ![d] = "fail"]
      BY <1>11 DEF MarkPublishedThrows
    <2>2. UNCHANGED columns \/ (HoldsLease(d) /\ SetPublished(cur[d]))
      BY <1>11 DEF MarkPublishedThrows
    <2>3. QED
      BY <1>a, <1>b, <2>1, <2>2 DEF TimesKeep, WithinItsTime, SetPublished, HoldsLease, Working
  <1>12. ASSUME NEW d \in Dispatchers, MarkFailed(d) \/ RoundThrows(d) PROVE TimesKeep
    <2>1. NextMessage(d) \/ (LeaveRound(d, "poll") /\ LetGo(d))
      BY <1>12 DEF MarkFailed, RoundThrows
    <2>2. CASE UNCHANGED columns
      BY <1>7, <2>1, <2>2 DEF TimesKeep, WithinItsTime
    <2>3. ASSUME NEW delay, pc[d] \in Working, HoldsLease(d), SetFailed(cur[d], delay)
          PROVE  TimesKeep
      <3>1. ASSUME NEW e \in Dispatchers, hold'[e] > 0
            PROVE  e # d /\ hold[e] > 0 /\ cur[e] \in Msgs /\ cur[e] # cur[d]
        <4>1. e # d /\ hold[e] > 0 /\ cur[e] \in Msgs
          BY <1>7, <1>b, <1>c, <2>1, <3>1
        <4>2. QED
          BY <2>3, <4>1, HolderIsOnly
      <3>2. \A e \in Dispatchers : hold'[e] > 0 =>
                UNCHANGED <<token[cur[e]], lock[cur[e]], row[cur[e]], cur[e]>>
        BY <1>7, <1>a, <2>1, <2>3, <3>1 DEF SetFailed
      <3>3. QED
        BY <1>7, <2>1, <3>1, <3>2 DEF TimesKeep, WithinItsTime
    <2>4. QED
      BY <1>12, <2>2, <2>3 DEF MarkFailed, RoundThrows, Working
  <1>13. ASSUME NEW d \in Dispatchers, Sweep(d) PROVE TimesKeep
    <2>1. \A e \in Dispatchers \ {d} : pc'[e] = pc[e] /\ cur'[e] = cur[e] /\ tok'[e] = tok[e]
      BY <1>13, <1>a DEF Sweep, LeaveRound
    <2>2. \A e \in Dispatchers : hold'[e] > 0 => hold[e] > 0 /\ hold'[e] = hold[e]
      BY <1>13, <1>a DEF Sweep
    <2>3. hold[d] > 0 => FALSE
      BY <1>13, <1>c DEF Sweep, Working
    <2>4. CASE UNCHANGED <<tableVars, hold>>
      BY <2>1, <2>2, <2>3, <2>4 DEF TimesKeep, WithinItsTime
    <2>5. CASE ~ UNCHANGED <<tableVars, hold>>
      <3>1. ASSUME NEW e \in Dispatchers, hold'[e] > 0
            PROVE  cur[e] \in Msgs /\ cur[e] \notin expired[d]
        BY <1>13, <1>b, <1>c, <2>2, <2>5, <3>1 DEF Sweep
      <3>2. \A e \in Dispatchers : hold'[e] > 0 =>
                /\ row'[cur[e]] = row[cur[e]] /\ token'[cur[e]] = token[cur[e]]
                /\ lock'[cur[e]] = lock[cur[e]]
        BY <1>13, <2>5, <3>1 DEF Sweep, Reset
      <3>3. QED
        BY <2>1, <2>2, <2>3, <3>2 DEF TimesKeep, WithinItsTime
    <2>6. QED
      BY <2>4, <2>5
  <1>14. CASE UNCHANGED vars
    <2>1. TimesKeep
      BY <1>14 DEF vars, TimesKeep, WithinItsTime
    <2>2. QED
      BY <2>1, KeepTimes
  <1>15. QED
    BY <1>1, <1>2, <1>3, <1>4, <1>5, <1>6, <1>8, <1>9, <1>10, <1>11, <1>12, <1>13, <1>14,
       KeepTimes DEF Next, Step

-----------------------------------------------------------------------------
(* At most one copy of an event nothing excused *)

\* The step does not change what OneCopy says of the row m ...
RowSame(m) ==
    /\ row'[m] = "pending" <=> row[m] = "pending"
    /\ token'[m] = token[m]
    /\ copies'[m] = copies[m]

\* ... nor of the dispatchers that work on it, apart from those that leave it.
WorkersSame(m) ==
    \A d \in Dispatchers :
        /\ cur'[d] = m => /\ cur[d] = m /\ tok'[d] = tok[d]
                          /\ \/ pc'[d] = pc[d]
                             \/ pc[d] = "read" /\ pc'[d] = "publish"
                             \/ pc[d] = "publish" /\ pc'[d] = "fail"
        /\ m \in expired'[d] => m \in expired[d] \/ row[m] # "pending"

LEMMA KeepOneCopy ==
  ASSUME NEW m \in Msgs, OneCopy(m), RowSame(m), WorkersSame(m)
  PROVE  OneCopy(m)'
  <1>1. (/\ copies[m] < 2
         /\ copies[m] > 0 => row[m] # "pending" \/ token[m] # NoToken)'
    BY DEF OneCopy, RowSame
  <1>2. ASSUME NEW d \in Dispatchers, cur'[d] = m, pc'[d] \in Working
        PROVE  \/ row'[m] = "pending" /\ token'[m] = tok'[d]
               \/ pc'[d] = "fail" /\ row'[m] # "pending"
    BY <1>2 DEF OneCopy, RowSame, WorkersSame, Working
  <1>3. ASSUME NEW d \in Dispatchers, cur'[d] = m
        PROVE  /\ pc'[d] \in {"read", "publish"} => copies'[m] = 0
               /\ pc'[d] = "fail" => copies'[m] = 0 \/ row'[m] # "pending"
    BY <1>3 DEF OneCopy, RowSame, WorkersSame
  <1>4. ASSUME NEW d \in Dispatchers, m \in expired'[d] PROVE row'[m] # "pending"
    BY <1>4 DEF OneCopy, RowSame, WorkersSame
  <1>5. QED
    BY <1>1, <1>2, <1>3, <1>4 DEF OneCopy

\* The worker that holds the lease of an unexcused event is alone with it.
LEMMA HolderAlone ==
  ASSUME IInv, NEW d \in Dispatchers, NEW m \in Msgs, OneCopy(m),
         pc[d] \in Working, cur[d] = m, row[m] = "pending"
  PROVE  /\ token[m] = tok[d]
         /\ \A e \in Dispatchers : pc[e] \in Working /\ cur[e] = m => e = d
  BY DEF IInv, OneCopy, TokensApart

\* Nobody works on a claimable event unless its lease is being taken over, and
\* then the takeover is excused.
LEMMA ClaimIsFresh ==
  ASSUME IInv, NEW m \in Msgs, Claimable(m), ~TakesOver(m), OneCopy(m)
  PROVE  /\ copies[m] = 0
         /\ \A e \in Dispatchers : cur[e] # m
         /\ \A e \in Dispatchers : m \notin expired[e]
  <1>1. row[m] = "pending" /\ token[m] = NoToken
    BY DEF Claimable, TakesOver
  <1>2. copies[m] = 0
    BY <1>1 DEF OneCopy, IInv, TypeOK, HistoryTypeOK
  <1>3. ASSUME NEW e \in Dispatchers, cur[e] = m PROVE FALSE
    <2>1. pc[e] \in Working /\ tok[e] \in Tokens
      BY <1>3, ConstantsOK DEF IInv, LocalShape
    <2>2. QED
      BY <1>1, <1>3, <2>1, ConstantsOK DEF OneCopy
  <1>4. QED
    BY <1>1, <1>2, <1>3 DEF OneCopy

LEMMA OneCopyStep ==
  ASSUME IInv, [Next]_vars, NEW m \in Msgs, m \notin excused, m \notin excused'
  PROVE  OneCopy(m)'
  <1>0. OneCopy(m)
    BY DEF IInv, UnexcusedOnce
  <1> USE DEF columns, tableVars, localVars, historyVars
  <1> DEFINE IsType == TypeOK /\ LocalShape
  <1>a. IsType
    BY DEF IInv
  <1> HIDE DEF IsType
  <1>1. CASE Tick \/ UNCHANGED vars
    BY <1>0, <1>1, KeepOneCopy DEF Tick, vars, RowSame, WorkersSame
  <1>2. ASSUME NEW n \in Msgs, Register(n) PROVE OneCopy(m)'
    <2>1. CASE n # m
      <3>1. RowSame(m)
        BY <1>2, <1>a, <2>1 DEF Register, RowSame, IsType, TypeOK, TableTypeOK
      <3>2. WorkersSame(m)
        BY <1>2 DEF Register, WorkersSame
      <3>3. QED
        BY <1>0, <3>1, <3>2, KeepOneCopy
    <2>2. CASE n = m
      <3>1. m \notin registered
        BY <1>2, <2>2 DEF Register
      <3>2. copies[m] = 0 /\ \A e \in Dispatchers : m \notin expired[e]
        BY <3>1 DEF IInv, OnlyRegistered, MarkedAreCopied, TypeOK, HistoryTypeOK
      <3>3. \A e \in Dispatchers : cur[e] # m
        BY <3>1, ConstantsOK DEF IInv, OnlyRegistered, LocalShape
      <3>4. UNCHANGED <<copies, cur, expired>>
        BY <1>2 DEF Register
      <3>5. QED
        BY <3>2, <3>3, <3>4 DEF OneCopy
    <2>3. QED
      BY <2>1, <2>2
  <1>3. ASSUME NEW d \in Dispatchers, Fetch(d) \/ Skip(d) \/ Start(d) PROVE OneCopy(m)'
    <2>1. RowSame(m)
      BY <1>3 DEF Fetch, Skip, Start, RowSame
    <2>2. pc[d] \notin Working /\ cur[d] = NoMsg
      BY <1>3, <1>a DEF Fetch, Skip, Start, IsType, LocalShape, Working
    <2>3. WorkersSame(m)
      BY <1>3, <1>a, <2>2, ConstantsOK
      DEF Fetch, Skip, Start, WorkersSame, IsType, TypeOK, LocalTypeOK
    <2>4. QED
      BY <1>0, <2>1, <2>3, KeepOneCopy
  <1>4. ASSUME NEW d \in Dispatchers, NEW s \in {"poll", "down"}, LeaveRound(d, s)
        PROVE  WorkersSame(m)
    BY <1>4, <1>a, ConstantsOK DEF LeaveRound, WorkersSame, IsType, TypeOK, LocalTypeOK
  <1>5. ASSUME NEW d \in Dispatchers, NextMessage(d) PROVE WorkersSame(m)
    BY <1>5, <1>a, ConstantsOK DEF NextMessage, WorkersSame, IsType, TypeOK, LocalTypeOK
  <1>6. ASSUME NEW d \in Dispatchers, NEW n \in Msgs, Claim(d, n) PROVE OneCopy(m)'
    <2>1. PICK t \in FreshTokens : SetClaimed(n, t) /\ tok' = [tok EXCEPT ![d] = t]
      BY <1>6 DEF Claim
    <2>2. /\ token' = [token EXCEPT ![n] = t] /\ cur' = [cur EXCEPT ![d] = n]
          /\ pc' = [pc EXCEPT ![d] = "read"] /\ UNCHANGED <<row, copies, expired>>
      BY <1>6, <2>1 DEF Claim, SetClaimed
    <2>3. /\ token \in [Msgs -> Tokens \cup {NoToken}] /\ cur \in [Dispatchers -> Msgs \cup {NoMsg}]
          /\ tok \in [Dispatchers -> Tokens \cup {NoToken}] /\ pc \in [Dispatchers -> Stages]
      BY <1>a DEF IsType, TypeOK, TableTypeOK, LocalTypeOK
    <2>4. CASE n # m
      BY <1>0, <2>1, <2>2, <2>3, <2>4, KeepOneCopy DEF RowSame, WorkersSame
    <2>5. CASE n = m
      <3>1. Claimable(m) /\ ~TakesOver(m) /\ row[m] = "pending"
        BY <1>6, <2>5 DEF Claim, ExcuseTakeover, Claimable
      <3>2. /\ copies[m] = 0 /\ \A e \in Dispatchers : cur[e] # m
            /\ \A e \in Dispatchers : m \notin expired[e]
        BY <1>0, <3>1, ClaimIsFresh
      <3>3. \A e \in Dispatchers : cur'[e] = m => e = d
        BY <2>2, <2>3, <3>2
      <3>4. row'[m] = "pending" /\ token'[m] = tok'[d] /\ pc'[d] = "read" /\ copies'[m] = 0
        BY <2>1, <2>2, <2>3, <2>5, <3>1, <3>2
      <3>5. QED
        BY <2>2, <3>2, <3>3, <3>4 DEF OneCopy
    <2>6. QED
      BY <2>4, <2>5
  <1>7. ASSUME NEW d \in Dispatchers, ClaimThrows(d) PROVE OneCopy(m)'
    <2> DEFINE n == Head(todo[d])
    <2>1. WorkersSame(m)
      BY <1>4, <1>7 DEF ClaimThrows
    <2>2. CASE UNCHANGED columns
      BY <1>0, <1>7, <2>1, <2>2, KeepOneCopy DEF ClaimThrows, RowSame
    <2>3. ASSUME NEW t \in FreshTokens, Claimable(n), SetClaimed(n, t), ExcuseTakeover(n)
          PROVE  OneCopy(m)'
      <3>1. token' = [token EXCEPT ![n] = t] /\ UNCHANGED <<row, copies>>
        BY <1>7, <2>3 DEF ClaimThrows, SetClaimed
      <3>2. token \in [Msgs -> Tokens \cup {NoToken}]
        BY <1>a DEF IsType, TypeOK, TableTypeOK
      <3>3. CASE n # m
        BY <1>0, <2>1, <3>1, <3>2, <3>3, KeepOneCopy DEF RowSame
      <3>4. CASE n = m
        <4>1. Claimable(m) /\ ~TakesOver(m)
          BY <2>3, <3>4 DEF ExcuseTakeover
        <4>2. /\ copies[m] = 0 /\ \A e \in Dispatchers : cur[e] # m
              /\ \A e \in Dispatchers : m \notin expired[e]
          BY <1>0, <4>1, ClaimIsFresh
        <4>3. \A e \in Dispatchers : cur'[e] # m /\ m \notin expired'[e]
          BY <1>7, <1>a, <4>2, ConstantsOK
          DEF ClaimThrows, LeaveRound, IsType, TypeOK, LocalTypeOK
        <4>4. QED
          BY <3>1, <4>2, <4>3 DEF OneCopy
      <3>5. QED
        BY <3>3, <3>4
    <2>4. QED
      BY <1>7, <2>2, <2>3 DEF ClaimThrows
  <1>8. ASSUME NEW d \in Dispatchers, Read(d) PROVE OneCopy(m)'
    <2>1. RowSame(m)
      BY <1>8 DEF Read, RowSame
    <2>2. CASE NextMessage(d)
      BY <1>0, <1>5, <2>1, <2>2, KeepOneCopy
    <2>3. CASE ~NextMessage(d)
      <3>1. WorkersSame(m)
        BY <1>8, <1>a, <2>3 DEF Read, WorkersSame, IsType, TypeOK, LocalTypeOK
      <3>2. QED
        BY <1>0, <2>1, <3>1, KeepOneCopy
    <2>4. QED
      BY <2>2, <2>3
  <1>9. ASSUME NEW d \in Dispatchers, Crash(d) PROVE OneCopy(m)'
    BY <1>0, <1>4, <1>9, KeepOneCopy DEF Crash, RowSame
  <1>10. ASSUME NEW d \in Dispatchers, SelectExpired(d) PROVE OneCopy(m)'
    <2>1. RowSame(m)
      BY <1>10 DEF SelectExpired, RowSame
    <2>2. cur[d] = NoMsg
      BY <1>10, <1>a DEF SelectExpired, IsType, LocalShape, Working
    <2>3. WorkersSame(m)
      BY <1>10, <1>a, <2>2, ConstantsOK
      DEF SelectExpired, WorkersSame, IsType, TypeOK, LocalTypeOK
    <2>4. QED
      BY <1>0, <2>1, <2>3, KeepOneCopy
  <1>11. ASSUME NEW d \in Dispatchers, Sweep(d) PROVE OneCopy(m)'
    <2>1. m \in expired[d] => row[m] # "pending" /\ token[m] = NoToken
      BY <1>0 DEF OneCopy, IInv, RowShape
    <2>2. RowSame(m)
      BY <1>11, <1>a, <2>1 DEF Sweep, Reset, RowSame, IsType, TypeOK, TableTypeOK
    <2>3. QED
      BY <1>0, <1>4, <1>11, <2>2, KeepOneCopy DEF Sweep
  <1>12. ASSUME NEW d \in Dispatchers, cur[d] = m, row[m] = "pending", pc[d] \in Working,
                cur' = cur, tok' = tok, pc' = [pc EXCEPT ![d] = "mark"], expired' = expired,
                UNCHANGED <<row, token>>, copies'[m] < 2
         PROVE  OneCopy(m)'
    <2>1. token[m] = tok[d] /\ \A e \in Dispatchers : pc[e] \in Working /\ cur[e] = m => e = d
      BY <1>0, <1>12, HolderAlone
    <2>2. pc \in [Dispatchers -> Stages] /\ tok[d] \in Tokens
      BY <1>a, <1>12 DEF IsType, TypeOK, LocalTypeOK, LocalShape
    <2>3. \A e \in Dispatchers : cur[e] = m => e = d
      BY <1>a, <2>1, ConstantsOK DEF IsType, LocalShape
    <2>4. QED
      BY <1>0, <1>12, <2>1, <2>2, <2>3, ConstantsOK DEF OneCopy
  <1>13. ASSUME NEW d \in Dispatchers, PublishOk(d) PROVE OneCopy(m)'
    <2>1. CASE cur[d] # m
      <3>1. RowSame(m)
        BY <1>13, <1>a, <2>1 DEF PublishOk, AddCopy, RowSame, IsType, TypeOK, HistoryTypeOK
      <3>2. WorkersSame(m)
        BY <1>13, <1>a, <2>1 DEF PublishOk, WorkersSame, IsType, TypeOK, LocalTypeOK
      <3>3. QED
        BY <1>0, <3>1, <3>2, KeepOneCopy
    <2>2. CASE cur[d] = m
      <3>1. pc[d] = "publish" /\ row[m] = "pending" /\ copies[m] = 0
        BY <1>0, <1>13, <2>2 DEF PublishOk, OneCopy, Working
      <3>2. copies'[m] < 2
        BY <1>13, <1>a, <2>2, <3>1 DEF PublishOk, AddCopy, IsType, TypeOK, HistoryTypeOK
      <3>3. QED
        BY <1>12, <1>13, <2>2, <3>1, <3>2 DEF PublishOk, Working
    <2>3. QED
      BY <2>1, <2>2
  <1>14. ASSUME NEW d \in Dispatchers, PublishThrows(d) PROVE OneCopy(m)'
    <2>1. UNCHANGED copies \/ cur[d] # m
      BY <1>14 DEF PublishThrows, Excuse
    <2>2. RowSame(m)
      BY <1>14, <1>a, <2>1 DEF PublishThrows, AddCopy, RowSame, IsType, TypeOK, HistoryTypeOK
    <2>3. WorkersSame(m)
      BY <1>14, <1>a DEF PublishThrows, WorkersSame, IsType, TypeOK, LocalTypeOK
    <2>4. QED
      BY <1>0, <2>2, <2>3, KeepOneCopy
  <1>15. ASSUME NEW d \in Dispatchers, MarkPublished(d) PROVE OneCopy(m)'
    <2>1. WorkersSame(m)
      BY <1>5, <1>15 DEF MarkPublished
    <2>2. CASE ~(HoldsLease(d) /\ cur[d] = m)
      BY <1>0, <1>15, <1>a, <2>1, <2>2, KeepOneCopy
      DEF MarkPublished, SetPublished, RowSame, IsType, TypeOK, TableTypeOK
    <2>3. CASE HoldsLease(d) /\ cur[d] = m
      <3>1. row[m] = "pending" /\ pc[d] \in Working
        BY <1>15, <2>3 DEF HoldsLease, MarkPublished, Working
      <3>2. \A e \in Dispatchers : pc[e] \in Working /\ cur[e] = m => e = d
        BY <1>0, <2>3, <3>1, HolderAlone
      <3>3. \A e \in Dispatchers : cur'[e] # m
        BY <1>15, <1>a, <3>2, ConstantsOK
        DEF MarkPublished, NextMessage, IsType, TypeOK, LocalTypeOK, LocalShape
      <3>4. row'[m] = "published" /\ copies'[m] = copies[m]
        BY <1>15, <1>a, <2>3 DEF MarkPublished, SetPublished, IsType, TypeOK, TableTypeOK
      <3>5. QED
        BY <1>0, <3>3, <3>4 DEF OneCopy
    <2>4. QED
      BY <2>2, <2>3
  <1>16. ASSUME NEW d \in Dispatchers, MarkPublishedThrows(d) PROVE OneCopy(m)'
    <2>1. /\ pc[d] = "mark" /\ pc' = [pc EXCEPT ![d] = "fail"]
          /\ UNCHANGED <<cur, tok, expired, copies>>
      BY <1>16 DEF MarkPublishedThrows
    <2>2. pc \in [Dispatchers -> Stages]
      BY <1>a DEF IsType, TypeOK, LocalTypeOK
    <2>3. CASE cur[d] # m
      <3>1. RowSame(m)
        BY <1>16, <1>a, <2>3
        DEF MarkPublishedThrows, SetPublished, RowSame, IsType, TypeOK, TableTypeOK
      <3>2. WorkersSame(m)
        BY <2>1, <2>2, <2>3 DEF WorkersSame
      <3>3. QED
        BY <1>0, <3>1, <3>2, KeepOneCopy
    <2>4. CASE cur[d] = m
      <3>1. HoldsLease(d) /\ SetPublished(m)
        BY <1>16, <2>4 DEF MarkPublishedThrows, Excuse
      <3>2. row[m] = "pending" /\ row'[m] = "published"
        BY <1>a, <2>4, <3>1 DEF HoldsLease, SetPublished, IsType, TypeOK, TableTypeOK
      <3>3. \A e \in Dispatchers : pc[e] \in Working /\ cur[e] = m => e = d
        BY <1>0, <2>1, <2>4, <3>2, HolderAlone DEF Working
      <3>4. \A e \in Dispatchers : cur[e] = m => e = d
        BY <1>a, <3>3, ConstantsOK DEF IsType, LocalShape
      <3>5. QED
        BY <1>0, <2>1, <2>2, <3>2, <3>4 DEF OneCopy
    <2>5. QED
      BY <2>3, <2>4
  <1>17. ASSUME NEW d \in Dispatchers, NEW delay, HoldsLease(d), SetFailed(cur[d], delay),
                pc[d] = "fail", NextMessage(d) \/ LeaveRound(d, "poll"), UNCHANGED copies
         PROVE  OneCopy(m)'
    <2>1. WorkersSame(m)
      BY <1>4, <1>5, <1>17
    <2>2. CASE cur[d] # m
      BY <1>0, <1>17, <1>a, <2>1, <2>2, KeepOneCopy
      DEF SetFailed, RowSame, IsType, TypeOK, TableTypeOK
    <2>3. CASE cur[d] = m
      <3>1. row[m] = "pending" /\ pc[d] \in Working
        BY <1>17, <2>3 DEF HoldsLease, Working
      <3>2. copies[m] = 0
        BY <1>0, <1>17, <2>3, <3>1 DEF OneCopy
      <3>3. \A e \in Dispatchers : pc[e] \in Working /\ cur[e] = m => e = d
        BY <1>0, <2>3, <3>1, HolderAlone
      <3>4. \A e \in Dispatchers : cur'[e] # m
        BY <1>17, <1>a, <3>3, ConstantsOK
        DEF NextMessage, LeaveRound, IsType, TypeOK, LocalTypeOK, LocalShape
      <3>5. \A e \in Dispatchers : m \notin expired'[e]
        BY <1>0, <2>1, <3>1 DEF OneCopy, WorkersSame
      <3>6. copies'[m] = 0
        BY <1>17, <3>2
      <3>7. QED
        BY <3>4, <3>5, <3>6 DEF OneCopy
    <2>4. QED
      BY <2>2, <2>3
  <1>18. ASSUME NEW d \in Dispatchers, MarkFailed(d) \/ RoundThrows(d) PROVE OneCopy(m)'
    <2>1. CASE UNCHANGED columns
      BY <1>0, <1>4, <1>5, <1>18, <2>1, KeepOneCopy DEF MarkFailed, RoundThrows, RowSame
    <2>2. QED
      BY <1>17, <1>18, <2>1 DEF MarkFailed, RoundThrows
  <1>19. QED
    BY <1>1, <1>2, <1>3, <1>6, <1>7, <1>8, <1>9, <1>10, <1>11, <1>13, <1>14, <1>15, <1>16, <1>18
    DEF Next, Step

\* What was excused stays excused.
LEMMA ExcusedGrows == ASSUME [Next]_vars PROVE excused \subseteq excused'
  BY DEF Next, Step, vars, localVars, historyVars, Tick, Register, Fetch, Claim, Skip,
         ClaimThrows, Read, PublishOk, PublishThrows, MarkPublished, MarkPublishedThrows,
         MarkFailed, RoundThrows, SelectExpired, Sweep, Crash, Start, Excuse, ExcuseTakeover

LEMMA InvInit == Init => IInv
  <1> SUFFICES ASSUME Init PROVE IInv
    OBVIOUS
  <1>1. TypeOK
    BY TypeInit
  <1>2. LocalShape /\ RowShape /\ TokensApart
    BY ConstantsOK DEF Init, LocalShape, RowShape, TokensApart, Working
  <1>3. MarkedAreCopied /\ OnlyRegistered /\ UnexcusedOnce
    BY ConstantsOK DEF Init, MarkedAreCopied, OnlyRegistered, UnexcusedOnce, OneCopy, Working
  <1>4. TimeIsLease /\ LeaseIsExclusive
    BY DEF Init, TimeIsLease, LeaseIsExclusive
  <1>5. QED
    BY <1>1, <1>2, <1>3, <1>4 DEF IInv

LEMMA InvStep == IInv /\ [Next]_vars => IInv'
  <1> SUFFICES ASSUME IInv, [Next]_vars PROVE IInv'
    OBVIOUS
  <1>1. TypeOK' /\ LocalShape'
    BY TypeStep DEF IInv
  <1>2. UnexcusedOnce'
    BY OneCopyStep, ExcusedGrows DEF UnexcusedOnce
  <1>3. QED
    BY <1>1, <1>2, RowShapeStep, TokensApartStep, TimeStep, MarkedAreCopiedStep,
       OnlyRegisteredStep
    DEF IInv

THEOREM Inductive == Spec => []IInv
  BY InvInit, InvStep, PTL DEF Spec

\* No registered event is ever lost between the table and the broker.
THEOREM NoLoss == Spec => []NoSilentLoss
  <1>1. IInv => NoSilentLoss
    BY DEF IInv, MarkedAreCopied, NoSilentLoss
  <1>2. QED
    BY <1>1, Inductive, PTL

\* Two dispatchers never work on the same row within the time each was granted for
\* it, however they crash, fall behind, and report late.
THEOREM ExclusiveLease == Spec => []LeaseIsExclusive
  <1>1. IInv => LeaseIsExclusive
    BY DEF IInv
  <1>2. QED
    BY <1>1, Inductive, PTL

\* Every second copy at the broker has one of the named causes.
THEOREM CausedDuplicates == Spec => []DuplicateHasCause
  <1>1. IInv => DuplicateHasCause
    BY DEF IInv, UnexcusedOnce, OneCopy, DuplicateHasCause, TypeOK, HistoryTypeOK
  <1>2. QED
    BY <1>1, Inductive, PTL

-----------------------------------------------------------------------------
(* Fencing *)

\* The step ends the lease of m.
LeaseEnds(m) ==
    /\ row[m] = "pending" /\ lock[m] > 0 /\ token[m] # NoToken
    /\ token'[m] # token[m] /\ row'[m] # "absent"

\* The holder of the lease of m reports its result.
HolderReports(m) ==
    \E d \in Dispatchers :
        cur[d] = m /\ tok[d] = token[m] /\ pc[d] \in {"mark", "fail"} /\ pc'[d] # pc[d]

LEMMA FenceStep ==
  ASSUME TypeOK, [Next]_vars, NEW m \in Msgs, LeaseEnds(m)
  PROVE  HolderReports(m)
  <1> USE DEF TypeOK, TableTypeOK, LocalTypeOK, LeaseEnds, columns, tableVars
  <1>1. token'[m] # token[m] /\ lock[m] # 0
    OBVIOUS
  <1>2. ASSUME NEW n, NEW t, Claimable(n), SetClaimed(n, t) PROVE FALSE
    BY <1>1, <1>2 DEF Claimable, SetClaimed
  <1>3. ASSUME NEW d \in Dispatchers, HoldsLease(d), pc[d] \in {"mark", "fail"}, pc'[d] # pc[d],
               SetPublished(cur[d]) \/ \E delay : SetFailed(cur[d], delay)
        PROVE  HolderReports(m)
    <2>1. cur[d] = m
      BY <1>1, <1>3 DEF SetPublished, SetFailed
    <2>2. QED
      BY <1>3, <2>1 DEF HoldsLease, HolderReports
  <1>4. ASSUME NEW d \in Dispatchers, Sweep(d) PROVE FALSE
    BY <1>1, <1>4 DEF Sweep, Reset
  <1>5. CASE Tick \/ (\E n \in Msgs : Register(n)) \/ UNCHANGED vars
    BY <1>1, <1>5 DEF Tick, Register, vars
  <1>6. ASSUME NEW d \in Dispatchers,
               \/ MarkPublished(d) \/ MarkPublishedThrows(d) \/ MarkFailed(d) \/ RoundThrows(d)
        PROVE  HolderReports(m)
    <2>1. (pc[d] \in {"mark", "fail"} /\ pc'[d] # pc[d]) \/ UNCHANGED columns
      BY <1>6 DEF MarkPublished, MarkPublishedThrows, MarkFailed, RoundThrows,
                  NextMessage, LeaveRound
    <2>2. ~ UNCHANGED columns
      BY <1>1
    <2>3. HoldsLease(d) /\ (SetPublished(cur[d]) \/ \E delay : SetFailed(cur[d], delay))
      BY <1>6, <2>2 DEF MarkPublished, MarkPublishedThrows, MarkFailed, RoundThrows
    <2>4. QED
      BY <1>3, <2>1, <2>2, <2>3
  <1>7. ASSUME NEW d \in Dispatchers,
               \/ Fetch(d) \/ Skip(d) \/ Read(d) \/ PublishOk(d) \/ PublishThrows(d)
               \/ SelectExpired(d) \/ Crash(d) \/ Start(d)
        PROVE  FALSE
    BY <1>1, <1>7, TableUntouched
  <1>8. ASSUME NEW d \in Dispatchers, (\E n \in Msgs : Claim(d, n)) \/ ClaimThrows(d)
        PROVE  FALSE
    <2>1. ~ UNCHANGED columns
      BY <1>1
    <2>2. QED
      BY <1>2, <1>8, <2>1 DEF Claim, ClaimThrows
  <1>9. QED
    BY <1>4, <1>5, <1>6, <1>7, <1>8 DEF Next, Step

\* A lease that has not lapsed ends only by the report of its holder.
THEOREM Fenced == Spec => LeaseIsFenced
  <1>1. TypeOK /\ [Next]_vars => [\A m \in Msgs : LeaseEnds(m) => HolderReports(m)]_vars
    BY FenceStep
  <1>2. TypeOK /\ [Next]_vars
        => [\A m \in Msgs :
              row[m] = "pending" /\ lock[m] > 0 /\ token[m] # NoToken
              /\ token'[m] # token[m] /\ row'[m] # "absent"
              => \E d \in Dispatchers :
                    /\ cur[d] = m /\ tok[d] = token[m]
                    /\ pc[d] \in {"mark", "fail"} /\ pc'[d] # pc[d]]_vars
    BY <1>1 DEF LeaseEnds, HolderReports
  <1>3. QED
    BY <1>2, TypeCorrect, PTL DEF Spec, LeaseIsFenced

-----------------------------------------------------------------------------
(* Custody: the outbox implements Handover *)

Unpublished == {m \in Msgs : row[m] = "pending"}
Accepted == {m \in Msgs : copies[m] > 0}

\* The broker does not give copies back.
LEMMA AcceptedGrows ==
  ASSUME TypeOK, LocalShape, [Next]_vars
  PROVE  Accepted \subseteq Accepted'
  <1> USE DEF TypeOK, HistoryTypeOK, Accepted
  <1>1. ASSUME NEW m \in Msgs, AddCopy(m) PROVE Accepted \subseteq Accepted'
    BY <1>1 DEF AddCopy
  <1>2. ASSUME NEW d \in Dispatchers, PublishOk(d) \/ PublishThrows(d)
        PROVE  Accepted \subseteq Accepted'
    <2>1. cur[d] \in Msgs
      BY <1>2 DEF PublishOk, PublishThrows, LocalShape, Working
    <2>2. AddCopy(cur[d]) \/ UNCHANGED copies
      BY <1>2 DEF PublishOk, PublishThrows
    <2>3. QED
      BY <1>1, <2>1, <2>2
  <1>3. ASSUME NEW d \in Dispatchers, Step(d), ~ PublishOk(d), ~ PublishThrows(d)
        PROVE  UNCHANGED copies
    BY <1>3 DEF Step, Fetch, Claim, Skip, ClaimThrows, Read, MarkPublished,
                MarkPublishedThrows, MarkFailed, RoundThrows, SelectExpired, Sweep, Crash,
                Start, historyVars
  <1>4. CASE Tick \/ (\E m \in Msgs : Register(m)) \/ UNCHANGED vars
    BY <1>4 DEF Tick, Register, vars, historyVars
  <1>5. QED
    BY <1>2, <1>3, <1>4 DEF Next

\* Only a registration makes a row unpublished.
LEMMA OnlyRegisterAdds ==
  ASSUME TypeOK, [Next]_vars, \A m \in Msgs : ~ Register(m)
  PROVE  Unpublished' \subseteq Unpublished
  <1> USE DEF TypeOK, TableTypeOK, Unpublished, columns, tableVars
  <1>1. CASE Tick \/ UNCHANGED vars
    BY <1>1 DEF Tick, vars
  <1>2. ASSUME NEW d \in Dispatchers, (\E m \in Msgs : Claim(d, m)) \/ ClaimThrows(d)
        PROVE  UNCHANGED row
    BY <1>2 DEF Claim, ClaimThrows, SetClaimed
  <1>3. ASSUME NEW d \in Dispatchers,
               \/ MarkPublished(d) \/ MarkPublishedThrows(d) \/ MarkFailed(d) \/ RoundThrows(d)
        PROVE  Unpublished' \subseteq Unpublished
    <2>1. row' = row \/ row' = [row EXCEPT ![cur[d]] = "published"]
      BY <1>3 DEF MarkPublished, MarkPublishedThrows, MarkFailed, RoundThrows,
                  SetPublished, SetFailed
    <2>2. QED
      BY <2>1
  <1>4. ASSUME NEW d \in Dispatchers, Sweep(d)
        PROVE  Unpublished' \subseteq Unpublished
    BY <1>4 DEF Sweep, Reset
  <1>5. ASSUME NEW d \in Dispatchers,
               \/ Fetch(d) \/ Skip(d) \/ Read(d) \/ PublishOk(d) \/ PublishThrows(d)
               \/ SelectExpired(d) \/ Crash(d) \/ Start(d)
        PROVE  UNCHANGED row
    BY <1>5, TableUntouched
  <1>6. QED
    BY <1>1, <1>2, <1>3, <1>4, <1>5 DEF Next, Step

\* A row ceases to be unpublished only when its event is at the broker: what
\* MarkedAreCopied says of the state that the step leads to.
LEMMA LetGoAccepted ==
  ASSUME IInv, IInv', [Next]_vars
  PROVE  Unpublished \ Unpublished' \subseteq Accepted'
  <1> SUFFICES ASSUME NEW m \in Msgs, row[m] = "pending", row'[m] # "pending"
               PROVE  copies'[m] > 0
    BY DEF Unpublished, Accepted
  <1>1. m \in registered
    BY DEF IInv, RowShape
  <1>2. registered \subseteq registered'
    BY DEF Next, Step, vars, Tick, Register, Fetch, Claim, Skip, ClaimThrows, Read,
           PublishOk, PublishThrows, MarkPublished, MarkPublishedThrows, MarkFailed,
           RoundThrows, SelectExpired, Sweep, Crash, Start, historyVars
  <1>3. QED
    BY <1>1, <1>2 DEF IInv, MarkedAreCopied

\* Every step of the outbox is a step of its custody.
LEMMA CustodyStep ==
  ASSUME IInv, IInv', [Next]_vars
  PROVE  [Custody!Next]_<<Unpublished, Accepted>>
  <1>1. Accepted \subseteq Accepted' /\ Accepted' \subseteq Msgs
    BY AcceptedGrows DEF IInv, Accepted
  <1>2. CASE \E m \in Msgs : Register(m)
    <2>1. PICK m \in Msgs : Register(m)
      BY <1>2
    <2>2. Unpublished' = Unpublished \cup {m} /\ Accepted' = Accepted
      BY <2>1 DEF Register, Unpublished, Accepted, IInv, TypeOK, TableTypeOK
    <2>3. Custody!Accept(m)
      BY <2>2 DEF Custody!Accept, Unpublished, Accepted
    <2>4. QED
      BY <2>3 DEF Custody!Next
  <1>3. CASE \A m \in Msgs : ~ Register(m)
    <2>1. Unpublished' \subseteq Unpublished
      BY <1>3, OnlyRegisterAdds DEF IInv
    <2>2. Custody!Release
      BY <1>1, <2>1, LetGoAccepted DEF Custody!Release, Unpublished, Accepted
    <2>3. QED
      BY <2>2 DEF Custody!Next
  <1>4. QED
    BY <1>2, <1>3

\* The outbox keeps every event it has accepted until the broker has a copy: it
\* implements Handover, with the unpublished rows for what is kept.
THEOREM ImplementsHandover == Spec => KeptUntilSent
  <1>1. Init => Custody!Init
    BY DEF Init, Custody!Init
  <1>2. IInv /\ IInv' /\ [Next]_vars
        => [Custody!Next]_<<{m \in Msgs : row[m] = "pending"}, {m \in Msgs : copies[m] > 0}>>
    BY CustodyStep DEF Unpublished, Accepted
  <1>3. QED
    BY <1>1, <1>2, Inductive, PTL DEF Spec, KeptUntilSent, Custody!Spec
-----------------------------------------------------------------------------
(* Concurrency alone *)

\* Instances compete for the rows, broker and payloads refuse, but every outcome
\* is known, no instance dies and no lease lapses under its holder.
Undisturbed == Timely /\ Faults = {} /\ Mortal = {}

\* The dispatcher works on the row, and the row carries its token.
Holds(d, m) == pc[d] \in Working /\ cur[d] = m /\ tok[d] = token[m]

\* A row with a token is under a lease that runs, and its holder works on it.
Attended ==
    \A m \in Msgs : token[m] # NoToken =>
        lock[m] > 0 /\ \E d \in Dispatchers : Holds(d, m)

\* What a step of d leaves of the attendance: all but the row d works on.
LEMMA OthersAttend ==
  ASSUME IInv, Attended, NEW d \in Dispatchers,
         \A e \in Dispatchers \ {d} : pc'[e] = pc[e] /\ cur'[e] = cur[e] /\ tok'[e] = tok[e],
         NEW m \in Msgs, token'[m] = token[m], lock'[m] = lock[m], token'[m] # NoToken,
         ~ Holds(d, m)
  PROVE  lock'[m] > 0 /\ \E e \in Dispatchers : Holds(e, m)'
  <1>1. PICK e \in Dispatchers : Holds(e, m)
    BY DEF Attended
  <1>2. Holds(e, m)'
    BY <1>1 DEF Holds
  <1>3. QED
    BY <1>2 DEF Attended

LEMMA AttendedStep ==
  ASSUME Undisturbed, IInv, Attended, excused = {}, [Next]_vars
  PROVE  Attended' /\ excused' = {}
  <1> USE DEF columns, tableVars, localVars, historyVars
  <1>a. /\ token \in [Msgs -> Tokens \cup {NoToken}] /\ lock \in [Msgs -> 0..Lease]
        /\ pc \in [Dispatchers -> Stages]
        /\ cur \in [Dispatchers -> Msgs \cup {NoMsg}]
        /\ tok \in [Dispatchers -> Tokens \cup {NoToken}]
        /\ Lease \in Nat \ {0} /\ NoToken \notin Tokens
    BY ConstantsOK DEF IInv, TypeOK, TableTypeOK, LocalTypeOK
  <1>b. \A m \in Msgs : token[m] # NoToken => row[m] = "pending"
    BY DEF IInv, RowShape
  <1>1. CASE Tick
    <2>1. ASSUME NEW m \in Msgs, token[m] # NoToken PROVE lock'[m] > 0
      <3>1. PICK d \in Dispatchers : Holds(d, m)
        BY <2>1 DEF Attended
      <3>2. HoldsLease(d) /\ cur[d] = m
        BY <1>b, <2>1, <3>1 DEF Holds, HoldsLease
      <3>3. lock[m] # 1
        BY <1>1, <3>2 DEF Tick, LeaseWouldLapse, Undisturbed
      <3>4. lock[m] \in Nat /\ lock[m] > 0
        BY <1>a, <2>1 DEF Attended
      <3>5. QED
        BY <1>1, <3>3, <3>4 DEF Tick, Less
    <2>2. QED
      BY <1>1, <2>1 DEF Tick, Attended, Holds
  <1>2. ASSUME NEW m \in Msgs, Register(m) PROVE Attended' /\ excused' = {}
    BY <1>2 DEF Register, Attended, Holds, Undisturbed
  <1>3. ASSUME NEW d \in Dispatchers, NEW m \in Msgs, Claim(d, m)
        PROVE Attended' /\ excused' = {}
    <2>1. PICK t \in FreshTokens : SetClaimed(m, t) /\ tok' = [tok EXCEPT ![d] = t]
      BY <1>3 DEF Claim
    <2>2. /\ pc' = [pc EXCEPT ![d] = "read"] /\ cur' = [cur EXCEPT ![d] = m]
          /\ token' = [token EXCEPT ![m] = t] /\ lock' = [lock EXCEPT ![m] = Lease]
      BY <1>3, <2>1 DEF Claim, SetClaimed
    <2>3. ~ TakesOver(m)
      BY DEF TakesOver, Attended
    <2>4. excused' = {}
      BY <1>3, <2>3 DEF Claim, ExcuseTakeover
    <2>5. lock'[m] > 0 /\ Holds(d, m)'
      BY <1>a, <2>1, <2>2 DEF Holds, Working
    <2>6. ASSUME NEW n \in Msgs, n # m, token'[n] # NoToken
          PROVE  lock'[n] > 0 /\ \E e \in Dispatchers : Holds(e, n)'
      <3>1. ~ Holds(d, n)
        BY <1>3 DEF Claim, Holds, Working
      <3>2. QED
        BY <1>a, <2>1, <2>2, <2>6, <3>1, OthersAttend
    <2>7. QED
      BY <2>4, <2>5, <2>6 DEF Attended
  <1>4. ASSUME NEW d \in Dispatchers,
               \/ ClaimThrows(d) \/ MarkPublishedThrows(d) \/ RoundThrows(d) \/ Crash(d)
        PROVE  FALSE
    BY <1>4 DEF Undisturbed, ClaimThrows, MarkPublishedThrows, RoundThrows, Crash
  <1>5. ASSUME NEW d \in Dispatchers, Step(d), ~ (\E m \in Msgs : Claim(d, m))
        PROVE  excused' = {}
    BY <1>4, <1>5 DEF Step, Undisturbed, Fetch, Skip, Read, PublishOk, PublishThrows,
                      MarkPublished, MarkFailed, SelectExpired, Sweep, Start
  <1>6. ASSUME NEW d \in Dispatchers,
               \A e \in Dispatchers \ {d} :
                   pc'[e] = pc[e] /\ cur'[e] = cur[e] /\ tok'[e] = tok[e],
               \A m \in Msgs : token'[m] # NoToken =>
                   token'[m] = token[m] /\ lock'[m] = lock[m] /\ (Holds(d, m) => Holds(d, m)')
        PROVE  Attended'
    <2>1. ASSUME NEW m \in Msgs, token'[m] # NoToken
          PROVE  lock'[m] > 0 /\ \E e \in Dispatchers : Holds(e, m)'
      BY <1>6, <2>1, OthersAttend DEF Attended
    <2>2. QED
      BY <2>1 DEF Attended
  <1>7. ASSUME NEW d \in Dispatchers, Fetch(d) \/ Skip(d) \/ SelectExpired(d) \/ Start(d)
        PROVE  Attended'
    <2>1. \A m \in Msgs : ~ Holds(d, m)
      BY <1>7 DEF Fetch, Skip, SelectExpired, Start, Holds, Working
    <2>2. \A e \in Dispatchers \ {d} : pc'[e] = pc[e] /\ cur'[e] = cur[e] /\ tok'[e] = tok[e]
      BY <1>7, <1>a DEF Fetch, Skip, SelectExpired, Start
    <2>3. UNCHANGED <<token, lock>>
      BY <1>7 DEF Fetch, Skip, SelectExpired, Start
    <2>4. QED
      BY <1>6, <2>1, <2>2, <2>3
  <1>8. ASSUME NEW d \in Dispatchers, Sweep(d)
        PROVE  Attended'
    <2>1. \A m \in Msgs : ~ Holds(d, m)
      BY <1>8 DEF Sweep, Holds, Working
    <2>2. \A e \in Dispatchers \ {d} : pc'[e] = pc[e] /\ cur'[e] = cur[e] /\ tok'[e] = tok[e]
      BY <1>8, <1>a DEF Sweep, LeaveRound
    <2>3. \A m \in Msgs : token'[m] # NoToken => token'[m] = token[m] /\ lock'[m] = lock[m]
      BY <1>8 DEF Sweep, Reset
    <2>4. QED
      BY <1>6, <2>1, <2>2, <2>3
  <1>9. ASSUME NEW d \in Dispatchers, PublishOk(d) \/ PublishThrows(d)
        PROVE  Attended'
    <2>1. /\ UNCHANGED <<token, lock, cur, tok>>
          /\ pc' = [pc EXCEPT ![d] = "mark"] \/ pc' = [pc EXCEPT ![d] = "fail"]
      BY <1>9 DEF PublishOk, PublishThrows
    <2>2. QED
      BY <1>a, <2>1 DEF Attended, Holds, Working
  <1>10. ASSUME NEW d \in Dispatchers, Read(d)
         PROVE  Attended'
    <2>1. \A e \in Dispatchers \ {d} : pc'[e] = pc[e] /\ cur'[e] = cur[e] /\ tok'[e] = tok[e]
      BY <1>10, <1>a DEF Read, NextMessage
    <2>2. ASSUME NEW m \in Msgs, token'[m] # NoToken, Holds(d, m) PROVE Holds(d, m)'
      <3>1. token'[m] = token[m] /\ row[cur[d]] = "pending"
        BY <1>10, <1>b, <2>2 DEF Read, Holds
      <3>2. QED
        BY <1>10, <1>a, <2>2, <3>1 DEF Read, Holds, Working
    <2>3. UNCHANGED <<token, lock>>
      BY <1>10 DEF Read
    <2>4. QED
      BY <1>6, <2>1, <2>2, <2>3
  <1>11. ASSUME NEW d \in Dispatchers, MarkPublished(d) \/ MarkFailed(d)
         PROVE  Attended'
    <2>1. \A e \in Dispatchers \ {d} : pc'[e] = pc[e] /\ cur'[e] = cur[e] /\ tok'[e] = tok[e]
      BY <1>11, <1>a DEF MarkPublished, MarkFailed, NextMessage
    <2>2. \A m \in Msgs : token'[m] # NoToken => token'[m] = token[m] /\ lock'[m] = lock[m]
      BY <1>11, <1>a DEF MarkPublished, MarkFailed, SetPublished, SetFailed
    <2>3. ASSUME NEW m \in Msgs, token'[m] # NoToken PROVE ~ Holds(d, m)
      <3>1. SUFFICES ASSUME Holds(d, m) PROVE FALSE
        OBVIOUS
      <3>2. HoldsLease(d) /\ cur[d] = m
        BY <1>b, <2>2, <2>3, <3>1 DEF Holds, HoldsLease
      <3>3. token'[m] = NoToken
        BY <1>11, <1>a, <3>2 DEF MarkPublished, MarkFailed, SetPublished, SetFailed
      <3>4. QED
        BY <2>3, <3>3
    <2>4. QED
      BY <1>6, <2>1, <2>2, <2>3
  <1>12. CASE UNCHANGED vars
    BY <1>12 DEF vars, Attended, Holds
  <1>13. ASSUME NEW d \in Dispatchers, Step(d) PROVE Attended' /\ excused' = {}
    BY <1>3, <1>4, <1>5, <1>7, <1>8, <1>9, <1>10, <1>11, <1>13 DEF Step
  <1>14. excused' = {} \/ ~ (Tick \/ UNCHANGED vars)
    BY DEF Tick, vars
  <1>15. QED
    BY <1>1, <1>2, <1>12, <1>13, <1>14 DEF Next

\* However many instances dispatch in parallel, the broker gets each event at
\* most once as long as no instance dies, no lease lapses and no answer is lost:
\* the duplicates the inbox has to expect are due to faults, not to concurrency.
THEOREM ConcurrencyNeverDuplicates ==
  ASSUME Undisturbed PROVE Spec => [](\A m \in Msgs : copies[m] <= 1)
  <1> DEFINE Calm == Attended /\ excused = {}
  <1>1. Init => Calm
    BY DEF Init, Attended
  <1>2. IInv /\ Calm /\ [Next]_vars => Calm'
    BY AttendedStep
  <1>3. IInv /\ Calm => \A m \in Msgs : copies[m] <= 1
    BY DEF IInv, UnexcusedOnce, OneCopy, TypeOK, HistoryTypeOK
  <1> HIDE DEF Calm
  <1>4. QED
    BY <1>1, <1>2, <1>3, Inductive, PTL DEF Spec
=============================================================================

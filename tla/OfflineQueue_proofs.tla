------------------------ MODULE OfflineQueue_proofs ------------------------
(* That the offline queue keeps an operation until it is answered, sends none *)
(* with another account's cookie unless another tab has logged in, and has one *)
(* carried out twice only for a reason, for any number of operations, accounts, *)
(* pages and workers.                                                          *)
EXTENDS OfflineQueue, TLAPS, FiniteSetTheorems, WellFoundedInduction

Working == {"sent", "remove", "count", "put", "review"}

\* What a sync holds at its stages.
LocalShape ==
    \A s \in Syncs :
        /\ pc[s] \in Working => cur[s] \in Ops /\ owner[cur[s]] = acc[s]
        /\ pc[s] \notin Working => cur[s] = NoOp /\ resp[s] = "none"
        /\ pc[s] \in {"sent", "remove"} => resp[s] # "none"
        /\ pc[s] \in {"count", "put", "review"} => resp[s] = "error"
        /\ pc[s] \in {"idle", "begin"} => todo[s] = {}
        /\ pc[s] # "idle" => acc[s] \in Accounts
        /\ \A o \in todo[s] : owner[o] = acc[s]

\* A page's sync that has not been told to stop is the logged-in account's, and
\* unless another tab has logged in, the session is nobody else's.
OneSession ==
    /\ \A s \in Pages : pc[s] # "idle" /\ live[s] => user = acc[s]
    /\ user # NoAccount /\ ~overtaken => session \in {user, NoAccount}

\* Syncs that will still count the failure they saw.
Pending(o) ==
    {s \in Syncs : pc[s] \in {"sent", "count", "put"} /\ resp[s] = "error" /\ cur[s] = o}

\* A count is never ahead of the failures, those still to be counted included;
\* nor is one a sync has read and will write back.
CountedOnce ==
    \A o \in Ops :
        \/ failures[o] >= MaxRetries
        \/ /\ retry[o] + Cardinality(Pending(o)) <= failures[o]
           /\ \A s \in Pending(o) :
                 pc[s] = "put" => got[s] + Cardinality(Pending(o)) <= failures[o]

\* What is about to be taken out was carried out, is refused, or has failed as
\* often as it may; and what is out already was settled in the same way.
RemoveSound ==
    \A s \in Syncs :
        /\ pc[s] \in {"sent", "remove"} /\ resp[s] = "ok" => applied[cur[s]] > 0
        /\ pc[s] = "remove" =>
              \/ resp[s] \in {"ok", "conflict"}
              \/ failures[cur[s]] >= MaxRetries

\* An operation with no cause for a second time is held by one sync at most, and
\* once it was carried out, only by the one that has its success.
HeldOnce ==
    \A o \in Ops \ excused :
        /\ \A s, t \in Syncs : Holds(s, o) /\ Holds(t, o) => s = t
        /\ applied[o] <= 1
        /\ applied[o] > 0 =>
              /\ owner[o] # NoAccount
              /\ \A s \in Syncs : o \notin todo[s]
              /\ \A s \in Syncs : cur[s] = o => resp[s] = "ok"
              /\ o \in stored => \E s \in Syncs : Unsettled(s) /\ cur[s] = o

IInv ==
    /\ TypeOK /\ LocalShape /\ OneSession
    /\ CountedOnce /\ RemoveSound /\ HeldOnce

-----------------------------------------------------------------------------
(* Numbers *)

Below == {ss \in Nat \X Nat : ss[1] < ss[2]}

LEMMA BelowIsWellFounded == IsWellFoundedOn(Below, Nat)
  BY NatLessThanWellFounded DEF OpToRel, Below

\* The loop takes one of the operations that are left.
LEMMA OldestIsOne ==
  ASSUME NEW S \in SUBSET Ops, S # {}
  PROVE  Oldest(S) \in S
  <1>1. S \subseteq Nat
    BY ConstantsOK
  <1>2. PICK o \in S : \A p \in S : ~(<<p, o>> \in Below)
    BY <1>1, BelowIsWellFounded, WFMin, Zenon
  <1>3. ASSUME NEW p \in S PROVE o <= p
    <2>1. o \in Nat /\ p \in Nat
      BY <1>1
    <2>2. <<p, o>> \notin Below
      BY <1>2
    <2>3. ~(p < o)
      BY <2>1, <2>2 DEF Below
    <2>4. QED
      BY <2>1, <2>3
  <1>4. QED
    BY <1>3 DEF Oldest

LEMMA CountsAreNat ==
  /\ MaxRetries \in Nat /\ 0 \in 0..MaxRetries /\ 0 \in 0..MaxCloses
  /\ \A n \in 0..MaxRetries : Incremented(n) \in 0..MaxRetries
  BY ConstantsOK DEF Incremented

\* There are finitely many syncs.
LEMMA SyncsFinite == IsFiniteSet(Syncs)
  BY ConstantsOK, FS_Union DEF Syncs

LEMMA PendingCounted ==
  ASSUME NEW o
  PROVE  IsFiniteSet(Pending(o)) /\ Cardinality(Pending(o)) \in Nat
  <1>1. Pending(o) \in SUBSET Syncs
    BY DEF Pending
  <1>2. IsFiniteSet(Pending(o))
    BY <1>1, SyncsFinite, FS_Subset
  <1>3. QED
    BY <1>2, FS_CardinalityType

-----------------------------------------------------------------------------
(* Types *)

\* The initial states are well-formed.
LEMMA TypeInit == Init => TypeOK
  <1>1. Init => overtaken \in BOOLEAN
    BY Zenon DEF Init
  <1>2. QED
    BY <1>1, CountsAreNat DEF Init, TypeOK, Stages, Responses

\* The moves of a sync keep the types of what is local to it.
LocalTypes ==
    /\ pc \in [Syncs -> Stages]
    /\ acc \in [Syncs -> Accounts \cup {NoAccount}]
    /\ live \in [Syncs -> BOOLEAN]
    /\ todo \in [Syncs -> SUBSET Ops]
    /\ cur \in [Syncs -> Ops \cup {NoOp}]
    /\ got \in [Syncs -> 0..MaxRetries]
    /\ resp \in [Syncs -> Responses]

LEMMA MoveType ==
  ASSUME TypeOK, NEW s \in Syncs,
         \/ Leave(s)
         \/ NextOperation(s)
         \/ \E stage \in Stages : Goto(s, stage)
         \/ \E a \in Accounts : Started(s, a)
         \/ UNCHANGED syncVars
  PROVE  LocalTypes'
  <1>1. CASE Leave(s)
    BY <1>1, CountsAreNat DEF Leave, TypeOK, LocalTypes, Stages, Responses
  <1>2. CASE NextOperation(s)
    BY <1>2, CountsAreNat DEF NextOperation, TypeOK, LocalTypes, Stages, Responses
  <1>3. CASE \E stage \in Stages : Goto(s, stage)
    BY <1>3 DEF Goto, TypeOK, LocalTypes
  <1>4. CASE \E a \in Accounts : Started(s, a)
    BY <1>4 DEF Started, TypeOK, LocalTypes, Stages
  <1>5. CASE UNCHANGED syncVars
    BY <1>5 DEF syncVars, TypeOK, LocalTypes
  <1>6. QED
    BY <1>1, <1>2, <1>3, <1>4, <1>5

\* Leaving excuses operations at most.
LEMMA LeaveExcused ==
  ASSUME TypeOK, NEW s \in Syncs, Leave(s)
  PROVE  excused' \subseteq Ops
  <1>1. stored \subseteq Ops
    BY DEF TypeOK
  <1>2. QED
    BY <1>1 DEF Leave, Unsettled, TypeOK

\* The rest of TypeOK.
SharedTypes ==
    /\ owner \in [Ops -> Accounts \cup {NoAccount}]
    /\ stored \subseteq {o \in Ops : owner[o] # NoAccount}
    /\ retry \in [Ops -> 0..MaxRetries]
    /\ tags \subseteq Accounts
    /\ user \in Accounts \cup {NoAccount}
    /\ session \in Accounts \cup {NoAccount}
    /\ cookie \in {session, NoAccount}
    /\ overtaken \in BOOLEAN
    /\ closes \in 0..MaxCloses
    /\ applied \in [Ops -> 0..2]
    /\ failures \in [Ops -> 0..MaxRetries]
    /\ settled \subseteq Ops
    /\ excused \subseteq Ops

LEMMA TypeSplit == TypeOK <=> LocalTypes /\ SharedTypes
  BY DEF TypeOK, LocalTypes, SharedTypes

LEMMA TypeSplitNext == TypeOK' <=> LocalTypes' /\ SharedTypes'
  BY DEF TypeOK, LocalTypes, SharedTypes

\* Where a step of a sync's own loop leads it.
LEMMA LoopType ==
  ASSUME TypeOK, LocalShape, NEW s \in Syncs, Loop(s)
  PROVE  TypeOK'
  <1> USE DEF storeVars, faultVars, sessionVars, historyVars
  <1>1. CASE Begin(s)
    <2>1. Snapshot(acc[s]) \subseteq Ops
      BY DEF Snapshot, TypeOK
    <2>2. QED
      BY <1>1, <2>1 DEF Begin, TypeOK, Stages
  <1>2. CASE End(s)
    <2>1. Leave(s) /\ UNCHANGED <<storeVars, faultVars, sessionVars, applied, failures, settled>>
      BY <1>2 DEF End
    <2>2. LocalTypes' /\ excused' \subseteq Ops
      BY <2>1, MoveType, LeaveExcused
    <2>3. QED
      BY <2>1, <2>2, TypeSplit, TypeSplitNext DEF SharedTypes
  <1>3. CASE Check(s)
    BY <1>3 DEF Check, Goto, TypeOK, Stages
  <1>4. CASE Send(s)
    <2>1. todo[s] \in SUBSET Ops /\ todo[s] # {}
      BY <1>4 DEF Send, Ready, TypeOK
    <2>2. Oldest(todo[s]) \in Ops
      BY <2>1, OldestIsOne
    <2>3. /\ todo' \in [Syncs -> SUBSET Ops]
          /\ cur' \in [Syncs -> Ops \cup {NoOp}]
          /\ pc' \in [Syncs -> Stages]
      BY <1>4, <2>2 DEF Send, TypeOK, Stages
    <2>4. resp' \in [Syncs -> Responses]
      BY <1>4 DEF Send, TypeOK, Responses
    <2>5. /\ applied' \in [Ops -> 0..2]
          /\ failures' \in [Ops -> 0..MaxRetries]
          /\ excused' \subseteq Ops
      BY <1>4, <2>2, CountsAreNat DEF Send, CarryOut, TypeOK
    <2>6. QED
      BY <1>4, <2>3, <2>4, <2>5 DEF Send, TypeOK
  <1>5. CASE Answer(s)
    <2>1. CASE \E stage \in Stages : Goto(s, stage) /\ UNCHANGED excused
      <3>1. LocalTypes'
        BY <2>1, MoveType
      <3>2. QED
        BY <1>5, <2>1, <3>1, TypeSplit, TypeSplitNext DEF Answer, SharedTypes
    <2>2. CASE Leave(s)
      <3>1. LocalTypes' /\ excused' \subseteq Ops
        BY <2>2, MoveType, LeaveExcused
      <3>2. QED
        BY <1>5, <3>1, TypeSplit, TypeSplitNext DEF Answer, SharedTypes
    <2>3. QED
      BY <1>5, <2>1, <2>2 DEF Answer, Stages
  <1>6. CASE Remove(s)
    <2>1. cur[s] \in Ops
      BY <1>6 DEF Remove, LocalShape, Working
    <2>2. LocalTypes'
      BY <1>6, MoveType DEF Remove
    <2>3. QED
      BY <1>6, <2>1, <2>2, TypeSplit, TypeSplitNext DEF Remove, SharedTypes
  <1>7. CASE Count(s)
    <2>1. cur[s] \in Ops
      BY <1>7 DEF Count, LocalShape, Working
    <2>2. QED
      BY <1>7, <2>1 DEF Count, TypeOK, Stages
  <1>8. CASE Put(s)
    <2>1. cur[s] \in Ops /\ owner[cur[s]] = acc[s] /\ acc[s] \in Accounts
      BY <1>8 DEF Put, LocalShape, Working
    <2>2. owner[cur[s]] # NoAccount
      BY <2>1, ConstantsOK
    <2>3. got[s] \in 0..MaxRetries
      BY DEF TypeOK
    <2>4. LocalTypes'
      BY <1>8, MoveType DEF Put, Stages
    <2>5. QED
      BY <1>8, <2>1, <2>2, <2>3, <2>4, CountsAreNat, TypeSplit, TypeSplitNext
         DEF Put, SharedTypes
  <1>9. CASE Review(s)
    <2>1. LocalTypes'
      BY <1>9, MoveType DEF Review, Stages
    <2>2. QED
      BY <1>9, <2>1, TypeSplit, TypeSplitNext DEF Review, SharedTypes
  <1>10. QED
    BY <1>1, <1>2, <1>3, <1>4, <1>5, <1>6, <1>7, <1>8, <1>9 DEF Loop

\* Every step keeps the types.
LEMMA TypeStep ==
  ASSUME TypeOK, LocalShape, [Next]_vars
  PROVE  TypeOK'
  <1> USE DEF storeVars, faultVars, sessionVars, historyVars
  <1>1. ASSUME NEW s \in Syncs, NEW o \in Ops, Enqueue(s, o) PROVE TypeOK'
    <2>1. user \in Accounts
      BY <1>1 DEF Enqueue, TypeOK
    <2>2. LocalTypes'
      BY <1>1, <2>1, MoveType DEF Enqueue
    <2>3. SharedTypes'
      BY <1>1, <2>1, ConstantsOK DEF Enqueue, TypeOK, SharedTypes
    <2>4. QED
      BY <2>2, <2>3, TypeSplitNext
  <1>2. ASSUME NEW s \in Syncs, SyncNow(s) PROVE TypeOK'
    <2>1. user \in Accounts
      BY <1>2 DEF SyncNow, TypeOK
    <2>2. LocalTypes'
      BY <1>2, <2>1, MoveType DEF SyncNow
    <2>3. QED
      BY <1>2, <2>2, TypeSplit, TypeSplitNext DEF SyncNow, SharedTypes
  <1>3. ASSUME NEW s \in Syncs, NEW a \in Accounts, Fire(s, a) PROVE TypeOK'
    <2>1. LocalTypes'
      BY <1>3, MoveType DEF Fire
    <2>2. QED
      BY <1>3, <2>1, TypeSplit, TypeSplitNext DEF Fire, SharedTypes
  <1>4. ASSUME NEW s \in Syncs, Loop(s) PROVE TypeOK'
    BY <1>4, LoopType
  <1>5. ASSUME NEW s \in Syncs, Close(s) PROVE TypeOK'
    <2>1. LocalTypes' /\ excused' \subseteq Ops
      BY <1>5, MoveType, LeaveExcused DEF Close
    <2>2. acc[s] \in Accounts
      BY <1>5 DEF Close, LocalShape
    <2>3. closes' \in 0..MaxCloses
      BY <1>5, ConstantsOK DEF Close, TypeOK
    <2>4. QED
      BY <1>5, <2>1, <2>2, <2>3, TypeSplit, TypeSplitNext DEF Close, SharedTypes
  <1>6. ASSUME NEW o \in Ops, Cancel(o) PROVE TypeOK'
    BY <1>6 DEF Cancel, syncVars, TypeOK
  <1>7. ASSUME Expire \/ Elsewhere PROVE TypeOK'
    BY <1>7 DEF Expire, Elsewhere, syncVars, TypeOK
  <1>8. ASSUME (\E a \in Accounts : SignIn(a)) \/ Refresh \/ Logout PROVE TypeOK'
    <2>1. PICK a \in Accounts \cup {NoAccount} : NewUser(a)
      BY <1>8, Zenon DEF SignIn, Refresh, Logout, TypeOK
    <2>2. live' \in [Syncs -> BOOLEAN]
      BY <2>1, Zenon DEF NewUser, TypeOK
    <2>3. UNCHANGED <<pc, acc, todo, cur, got, resp>>
      BY <1>8 DEF SignIn, Refresh, Logout
    <2>4. LocalTypes'
      BY <2>2, <2>3 DEF LocalTypes, TypeOK
    <2>5. user' \in Accounts \cup {NoAccount}
      BY <2>1 DEF NewUser
    <2>6. /\ session' \in Accounts \cup {NoAccount}
          /\ cookie' \in {session', NoAccount}
          /\ overtaken' \in BOOLEAN
      BY <1>8 DEF SignIn, Refresh, Logout, TypeOK
    <2>7. UNCHANGED <<storeVars, faultVars, historyVars>>
      BY <1>8 DEF SignIn, Refresh, Logout
    <2>8. QED
      BY <2>4, <2>5, <2>6, <2>7, TypeSplit, TypeSplitNext DEF SharedTypes
  <1>9. ASSUME UNCHANGED vars PROVE TypeOK'
    BY <1>9 DEF vars, TypeOK
  <1>10. QED
    BY <1>1, <1>2, <1>3, <1>4, <1>5, <1>6, <1>7, <1>8, <1>9 DEF Next

-----------------------------------------------------------------------------
(* What a sync holds *)

\* Of the variables that are a sync's own, a step of one sync changes its own.
OthersAlone(s) ==
    \A t \in Syncs \ {s} :
        /\ pc'[t] = pc[t] /\ acc'[t] = acc[t] /\ live'[t] = live[t]
        /\ todo'[t] = todo[t] /\ cur'[t] = cur[t]
        /\ got'[t] = got[t] /\ resp'[t] = resp[t]

StepOf(s) ==
    \/ (\E o \in Ops : Enqueue(s, o)) \/ SyncNow(s)
    \/ (\E a \in Accounts : Fire(s, a))
    \/ Loop(s) \/ Close(s)

LEMMA OthersAreAlone ==
  ASSUME TypeOK, NEW s \in Syncs, StepOf(s)
  PROVE  OthersAlone(s)
  <1>1. CASE Leave(s) \/ NextOperation(s) \/ (\E stage \in Stages : Goto(s, stage))
    BY <1>1 DEF Leave, NextOperation, Goto, TypeOK, OthersAlone
  <1>2. CASE (\E a : Started(s, a)) \/ UNCHANGED syncVars
    BY <1>2 DEF Started, syncVars, TypeOK, OthersAlone
  <1>3. CASE (\E o \in Ops : Enqueue(s, o)) \/ SyncNow(s) \/ (\E a \in Accounts : Fire(s, a))
    BY <1>2, <1>3 DEF Enqueue, SyncNow, Fire
  <1>4. CASE Begin(s) \/ Send(s) \/ Count(s)
    BY <1>4 DEF Begin, Send, Count, TypeOK, OthersAlone
  <1>5. CASE End(s) \/ Check(s) \/ Answer(s) \/ Remove(s) \/ Put(s) \/ Review(s) \/ Close(s)
    BY <1>1, <1>5 DEF End, Check, Answer, Remove, Put, Review, Close, Stages
  <1>6. QED
    BY <1>3, <1>4, <1>5 DEF StepOf, Loop

\* An operation keeps the owner it was queued with.
LEMMA OwnersStay ==
  ASSUME TypeOK, [Next]_vars
  PROVE  \A o \in Ops : owner[o] # NoAccount => owner'[o] = owner[o]
  <1> USE DEF storeVars, vars
  <1>1. ASSUME NEW s \in Syncs, NEW o \in Ops, Enqueue(s, o)
        PROVE  \A p \in Ops : owner[p] # NoAccount => owner'[p] = owner[p]
    BY <1>1 DEF Enqueue, TypeOK
  <1>2. ASSUME NEW s \in Syncs, SyncNow(s) \/ (\E a \in Accounts : Fire(s, a)) \/ Loop(s) \/ Close(s)
        PROVE  owner' = owner
    BY <1>2 DEF SyncNow, Fire, Close, Loop, Begin, End, Check, Send, Answer, Remove,
                Count, Put, Review
  <1>3. ASSUME \/ \E o \in Ops : Cancel(o)
               \/ \E a \in Accounts : SignIn(a)
               \/ Refresh \/ Expire \/ Logout \/ Elsewhere
               \/ UNCHANGED vars
        PROVE  owner' = owner
    BY <1>3 DEF Cancel, SignIn, Refresh, Expire, Logout, Elsewhere
  <1>4. QED
    BY <1>1, <1>2, <1>3 DEF Next

\* The shape of one sync.
ShapeOf(s) ==
    /\ pc[s] \in Working => cur[s] \in Ops /\ owner[cur[s]] = acc[s]
    /\ pc[s] \notin Working => cur[s] = NoOp /\ resp[s] = "none"
    /\ pc[s] \in {"sent", "remove"} => resp[s] # "none"
    /\ pc[s] \in {"count", "put", "review"} => resp[s] = "error"
    /\ pc[s] \in {"idle", "begin"} => todo[s] = {}
    /\ pc[s] # "idle" => acc[s] \in Accounts
    /\ \A o \in todo[s] : owner[o] = acc[s]

LEMMA ShapeInit == Init => LocalShape
  BY DEF Init, LocalShape, Working

\* A sync's own step leaves it in shape.
LEMMA ShapeOwn ==
  ASSUME TypeOK, LocalShape, TypeOK', NEW s \in Syncs, StepOf(s),
         \A o \in Ops : owner[o] # NoAccount => owner'[o] = owner[o]
  PROVE  ShapeOf(s)'
  <1> USE DEF storeVars
  <1>1. ShapeOf(s) /\ pc[s] \in Stages
    BY DEF LocalShape, ShapeOf, TypeOK
  <1>2. CASE Leave(s)
    BY <1>2 DEF Leave, TypeOK, ShapeOf, Working
  <1>3. CASE NextOperation(s) /\ pc[s] \in Working
    <2>1. pc'[s] = "next" /\ cur'[s] = NoOp /\ resp'[s] = "none"
      BY <1>3 DEF NextOperation, TypeOK
    <2>2. acc'[s] = acc[s] /\ todo'[s] = todo[s]
      BY <1>3 DEF NextOperation
    <2>3. acc[s] \in Accounts /\ \A o \in todo[s] : owner[o] = acc[s] /\ owner'[o] = owner[o]
      BY <1>1, <1>3, ConstantsOK DEF ShapeOf, Working, TypeOK
    <2>4. QED
      BY <2>1, <2>2, <2>3 DEF ShapeOf, Working
  <1>4. CASE (\E a \in Accounts : Started(s, a)) /\ pc[s] = "idle"
    BY <1>1, <1>4 DEF Started, TypeOK, ShapeOf, Working
  <1>5. CASE \E o \in Ops : Enqueue(s, o) /\ UNCHANGED syncVars
    BY <1>1, <1>5 DEF Enqueue, syncVars, TypeOK, ShapeOf, Working
  <1>6. CASE Begin(s)
    BY <1>1, <1>6, ConstantsOK DEF Begin, Snapshot, TypeOK, ShapeOf, Working
  <1>7. CASE \E stage \in Stages : Goto(s, stage) /\ owner' = owner
             /\ \/ pc[s] = "next" /\ stage = "checked"
                \/ pc[s] = "sent" /\ stage = IF resp[s] = "error" THEN "count" ELSE "remove"
                \/ pc[s] = "put" /\ stage = "review"
                \/ pc[s] = "review" /\ stage = "remove"
    BY <1>1, <1>7 DEF Goto, TypeOK, ShapeOf, Working
  <1>8. CASE Send(s)
    <2>1. todo[s] \in SUBSET Ops /\ todo[s] # {}
      BY <1>8 DEF Send, Ready, TypeOK
    <2>2. Oldest(todo[s]) \in todo[s]
      BY <2>1, OldestIsOne
    <2>3. /\ pc'[s] = "sent" /\ cur'[s] = Oldest(todo[s])
          /\ todo'[s] \subseteq todo[s] /\ acc' = acc /\ owner' = owner
          /\ resp'[s] # "none"
      BY <1>8 DEF Send, TypeOK
    <2>4. pc[s] \in {"next", "checked"}
      BY <1>8 DEF Send, Ready
    <2>5. QED
      BY <1>1, <2>1, <2>2, <2>3, <2>4 DEF ShapeOf, Working
  <1>9. CASE Count(s)
    BY <1>1, <1>9 DEF Count, TypeOK, ShapeOf, Working
  <1>10. CASE (\E o \in Ops : Enqueue(s, o)) \/ SyncNow(s) \/ (\E a \in Accounts : Fire(s, a))
    <2>1. user # NoAccount => user \in Accounts
      BY DEF TypeOK
    <2>2. QED
      BY <1>4, <1>5, <1>10, <2>1 DEF Enqueue, SyncNow, Fire
  <1>11. CASE End(s) \/ Remove(s) \/ Close(s)
    BY <1>2, <1>3, <1>11 DEF End, Remove, Close, Working
  <1>12. CASE Check(s) \/ Answer(s) \/ Put(s)
    BY <1>2, <1>7, <1>12 DEF Check, Answer, Put, Stages
  <1>13. CASE Review(s)
    BY <1>3, <1>7, <1>13 DEF Review, Stages, Working
  <1>14. QED
    BY <1>6, <1>8, <1>9, <1>10, <1>11, <1>12, <1>13 DEF StepOf, Loop

LEMMA ShapeStep ==
  ASSUME TypeOK, LocalShape, TypeOK', [Next]_vars
  PROVE  LocalShape'
  <1>1. \A o \in Ops : owner[o] # NoAccount => owner'[o] = owner[o]
    BY OwnersStay
  <1>2. ASSUME NEW t \in Syncs,
               pc'[t] = pc[t], acc'[t] = acc[t], todo'[t] = todo[t],
               cur'[t] = cur[t], resp'[t] = resp[t]
        PROVE  ShapeOf(t)'
    <2>1. ShapeOf(t) /\ todo[t] \subseteq Ops
      BY DEF LocalShape, ShapeOf, TypeOK
    <2>2. CASE pc[t] = "idle"
      BY <1>2, <2>1, <2>2 DEF ShapeOf, Working
    <2>3. CASE pc[t] # "idle"
      <3>1. acc[t] \in Accounts /\ acc[t] # NoAccount
        BY <2>1, <2>3, ConstantsOK DEF ShapeOf
      <3>2. \A o \in todo[t] : owner'[o] = acc[t]
        BY <1>1, <2>1, <3>1 DEF ShapeOf
      <3>3. pc[t] \in Working => owner'[cur[t]] = acc[t]
        BY <1>1, <2>1, <3>1 DEF ShapeOf
      <3>4. QED
        BY <1>2, <2>1, <3>1, <3>2, <3>3 DEF ShapeOf
    <2>4. QED
      BY <2>2, <2>3
  <1>3. ASSUME NEW s \in Syncs, StepOf(s) PROVE \A t \in Syncs : ShapeOf(t)'
    <2>1. OthersAlone(s)
      BY <1>3, OthersAreAlone
    <2>2. ShapeOf(s)'
      BY <1>1, <1>3, ShapeOwn
    <2>3. QED
      BY <1>2, <2>1, <2>2 DEF OthersAlone
  <1>4. ASSUME \/ \E o \in Ops : Cancel(o)
               \/ \E a \in Accounts : SignIn(a)
               \/ Refresh \/ Expire \/ Logout \/ Elsewhere
               \/ UNCHANGED vars
        PROVE \A t \in Syncs : ShapeOf(t)'
    <2>1. UNCHANGED <<pc, acc, todo, cur, resp>>
      BY <1>4 DEF Cancel, SignIn, Refresh, Expire, Logout, Elsewhere, syncVars, vars
    <2>2. QED
      BY <1>2, <2>1
  <1>5. \A t \in Syncs : ShapeOf(t)'
    BY <1>3, <1>4 DEF Next, StepOf
  <1>6. QED
    BY <1>5 DEF ShapeOf, LocalShape

-----------------------------------------------------------------------------
(* The session *)

LEMMA SessionInit == Init => OneSession
  BY DEF Init, OneSession, Syncs

LEMMA SessionStep ==
  ASSUME TypeOK, LocalShape, OneSession, [Next]_vars
  PROVE  OneSession'
  <1> USE DEF sessionVars, faultVars
  <1>1. ASSUME NEW s \in Syncs, StepOf(s) PROVE OneSession'
    <2>1. OthersAlone(s) /\ user' = user /\ session' = session /\ overtaken' = overtaken
      BY <1>1, OthersAreAlone
         DEF StepOf, Enqueue, SyncNow, Fire, Close, Loop, Begin, End, Check, Send, Answer,
             Remove, Count, Put, Review
    <2>2. CASE pc[s] = "idle" /\ s \in Pages
      <3>1. (\E o \in Ops : Enqueue(s, o)) \/ SyncNow(s)
        BY <1>1, <2>2, ConstantsOK
           DEF StepOf, Fire, Close, Loop, Begin, End, Check, Send, Ready, Answer, Remove,
               Count, Put, Review
      <3>2. Started(s, user) \/ UNCHANGED syncVars
        BY <3>1 DEF Enqueue, SyncNow
      <3>3. acc'[s] = user \/ pc'[s] = "idle"
        BY <2>2, <3>2 DEF Started, syncVars, TypeOK
      <3>4. QED
        BY <2>1, <3>3 DEF OneSession, OthersAlone, Syncs
    <2>3. CASE pc[s] # "idle" /\ s \in Pages
      <3>1. pc'[s] = "idle" \/ (acc'[s] = acc[s] /\ live'[s] = live[s])
        <4>1. Loop(s) \/ Close(s)
          BY <1>1, <2>3 DEF StepOf, Enqueue, SyncNow, Fire
        <4>2. QED
          BY <4>1 DEF Loop, Begin, End, Check, Send, Answer, Remove, Count, Put, Review,
                      Close, Leave, NextOperation, Goto, TypeOK
      <3>2. QED
        BY <2>1, <2>3, <3>1 DEF OneSession, OthersAlone, Syncs
    <2>4. CASE s \notin Pages
      BY <2>1, <2>4 DEF OneSession, OthersAlone, Syncs
    <2>5. QED
      BY <2>2, <2>3, <2>4
  <1>2. ASSUME UNCHANGED <<pc, acc, live, user, session, overtaken>> PROVE OneSession'
    BY <1>2 DEF OneSession
  <1>3. ASSUME NEW a \in Accounts \cup {NoAccount}, NewUser(a), UNCHANGED <<pc, acc>>,
               a # NoAccount => session' \in {a, NoAccount}
        PROVE OneSession'
    <2>1. \A s \in Pages : pc[s] # "idle" /\ live'[s] => live[s] /\ a = user
      BY <1>3, Zenon DEF NewUser, Syncs
    <2>2. QED
      BY <1>3, <2>1 DEF OneSession, NewUser
  <1>4. ASSUME NEW a \in Accounts, SignIn(a) PROVE OneSession'
    BY <1>3, <1>4 DEF SignIn
  <1>5. ASSUME Refresh PROVE OneSession'
    BY <1>3, <1>5 DEF Refresh, TypeOK
  <1>6. ASSUME Logout PROVE OneSession'
    BY <1>3, <1>6 DEF Logout
  <1>7. ASSUME Expire \/ Elsewhere PROVE OneSession'
    BY <1>7 DEF Expire, Elsewhere, syncVars, OneSession
  <1>8. ASSUME NEW o \in Ops, Cancel(o) PROVE OneSession'
    BY <1>2, <1>8 DEF Cancel, syncVars
  <1>9. ASSUME UNCHANGED vars PROVE OneSession'
    BY <1>2, <1>9 DEF vars
  <1>10. QED
    BY <1>1, <1>4, <1>5, <1>6, <1>7, <1>8, <1>9 DEF Next, StepOf

-----------------------------------------------------------------------------
(* The count of failures *)

CountedAt(o) ==
    \/ failures[o] >= MaxRetries
    \/ /\ retry[o] + Cardinality(Pending(o)) <= failures[o]
       /\ \A s \in Pending(o) :
             pc[s] = "put" => got[s] + Cardinality(Pending(o)) <= failures[o]

LEMMA CountInit == Init => CountedOnce
  <1> SUFFICES ASSUME Init, NEW o \in Ops PROVE CountedAt(o)
    BY DEF CountedOnce, CountedAt
  <1>1. Pending(o) = {}
    BY DEF Init, Pending
  <1>2. retry[o] = 0 /\ failures[o] = 0
    BY DEF Init
  <1>3. QED
    BY <1>1, <1>2, FS_EmptySet DEF CountedAt

\* A step that counts nothing and sees no failure of an operation leaves its
\* count in order.
LEMMA CountQuiet ==
  ASSUME TypeOK, TypeOK', NEW s \in Syncs, OthersAlone(s), NEW o \in Ops, CountedAt(o),
         failures'[o] = failures[o], retry'[o] = retry[o],
         s \in Pending(o)' =>
            /\ s \in Pending(o)
            /\ pc'[s] = "put" => got'[s] = retry[o]
  PROVE  CountedAt(o)'
  <1>1. Pending(o)' \subseteq Pending(o)
    BY DEF Pending, OthersAlone
  <1>2. /\ Cardinality(Pending(o)) \in Nat /\ Cardinality(Pending(o)') \in Nat
        /\ Cardinality(Pending(o)') <= Cardinality(Pending(o))
    BY <1>1, PendingCounted, FS_Subset, FS_CardinalityType
  <1>3. CASE failures[o] >= MaxRetries
    BY <1>3 DEF CountedAt
  <1>4. CASE ~(failures[o] >= MaxRetries)
    <2>1. failures[o] \in Nat /\ retry[o] \in Nat
      BY CountsAreNat DEF TypeOK
    <2>2. retry[o] + Cardinality(Pending(o)) <= failures[o]
      BY <1>4 DEF CountedAt
    <2>3. retry[o] + Cardinality(Pending(o)') <= failures[o]
      BY <1>2, <2>1, <2>2
    <2>4. ASSUME NEW t \in Pending(o)', pc'[t] = "put"
          PROVE  got'[t] + Cardinality(Pending(o)') <= failures[o]
      <3>1. CASE t = s
        BY <2>3, <2>4, <3>1
      <3>2. CASE t # s
        <4>1. t \in Pending(o) /\ t \in Syncs
          BY <1>1, <2>4 DEF Pending
        <4>2. pc[t] = "put" /\ got'[t] = got[t] /\ got[t] \in Nat
          BY <2>4, <3>2, <4>1, CountsAreNat DEF OthersAlone, TypeOK
        <4>3. got[t] + Cardinality(Pending(o)) <= failures[o]
          BY <1>4, <4>1, <4>2 DEF CountedAt
        <4>4. QED
          BY <1>2, <2>1, <4>2, <4>3
      <3>3. QED
        BY <3>1, <3>2
    <2>5. QED
      BY <2>3, <2>4 DEF CountedAt
  <1>5. QED
    BY <1>3, <1>4

\* A failure is seen: the operation has one more, and one sync more will count.
LEMMA CountFailure ==
  ASSUME TypeOK, NEW s \in Syncs, OthersAlone(s), NEW o \in Ops, CountedAt(o),
         s \notin Pending(o), pc'[s] = "sent",
         retry'[o] = retry[o], failures'[o] = Incremented(failures[o])
  PROVE  CountedAt(o)'
  <1>1. failures[o] \in Nat /\ failures[o] <= MaxRetries /\ retry[o] \in Nat /\ MaxRetries \in Nat
    BY CountsAreNat DEF TypeOK
  <1>2. CASE failures[o] >= MaxRetries
    BY <1>1, <1>2 DEF CountedAt, Incremented
  <1>3. CASE ~(failures[o] >= MaxRetries)
    <2>1. failures'[o] = failures[o] + 1
      BY <1>1, <1>3 DEF Incremented
    <2>2. Pending(o)' \subseteq Pending(o) \cup {s}
      BY DEF Pending, OthersAlone
    <2>3. /\ IsFiniteSet(Pending(o) \cup {s})
          /\ Cardinality(Pending(o) \cup {s}) = Cardinality(Pending(o)) + 1
      BY PendingCounted, FS_AddElement
    <2>4. /\ Cardinality(Pending(o)) \in Nat /\ Cardinality(Pending(o)') \in Nat
          /\ Cardinality(Pending(o)') <= Cardinality(Pending(o)) + 1
      BY <2>2, <2>3, PendingCounted, FS_Subset, FS_CardinalityType
    <2>5. retry[o] + Cardinality(Pending(o)) <= failures[o]
      BY <1>3 DEF CountedAt
    <2>6. ASSUME NEW t \in Pending(o)', pc'[t] = "put"
          PROVE  got'[t] + Cardinality(Pending(o)') <= failures'[o]
      <3>1. t # s /\ t \in Pending(o) /\ t \in Syncs
        BY <2>2, <2>6 DEF Pending
      <3>2. pc[t] = "put" /\ got'[t] = got[t] /\ got[t] \in Nat
        BY <2>6, <3>1, CountsAreNat DEF OthersAlone, TypeOK
      <3>3. got[t] + Cardinality(Pending(o)) <= failures[o]
        BY <1>3, <3>1, <3>2 DEF CountedAt
      <3>4. QED
        BY <1>1, <2>1, <2>4, <3>2, <3>3
    <2>7. retry'[o] + Cardinality(Pending(o)') <= failures'[o]
      BY <1>1, <2>1, <2>4, <2>5
    <2>8. QED
      BY <2>6, <2>7 DEF CountedAt
  <1>4. QED
    BY <1>2, <1>3

\* A failure is counted, from the number read before.
LEMMA CountWritten ==
  ASSUME TypeOK, NEW s \in Syncs, OthersAlone(s), NEW o \in Ops, CountedAt(o),
         s \in Pending(o), pc[s] = "put", pc'[s] = "review",
         retry'[o] = Incremented(got[s]), failures'[o] = failures[o]
  PROVE  CountedAt(o)'
  <1>1. failures[o] \in Nat /\ got[s] \in Nat /\ MaxRetries \in Nat
    BY CountsAreNat DEF TypeOK
  <1>2. CASE failures[o] >= MaxRetries
    BY <1>2 DEF CountedAt
  <1>3. CASE ~(failures[o] >= MaxRetries)
    <2>1. retry'[o] \in Nat /\ retry'[o] <= got[s] + 1
      BY <1>1 DEF Incremented
    <2>2. Pending(o)' \subseteq Pending(o) \ {s}
      BY DEF Pending, OthersAlone
    <2>3. /\ IsFiniteSet(Pending(o) \ {s})
          /\ Cardinality(Pending(o) \ {s}) = Cardinality(Pending(o)) - 1
      BY PendingCounted, FS_RemoveElement
    <2>4. /\ Cardinality(Pending(o)) \in Nat /\ Cardinality(Pending(o)') \in Nat
          /\ Cardinality(Pending(o)') <= Cardinality(Pending(o)) - 1
      BY <2>2, <2>3, PendingCounted, FS_Subset, FS_CardinalityType
    <2>5. got[s] + Cardinality(Pending(o)) <= failures[o]
      BY <1>3 DEF CountedAt
    <2>6. ASSUME NEW t \in Pending(o)', pc'[t] = "put"
          PROVE  got'[t] + Cardinality(Pending(o)') <= failures'[o]
      <3>1. t # s /\ t \in Pending(o) /\ t \in Syncs
        BY <2>2, <2>6 DEF Pending
      <3>2. pc[t] = "put" /\ got'[t] = got[t] /\ got[t] \in Nat
        BY <2>6, <3>1, CountsAreNat DEF OthersAlone, TypeOK
      <3>3. got[t] + Cardinality(Pending(o)) <= failures[o]
        BY <1>3, <3>1, <3>2 DEF CountedAt
      <3>4. QED
        BY <1>1, <2>4, <3>2, <3>3
    <2>7. retry'[o] + Cardinality(Pending(o)') <= failures'[o]
      BY <1>1, <2>1, <2>4, <2>5
    <2>8. QED
      BY <2>6, <2>7 DEF CountedAt
  <1>4. QED
    BY <1>2, <1>3

LEMMA CountStep ==
  ASSUME TypeOK, TypeOK', LocalShape, CountedOnce, [Next]_vars
  PROVE  CountedOnce'
  <1> USE DEF storeVars, historyVars
  <1> SUFFICES ASSUME NEW o \in Ops PROVE CountedAt(o)'
    BY DEF CountedOnce, CountedAt
  <1>0. CountedAt(o)
    BY DEF CountedOnce, CountedAt
  <1>1. ASSUME NEW s \in Syncs, StepOf(s) PROVE CountedAt(o)'
    <2>0. OthersAlone(s)
      BY <1>1, OthersAreAlone
    <2>1. CASE Send(s)
      <3>1. pc'[s] = "sent" /\ retry' = retry /\ s \notin Pending(o)
        BY <2>1 DEF Send, Ready, Pending, TypeOK
      <3>2. CASE o = Oldest(todo[s]) /\ resp'[s] = "error"
        <4>1. failures'[o] = Incremented(failures[o])
          BY <2>1, <3>2 DEF Send, TypeOK
        <4>2. QED
          BY <1>0, <2>0, <3>1, <4>1, CountFailure
      <3>3. CASE ~(o = Oldest(todo[s]) /\ resp'[s] = "error")
        <4>1. failures'[o] = failures[o] /\ s \notin Pending(o)'
          BY <2>1, <3>3 DEF Send, Pending, TypeOK
        <4>2. QED
          BY <1>0, <2>0, <3>1, <4>1, CountQuiet
      <3>4. QED
        BY <3>2, <3>3
    <2>2. CASE Put(s)
      <3>1. /\ pc[s] = "put" /\ pc'[s] = "review" /\ failures' = failures
            /\ resp[s] = "error"
        BY <2>2 DEF Put, Goto, TypeOK, LocalShape
      <3>2. CASE o = cur[s]
        <4>1. retry'[o] = Incremented(got[s]) /\ s \in Pending(o)
          BY <2>2, <3>1, <3>2 DEF Put, Pending, TypeOK
        <4>2. QED
          BY <1>0, <2>0, <3>1, <4>1, CountWritten
      <3>3. CASE o # cur[s]
        <4>1. retry'[o] = retry[o] /\ s \notin Pending(o)'
          BY <2>2, <3>1, <3>3 DEF Put, Pending, TypeOK
        <4>2. QED
          BY <1>0, <2>0, <3>1, <4>1, CountQuiet
      <3>4. QED
        BY <3>2, <3>3
    <2>3. CASE Count(s)
      <3>1. retry' = retry /\ failures' = failures /\ cur' = cur /\ resp' = resp /\ pc[s] = "count"
        BY <2>3 DEF Count
      <3>2. s \in Pending(o)' => s \in Pending(o) /\ (pc'[s] = "put" => got'[s] = retry[o])
        BY <2>3, <3>1 DEF Count, Pending, TypeOK
      <3>3. QED
        BY <1>0, <2>0, <3>1, <3>2, CountQuiet
    <2>4. CASE Answer(s)
      <3>1. retry' = retry /\ failures' = failures /\ pc[s] = "sent"
        BY <2>4 DEF Answer
      <3>2. s \in Pending(o)' => s \in Pending(o) /\ pc'[s] # "put"
        BY <2>4, <3>1 DEF Answer, Leave, Goto, Pending, TypeOK
      <3>3. QED
        BY <1>0, <2>0, <3>1, <3>2, CountQuiet
    <2>5. CASE Begin(s) \/ End(s) \/ Check(s) \/ Remove(s) \/ Review(s) \/ Close(s)
      <3>1. retry' = retry /\ failures' = failures
        BY <2>5 DEF Begin, End, Check, Remove, Review, Close
      <3>2. pc'[s] \notin {"sent", "count", "put"}
        BY <2>5 DEF Begin, End, Check, Remove, Review, Close, Leave, NextOperation, Goto, TypeOK
      <3>3. s \notin Pending(o)'
        BY <3>2 DEF Pending
      <3>4. QED
        BY <1>0, <2>0, <3>1, <3>3, CountQuiet
    <2>6. CASE (\E p \in Ops : Enqueue(s, p)) \/ SyncNow(s) \/ (\E a \in Accounts : Fire(s, a))
      <3>1. retry' = retry /\ failures' = failures /\ pc[s] = "idle"
        BY <2>6 DEF Enqueue, SyncNow, Fire
      <3>2. pc'[s] \in {"idle", "begin"}
        BY <2>6, <3>1 DEF Enqueue, SyncNow, Fire, Started, syncVars, TypeOK
      <3>3. s \notin Pending(o)'
        BY <3>2 DEF Pending
      <3>4. QED
        BY <1>0, <2>0, <3>1, <3>3, CountQuiet
    <2>7. QED
      BY <1>1, <2>1, <2>2, <2>3, <2>4, <2>5, <2>6 DEF StepOf, Loop
  <1>2. ASSUME UNCHANGED <<pc, resp, cur, got, retry, failures>> PROVE CountedAt(o)'
    <2>1. Pending(o)' = Pending(o)
      BY <1>2 DEF Pending
    <2>2. QED
      BY <1>0, <1>2, <2>1 DEF CountedAt
  <1>3. ASSUME \/ \E p \in Ops : Cancel(p)
               \/ \E a \in Accounts : SignIn(a)
               \/ Refresh \/ Expire \/ Logout \/ Elsewhere
               \/ UNCHANGED vars
        PROVE CountedAt(o)'
    BY <1>2, <1>3 DEF Cancel, SignIn, Refresh, Expire, Logout, Elsewhere, syncVars, vars
  <1>4. QED
    BY <1>1, <1>3 DEF Next, StepOf

-----------------------------------------------------------------------------
(* What is taken out of the queue *)

\* Requests carried out, failures and settled operations only become more.
LEMMA HistoryGrows ==
  ASSUME TypeOK, TypeOK', [Next]_vars
  PROVE  /\ \A o \in Ops : applied[o] <= applied'[o] /\ failures[o] <= failures'[o]
         /\ settled \subseteq settled' /\ excused \subseteq excused'
  <1> USE DEF historyVars
  <1>1. ASSUME NEW s \in Syncs, Send(s)
        PROVE  /\ \A o \in Ops : applied[o] <= applied'[o] /\ failures[o] <= failures'[o]
               /\ settled' = settled /\ excused \subseteq excused'
    <2>1. \A o \in Ops : applied[o] \in 0..2 /\ failures[o] \in 0..MaxRetries
      BY DEF TypeOK
    <2>2. ASSUME NEW o \in Ops PROVE applied[o] <= applied'[o]
      BY <1>1, <2>1 DEF Send, CarryOut, TypeOK
    <2>3. ASSUME NEW o \in Ops PROVE failures[o] <= failures'[o]
      BY <1>1, <2>1, CountsAreNat DEF Send, Incremented, TypeOK
    <2>4. settled' = settled /\ excused \subseteq excused'
      BY <1>1 DEF Send
    <2>5. QED
      BY <2>2, <2>3, <2>4
  <1>2. ASSUME applied' = applied, failures' = failures
        PROVE \A o \in Ops : applied[o] <= applied'[o] /\ failures[o] <= failures'[o]
    BY <1>2, CountsAreNat DEF TypeOK
  <1>3. ASSUME NEW s \in Syncs, StepOf(s), ~Send(s)
        PROVE  /\ applied' = applied /\ failures' = failures
               /\ settled \subseteq settled' /\ excused \subseteq excused'
    BY <1>3 DEF StepOf, Enqueue, SyncNow, Fire, Close, Loop, Begin, End, Check, Answer,
                Remove, Count, Put, Review, Leave
  <1>4. ASSUME \/ \E o \in Ops : Cancel(o)
               \/ \E a \in Accounts : SignIn(a)
               \/ Refresh \/ Expire \/ Logout \/ Elsewhere
               \/ UNCHANGED vars
        PROVE  /\ applied' = applied /\ failures' = failures
               /\ settled \subseteq settled' /\ excused \subseteq excused'
    BY <1>4 DEF Cancel, SignIn, Refresh, Expire, Logout, Elsewhere, vars
  <1>5. QED
    BY <1>1, <1>2, <1>3, <1>4 DEF Next, StepOf

SoundAt(s) ==
    /\ pc[s] \in {"sent", "remove"} /\ resp[s] = "ok" => applied[cur[s]] > 0
    /\ pc[s] = "remove" =>
          \/ resp[s] \in {"ok", "conflict"}
          \/ failures[cur[s]] >= MaxRetries

LEMMA RemoveInit == Init => RemoveSound
  BY DEF Init, RemoveSound

LEMMA RemoveStep ==
  ASSUME TypeOK, TypeOK', LocalShape, CountedOnce, RemoveSound, [Next]_vars
  PROVE  RemoveSound'
  <1> USE DEF storeVars, historyVars
  <1>1. \A o \in Ops : applied[o] <= applied'[o] /\ failures[o] <= failures'[o]
    BY HistoryGrows
  <1>2. \A o \in Ops : /\ applied[o] \in Nat /\ applied'[o] \in Nat
                       /\ failures[o] \in Nat /\ failures'[o] \in Nat /\ retry[o] \in Nat
    BY CountsAreNat DEF TypeOK
  <1>3. ASSUME NEW t \in Syncs, pc'[t] = pc[t], cur'[t] = cur[t], resp'[t] = resp[t]
        PROVE  SoundAt(t)'
    <2>1. SoundAt(t) /\ (pc[t] \in {"sent", "remove"} => cur[t] \in Ops)
      BY DEF RemoveSound, SoundAt, LocalShape, Working
    <2>2. QED
      BY <1>1, <1>2, <1>3, <2>1, CountsAreNat DEF SoundAt
  <1>4. ASSUME NEW s \in Syncs, StepOf(s) PROVE SoundAt(s)'
    <2>1. CASE Send(s)
      <3>1. todo[s] \in SUBSET Ops /\ todo[s] # {}
        BY <2>1 DEF Send, Ready, TypeOK
      <3>2. Oldest(todo[s]) \in Ops
        BY <3>1, OldestIsOne
      <3>3. pc'[s] = "sent" /\ cur'[s] = Oldest(todo[s])
        BY <2>1 DEF Send, TypeOK
      <3>4. resp'[s] = "ok" => applied'[cur'[s]] > 0
        BY <1>2, <2>1, <3>2, <3>3 DEF Send, CarryOut, TypeOK
      <3>5. QED
        BY <3>3, <3>4 DEF SoundAt
    <2>2. CASE Answer(s)
      <3>1. pc[s] = "sent" /\ resp[s] \in Responses /\ resp[s] # "none" /\ cur[s] \in Ops
        BY <2>2 DEF Answer, TypeOK, LocalShape, Working
      <3>2. resp[s] = "ok" => applied[cur[s]] > 0
        BY <3>1 DEF RemoveSound
      <3>3. applied' = applied
        BY <2>2 DEF Answer
      <3>4. \/ pc'[s] = "idle"
            \/ cur' = cur /\ resp' = resp /\ pc'[s] = IF resp[s] = "error" THEN "count" ELSE "remove"
        BY <2>2 DEF Answer, Leave, Goto, TypeOK
      <3>5. QED
        BY <3>1, <3>2, <3>3, <3>4 DEF SoundAt, Responses
    <2>3. CASE Review(s)
      <3>1. cur[s] \in Ops /\ resp[s] = "error" /\ failures' = failures
        BY <2>3 DEF Review, LocalShape, Working
      <3>2. CASE cur[s] \in stored /\ retry[cur[s]] >= MaxRetries
        <4>1. failures[cur[s]] >= MaxRetries
          <5>1. CountedAt(cur[s]) /\ Cardinality(Pending(cur[s])) \in Nat
            BY <3>1, PendingCounted DEF CountedOnce, CountedAt
          <5>2. QED
            BY <1>2, <3>1, <3>2, <5>1, CountsAreNat DEF CountedAt
        <4>2. pc'[s] = "remove" /\ cur' = cur /\ resp' = resp
          BY <2>3, <3>2 DEF Review, Goto, TypeOK
        <4>3. QED
          BY <3>1, <4>1, <4>2 DEF SoundAt
      <3>3. CASE ~(cur[s] \in stored /\ retry[cur[s]] >= MaxRetries)
        BY <2>3, <3>3 DEF Review, NextOperation, TypeOK, SoundAt
      <3>4. QED
        BY <3>2, <3>3
    <2>4. CASE \/ Begin(s) \/ End(s) \/ Check(s) \/ Remove(s) \/ Count(s) \/ Put(s) \/ Close(s)
      <3>1. pc'[s] \notin {"sent", "remove"}
        BY <2>4 DEF Begin, End, Check, Remove, Count, Put, Close, Leave, NextOperation, Goto, TypeOK
      <3>2. QED
        BY <3>1 DEF SoundAt
    <2>5. CASE (\E o \in Ops : Enqueue(s, o)) \/ SyncNow(s) \/ (\E a \in Accounts : Fire(s, a))
      <3>1. pc'[s] \in {"idle", "begin"}
        BY <2>5 DEF Enqueue, SyncNow, Fire, Started, syncVars, TypeOK
      <3>2. QED
        BY <3>1 DEF SoundAt
    <2>6. QED
      BY <1>4, <2>1, <2>2, <2>3, <2>4, <2>5 DEF StepOf, Loop
  <1>5. ASSUME NEW s \in Syncs, StepOf(s) PROVE \A t \in Syncs : SoundAt(t)'
    <2>1. OthersAlone(s)
      BY <1>5, OthersAreAlone
    <2>2. SoundAt(s)'
      BY <1>4, <1>5
    <2>3. QED
      BY <1>3, <2>1, <2>2 DEF OthersAlone
  <1>6. ASSUME \/ \E o \in Ops : Cancel(o)
               \/ \E a \in Accounts : SignIn(a)
               \/ Refresh \/ Expire \/ Logout \/ Elsewhere
               \/ UNCHANGED vars
        PROVE \A t \in Syncs : SoundAt(t)'
    <2>1. UNCHANGED <<pc, cur, resp>>
      BY <1>6 DEF Cancel, SignIn, Refresh, Expire, Logout, Elsewhere, syncVars, vars
    <2>2. QED
      BY <1>3, <2>1
  <1>7. \A t \in Syncs : SoundAt(t)'
    BY <1>5, <1>6 DEF Next, StepOf
  <1>8. QED
    BY <1>7 DEF RemoveSound, SoundAt

-----------------------------------------------------------------------------
(* Who holds an operation *)

HeldAt(o) ==
    /\ \A s, t \in Syncs : Holds(s, o) /\ Holds(t, o) => s = t
    /\ applied[o] <= 1
    /\ applied[o] > 0 =>
          /\ owner[o] # NoAccount
          /\ \A s \in Syncs : o \notin todo[s]
          /\ \A s \in Syncs : cur[s] = o => resp[s] = "ok"
          /\ o \in stored => \E s \in Syncs : Unsettled(s) /\ cur[s] = o

LEMMA HeldInit == Init => HeldOnce
  BY ConstantsOK DEF Init, HeldOnce, Holds

\* A step that takes no operation up leaves it in the hands it was in.
LEMMA HeldQuiet ==
  ASSUME TypeOK, NEW s \in Syncs, OthersAlone(s), NEW o \in Ops, HeldAt(o),
         owner[o] # NoAccount => owner'[o] = owner[o],
         applied'[o] = applied[o],
         o \in todo'[s] => o \in todo[s],
         cur'[s] = o => cur[s] = o /\ resp'[s] = resp[s],
         o \in stored' /\ applied[o] > 0 => o \in stored,
         Unsettled(s) /\ cur[s] = o /\ o \in stored'
            => cur'[s] = o /\ pc'[s] \in {"sent", "remove"}
  PROVE  HeldAt(o)'
  <1>1. \A t \in Syncs : Holds(t, o)' => Holds(t, o)
    BY DEF Holds, OthersAlone
  <1>2. \A t, u \in Syncs : Holds(t, o)' /\ Holds(u, o)' => t = u
    BY <1>1 DEF HeldAt
  <1>3. ASSUME applied[o] > 0, o \in stored'
        PROVE \E t \in Syncs : Unsettled(t)' /\ cur'[t] = o
    <2>1. PICK t \in Syncs : Unsettled(t) /\ cur[t] = o
      BY <1>3 DEF HeldAt
    <2>2. CASE t = s
      BY <1>3, <2>1, <2>2 DEF Unsettled
    <2>3. CASE t # s
      BY <1>3, <2>1, <2>3 DEF Unsettled, OthersAlone
    <2>4. QED
      BY <2>2, <2>3
  <1>4. ASSUME applied[o] > 0
        PROVE  /\ owner'[o] # NoAccount
               /\ \A t \in Syncs : o \notin todo'[t]
               /\ \A t \in Syncs : cur'[t] = o => resp'[t] = "ok"
    BY <1>4 DEF HeldAt, OthersAlone
  <1>5. QED
    BY <1>2, <1>3, <1>4 DEF HeldAt

\* A sync takes up what no other holds.
LEMMA HeldBegin ==
  ASSUME TypeOK, TypeOK', LocalShape, NEW s \in Syncs, OthersAlone(s), Begin(s),
         NEW o \in Ops \ excused', HeldAt(o)
  PROVE  HeldAt(o)'
  <1> USE DEF storeVars
  <1>1. /\ UNCHANGED <<stored, owner, applied, cur, resp>>
        /\ todo'[s] = Snapshot(acc[s]) /\ pc[s] = "begin" /\ pc'[s] = "next" /\ cur[s] = NoOp
    BY DEF Begin, TypeOK, LocalShape, Working
  <1>2. CASE o \notin Snapshot(acc[s])
    BY <1>1, <1>2, HeldQuiet DEF Unsettled
  <1>3. CASE o \in Snapshot(acc[s])
    <2>1. \A t \in Syncs \ {s} : ~Holds(t, o)
      BY <1>3 DEF Begin
    <2>2. o \in stored
      BY <1>3 DEF Snapshot
    <2>3. ~(applied[o] > 0)
      <3>1. ASSUME applied[o] > 0 PROVE FALSE
        <4>1. PICK t \in Syncs : Unsettled(t) /\ cur[t] = o
          BY <2>2, <3>1 DEF HeldAt
        <4>2. t # s
          BY <1>1, <4>1 DEF Unsettled
        <4>3. QED
          BY <2>1, <4>1, <4>2 DEF Holds
      <3>2. QED
        BY <3>1
    <2>4. \A t \in Syncs : Holds(t, o)' => t = s
      BY <2>1 DEF Holds, OthersAlone
    <2>5. QED
      BY <1>1, <2>3, <2>4 DEF HeldAt
  <1>4. QED
    BY <1>2, <1>3

\* A request is sent for an operation that was not carried out before.
LEMMA HeldSend ==
  ASSUME TypeOK, TypeOK', LocalShape, NEW s \in Syncs, OthersAlone(s), Send(s),
         NEW o \in Ops \ excused', HeldAt(o)
  PROVE  HeldAt(o)'
  <1> USE DEF storeVars
  <1>1. todo[s] \in SUBSET Ops /\ todo[s] # {}
    BY DEF Send, Ready, TypeOK
  <1>2. Oldest(todo[s]) \in todo[s]
    BY <1>1, OldestIsOne
  <1>3. /\ UNCHANGED <<stored, owner>> /\ pc'[s] = "sent"
        /\ cur'[s] = Oldest(todo[s]) /\ todo'[s] = todo[s] \ {Oldest(todo[s])}
        /\ pc[s] \in {"next", "checked"}
    BY DEF Send, Ready, TypeOK
  <1>4. CASE o # Oldest(todo[s])
    <2>1. applied'[o] = applied[o]
      BY <1>4 DEF Send, CarryOut, TypeOK
    <2>2. ~Unsettled(s)
      BY <1>3 DEF Unsettled
    <2>3. QED
      BY <1>3, <1>4, <2>1, <2>2, HeldQuiet
  <1>5. CASE o = Oldest(todo[s])
    <2>1. ~(applied[o] > 0) /\ applied[o] \in 0..2
      BY <1>2, <1>5 DEF HeldAt, TypeOK
    <2>2. \A t \in Syncs \ {s} : ~Holds(t, o)
      BY <1>2, <1>5 DEF HeldAt, Holds
    <2>3. \A t \in Syncs : Holds(t, o)' => t = s
      BY <2>2 DEF Holds, OthersAlone
    <2>4. applied'[o] = 0 \/ (applied'[o] = 1 /\ resp'[s] = "ok")
      BY <1>5, <2>1 DEF Send, CarryOut, TypeOK
    <2>5. owner'[o] # NoAccount
      <3>1. owner[o] = acc[s] /\ acc[s] \in Accounts
        BY <1>2, <1>3, <1>5 DEF LocalShape
      <3>2. QED
        BY <1>3, <3>1, ConstantsOK
    <2>6. \A t \in Syncs : o \notin todo'[t]
      BY <1>3, <1>5, <2>2 DEF Holds, OthersAlone
    <2>7. \A t \in Syncs : cur'[t] = o => t = s
      BY <2>2 DEF Holds, OthersAlone
    <2>8. applied'[o] > 0 => (o \in stored' => Unsettled(s)' /\ cur'[s] = o)
      BY <1>3, <1>5, <2>4 DEF Unsettled
    <2>9. QED
      BY <2>3, <2>4, <2>5, <2>6, <2>7, <2>8 DEF HeldAt
  <1>6. QED
    BY <1>4, <1>5

LEMMA HeldStep ==
  ASSUME TypeOK, TypeOK', LocalShape, HeldOnce, [Next]_vars
  PROVE  HeldOnce'
  <1> USE DEF storeVars, historyVars
  <1> SUFFICES ASSUME NEW o \in Ops \ excused' PROVE HeldAt(o)'
    BY DEF HeldOnce, HeldAt
  <1>0. HeldAt(o) /\ (owner[o] # NoAccount => owner'[o] = owner[o])
    BY HistoryGrows, OwnersStay DEF HeldOnce, HeldAt
  <1>1. ASSUME NEW s \in Syncs, StepOf(s) PROVE HeldAt(o)'
    <2>0. OthersAlone(s)
      BY <1>1, OthersAreAlone
    <2>1. CASE Begin(s) \/ Send(s)
      BY <1>0, <2>0, <2>1, HeldBegin, HeldSend
    <2>2. CASE (\E p \in Ops : Enqueue(s, p)) \/ SyncNow(s) \/ (\E a \in Accounts : Fire(s, a))
      <3>1. pc[s] = "idle" /\ todo' = todo /\ cur' = cur /\ resp' = resp /\ applied' = applied
        BY <2>2 DEF Enqueue, SyncNow, Fire, Started, syncVars
      <3>2. o \in stored' /\ applied[o] > 0 => o \in stored
        BY <1>0, <2>2 DEF Enqueue, SyncNow, Fire, HeldAt
      <3>3. ~Unsettled(s)
        BY <3>1 DEF Unsettled
      <3>4. QED
        BY <1>0, <2>0, <3>1, <3>2, <3>3, HeldQuiet
    <2>3. CASE Leave(s) /\ UNCHANGED <<stored, owner, applied>>
      <3>1. /\ todo'[s] = {} /\ cur'[s] = NoOp /\ o # NoOp
            /\ ~(Unsettled(s) /\ cur[s] = o)
        BY <2>3, ConstantsOK DEF Leave, TypeOK
      <3>2. QED
        BY <1>0, <2>0, <2>3, <3>1, HeldQuiet
    <2>4. CASE \E stage \in Stages : Goto(s, stage) /\ UNCHANGED <<stored, owner, applied>>
                 /\ (Unsettled(s) => stage = "remove")
      <3>1. todo' = todo /\ cur' = cur /\ resp' = resp
        BY <2>4 DEF Goto
      <3>2. Unsettled(s) => pc'[s] = "remove"
        BY <2>4 DEF Goto, TypeOK
      <3>3. QED
        BY <1>0, <2>0, <2>4, <3>1, <3>2, HeldQuiet
    <2>5. CASE Remove(s)
      <3>1. /\ todo' = todo /\ cur'[s] = NoOp /\ o # NoOp /\ applied' = applied
            /\ stored' = stored \ {cur[s]}
        BY <2>5, ConstantsOK DEF Remove, NextOperation, TypeOK
      <3>2. QED
        BY <1>0, <2>0, <3>1, HeldQuiet
    <2>6. CASE Count(s)
      BY <1>0, <2>0, <2>6, HeldQuiet DEF Count, Unsettled
    <2>7. CASE Put(s)
      <3>1. /\ todo' = todo /\ cur' = cur /\ resp' = resp /\ applied' = applied
            /\ stored' = stored \cup {cur[s]} /\ pc[s] = "put" /\ resp[s] = "error"
        BY <2>7 DEF Put, Goto, LocalShape
      <3>2. o \in stored' /\ applied[o] > 0 => o \in stored
        BY <1>0, <3>1 DEF HeldAt
      <3>3. ~Unsettled(s)
        BY <3>1 DEF Unsettled
      <3>4. QED
        BY <1>0, <2>0, <3>1, <3>2, <3>3, HeldQuiet
    <2>8. CASE Review(s)
      <3>1. UNCHANGED <<todo, stored, applied>> /\ pc[s] = "review"
        BY <2>8 DEF Review, Goto, NextOperation
      <3>2. cur'[s] = NoOp \/ (cur' = cur /\ resp' = resp)
        BY <2>8 DEF Review, Goto, NextOperation, TypeOK
      <3>3. ~Unsettled(s) /\ o # NoOp
        BY <3>1, ConstantsOK DEF Unsettled
      <3>4. QED
        BY <1>0, <2>0, <3>1, <3>2, <3>3, HeldQuiet
    <2>9. CASE End(s) \/ Close(s) \/ Check(s) \/ Answer(s)
      BY <2>3, <2>4, <2>9 DEF End, Close, Check, Answer, Unsettled, Stages
    <2>10. QED
      BY <1>1, <2>1, <2>2, <2>5, <2>6, <2>7, <2>8, <2>9 DEF StepOf, Loop
  <1>2. ASSUME \/ \E p \in Ops : Cancel(p)
               \/ \E a \in Accounts : SignIn(a)
               \/ Refresh \/ Expire \/ Logout \/ Elsewhere
               \/ UNCHANGED vars
        PROVE HeldAt(o)'
    <2>1. UNCHANGED <<pc, todo, cur, resp, owner, applied>> /\ stored' \subseteq stored
      BY <1>2 DEF Cancel, SignIn, Refresh, Expire, Logout, Elsewhere, syncVars, vars
    <2>2. \A t \in Syncs : Holds(t, o)' <=> Holds(t, o)
      BY <2>1 DEF Holds
    <2>3. \A t \in Syncs : cur[t] = o /\ o \in stored' /\ Unsettled(t) => Unsettled(t)'
      BY <2>1 DEF Unsettled
    <2>4. QED
      BY <1>0, <2>1, <2>2, <2>3 DEF HeldAt
  <1>3. QED
    BY <1>1, <1>2 DEF Next, StepOf

-----------------------------------------------------------------------------
(* Theorems *)

\* The strengthened invariant holds in every state.
THEOREM Inductive == Spec => []IInv
  <1>1. Init => IInv
    BY TypeInit, ShapeInit, SessionInit, CountInit, RemoveInit, HeldInit DEF IInv
  <1>2. IInv /\ [Next]_vars => IInv'
    <2> SUFFICES ASSUME IInv, [Next]_vars PROVE IInv'
      OBVIOUS
    <2>1. TypeOK /\ LocalShape /\ OneSession /\ CountedOnce /\ RemoveSound /\ HeldOnce
      BY DEF IInv
    <2>2. TypeOK'
      BY <2>1, TypeStep
    <2>3. LocalShape' /\ OneSession'
      BY <2>1, <2>2, ShapeStep, SessionStep
    <2>4. CountedOnce' /\ RemoveSound' /\ HeldOnce'
      BY <2>1, <2>2, CountStep, RemoveStep, HeldStep
    <2>5. QED
      BY <2>2, <2>3, <2>4 DEF IInv
  <1>3. QED
    BY <1>1, <1>2, PTL DEF Spec

\* The queue and its syncs are well-formed at all times.
THEOREM TypeCorrect == Spec => []TypeOK
  <1>1. IInv => TypeOK
    BY DEF IInv
  <1>2. QED
    BY <1>1, Inductive, PTL

\* An operation is carried out twice only if two syncs held it at once, an answer
\* was lost, or a sync was cut off between the answer and the removal.
THEOREM TwiceOnlyWithCause == Spec => []DuplicateHasCause
  <1>1. IInv => DuplicateHasCause
    <2> SUFFICES ASSUME IInv, NEW o \in Ops, applied[o] > 1, o \notin excused PROVE FALSE
      BY DEF DuplicateHasCause
    <2>1. applied[o] <= 1 /\ applied[o] \in 0..2
      BY DEF IInv, HeldOnce, TypeOK
    <2>2. QED
      BY <2>1
  <1>2. QED
    BY <1>1, Inductive, PTL

\* A page's request is for an operation of the account that is logged in, and
\* carries that account's cookie or none, however logging out and in falls between
\* the requests; only a login in another tab can give it another one's.
THEOREM PagesSendTheirOwn == Spec => SentByOwner
  <1>1. ASSUME IInv, [Next]_vars
        PROVE  [\A s \in Pages : pc[s] # "sent" /\ pc'[s] = "sent"
                  => /\ owner[cur'[s]] = user
                     /\ cookie \in {user, NoAccount} \/ overtaken]_vars
    <2> SUFFICES ASSUME NEW s \in Pages, Next, pc[s] # "sent", pc'[s] = "sent"
                 PROVE  /\ owner[cur'[s]] = user
                        /\ cookie \in {user, NoAccount} \/ overtaken
      BY <1>1
    <2>1. TypeOK /\ LocalShape /\ OneSession /\ s \in Syncs
      BY <1>1 DEF IInv, Syncs
    <2>2. Send(s)
      <3>1. ASSUME NEW t \in Syncs, StepOf(t), t # s PROVE FALSE
        BY <2>1, <3>1, OthersAreAlone DEF OthersAlone
      <3>2. ASSUME StepOf(s), ~Send(s) PROVE FALSE
        BY <2>1, <3>2
           DEF StepOf, Enqueue, SyncNow, Fire, Started, Loop, Begin, End, Check, Answer, Remove,
               Count, Put, Review, Close, Leave, NextOperation, Goto, syncVars, TypeOK
      <3>3. ASSUME \/ \E o \in Ops : Cancel(o)
                   \/ \E a \in Accounts : SignIn(a)
                   \/ Refresh \/ Expire \/ Logout \/ Elsewhere
            PROVE FALSE
        BY <3>3 DEF Cancel, SignIn, Refresh, Expire, Logout, Elsewhere, syncVars
      <3>4. QED
        BY <3>1, <3>2, <3>3 DEF Next, StepOf
    <2>3. pc[s] = "next" /\ live[s] /\ todo[s] # {}
      BY <2>2, ConstantsOK DEF Send, Ready, ShouldStop
    <2>4. user = acc[s] /\ acc[s] \in Accounts
      BY <2>1, <2>3 DEF OneSession, LocalShape
    <2>5. cookie \in {user, NoAccount} \/ overtaken
      BY <2>1, <2>4, ConstantsOK DEF OneSession, TypeOK
    <2>6. cur'[s] = Oldest(todo[s]) /\ Oldest(todo[s]) \in todo[s]
      <3>1. todo[s] \in SUBSET Ops
        BY <2>1 DEF TypeOK
      <3>2. QED
        BY <2>1, <2>2, <2>3, <3>1, OldestIsOne DEF Send, TypeOK
    <2>7. owner[cur'[s]] = acc[s]
      BY <2>1, <2>6 DEF LocalShape
    <2>8. QED
      BY <2>4, <2>5, <2>7
  <1>2. QED
    BY <1>1, Inductive, PTL DEF Spec, SentByOwner

Answered == {o \in Ops : applied[o] > 0 \/ o \in settled \/ failures[o] >= MaxRetries}

\* Every step takes an operation on, lets answered ones go, or brings an answer.
LEMMA CustodyStep ==
  ASSUME IInv, IInv', [Next]_vars
  PROVE  [Custody!Next]_<<stored, Answered>>
  <1> USE DEF storeVars, historyVars
  <1>0. TypeOK /\ TypeOK' /\ LocalShape /\ RemoveSound
    BY DEF IInv
  <1>1. Answered \subseteq Answered' /\ Answered' \subseteq Ops
    <2>1. /\ \A o \in Ops : applied[o] <= applied'[o] /\ failures[o] <= failures'[o]
          /\ settled \subseteq settled'
      BY <1>0, HistoryGrows
    <2>2. \A o \in Ops : /\ applied[o] \in Nat /\ applied'[o] \in Nat
                         /\ failures[o] \in Nat /\ failures'[o] \in Nat
      BY <1>0, CountsAreNat DEF TypeOK
    <2>3. QED
      BY <2>1, <2>2, CountsAreNat DEF Answered
  <1>2. CASE stored' = stored
    BY <1>1, <1>2 DEF Custody!Next, Custody!Finish, Answered
  <1>3. CASE stored' \subseteq stored /\ stored \ stored' \subseteq Answered'
    BY <1>1, <1>3 DEF Custody!Next, Custody!Release, Answered
  <1>4. ASSUME NEW o \in Ops, stored' = stored \cup {o},
               UNCHANGED <<applied, failures, settled>>
        PROVE  Custody!Next
    BY <1>4 DEF Custody!Next, Custody!Accept, Answered
  <1>5. ASSUME NEW s \in Syncs, StepOf(s) PROVE [Custody!Next]_<<stored, Answered>>
    <2>1. CASE \E o \in Ops : Enqueue(s, o)
      BY <1>4, <2>1 DEF Enqueue
    <2>2. CASE Put(s)
      <3>1. cur[s] \in Ops
        BY <1>0, <2>2 DEF Put, LocalShape, Working
      <3>2. QED
        BY <1>4, <2>2, <3>1 DEF Put
    <2>3. CASE Remove(s)
      <3>1. /\ cur[s] \in Ops /\ stored' = stored \ {cur[s]}
            /\ UNCHANGED <<applied, failures>>
        BY <1>0, <2>3 DEF Remove, LocalShape, Working
      <3>2. \/ applied[cur[s]] > 0
            \/ resp[s] = "conflict"
            \/ failures[cur[s]] >= MaxRetries
        BY <1>0, <2>3 DEF Remove, RemoveSound
      <3>3. resp[s] = "conflict" => cur[s] \in settled'
        BY <2>3 DEF Remove
      <3>4. cur[s] \in Answered'
        BY <3>1, <3>2, <3>3 DEF Answered
      <3>5. QED
        BY <1>3, <3>1, <3>4
    <2>4. CASE \/ SyncNow(s) \/ (\E a \in Accounts : Fire(s, a)) \/ Close(s)
               \/ Begin(s) \/ End(s) \/ Check(s) \/ Send(s) \/ Answer(s) \/ Count(s) \/ Review(s)
      <3>1. stored' = stored
        BY <2>4 DEF SyncNow, Fire, Close, Begin, End, Check, Send, Answer, Count, Review
      <3>2. QED
        BY <1>2, <3>1
    <2>5. QED
      BY <1>5, <2>1, <2>2, <2>3, <2>4 DEF StepOf, Loop
  <1>6. ASSUME NEW o \in Ops, Cancel(o) PROVE Custody!Next
    <2>1. stored' = stored \ {o} /\ settled' = settled \cup {o}
      BY <1>6 DEF Cancel
    <2>2. QED
      BY <1>1, <2>1 DEF Custody!Next, Custody!Release, Answered
  <1>7. ASSUME \/ \E a \in Accounts : SignIn(a)
               \/ Refresh \/ Expire \/ Logout \/ Elsewhere
               \/ UNCHANGED vars
        PROVE [Custody!Next]_<<stored, Answered>>
    <2>1. stored' = stored
      BY <1>7 DEF SignIn, Refresh, Expire, Logout, Elsewhere, vars
    <2>2. QED
      BY <1>2, <2>1
  <1>8. QED
    BY <1>5, <1>6, <1>7 DEF Next, StepOf

\* The queue implements the abstract stage: it answers for an operation until the
\* server has carried it out or refused it, its user has cancelled it, or it has
\* really failed as often as it may.
THEOREM ImplementsHandover == Spec => KeptUntilAnswered
  <1>1. Init => Custody!Init
    BY ConstantsOK DEF Init, Custody!Init
  <1>2. IInv /\ IInv' /\ [Next]_vars
        => [Custody!Next]_<<stored,
              {o \in Ops : applied[o] > 0 \/ o \in settled \/ failures[o] >= MaxRetries}>>
    BY CustodyStep DEF Answered
  <1>3. QED
    BY <1>1, <1>2, Inductive, PTL DEF Spec, KeptUntilAnswered, Custody!Spec
=============================================================================

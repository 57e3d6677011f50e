------------------------ MODULE OrderCreation_proofs ------------------------
(* That the handlers of an event open one order of its alert at a time, that   *)
(* the event is due until there is one, and what the codes of the orders are,  *)
(* for any number of events, handlers, users and failures.                     *)
EXTENDS OrderCreation, TLAPS, FiniteSetTheorems, WellFoundedInduction

\* Open orders that handlers created while they held the event.
Owned(e) == OpenOrders(e) \ aside

\* What a creation holds at its stages.  Only handlers look and are recorded;
\* an event in hand is not recorded yet, and two never hold the same one.
LocalShape ==
    /\ \A w \in Creators : pc[w] = "idle" => event[w] = NoEvent /\ w \notin stray
    /\ \A r \in Requests : pc[r] \notin {"look", "mark"}
    /\ \A h \in Handlers : pc[h] # "idle" => event[h] \in announced
    /\ \A h \in Holders : event[h] \notin processed
    /\ \A w \in Creators : pc[w] \in {"insert", "commit"} => code[w] \in Codes
    /\ \A h, g \in Holders : event[h] = event[g] /\ event[h] # NoEvent => h = g

\* An inserted code is nobody else's until it is committed.
CodesApart ==
    \A w \in Creators : pc[w] = "commit" =>
        /\ code[w] \notin Rows
        /\ \A v \in Creators : pc[v] = "commit" /\ code[v] = code[w] => v = w

\* A handler that has found no open order finds none of a holder's until it
\* commits its own, since nobody else holds its event.
NoneOpen ==
    \A h \in Holders :
        pc[h] \in {"read", "insert", "commit"} => Owned(event[h]) = {}

\* An event that is about to be recorded has an order or was refused one.
MarksSound ==
    \A h \in Holders :
        pc[h] = "mark" => OrdersOf(event[h]) # {} \/ event[h] \in refused

SingleOpen == \A e \in Events : \A c, d \in Owned(e) : c = d

\* Below a code that is used, or is about to be, all are used.
Dense ==
    /\ \A c \in Rows : c <= Widest + 1 /\ \A d \in 1..c : d \in Rows
    /\ \A w \in Creators : pc[w] \in {"insert", "commit"} =>
          code[w] <= Widest + 1 /\ \A d \in 1..(code[w] - 1) : d \in Rows

\* While there are codes left, a creation has lost no more attempts than orders
\* came since it started; if its code is taken, one that it has not lost to yet.
OutrunAt(w) ==
    /\ pc[w] # "idle" => before[w] + attempt[w] <= Cardinality(Rows)
    /\ pc[w] = "insert" /\ code[w] \in Rows
          => before[w] + attempt[w] + 1 <= Cardinality(Rows)

Outrun ==
    \A w \in Creators :
        /\ pc[w] = "idle" => attempt[w] = 0
        /\ ~Full => OutrunAt(w)

IInv ==
    /\ TypeOK /\ LocalShape /\ CodesApart
    /\ NoneOpen /\ MarksSound /\ SingleOpen /\ Dense /\ Outrun

-----------------------------------------------------------------------------
(* Types *)

LEMMA BoundIsNat == LastCode \in Nat
  BY ConstantsOK, FS_CardinalityType DEF LastCode

\* The number of orders is within the codes of the day.
LEMMA RowsCounted == Cardinality(Rows) \in 0..LastCode
  <1>1. IsFiniteSet(1..LastCode) /\ Cardinality(1..LastCode) = LastCode
    BY BoundIsNat, FS_Interval
  <1>2. Rows \subseteq 1..LastCode
    BY DEF Rows, Codes
  <1>3. IsFiniteSet(Rows) /\ Cardinality(Rows) <= Cardinality(1..LastCode)
    BY <1>1, <1>2, FS_Subset
  <1>4. QED
    BY <1>1, <1>3, BoundIsNat, FS_CardinalityType

\* The initial states are well-formed.
LEMMA TypeInit == Init => TypeOK
  <1>1. 0 \in 0..LastCode /\ 0 \in 0..MaxRequests /\ 0 \in 0..MaxFaults
    BY BoundIsNat, ConstantsOK
  <1>2. 0 \in 0..(MaxAttempts - 1)
    BY DEF MaxAttempts
  <1>3. QED
    BY <1>1, <1>2 DEF Init, TypeOK

\* Going on and leaving keep the types of a creation.
LEMMA MoveType ==
  ASSUME TypeOK, NEW w \in Creators,
         \/ Leave(w)
         \/ \E stage \in {"read", "insert", "commit", "mark"} : Goto(w, stage)
  PROVE  /\ pc' \in [Creators -> {"idle", "look", "read", "insert", "commit", "mark"}]
         /\ event' \in [Creators -> Events \cup {NoEvent}]
         /\ code' \in [Creators -> Codes \cup {0}]
         /\ attempt' \in [Creators -> 0..(MaxAttempts - 1)]
         /\ before' \in [Creators -> 0..LastCode]
         /\ stray' \subseteq Handlers
  <1>1. CASE Leave(w)
    <2>1. 0 \in 0..(MaxAttempts - 1) /\ 0 \in 0..LastCode
      BY BoundIsNat DEF MaxAttempts
    <2>2. QED
      BY <1>1, <2>1 DEF Leave, TypeOK
  <1>2. CASE \E stage \in {"read", "insert", "commit", "mark"} : Goto(w, stage)
    BY <1>2 DEF Goto, TypeOK
  <1>3. QED
    BY <1>1, <1>2

\* Every step keeps the types.
LEMMA TypeStep ==
  ASSUME TypeOK, LocalShape, [Next]_vars
  PROVE  TypeOK'
  <1>1. ASSUME NEW e \in Events, Announce(e) PROVE TypeOK'
    BY <1>1 DEF Announce, workVars, TypeOK, Rows, Codes
  <1>2. ASSUME NEW h \in Handlers, NEW e \in Events, Deliver(h, e) PROVE TypeOK'
    <2>1. h \in Creators
      BY DEF Creators
    <2>2. QED
      BY <1>2, <2>1, RowsCounted DEF Deliver, Begin, TypeOK, Rows, Codes
  <1>3. ASSUME NEW r \in Requests, Request(r) PROVE TypeOK'
    <2>1. r \in Creators /\ requests' \in 0..MaxRequests
      BY <1>3, ConstantsOK DEF Creators, Request, TypeOK
    <2>2. PICK e \in announced \cup {NoEvent} : Begin(r, e, "read")
      BY <1>3 DEF Request
    <2>3. e \in Events \cup {NoEvent}
      BY DEF TypeOK
    <2>4. UNCHANGED <<announced, processed, order, closed, aside, refused, faults>>
      BY <1>3 DEF Request
    <2>5. QED
      BY <2>1, <2>2, <2>3, <2>4, RowsCounted DEF Begin, TypeOK, Rows, Codes
  <1>4. ASSUME NEW w \in Creators, Look(w) \/ Insert(w) PROVE TypeOK'
    <2>1. /\ UNCHANGED <<announced, processed, order, closed, aside, refused, requests, faults>>
          /\ \E stage \in {"read", "commit", "mark"} : Goto(w, stage)
      BY <1>4 DEF Look, Insert
    <2>2. QED
      BY <2>1, MoveType DEF TypeOK, Rows, Codes
  <1>5. ASSUME NEW w \in Creators, GenerateCode(w) PROVE TypeOK'
    BY <1>5 DEF GenerateCode, TypeOK, Rows, Codes
  <1>6. ASSUME NEW w \in Creators, Conflict(w) PROVE TypeOK'
    <2>1. CASE attempt[w] + 1 < MaxAttempts
      <3>1. attempt[w] + 1 \in 0..(MaxAttempts - 1)
        BY <2>1 DEF TypeOK, MaxAttempts
      <3>2. QED
        BY <1>6, <2>1, <3>1 DEF Conflict, TypeOK, Rows, Codes
    <2>2. CASE ~(attempt[w] + 1 < MaxAttempts) /\ w \in Handlers
      <3>1. event[w] \in announced
        BY <1>6, <2>2 DEF Conflict, LocalShape
      <3>2. Goto(w, "mark") /\ refused' \subseteq refused \cup {event[w]}
        BY <1>6, <2>2 DEF Conflict
      <3>3. UNCHANGED <<announced, processed, order, closed, aside, requests, faults>>
        BY <1>6 DEF Conflict
      <3>4. QED
        BY <3>1, <3>2, <3>3, MoveType DEF TypeOK, Rows, Codes
    <2>3. CASE ~(attempt[w] + 1 < MaxAttempts) /\ w \notin Handlers
      <3>1. /\ Leave(w)
            /\ UNCHANGED <<announced, processed, order, closed, aside, refused, requests, faults>>
        BY <1>6, <2>3 DEF Conflict
      <3>2. QED
        BY <3>1, MoveType DEF TypeOK, Rows, Codes
    <2>4. QED
      BY <2>1, <2>2, <2>3
  <1>7. ASSUME NEW w \in Creators, Commit(w) PROVE TypeOK'
    <2>1. Leave(w) \/ Goto(w, "mark")
      BY <1>7 DEF Commit
    <2>2. code[w] \in Codes /\ event[w] \in Events \cup {NoEvent}
      BY <1>7 DEF Commit, LocalShape, TypeOK
    <2>3. order' = [order EXCEPT ![code[w]] = IF event[w] = NoEvent THEN Manual ELSE event[w]]
      BY <1>7 DEF Commit
    <2>4. order' \in [Codes -> Events \cup {NoOrder, Manual}]
      BY <2>2, <2>3 DEF TypeOK
    <2>5. Rows \subseteq Rows'
      BY <2>2, <2>3, ConstantsOK DEF Rows, TypeOK, Codes
    <2>6. /\ UNCHANGED <<announced, processed, closed, refused, requests, faults>>
          /\ aside' \subseteq aside \cup {code[w]}
      BY <1>7 DEF Commit
    <2>7. code[w] \in Rows'
      BY <2>2, <2>3, ConstantsOK DEF Rows, TypeOK, Codes
    <2>8. QED
      BY <2>1, <2>4, <2>5, <2>6, <2>7, MoveType DEF TypeOK
  <1>8. ASSUME NEW w \in Creators, MarkProcessed(w) PROVE TypeOK'
    <2>1. w \in Handlers /\ event[w] \in announced
      BY <1>8 DEF MarkProcessed, LocalShape, Creators
    <2>2. /\ Leave(w) /\ processed' \subseteq processed \cup {event[w]}
          /\ UNCHANGED <<announced, order, closed, aside, refused, requests, faults>>
      BY <1>8 DEF MarkProcessed
    <2>3. QED
      BY <2>1, <2>2, MoveType DEF TypeOK, Rows, Codes
  <1>9. ASSUME NEW w \in Creators, Fail(w) PROVE TypeOK'
    <2>1. faults' \in 0..MaxFaults
      BY <1>9, ConstantsOK DEF Fail, TypeOK
    <2>2. /\ Leave(w)
          /\ UNCHANGED <<announced, processed, order, closed, aside, refused, requests>>
      BY <1>9 DEF Fail, Ended
    <2>3. QED
      BY <2>1, <2>2, MoveType DEF TypeOK, Rows, Codes
  <1>10. ASSUME NEW c \in Codes, Close(c) PROVE TypeOK'
    BY <1>10 DEF Close, workVars, TypeOK, Rows, Codes
  <1>11. ASSUME NEW h \in Handlers, GiveUp(h) PROVE TypeOK'
    BY <1>11, ConstantsOK DEF GiveUp, Holders, TypeOK, Rows, Codes
  <1>12. CASE UNCHANGED vars
    BY <1>12 DEF vars, TypeOK, Rows, Codes
  <1>13. QED
    BY <1>1, <1>2, <1>3, <1>4, <1>5, <1>6, <1>7, <1>8, <1>9, <1>10, <1>11, <1>12 DEF Next, Step

-----------------------------------------------------------------------------
(* Creations *)

\* A step that leaves the table alone, or commits one code.
LEMMA OrderSteps ==
  ASSUME TypeOK, [Next]_vars
  PROVE  \/ UNCHANGED <<order, aside>>
         \/ \E w \in Creators : Commit(w)
  BY DEF Next, Step, Announce, Deliver, Request, Look, GenerateCode, Insert, Conflict,
         MarkProcessed, Fail, GiveUp, Close, vars

\* Creations hold what belongs to their stage.
LEMMA LocalShapeStep ==
  ASSUME TypeOK, LocalShape, [Next]_vars
  PROVE  LocalShape'
  <1> USE ConstantsOK DEF TypeOK, LocalShape, Creators, Holders
  <1>1. ASSUME NEW e \in Events, Announce(e) PROVE LocalShape'
    BY <1>1 DEF Announce, workVars, Codes
  <1>2. ASSUME NEW h \in Handlers, NEW e \in Events, Deliver(h, e) PROVE LocalShape'
    BY <1>2 DEF Deliver, Begin, Handled, Codes
  <1>3. ASSUME NEW r \in Requests, Request(r) PROVE LocalShape'
    BY <1>3 DEF Request, Begin, Codes
  <1>4. ASSUME NEW w \in Creators, Look(w) \/ Insert(w) \/ GenerateCode(w) PROVE LocalShape'
    BY <1>4 DEF Look, Insert, GenerateCode, Goto, Codes
  <1>5. ASSUME NEW w \in Creators, Conflict(w) PROVE LocalShape'
    <2>1. /\ pc[w] = "insert" /\ UNCHANGED <<announced, processed>>
          /\ \/ pc' = [pc EXCEPT ![w] = "read"] /\ UNCHANGED <<event, stray>>
             \/ w \in Handlers /\ pc' = [pc EXCEPT ![w] = "mark"] /\ UNCHANGED <<event, stray>>
             \/ w \notin Handlers /\ pc' = [pc EXCEPT ![w] = "idle"]
                /\ event' = [event EXCEPT ![w] = NoEvent] /\ stray' = stray \ {w}
      BY <1>5 DEF Conflict, Goto, Leave
    <2>2. \A v \in Creators : pc'[v] \in {"insert", "commit"} => pc[v] = pc'[v] /\ code'[v] = code[v]
      BY <1>5 DEF Conflict, Goto, Leave
    <2>3. \A v \in Creators : pc'[v] \in {"insert", "commit"} => code'[v] \in Codes'
      BY <2>2 DEF Codes
    <2>4. QED
      BY <2>1, <2>3
  <1>6. ASSUME NEW w \in Creators, Commit(w) PROVE LocalShape'
    <2>1. CASE w \in Handlers
      BY <1>6, <2>1 DEF Commit, Goto, Codes
    <2>2. CASE w \notin Handlers
      <3>1. /\ UNCHANGED <<announced, processed>>
            /\ pc' = [pc EXCEPT ![w] = "idle"] /\ event' = [event EXCEPT ![w] = NoEvent]
            /\ code' = [code EXCEPT ![w] = 0] /\ stray' = stray \ {w}
        BY <1>6, <2>2 DEF Commit, Leave
      <3>2. \A v \in Creators : pc'[v] \in {"insert", "commit"} => code'[v] \in Codes'
        BY <3>1 DEF Codes
      <3>3. QED
        BY <2>2, <3>1, <3>2
    <2>3. QED
      BY <2>1, <2>2
  <1>7. ASSUME NEW w \in Creators, MarkProcessed(w) PROVE LocalShape'
    BY <1>7 DEF MarkProcessed, Leave, Codes
  <1>8. ASSUME NEW w \in Creators, Fail(w) PROVE LocalShape'
    BY <1>8 DEF Fail, Ended, Leave, Codes
  <1>9. CASE (\E c \in Codes : Close(c)) \/ (\E h \in Handlers : GiveUp(h)) \/ UNCHANGED vars
    BY <1>9 DEF Close, GiveUp, workVars, vars, Codes
  <1>10. QED
    BY <1>1, <1>2, <1>3, <1>4, <1>5, <1>6, <1>7, <1>8, <1>9 DEF Next, Step

\* An insert waits for a transaction that has its code, and fails once that one
\* has committed it.
LEMMA CodesApartStep ==
  ASSUME TypeOK, LocalShape, CodesApart, [Next]_vars
  PROVE  CodesApart'
  <1> USE DEF CodesApart, TypeOK
  <1>1. ASSUME NEW w \in Creators, Insert(w) PROVE CodesApart'
    BY <1>1 DEF Insert, Goto, Rows, Codes
  <1>2. ASSUME NEW w \in Creators, Commit(w) PROVE CodesApart'
    <2>1. /\ pc[w] = "commit" /\ code[w] \in Codes
          /\ order' = [order EXCEPT ![code[w]] = IF event[w] = NoEvent THEN Manual ELSE event[w]]
      BY <1>2 DEF Commit, LocalShape
    <2>2. pc'[w] # "commit" /\ \A v \in Creators \ {w} : pc'[v] = pc[v] /\ code'[v] = code[v]
      BY <1>2 DEF Commit, Goto, Leave
    <2>3. Rows' \subseteq Rows \cup {code[w]}
      BY <2>1 DEF Rows, Codes
    <2>4. QED
      BY <2>1, <2>2, <2>3
  <1>3. ASSUME UNCHANGED order,
               \A v \in Creators : pc'[v] = "commit" => pc[v] = "commit" /\ code'[v] = code[v]
        PROVE  CodesApart'
    BY <1>3 DEF Rows, Codes
  <1>4. ASSUME NEW w \in Creators, GenerateCode(w) PROVE CodesApart'
    BY <1>3, <1>4 DEF GenerateCode
  <1>5. ASSUME NEW w \in Creators, Look(w) \/ Conflict(w) \/ MarkProcessed(w) \/ Fail(w)
        PROVE  CodesApart'
    BY <1>3, <1>5 DEF Look, Conflict, MarkProcessed, Fail, Goto, Leave
  <1>6. CASE \/ \E e \in Events : Announce(e) \/ \E h \in Handlers : Deliver(h, e)
             \/ \E r \in Requests : Request(r)
             \/ \E h \in Handlers : GiveUp(h)
             \/ \E c \in Codes : Close(c)
             \/ UNCHANGED vars
    BY <1>3, <1>6 DEF Announce, Deliver, Request, Begin, GiveUp, Close, workVars, vars, Creators
  <1>7. QED
    BY <1>1, <1>2, <1>4, <1>5, <1>6 DEF Next, Step

\* What a commit does to the orders of each event.
LEMMA Committed ==
  ASSUME TypeOK, LocalShape, CodesApart, NEW w \in Creators, Commit(w)
  PROVE  /\ pc[w] = "commit" /\ UNCHANGED <<processed, closed, refused>>
         /\ \A e \in Events :
               /\ OrdersOf(e) \subseteq OrdersOf(e)'
               /\ Owned(e)' \subseteq Owned(e) \cup {code[w]}
               /\ w \notin Holders \/ event[w] # e => Owned(e)' = Owned(e)
         /\ w \in Handlers => OrdersOf(event[w])' # {}
         /\ \A v \in Creators \ {w} : pc'[v] = pc[v] /\ event'[v] = event[v]
         /\ stray' \subseteq stray /\ Holders' \subseteq Holders \cup {w}
         /\ w \in Handlers => pc'[w] = "mark" /\ event'[w] = event[w] /\ stray' = stray
         /\ w \notin Handlers => pc'[w] = "idle"
  <1> USE ConstantsOK DEF TypeOK
  <1>1. /\ pc[w] = "commit" /\ code[w] \in Codes /\ code[w] \notin Rows
        /\ order' = [order EXCEPT ![code[w]] = IF event[w] = NoEvent THEN Manual ELSE event[w]]
        /\ aside' = aside \cup {code[v] : v \in {w} \ Holders}
        /\ UNCHANGED <<processed, closed, refused>>
    BY DEF Commit, LocalShape, CodesApart
  <1>2. order[code[w]] = NoOrder /\ code[w] \notin closed
    BY <1>1 DEF Rows
  <1>3. aside \subseteq aside' /\ aside' \subseteq aside \cup {code[w]}
    BY <1>1
  <1>4. w \notin Holders => code[w] \in aside'
    BY <1>1
  <1>5. /\ order'[code[w]] = IF event[w] = NoEvent THEN Manual ELSE event[w]
        /\ \A c \in Codes \ {code[w]} : order'[c] = order[c]
    BY <1>1
  <1>6. ASSUME NEW e \in Events
        PROVE  /\ OrdersOf(e) \subseteq OrdersOf(e)'
               /\ Owned(e)' \subseteq Owned(e) \cup {code[w]}
               /\ w \notin Holders \/ event[w] # e => Owned(e)' = Owned(e)
    <2>1. OrdersOf(e)' \ {code[w]} = OrdersOf(e) /\ code[w] \notin OrdersOf(e)
      BY <1>1, <1>2, <1>5 DEF OrdersOf, Codes
    <2>2. Owned(e)' \ {code[w]} = Owned(e)
      BY <1>1, <1>3, <2>1 DEF Owned, OpenOrders
    <2>3. event[w] # e => code[w] \notin OrdersOf(e)'
      BY <1>1, <1>5 DEF OrdersOf
    <2>4. w \notin Holders \/ event[w] # e => code[w] \notin Owned(e)'
      BY <1>4, <2>3 DEF Owned, OpenOrders
    <2>5. QED
      BY <2>1, <2>2, <2>4
  <1>7. w \in Handlers => OrdersOf(event[w])' # {}
    <2>1. ASSUME w \in Handlers PROVE OrdersOf(event[w])' # {}
      <3>1. event' = event
        BY <2>1 DEF Commit, Goto
      <3>2. event[w] \in Events
        BY <1>1, <2>1 DEF LocalShape
      <3>3. code[w] \in OrdersOf(event[w])'
        BY <1>1, <1>5, <3>1, <3>2 DEF OrdersOf, Codes
      <3>4. QED
        BY <3>3
    <2>2. QED
      BY <2>1
  <1>8. /\ \A v \in Creators \ {w} : pc'[v] = pc[v] /\ event'[v] = event[v]
        /\ stray' \subseteq stray /\ Holders' \subseteq Holders \cup {w}
        /\ w \in Handlers => pc'[w] = "mark" /\ event'[w] = event[w] /\ stray' = stray
        /\ w \notin Handlers => pc'[w] = "idle"
    BY DEF Commit, Goto, Leave, Holders
  <1>9. QED
    BY <1>1, <1>6, <1>7, <1>8

\* Steps other than a commit create no order.
LEMMA NothingOpened ==
  ASSUME TypeOK, UNCHANGED order, closed \subseteq closed', UNCHANGED aside
  PROVE  \A e \in Events : OrdersOf(e)' = OrdersOf(e) /\ Owned(e)' \subseteq Owned(e)
  BY DEF OrdersOf, Owned, OpenOrders, Codes

\* What was closed stays closed.
LEMMA ClosedStays == TypeOK /\ [Next]_vars => closed \subseteq closed'
  BY DEF Next, Step, Announce, Deliver, Request, Look, GenerateCode, Insert, Conflict,
         Commit, MarkProcessed, Fail, GiveUp, Close, vars

\* Nobody else commits an order while holding the event.
LEMMA NoneOpenStep ==
  ASSUME TypeOK, LocalShape, CodesApart, NoneOpen, [Next]_vars
  PROVE  NoneOpen'
  <1> USE DEF NoneOpen
  <1>h. \A h \in Holders : h \in Handlers /\ h \in Creators /\ (pc[h] # "idle" => event[h] \in Events)
    BY DEF LocalShape, Creators, Holders, TypeOK
  <1>1. ASSUME NEW w \in Creators, Commit(w) PROVE NoneOpen'
    <2> SUFFICES ASSUME NEW h \in Holders', pc'[h] \in {"read", "insert", "commit"}
                 PROVE  Owned(event[h])' = {}
      OBVIOUS
    <2>1. h # w /\ h \in Holders /\ h \in Creators
      BY <1>1, <1>h, Committed DEF Holders
    <2>2. pc'[h] = pc[h] /\ event'[h] = event[h] /\ event[h] \in Events
      BY <1>1, <1>h, <2>1, Committed
    <2>3. w \notin Holders \/ event[w] # event[h]
      BY <1>h, <2>1, <2>2, ConstantsOK DEF LocalShape
    <2>4. Owned(event[h]) = {}
      BY <2>1, <2>2
    <2>5. PICK e \in Events : e = event[h]
      BY <2>2
    <2>6. Owned(e)' = {}
      BY <1>1, <2>3, <2>4, <2>5, Committed
    <2>7. QED
      BY <2>2, <2>5, <2>6 DEF Owned, OpenOrders, OrdersOf
  <1>2. ASSUME UNCHANGED <<order, aside>>,
               \A h \in Holders' : pc'[h] \in {"read", "insert", "commit"} =>
                   /\ event'[h] = event[h] /\ event[h] \in Events
                   /\ Owned(event[h]) = {}
        PROVE  NoneOpen'
    <2> SUFFICES ASSUME NEW h \in Holders', pc'[h] \in {"read", "insert", "commit"}
                 PROVE  Owned(event[h])' = {}
      OBVIOUS
    <2>1. closed \subseteq closed'
      BY ClosedStays
    <2>2. QED
      BY <1>2, <2>1 DEF Owned, OpenOrders, OrdersOf, Codes
  <1>3. ASSUME NEW w \in Creators, Look(w) PROVE NoneOpen'
    BY <1>2, <1>3, <1>h DEF Look, Goto, Owned, Holders, TypeOK
  <1>4. ASSUME NEW w \in Creators, GenerateCode(w) \/ Insert(w) PROVE NoneOpen'
    BY <1>2, <1>4, <1>h DEF GenerateCode, Insert, Goto, Holders, TypeOK
  <1>5. ASSUME NEW w \in Creators, Conflict(w) PROVE NoneOpen'
    BY <1>2, <1>5, <1>h DEF Conflict, Goto, Leave, Holders, TypeOK
  <1>6. ASSUME NEW w \in Creators, MarkProcessed(w) \/ Fail(w) PROVE NoneOpen'
    BY <1>2, <1>6, <1>h DEF MarkProcessed, Fail, Leave, Holders, TypeOK
  <1>7. ASSUME NEW r \in Requests, Request(r) PROVE NoneOpen'
    <2>1. r \notin Handlers /\ UNCHANGED <<order, aside>>
      BY <1>7, ConstantsOK DEF Request
    <2>2. \A h \in Holders' : h \in Holders /\ pc'[h] = pc[h] /\ event'[h] = event[h]
      BY <1>7, <2>1 DEF Request, Begin, Holders, TypeOK, Creators
    <2>3. QED
      BY <1>2, <1>h, <2>1, <2>2
  <1>8. ASSUME NEW h \in Handlers, NEW e \in Events, Deliver(h, e) PROVE NoneOpen'
    BY <1>2, <1>8, <1>h DEF Deliver, Begin, Holders, TypeOK
  <1>9. CASE \/ \E e \in Events : Announce(e)
             \/ \E h \in Handlers : GiveUp(h)
             \/ \E c \in Codes : Close(c)
             \/ UNCHANGED vars
    BY <1>2, <1>9, <1>h DEF Announce, GiveUp, Close, Holders, workVars, vars
  <1>10. QED
    BY <1>1, <1>3, <1>4, <1>5, <1>6, <1>7, <1>8, <1>9 DEF Next, Step

\* An event is recorded only with an order of its alert, or after three refusals.
LEMMA MarksSoundStep ==
  ASSUME TypeOK, LocalShape, CodesApart, MarksSound, [Next]_vars
  PROVE  MarksSound'
  <1> USE DEF MarksSound
  <1>h. \A h \in Holders : h \in Handlers /\ h \in Creators /\ (pc[h] # "idle" => event[h] \in Events)
    BY DEF LocalShape, Creators, Holders, TypeOK
  <1>1. ASSUME NEW w \in Creators, Commit(w) PROVE MarksSound'
    <2> SUFFICES ASSUME NEW h \in Holders', pc'[h] = "mark"
                 PROVE  OrdersOf(event[h])' # {} \/ event'[h] \in refused'
      OBVIOUS
    <2>1. CASE h = w
      <3>1. h \in Handlers
        BY DEF Holders
      <3>2. QED
        BY <1>1, <2>1, <3>1, Committed
    <2>2. CASE h # w
      <3>1. /\ h \in Holders /\ pc[h] = "mark" /\ event'[h] = event[h] /\ event[h] \in Events
            /\ refused' = refused
        BY <1>1, <1>h, <2>2, Committed
      <3>2. OrdersOf(event[h]) \subseteq {c \in Codes : order[c] = event[h]}'
        BY <1>1, <3>1, Committed DEF OrdersOf, Codes
      <3>3. QED
        BY <3>1, <3>2 DEF OrdersOf, Codes
    <2>3. QED
      BY <2>1, <2>2
  <1>2. ASSUME UNCHANGED order, refused \subseteq refused',
               \A h \in Holders' : pc'[h] = "mark" =>
                   /\ event'[h] = event[h]
                   /\ OrdersOf(event[h]) # {} \/ event[h] \in refused'
        PROVE  MarksSound'
    BY <1>2 DEF OrdersOf, Codes
  <1>3. ASSUME NEW w \in Creators, Look(w) PROVE MarksSound'
    BY <1>2, <1>3, <1>h DEF Look, Goto, OpenOrders, Holders, TypeOK
  <1>4. ASSUME NEW w \in Creators, GenerateCode(w) \/ Insert(w) PROVE MarksSound'
    BY <1>2, <1>4, <1>h DEF GenerateCode, Insert, Goto, Holders, TypeOK
  <1>5. ASSUME NEW w \in Creators, Conflict(w) PROVE MarksSound'
    BY <1>2, <1>5, <1>h DEF Conflict, Goto, Leave, Holders, TypeOK
  <1>6. ASSUME NEW w \in Creators, MarkProcessed(w) \/ Fail(w) PROVE MarksSound'
    BY <1>2, <1>6, <1>h DEF MarkProcessed, Fail, Leave, Holders, TypeOK
  <1>7. ASSUME NEW r \in Requests, Request(r) PROVE MarksSound'
    BY <1>2, <1>7, <1>h, ConstantsOK DEF Request, Begin, Holders, TypeOK
  <1>8. ASSUME NEW h \in Handlers, NEW e \in Events, Deliver(h, e) PROVE MarksSound'
    BY <1>2, <1>8, <1>h DEF Deliver, Begin, Holders, TypeOK
  <1>9. CASE \/ \E e \in Events : Announce(e)
             \/ \E h \in Handlers : GiveUp(h)
             \/ \E c \in Codes : Close(c)
             \/ UNCHANGED vars
    BY <1>2, <1>9, <1>h DEF Announce, GiveUp, Close, Holders, workVars, vars
  <1>10. QED
    BY <1>1, <1>3, <1>4, <1>5, <1>6, <1>7, <1>8, <1>9 DEF Next, Step

\* The order that a holder commits is the only open one of holders.
LEMMA SingleOpenStep ==
  ASSUME TypeOK, LocalShape, CodesApart, NoneOpen, SingleOpen, [Next]_vars
  PROVE  SingleOpen'
  <1> SUFFICES ASSUME NEW e \in Events PROVE \A c, d \in Owned(e)' : c = d
    BY DEF SingleOpen
  <1>1. CASE \E w \in Creators : Commit(w)
    <2>1. PICK w \in Creators : Commit(w)
      BY <1>1
    <2>2. CASE event[w] = e /\ w \in Holders
      <3>1. Owned(e) = {}
        BY <2>1, <2>2, Committed DEF NoneOpen
      <3>2. QED
        BY <2>1, <3>1, Committed
    <2>3. CASE event[w] # e \/ w \notin Holders
      <3>1. Owned(e)' = Owned(e)
        BY <2>1, <2>3, Committed
      <3>2. QED
        BY <3>1 DEF SingleOpen
    <2>4. QED
      BY <2>2, <2>3
  <1>2. CASE UNCHANGED <<order, aside>>
    <2>1. Owned(e)' \subseteq Owned(e)
      BY <1>2, ClosedStays, NothingOpened
    <2>2. QED
      BY <2>1 DEF SingleOpen
  <1>3. QED
    BY <1>1, <1>2, OrderSteps

-----------------------------------------------------------------------------
(* Lost attempts *)

Below == {ss \in Nat \X Nat : ss[1] < ss[2]}

LEMMA BelowIsWellFounded == IsWellFoundedOn(Below, Nat)
  BY NatLessThanWellFounded DEF OpToRel, Below

\* There is a greatest of some codes once there is one: the least number that
\* none of them exceeds.
LEMMA GreatestExists ==
  ASSUME NEW S, S \subseteq Rows, S # {}
  PROVE  \E c \in S : \A d \in S : d <= c
  <1> DEFINE Tops == {n \in Nat : \A d \in S : d <= n}
  <1>1. S \subseteq Nat \ {0} /\ LastCode \in Tops
    BY BoundIsNat DEF Rows, Codes
  <1>2. PICK m \in Tops : \A n \in Tops : ~(<<n, m>> \in Below)
    <2>1. Tops \subseteq Nat /\ Tops # {}
      BY <1>1
    <2>2. QED
      BY <2>1, BelowIsWellFounded, WFMin, Zenon
  <1>3. m \in S
    <2> SUFFICES ASSUME m \notin S PROVE FALSE
      OBVIOUS
    <2>0. PICK r \in S : TRUE
      OBVIOUS
    <2>1. m \in Nat /\ m # 0
      BY <1>1, <2>0
    <2>2. m - 1 \in Nat /\ <<m - 1, m>> \in Below
      BY <2>1 DEF Below
    <2>3. \A d \in S : d <= m - 1
      BY <1>1, <2>1
    <2>4. QED
      BY <1>2, <2>2, <2>3
  <1>4. QED
    BY <1>3

\* The code that is read is the greatest of those with four digits.
LEMMA GreatestRead ==
  ASSUME NEW w
  PROVE  /\ Greatest(w) \in 0..Widest
         /\ Greatest(w) # 0 => Greatest(w) \in Rows
         /\ \A d \in Rows : d <= Widest => d <= Greatest(w)
  <1> DEFINE seen == Rows \cap 1..Widest
  <1>1. Rows \subseteq Nat \ {0} /\ Widest \in Nat
    BY BoundIsNat, ConstantsOK DEF Rows, Codes
  <1>2. CASE seen = {}
    <2>1. \A d \in Rows : ~(d <= Widest)
      BY <1>1, <1>2
    <2>2. QED
      BY <1>1, <1>2, <2>1 DEF Greatest
  <1>3. CASE seen # {}
    <2>1. PICK g \in seen : g = Greatest(w) /\ \A d \in seen : d <= g
      BY <1>3, GreatestExists DEF Greatest
    <2>2. \A d \in Rows : d <= Widest => d \in seen
      BY <1>1
    <2>3. QED
      BY <1>1, <2>1, <2>2
  <1>4. QED
    BY <1>2, <1>3

\* The code that follows the greatest one is free, unless all are used.
LEMMA NextIsFree ==
  ASSUME NEW w, ~Full
  PROVE  Greatest(w) + 1 \notin Rows
  <1>1. Greatest(w) \in 0..Widest /\ Widest \in Nat
    BY GreatestRead, ConstantsOK
  <1>2. CASE Greatest(w) = Widest
    BY <1>2 DEF Full
  <1>3. CASE Greatest(w) # Widest
    <2>1. Greatest(w) + 1 <= Widest /\ ~(Greatest(w) + 1 <= Greatest(w))
      BY <1>1, <1>3
    <2>2. QED
      BY <2>1, GreatestRead
  <1>4. QED
    BY <1>2, <1>3

\* A commit adds its code to the orders; nothing takes an order away.
LEMMA RowsSteps ==
  ASSUME TypeOK, LocalShape, [Next]_vars
  PROVE  /\ Rows \subseteq Rows'
         /\ (\A w \in Creators : ~Commit(w)) => Rows' = Rows
         /\ \A w \in Creators : Commit(w) => Rows' = Rows \cup {code[w]}
  <1>1. ASSUME \A w \in Creators : ~Commit(w) PROVE Rows' = Rows
    BY <1>1, OrderSteps DEF Rows, Codes
  <1>2. ASSUME NEW w \in Creators, Commit(w) PROVE Rows' = Rows \cup {code[w]}
    <2>1. /\ pc[w] = "commit" /\ code[w] \in Codes
          /\ order' = [order EXCEPT ![code[w]] = IF event[w] = NoEvent THEN Manual ELSE event[w]]
      BY <1>2 DEF Commit, LocalShape
    <2>2. w \in Handlers => event[w] \in Events
      BY <2>1 DEF LocalShape, TypeOK
    <2>3. QED
      BY <2>1, <2>2, ConstantsOK DEF Rows, Codes, TypeOK
  <1>3. QED
    BY <1>1, <1>2

\* A code is generated from the greatest one, so that all below are used.
LEMMA DenseStep ==
  ASSUME TypeOK, LocalShape, Dense, [Next]_vars
  PROVE  Dense'
  <1>0. Rows \subseteq Nat \ {0} /\ Rows \subseteq Rows' /\ Widest \in Nat
    BY RowsSteps, BoundIsNat, ConstantsOK DEF Rows, Codes
  <1>1. \A c \in Rows' : c <= Widest + 1 /\ \A d \in 1..c : d \in Rows'
    <2>1. CASE \A w \in Creators : ~Commit(w)
      BY <2>1, RowsSteps DEF Dense
    <2>2. ASSUME NEW w \in Creators, Commit(w)
          PROVE  \A c \in Rows' : c <= Widest + 1 /\ \A d \in 1..c : d \in Rows'
      <3>1. /\ Rows' = Rows \cup {code[w]} /\ code[w] \in Nat /\ code[w] <= Widest + 1
            /\ \A d \in 1..(code[w] - 1) : d \in Rows
        <4>1. pc[w] = "commit" /\ code[w] \in Codes
          BY <2>2 DEF Commit, LocalShape
        <4>2. code[w] \in Nat
          BY <4>1, BoundIsNat DEF Codes
        <4>3. QED
          BY <2>2, <4>1, <4>2, RowsSteps DEF Dense
      <3>2. \A d \in 1..code[w] : d = code[w] \/ d \in 1..(code[w] - 1)
        BY <3>1
      <3>3. QED
        BY <3>1, <3>2 DEF Dense
    <2>3. QED
      BY <2>1, <2>2
  <1>2. ASSUME NEW w \in Creators, pc'[w] \in {"insert", "commit"}
        PROVE  code'[w] <= Widest + 1 /\ \A d \in 1..(code'[w] - 1) : d \in Rows'
    <2>1. CASE GenerateCode(w)
      <3>1. code'[w] = Greatest(w) + 1 /\ Greatest(w) \in 0..Widest
        BY <2>1, GreatestRead DEF GenerateCode, TypeOK
      <3>2. code'[w] <= Widest + 1 /\ code'[w] - 1 = Greatest(w)
        BY <1>0, <3>1
      <3>3. \A d \in 1..Greatest(w) : d \in Rows
        <4>1. CASE Greatest(w) = 0
          BY <4>1
        <4>2. CASE Greatest(w) # 0
          BY <4>2, GreatestRead DEF Dense
        <4>3. QED
          BY <4>1, <4>2
      <3>4. QED
        BY <1>0, <3>2, <3>3
    <2>2. CASE ~GenerateCode(w)
      <3>1. pc[w] \in {"insert", "commit"} /\ code'[w] = code[w]
        <4>1. ASSUME NEW v \in Creators, Step(v) \/ Fail(v)
              PROVE  pc[w] \in {"insert", "commit"} /\ code'[w] = code[w]
          <5>1. CASE v = w
            BY <1>2, <2>2, <4>1, <5>1
            DEF Step, Look, Insert, Conflict, Commit, MarkProcessed, Fail, Goto, Leave, TypeOK
          <5>2. CASE v # w
            BY <1>2, <4>1, <5>2
            DEF Step, Look, GenerateCode, Insert, Conflict, Commit, MarkProcessed, Fail, Goto,
                Leave, TypeOK
          <5>3. QED
            BY <5>1, <5>2
        <4>2. ASSUME NEW v, NEW e, NEW stage \in {"look", "read"}, Begin(v, e, stage)
              PROVE  pc[w] \in {"insert", "commit"} /\ code'[w] = code[w]
          BY <1>2, <4>2 DEF Begin, TypeOK
        <4>3. CASE \/ \E e \in Events : Announce(e) \/ \E h \in Handlers : Deliver(h, e)
                   \/ \E r \in Requests : Request(r)
                   \/ \E h \in Handlers : GiveUp(h)
                   \/ \E c \in Codes : Close(c)
                   \/ UNCHANGED vars
          BY <1>2, <4>2, <4>3 DEF Announce, Deliver, Request, GiveUp, Close, workVars, vars
        <4>4. QED
          BY <4>1, <4>3 DEF Next
      <3>2. QED
        BY <1>0, <3>1 DEF Dense
    <2>3. QED
      BY <2>1, <2>2
  <1>3. QED
    BY <1>1, <1>2 DEF Dense

\* A creation loses an attempt only to an order that is committed after it has
\* read the greatest code.
LEMMA OutrunAtStep ==
  ASSUME TypeOK, TypeOK', LocalShape, CodesApart, Outrun, ~Full, [Next]_vars,
         NEW w \in Creators
  PROVE  OutrunAt(w)'
  <1> USE DEF OutrunAt
  <1>0. /\ OutrunAt(w) /\ (pc[w] = "idle" => attempt[w] = 0) /\ Cardinality(Rows) \in Nat /\ Cardinality(Rows') \in Nat
        /\ before[w] \in Nat /\ attempt[w] \in Nat
    <2>1. Cardinality(Rows) \in 0..LastCode /\ Cardinality(Rows') \in 0..LastCode
      <3>1. IsFiniteSet(1..LastCode) /\ Cardinality(1..LastCode) = LastCode /\ LastCode \in Nat
        BY BoundIsNat, FS_Interval
      <3>2. Rows' \subseteq 1..LastCode
        BY DEF Rows, Codes
      <3>3. IsFiniteSet(Rows') /\ Cardinality(Rows') <= LastCode
        BY <3>1, <3>2, FS_Subset
      <3>4. QED
        BY <3>1, <3>3, RowsCounted, FS_CardinalityType
    <2>2. QED
      BY <2>1, BoundIsNat DEF Outrun, TypeOK
  <1>1. ASSUME NEW v \in Creators, Commit(v) PROVE OutrunAt(w)'
    <2>1. /\ pc[v] = "commit" /\ code[v] \in Codes /\ code[v] \notin Rows
          /\ order' = [order EXCEPT ![code[v]] = IF event[v] = NoEvent THEN Manual ELSE event[v]]
      BY <1>1 DEF Commit, LocalShape, CodesApart
    <2>2. v \in Handlers => event[v] \in Events
      BY <2>1 DEF LocalShape, TypeOK
    <2>3. Rows' = Rows \cup {code[v]}
      BY <2>1, <2>2, ConstantsOK DEF Rows, Codes, TypeOK
    <2>4. Cardinality(Rows') = Cardinality(Rows) + 1
      <3>1. IsFiniteSet(Rows)
        <4>1. IsFiniteSet(1..LastCode) /\ Rows \subseteq 1..LastCode
          BY BoundIsNat, FS_Interval DEF Rows, Codes
        <4>2. QED
          BY <4>1, FS_Subset
      <3>2. QED
        BY <2>1, <2>3, <3>1, FS_AddElement
    <2>5. CASE w = v
      <3>1. \/ pc'[w] = "mark" /\ before'[w] = before[w] /\ attempt'[w] = attempt[w]
            \/ pc'[w] = "idle" /\ attempt'[w] = 0
        BY <1>1, <2>5 DEF Commit, Goto, Leave, TypeOK
      <3>2. QED
        BY <1>0, <2>1, <2>4, <2>5, <3>1
    <2>6. CASE w # v
      <3>1. pc'[w] = pc[w] /\ before'[w] = before[w] /\ attempt'[w] = attempt[w]
        BY <1>1, <2>6 DEF Commit, Goto, Leave, TypeOK
      <3>2. QED
        BY <1>0, <2>4, <3>1
    <2>7. QED
      BY <2>5, <2>6
  <1>2. ASSUME UNCHANGED order,
               pc'[w] # "idle" =>
                  /\ pc[w] # "idle"
                  /\ before'[w] = before[w] /\ attempt'[w] = attempt[w],
               pc'[w] = "idle" => attempt'[w] = 0,
               pc'[w] = "insert" => pc[w] = "insert" /\ code'[w] = code[w]
        PROVE  OutrunAt(w)'
    <2>1. Rows' = Rows
      BY <1>2 DEF Rows, Codes
    <2>2. QED
      BY <1>0, <1>2, <2>1
  <1>3. ASSUME NEW v \in Creators, GenerateCode(v) PROVE OutrunAt(w)'
    <2>1. order' = order /\ Rows' = Rows
      BY <1>3 DEF GenerateCode, Rows, Codes
    <2>2. CASE w = v
      <3>1. /\ pc[w] = "read" /\ pc'[w] = "insert" /\ code'[w] = Greatest(w) + 1
            /\ before' = before /\ attempt' = attempt
        BY <1>3, <2>2 DEF GenerateCode, TypeOK
      <3>2. code'[w] \notin Rows'
        BY <2>1, <3>1, NextIsFree
      <3>3. QED
        BY <1>0, <2>1, <3>1, <3>2
    <2>3. CASE w # v
      BY <1>0, <1>2, <1>3, <2>1, <2>3 DEF GenerateCode, TypeOK
    <2>4. QED
      BY <2>2, <2>3
  <1>4. ASSUME NEW v \in Creators, Conflict(v) PROVE OutrunAt(w)'
    <2>1. order' = order /\ Rows' = Rows /\ pc[v] = "insert" /\ code[v] \in Rows
      BY <1>4 DEF Conflict, Rows, Codes
    <2>2. CASE w = v
      <3>1. before[w] + attempt[w] + 1 <= Cardinality(Rows)
        BY <1>0, <2>1, <2>2
      <3>2. \/ pc'[w] = "read" /\ before'[w] = before[w] /\ attempt'[w] = attempt[w] + 1
            \/ pc'[w] = "mark" /\ before'[w] = before[w] /\ attempt'[w] = attempt[w]
            \/ pc'[w] = "idle" /\ attempt'[w] = 0
        BY <1>4, <2>2 DEF Conflict, Goto, Leave, TypeOK
      <3>3. QED
        BY <1>0, <2>1, <3>1, <3>2
    <2>3. CASE w # v
      <3>1. /\ pc'[w] = pc[w] /\ before'[w] = before[w] /\ attempt'[w] = attempt[w]
            /\ code'[w] = code[w]
        BY <1>4, <2>3 DEF Conflict, Goto, Leave, TypeOK
      <3>2. QED
        BY <1>0, <2>1, <3>1
    <2>4. QED
      BY <2>2, <2>3
  <1>5. ASSUME NEW v \in Creators, NEW e, NEW stage \in {"look", "read"},
               pc[v] = "idle", Begin(v, e, stage), UNCHANGED order
        PROVE  OutrunAt(w)'
    <2>1. Rows' = Rows
      BY <1>5 DEF Rows, Codes
    <2>2. CASE w = v
      <3>1. pc'[w] = stage /\ before'[w] = Cardinality(Rows) /\ attempt'[w] = 0
        BY <1>0, <1>5, <2>2 DEF Begin, TypeOK
      <3>2. QED
        BY <1>0, <2>1, <3>1
    <2>3. CASE w # v
      <3>1. /\ pc'[w] = pc[w] /\ before'[w] = before[w] /\ attempt'[w] = attempt[w]
            /\ code'[w] = code[w]
        BY <1>5, <2>3 DEF Begin, TypeOK
      <3>2. QED
        BY <1>0, <2>1, <3>1
    <2>4. QED
      BY <2>2, <2>3
  <1>6. ASSUME NEW h \in Handlers, NEW e \in Events, Deliver(h, e) PROVE OutrunAt(w)'
    BY <1>5, <1>6 DEF Deliver, Creators
  <1>7. ASSUME NEW r \in Requests, Request(r) PROVE OutrunAt(w)'
    BY <1>5, <1>7 DEF Request, Creators
  <1>8. ASSUME NEW v \in Creators, Look(v) \/ Insert(v) \/ MarkProcessed(v) \/ Fail(v)
        PROVE  OutrunAt(w)'
    <2>1. order' = order
      BY <1>8 DEF Look, Insert, MarkProcessed, Fail
    <2>2. /\ pc'[w] # "idle" => pc[w] # "idle" /\ before'[w] = before[w] /\ attempt'[w] = attempt[w]
          /\ pc'[w] = "insert" => pc[w] = "insert" /\ code'[w] = code[w]
      BY <1>8 DEF Look, Insert, MarkProcessed, Fail, Goto, Leave, TypeOK
    <2>3. pc'[w] = "idle" => attempt'[w] = 0
      BY <1>0, <1>8 DEF Look, Insert, MarkProcessed, Fail, Goto, Leave, TypeOK
    <2>4. QED
      BY <1>2, <2>1, <2>2, <2>3
  <1>9. CASE \/ \E e \in Events : Announce(e)
             \/ \E h \in Handlers : GiveUp(h)
             \/ \E c \in Codes : Close(c)
             \/ UNCHANGED vars
    BY <1>0, <1>2, <1>9 DEF Announce, GiveUp, Close, workVars, vars
  <1>10. QED
    BY <1>1, <1>3, <1>4, <1>6, <1>7, <1>8, <1>9 DEF Next, Step

\* Who is idle has lost nothing, and orders only come: a day that has codes left
\* had codes left before.
LEMMA OutrunStep ==
  ASSUME TypeOK, TypeOK', LocalShape, CodesApart, Outrun, [Next]_vars
  PROVE  Outrun'
  <1>1. ASSUME NEW w \in Creators, pc'[w] = "idle" PROVE attempt'[w] = 0
    <2>1. pc[w] = "idle" => attempt[w] = 0
      BY DEF Outrun
    <2>2. ASSUME NEW v \in Creators, Step(v) \/ Fail(v) PROVE attempt'[w] = 0
      BY <1>1, <2>1, <2>2
      DEF Step, Look, GenerateCode, Insert, Conflict, Commit, MarkProcessed, Fail, Goto,
          Leave, TypeOK
    <2>3. CASE \/ \E e \in Events : Announce(e) \/ \E h \in Handlers : Deliver(h, e)
               \/ \E r \in Requests : Request(r)
               \/ \E h \in Handlers : GiveUp(h)
               \/ \E c \in Codes : Close(c)
               \/ UNCHANGED vars
      BY <1>1, <2>1, <2>3 DEF Announce, Deliver, Request, GiveUp, Close, Begin, workVars, vars, TypeOK
    <2>4. QED
      BY <2>2, <2>3 DEF Next
  <1>2. Full => Full'
    BY RowsSteps DEF Full
  <1>3. QED
    BY <1>1, <1>2, OutrunAtStep DEF Outrun

-----------------------------------------------------------------------------

\* The invariant holds initially and every step keeps it.
THEOREM Inductive == Spec => []IInv
  <1>1. Init => IInv
    <2> SUFFICES ASSUME Init PROVE IInv
      OBVIOUS
    <2>1. TypeOK
      BY TypeInit
    <2>2. LocalShape /\ CodesApart /\ NoneOpen /\ MarksSound
      BY ConstantsOK DEF Init, LocalShape, CodesApart, NoneOpen, MarksSound, Creators, Holders
    <2>3. SingleOpen
      BY ConstantsOK DEF Init, SingleOpen, Owned, OpenOrders, OrdersOf
    <2>4. Outrun
      BY <2>1, RowsCounted, BoundIsNat DEF Init, Outrun, OutrunAt
    <2>5. Dense
      BY ConstantsOK DEF Init, Dense, Rows
    <2>6. QED
      BY <2>1, <2>2, <2>3, <2>4, <2>5 DEF IInv
  <1>2. IInv /\ [Next]_vars => IInv'
    BY TypeStep, LocalShapeStep, CodesApartStep, NoneOpenStep, MarksSoundStep, SingleOpenStep,
       DenseStep, OutrunStep
    DEF IInv
  <1>3. QED
    BY <1>1, <1>2, PTL DEF Spec

\* Orders, events and creations are well-formed (TypeOK).
THEOREM TypeCorrect == Spec => []TypeOK
  <1>1. IInv => TypeOK
    BY DEF IInv
  <1>2. QED
    BY <1>1, Inductive, PTL

\* While the day has codes left, every lost attempt is due to an order that was
\* committed since the creation started.
THEOREM LostToOthers == Spec => []BeatenByOthers
  <1>1. ASSUME IInv PROVE BeatenByOthers
    <2> SUFFICES ASSUME NEW w \in Creators, pc[w] # "idle", ~Full
                 PROVE  attempt[w] <= Cardinality(Rows) - before[w]
      BY DEF BeatenByOthers
    <2>1. /\ before[w] \in Nat /\ attempt[w] \in Nat /\ Cardinality(Rows) \in Nat
          /\ before[w] + attempt[w] <= Cardinality(Rows)
      BY <1>1, RowsCounted, BoundIsNat DEF IInv, TypeOK, Outrun, OutrunAt
    <2>2. QED
      BY <2>1
  <1>2. QED
    BY <1>1, Inductive, PTL

\* An event is left without an order only when three orders were committed while
\* it was handled, or when the day's codes are used up.
THEOREM RefusedAfterThree ==
    Spec => [][\A e \in refused' \ refused :
                  \E h \in Handlers :
                      event[h] = e /\ (Full \/ before[h] + 3 <= Cardinality(Rows))]_vars
  <1>1. ASSUME IInv, [Next]_vars, NEW e \in refused' \ refused
        PROVE  \E h \in Handlers :
                   event[h] = e /\ (Full \/ before[h] + 3 <= Cardinality(Rows))
    <2>1. PICK h \in Handlers : /\ pc[h] = "insert" /\ code[h] \in Rows /\ event[h] = e
                                /\ ~(attempt[h] + 1 < MaxAttempts)
      BY <1>1 DEF Next, Step, vars, workVars, Announce, Deliver, Request, Look, GenerateCode,
                  Insert, Conflict, Commit, MarkProcessed, Fail, GiveUp, Close
    <2>2. h \in Creators /\ attempt[h] \in 0..2 /\ before[h] \in Nat
      BY <1>1, BoundIsNat DEF Creators, IInv, TypeOK, MaxAttempts
    <2>3. attempt[h] = 2
      BY <2>1, <2>2 DEF MaxAttempts
    <2>4. ~Full => before[h] + attempt[h] + 1 <= Cardinality(Rows)
      BY <1>1, <2>1, <2>2 DEF IInv, Outrun, OutrunAt
    <2>5. ~Full => before[h] + 3 <= Cardinality(Rows)
      BY <2>2, <2>3, <2>4
    <2>6. QED
      BY <2>1, <2>5
  <1>2. IInv /\ [Next]_vars
        => [\A e \in refused' \ refused :
              \E h \in Handlers :
                  event[h] = e /\ (Full \/ before[h] + 3 <= Cardinality(Rows))]_vars
    BY <1>1
  <1>3. QED
    BY <1>2, Inductive, PTL DEF Spec

\* However many users and handlers create orders at the same time, their codes
\* leave no gap, and none comes after the one that follows the widest.
THEOREM CodesWithoutGaps == Spec => []CodesInSequence
  <1>1. ASSUME IInv PROVE CodesInSequence
    <2>0. Rows \subseteq Nat \ {0} /\ Widest + 1 \in Nat /\ Dense
      BY <1>1, BoundIsNat, ConstantsOK DEF IInv, Rows, Codes
    <2>1. CASE Rows = {}
      <3>1. Rows = 1..0 /\ 0 \in 0..(Widest + 1)
        BY <2>0, <2>1
      <3>2. QED
        BY <3>1 DEF CodesInSequence
    <2>2. CASE Rows # {}
      <3>1. PICK n \in Rows : \A d \in Rows : d <= n
        BY <2>2, GreatestExists
      <3>2. n \in 0..(Widest + 1) /\ Rows \subseteq 1..n /\ 1..n \subseteq Rows
        BY <2>0, <3>1 DEF Dense
      <3>3. QED
        BY <3>2 DEF CodesInSequence
    <2>3. QED
      BY <2>1, <2>2
  <1>2. QED
    BY <1>1, Inductive, PTL

\* A code that is committed was no order's, so that orders are never overwritten:
\* two creations that read the same greatest code do not both commit.
THEOREM CodesUnique ==
    Spec => [][\A c \in Codes : order[c] # NoOrder => order'[c] = order[c]]_vars
  <1>1. ASSUME IInv, [Next]_vars
        PROVE  [\A c \in Codes : order[c] # NoOrder => order'[c] = order[c]]_vars
    <2>1. ASSUME NEW w \in Creators, Commit(w), NEW c \in Codes, order[c] # NoOrder
          PROVE  order'[c] = order[c]
      <3>1. code[w] # c
        BY <1>1, <2>1 DEF IInv, CodesApart, Commit, Rows
      <3>2. QED
        BY <1>1, <2>1, <3>1 DEF Commit, IInv, TypeOK
    <2>2. QED
      BY <2>1, <1>1, OrderSteps DEF IInv
  <1>2. QED
    BY <1>1, Inductive, PTL DEF Spec

\* Of the open orders of an alert, at most one was created by a handler that held
\* its event, however the event is delivered again, orders are closed, users name
\* the alert and handlers run on (Look in the transaction of
\* WorkOrderAutoCreateHandler).
THEOREM OnePerAlert == Spec => []SecondOrderHasCause
  <1>1. ASSUME IInv PROVE SecondOrderHasCause
    <2> SUFFICES ASSUME NEW e \in Events PROVE Cardinality(Owned(e)) <= 1
      BY DEF SecondOrderHasCause, Owned
    <2>1. CASE Owned(e) = {}
      BY <2>1, FS_EmptySet
    <2>2. CASE Owned(e) # {}
      <3>1. PICK c : c \in Owned(e)
        BY <2>2
      <3>2. \A d \in Owned(e) : d = c
        BY <1>1, <3>1 DEF IInv, SingleOpen
      <3>3. Owned(e) = {c}
        BY <3>1, <3>2
      <3>4. QED
        BY <3>3, FS_Singleton
    <2>3. QED
      BY <2>1, <2>2
  <1>2. QED
    BY <1>1, Inductive, PTL

-----------------------------------------------------------------------------
(* The refinement *)

Waiting == announced \ processed
Ordered == {e \in Events : OrdersOf(e) # {}} \cup refused

\* Orders and refusals are not taken back.
LEMMA OrderedGrows ==
  ASSUME IInv, [Next]_vars
  PROVE  Ordered \subseteq Ordered'
  <1>1. refused \subseteq refused'
    BY DEF Next, Step, Announce, Deliver, Request, Look, GenerateCode, Insert, Conflict,
           Commit, MarkProcessed, Fail, GiveUp, Close, vars
  <1>2. \A e \in Events : OrdersOf(e) \subseteq OrdersOf(e)'
    BY OrderSteps, Committed DEF IInv, OrdersOf, Codes
  <1>3. QED
    BY <1>1, <1>2 DEF Ordered, OrdersOf

\* Every step is a step of what is due.
LEMMA DueStep ==
  ASSUME IInv, IInv', [Next]_vars
  PROVE  [Due!Next]_<<Waiting, Ordered>>
  <1>1. Ordered \subseteq Ordered' /\ Ordered' \subseteq Events
    BY OrderedGrows DEF Ordered, IInv, TypeOK
  <1>2. CASE \E e \in Events : Announce(e)
    <2>1. PICK e \in Events : Announce(e)
      BY <1>2
    <2>2. Waiting' = Waiting \cup {e} /\ Ordered' = Ordered
      BY <2>1 DEF Announce, Waiting, Ordered, OrdersOf, Codes, IInv, TypeOK
    <2>3. Due!Accept(e)
      BY <2>2 DEF Due!Accept, Waiting, Ordered
    <2>4. QED
      BY <2>3 DEF Due!Next
  <1>3. CASE \A e \in Events : ~ Announce(e)
    <2>1. Waiting' \subseteq Waiting
      BY <1>3
      DEF Waiting, Next, Step, Deliver, Request, Look, GenerateCode, Insert, Conflict,
          Commit, MarkProcessed, Fail, Ended, GiveUp, Close, vars
    <2>2. ASSUME NEW e \in Waiting \ Waiting' PROVE e \in Ordered
      <3>1. \E h \in Creators : MarkProcessed(h) /\ h \in Holders /\ event[h] = e
        BY <1>3, <2>2
        DEF Waiting, Next, Step, Deliver, Request, Look, GenerateCode, Insert, Conflict,
            Commit, MarkProcessed, Fail, Ended, GiveUp, Close, vars
      <3>2. PICK h \in Holders : pc[h] = "mark" /\ event[h] = e
        BY <3>1 DEF MarkProcessed
      <3>3. e \in Events
        BY <2>2 DEF Waiting, IInv, TypeOK
      <3>4. QED
        BY <3>2, <3>3 DEF IInv, MarksSound, Ordered
    <2>3. Due!Release
      BY <1>1, <2>1, <2>2 DEF Due!Release, Waiting, Ordered
    <2>4. QED
      BY <2>3 DEF Due!Next
  <1>4. QED
    BY <1>2, <1>3

\* An event is due until its order exists or three attempts have lost: the
\* creation of orders implements Handover.
THEOREM ImplementsHandover == Spec => DueUntilOrdered
  <1>1. Init => Due!Init
    BY ConstantsOK DEF Init, Due!Init, OrdersOf
  <1>2. IInv /\ IInv' /\ [Next]_vars
        => [Due!Next]_<<announced \ processed, {e \in Events : OrdersOf(e) # {}} \cup refused>>
    BY DueStep DEF Waiting, Ordered
  <1>3. QED
    BY <1>1, <1>2, Inductive, PTL DEF Spec, DueUntilOrdered, Due!Spec
=============================================================================

-------------------------- MODULE WorkOrder_proofs --------------------------
(* Machine-checked proofs about WorkOrder, for any number of overlapping      *)
(* requests, any users, roles and approval chains.                            *)
EXTENDS WorkOrder, TLAPS

\* Columns that are set in a are set in b.
Below(a, b) ==
    /\ a.assignee # Nobody => b.assignee # Nobody
    /\ a.startedAt # Never => b.startedAt # Never
    /\ a.completedAt # Never => b.completedAt # Never
    /\ a.closedAt # Never => b.closedAt # Never
    /\ a.hours # NoHours => b.hours # NoHours

\* The order has been submitted at least once.
Worked(o) ==
    /\ o.assignee # Nobody /\ o.startedAt # Never
    /\ o.completedAt # Never /\ o.hours # NoHours

\* What a request holds in its copies of the order.
CopiesSound ==
    \A s \in Slots : req[s].snap # NoOrder =>
        /\ req[s].snap \in Order /\ req[s].new \in Order
        /\ Reached(req[s].new)
        /\ Below(req[s].snap, req[s].new) /\ Below(req[s].snap, order)

\* The stages of a request that fit the copies it has, and the approval records
\* and the requests about them that only a submitted order has.
StagesSound ==
    /\ \A s \in Slots : req[s].stage = "save" => req[s].snap # NoOrder
    /\ \A s \in Slots : req[s].stage = "replace" => req[s].template # NoTemplate
    /\ \A s \in Slots : req[s].stage \in {"review", "load", "decide"} => req[s].verb # "none"
    /\ \A s \in Slots : req[s].stage \notin {"idle", "save"} => Worked(order)
    /\ DOMAIN rows # {} => Worked(order)

IInv == TypeOK /\ MilestonesRecorded /\ CopiesSound /\ StagesSound

-----------------------------------------------------------------------------
(* Lemmas about the helpers *)

\* The hours computed for an order fit their column, and are set once the order
\* was started and completed.
LEMMA HoursType ==
  ASSUME NEW o \in Order
  PROVE  /\ ActualHours(o) \in NoHours..MaxTime
         /\ o.startedAt # Never /\ o.completedAt # Never => ActualHours(o) # NoHours
  BY ConstantsOK DEF ActualHours, Order, Times, Never, NoHours

\* What a save stores, column by column.
LEMMA MergedColumns ==
  ASSUME order \in Order, NEW snap, NEW new
  PROVE  Merged(snap, new) =
           [status |-> IF new.status # snap.status THEN new.status ELSE order.status,
            assignee |-> IF new.assignee # snap.assignee THEN new.assignee ELSE order.assignee,
            startedAt |-> IF new.startedAt # snap.startedAt THEN new.startedAt
                          ELSE order.startedAt,
            completedAt |-> IF new.completedAt # snap.completedAt THEN new.completedAt
                            ELSE order.completedAt,
            closedAt |-> IF new.closedAt # snap.closedAt THEN new.closedAt ELSE order.closedAt,
            hours |-> IF new.hours # snap.hours THEN new.hours ELSE order.hours]
  BY DEF Merged, Order

\* A save over any version of the order keeps the milestones and unsets nothing.
LEMMA MergeSound ==
  ASSUME order \in Order, NEW snap \in Order, NEW new \in Order,
         Reached(order), Reached(new), Below(snap, new), Below(snap, order)
  PROVE  /\ Merged(snap, new) \in Order
         /\ Reached(Merged(snap, new))
         /\ Below(order, Merged(snap, new))
         /\ new.status = "SubmittedForApproval" => Worked(Merged(snap, new))
  <1> DEFINE m == Merged(snap, new)
  <1>1. m \in Order
    BY MergedColumns DEF Order
  <1>2. /\ m.status = IF new.status # snap.status THEN new.status ELSE order.status
        /\ m.assignee = IF new.assignee # snap.assignee THEN new.assignee ELSE order.assignee
        /\ m.startedAt = IF new.startedAt # snap.startedAt THEN new.startedAt ELSE order.startedAt
        /\ m.completedAt = IF new.completedAt # snap.completedAt THEN new.completedAt
                           ELSE order.completedAt
        /\ m.closedAt = IF new.closedAt # snap.closedAt THEN new.closedAt ELSE order.closedAt
        /\ m.hours = IF new.hours # snap.hours THEN new.hours ELSE order.hours
    BY MergedColumns
  <1> HIDE DEF m
  <1>3. Below(order, m) /\ Below(new, m)
    BY <1>2 DEF Below
  <1>4. Reached(m)
    BY <1>2, <1>3 DEF Below, Reached
  <1>5. new.status = "SubmittedForApproval" => Worked(m)
    BY <1>3 DEF Below, Reached, Worked
  <1>6. QED
    BY <1>1, <1>3, <1>4, <1>5 DEF m

\* A service call that passed its checks leaves a sound pair of copies.
LEMMA LoadType ==
  ASSUME TypeOK, NEW s \in Slots, NEW target \in Status, NEW edited \in Order,
         Load(s, target, edited)
  PROVE  TypeOK'
  <1>1. [edited EXCEPT !.status = target] \in Order
    BY DEF Order
  <1>2. [Idle EXCEPT !.stage = "save", !.snap = order,
                     !.new = [edited EXCEPT !.status = target]] \in Request
    BY <1>1 DEF TypeOK, Idle, Request
  <1>3. QED
    BY <1>2 DEF TypeOK, Load

\* The copies that each service operation edits.
LEMMA EditType ==
  ASSUME TypeOK
  PROVE  /\ \A u \in Users : [order EXCEPT !.assignee = u] \in Order
         /\ [order EXCEPT !.startedAt = now] \in Order
         /\ [order EXCEPT !.closedAt = now] \in Order
         /\ [order EXCEPT !.completedAt = now] \in Order
         /\ [order EXCEPT !.completedAt = IF @ = Never THEN now ELSE @] \in Order
         /\ \A o \in Order : [o EXCEPT !.hours = ActualHours(o)] \in Order
  <1>1. now \in Times
    BY ConstantsOK DEF TypeOK, Times, Never
  <1>2. \A o \in Order : [o EXCEPT !.hours = ActualHours(o)] \in Order
    BY HoursType DEF Order
  <1>3. QED
    BY <1>1, <1>2 DEF TypeOK, Order

\* Every service operation is a load of an edited copy.  The copy has all that
\* its new status presupposes, and everything the loaded order had.
LEMMA ServiceLoads ==
  ASSUME TypeOK, Reached(order), NEW s \in Slots,
         \/ \E u \in Users : Assign(s, u)
         \/ Start(s) \/ Complete(s) \/ Accept(s) \/ Reject(s) \/ Close(s) \/ Cancel(s)
         \/ Submit(s)
  PROVE  \E target \in Status, edited \in Order :
            /\ Load(s, target, edited)
            /\ Reached([edited EXCEPT !.status = target])
            /\ Below(order, edited)
  <1>1. order \in Order /\ now # Never
    BY DEF TypeOK, Never
  <1> USE <1>1, EditType DEF Load, ValidTransitions, Status, Reached, Below
  <1>2. CASE \E u \in Users : Assign(s, u)
    <2>1. PICK u \in Users : Assign(s, u)
      BY <1>2
    <2> DEFINE e == [order EXCEPT !.assignee = u]
    <2>2. e \in Order /\ Load(s, "Assigned", e)
      BY <2>1 DEF Assign
    <2>3. e.assignee # Nobody
      BY ConstantsOK DEF Order
    <2>4. Below(order, e) /\ Reached([e EXCEPT !.status = "Assigned"])
      BY <2>3 DEF Order
    <2>5. QED
      BY <2>2, <2>4
  <1>3. CASE Start(s)
    <2>1. LET e == [order EXCEPT !.startedAt = now]
          IN  /\ e \in Order /\ Load(s, "InProgress", e) /\ Below(order, e)
              /\ Reached([e EXCEPT !.status = "InProgress"])
      BY <1>3 DEF Start, Order
    <2>2. QED
      BY <2>1
  <1>4. CASE Accept(s)
    <2>1. Load(s, "Accepted", order) /\ Reached([order EXCEPT !.status = "Accepted"])
      BY <1>4 DEF Accept, Order
    <2>2. QED
      BY <2>1
  <1>5. CASE Reject(s)
    <2>1. Load(s, "Rejected", order) /\ Reached([order EXCEPT !.status = "Rejected"])
      BY <1>5 DEF Reject, Order
    <2>2. QED
      BY <2>1
  <1>6. CASE Cancel(s)
    <2>1. Load(s, "Cancelled", order) /\ Reached([order EXCEPT !.status = "Cancelled"])
      BY <1>6 DEF Cancel, Order
    <2>2. QED
      BY <2>1
  <1>7. CASE Close(s)
    <2>1. LET e == [order EXCEPT !.closedAt = now]
          IN  /\ e \in Order /\ Load(s, "Closed", e) /\ Below(order, e)
              /\ Reached([e EXCEPT !.status = "Closed"])
      BY <1>7 DEF Close, Order
    <2>2. QED
      BY <2>1
  <1>8. CASE Complete(s)
    <2> DEFINE d == [order EXCEPT !.completedAt = now]
               e == [d EXCEPT !.hours = ActualHours(d)]
    <2>1. d \in Order /\ e \in Order /\ Load(s, "Completed", e)
      BY <1>8 DEF Complete
    <2>2. order.status = "InProgress"
      BY <1>8 DEF Complete, Order
    <2>3. d.completedAt = now /\ d.startedAt # Never
      BY <2>2 DEF Order
    <2>4. ActualHours(d) # NoHours
      BY <2>1, <2>3, HoursType
    <2>5. Below(order, e) /\ Reached([e EXCEPT !.status = "Completed"])
      BY <2>1, <2>2, <2>3, <2>4 DEF Order
    <2>6. QED
      BY <2>1, <2>5
  <1>9. CASE Submit(s)
    <2> DEFINE d == [order EXCEPT !.completedAt = IF @ = Never THEN now ELSE @]
               e == [d EXCEPT !.hours = ActualHours(d)]
    <2>1. d \in Order /\ e \in Order /\ Load(s, "SubmittedForApproval", e)
      BY <1>9 DEF Submit
    <2>2. order.status \in {"InProgress", "Completed"}
      BY <1>9 DEF Submit
    <2>3. d.completedAt # Never /\ d.startedAt # Never
      BY <2>2 DEF Order
    <2>4. ActualHours(d) # NoHours
      BY <2>1, <2>3, HoursType
    <2>5. Below(order, e) /\ Reached([e EXCEPT !.status = "SubmittedForApproval"])
      BY <2>1, <2>2, <2>3, <2>4 DEF Order
    <2>6. QED
      BY <2>1, <2>5
  <1>10. QED
    BY <1>2, <1>3, <1>4, <1>5, <1>6, <1>7, <1>8, <1>9

-----------------------------------------------------------------------------
(* Types *)

LEMMA IdleType == Idle \in Request
  BY DEF Idle, Request

\* A request that ends changes nothing else.
LEMMA EndType ==
  ASSUME TypeOK, NEW s \in Slots, req' = [req EXCEPT ![s] = Idle],
         UNCHANGED <<order, rows, announced, now>>
  PROVE  TypeOK'
  BY IdleType DEF TypeOK

LEMMA TypeInit == Init => TypeOK
  BY ConstantsOK, IdleType DEF Init, TypeOK, Order, Status, Times, Never, NoHours, RowIds

\* A save stores a well-formed order and announces two statuses.
LEMMA SaveOrderType ==
  ASSUME TypeOK, MilestonesRecorded, CopiesSound, NEW s \in Slots, req[s].snap # NoOrder,
         SaveOrder(s)
  PROVE  /\ order' \in Order /\ Reached(order') /\ Below(order, order')
         /\ announced' \in [from : Status, to : Status]
         /\ req[s].new.status = "SubmittedForApproval" => Worked(order')
  <1>1. /\ order \in Order /\ req[s].snap \in Order /\ req[s].new \in Order
        /\ Reached(order) /\ Reached(req[s].new)
        /\ Below(req[s].snap, req[s].new) /\ Below(req[s].snap, order)
    BY DEF TypeOK, MilestonesRecorded, CopiesSound
  <1>2. order' = Merged(req[s].snap, req[s].new)
    BY DEF SaveOrder
  <1>3. announced' \in [from : Status, to : Status]
    BY <1>1 DEF SaveOrder, Order
  <1>4. QED
    BY <1>1, <1>2, <1>3, MergeSound

LEMMA TypeStep ==
  ASSUME IInv, [Next]_vars
  PROVE  TypeOK'
  <1>1. ASSUME NEW s \in Slots, \E target \in Status, edited \in Order : Load(s, target, edited)
        PROVE  TypeOK'
    BY <1>1, LoadType DEF IInv
  <1>2. ASSUME NEW s \in Slots, Save(s) PROVE TypeOK'
    <2>1. req[s].snap # NoOrder /\ req[s].snap \in Order /\ req[s].new \in Order
      BY <1>2 DEF Save, IInv, StagesSound, CopiesSound
    <2>2. order' \in Order /\ announced' \in [from : Status, to : Status]
      BY <1>2, <2>1, SaveOrderType DEF Save, IInv
    <2>3. [Idle EXCEPT !.stage = "match"] \in Request
      BY DEF Idle, Request
    <2>4. req' \in [Slots -> Request]
      BY <1>2, <2>3, IdleType DEF Save, IInv, TypeOK
    <2>5. QED
      BY <1>2, <2>2, <2>4 DEF Save, IInv, TypeOK
  <1>3. ASSUME NEW s \in Slots, Match(s) PROVE TypeOK'
    <2>1. \A t \in Templates :
             [Idle EXCEPT !.stage = "replace", !.template = t, !.others = DOMAIN rows] \in Request
      BY DEF Idle, Request, IInv, TypeOK
    <2>2. QED
      BY <1>3, <2>1, IdleType DEF Match, MatchTemplate, IInv, TypeOK
  <1>4. ASSUME NEW s \in Slots, Replace(s) PROVE TypeOK'
    <2> DEFINE t == req[s].template
               kept == Kept(req[s].others)
    <2>1. PICK r \in Rounds :
             rows' = [id \in kept \cup {<<r, k>> : k \in 1..Len(t)} |->
                         IF id \in kept THEN rows[id]
                         ELSE [need |-> t[id[2]], action |-> "Pending", by |-> Nobody]]
      BY <1>4 DEF Replace
    <2>2. t \in Seq(Need)
      BY <1>4, ConstantsOK DEF Replace, IInv, TypeOK, Request, StagesSound
    <2>3. kept \subseteq DOMAIN rows
      BY DEF Kept
    <2>4. DOMAIN rows' \subseteq RowIds
      BY <2>1, <2>2, <2>3 DEF IInv, TypeOK, RowIds
    <2>5. \A id \in DOMAIN rows' : rows'[id] \in Row
      BY <2>1, <2>2, <2>3 DEF IInv, TypeOK, Row
    <2>6. req' \in [Slots -> Request]
      BY <1>4, IdleType DEF Replace, IInv, TypeOK
    <2>7. QED
      BY <1>4, <2>4, <2>5, <2>6 DEF Replace, IInv, TypeOK
  <1>5. ASSUME NEW s \in Slots, NEW u \in Users, NEW verb \in {"Approved", "Rejected"},
               Pick(s, u, verb)
        PROVE  TypeOK'
    <2>1. \A id \in FirstPending :
             [Idle EXCEPT !.stage = "review", !.verb = verb, !.by = u, !.row = id] \in Request
      BY DEF Idle, Request, FirstPending, Pending, IInv, TypeOK
    <2>2. QED
      BY <1>5, <2>1 DEF Pick, IInv, TypeOK
  <1>6. ASSUME NEW s \in Slots, ReviewApproval(s) \/ ReviewRejection(s) PROVE TypeOK'
    BY <1>6 DEF ReviewApproval, ReviewRejection, Pending, IInv, TypeOK, Request
  <1>7. ASSUME NEW s \in Slots, LoadOrder(s) PROVE TypeOK'
    <2>1. \A st \in Status : [order EXCEPT !.status = st] \in Order
      BY DEF IInv, TypeOK, Order
    <2>2. \A r \in Request, new \in Order :
             [r EXCEPT !.stage = "decide", !.snap = order, !.new = new] \in Request
      BY DEF IInv, TypeOK, Request
    <2>3. req[s] \in Request /\ req \in [Slots -> Request]
      BY DEF IInv, TypeOK
    <2>4. PICK new \in Order :
             req' = [req EXCEPT ![s] = [@ EXCEPT !.stage = "decide", !.snap = order, !.new = new]]
      BY <1>7, <2>1 DEF LoadOrder, Status
    <2>5. req' \in [Slots -> Request]
      BY <2>2, <2>3, <2>4
    <2>6. QED
      BY <1>7, <2>5 DEF LoadOrder, IInv, TypeOK
  <1>8. ASSUME NEW s \in Slots, Decide(s) PROVE TypeOK'
    <2>1. order' \in Order /\ announced' \in [from : Status, to : Status]
      BY <1>8, SaveOrderType DEF Decide, IInv, TypeOK
    <2>2. DOMAIN rows' \subseteq RowIds
      BY <1>8 DEF Decide, IInv, TypeOK
    <2>3. req[s].verb \in {"Approved", "Rejected"} /\ req[s].by \in Users \cup {Nobody}
      BY <1>8 DEF Decide, IInv, TypeOK, Request, StagesSound
    <2>4. \A id \in DOMAIN rows' : rows'[id] \in Row
      BY <1>8, <2>3 DEF Decide, IInv, TypeOK, Row
    <2>5. QED
      BY <1>8, <2>1, <2>2, <2>4, IdleType DEF Decide, IInv, TypeOK
  <1>9. ASSUME NEW s \in Slots, SaveThrows(s) \/ Abort(s) PROVE TypeOK'
    BY <1>9, EndType DEF SaveThrows, Abort, IInv
  <1>10. CASE Tick
    BY <1>10, ConstantsOK DEF Tick, IInv, TypeOK
  <1>11. CASE UNCHANGED vars
    BY <1>11 DEF vars, IInv, TypeOK
  <1>12. ASSUME NEW s \in Slots,
                \/ \E u \in Users : Assign(s, u)
                \/ Start(s) \/ Complete(s) \/ Accept(s) \/ Reject(s) \/ Close(s) \/ Cancel(s)
                \/ Submit(s)
         PROVE  TypeOK'
    BY <1>1, <1>12, ServiceLoads DEF IInv, MilestonesRecorded
  <1>13. QED
    BY <1>2, <1>3, <1>4, <1>5, <1>6, <1>7, <1>8, <1>9, <1>10, <1>11, <1>12
       DEF Next, Service, Approvals

-----------------------------------------------------------------------------
(* Milestones *)

\* What the invariant says of one request and the order.
RequestSound(r, o) ==
    /\ r.snap # NoOrder => /\ r.snap \in Order /\ r.new \in Order
                           /\ Reached(r.new)
                           /\ Below(r.snap, r.new) /\ Below(r.snap, o)
    /\ r.stage = "save" => r.snap # NoOrder
    /\ r.stage = "replace" => r.template # NoTemplate
    /\ r.stage \in {"review", "load", "decide"} => r.verb # "none"
    /\ r.stage \notin {"idle", "save"} => Worked(o)

\* A request that ends leaves nothing to be sound about.
LEMMA IdleSound == \A o : RequestSound(Idle, o)
  BY DEF Idle, RequestSound

\* A step of one request keeps the invariant if it leaves this request sound and
\* the order only gains columns.
LEMMA OneRequest ==
  ASSUME IInv, NEW s \in Slots, NEW r, req' = [req EXCEPT ![s] = r], RequestSound(r, order'),
         Below(order, order'), Reached(order'), DOMAIN rows' # {} => Worked(order')
  PROVE  MilestonesRecorded' /\ CopiesSound' /\ StagesSound'
  <1>1. Worked(order) => Worked(order')
    BY DEF Below, Worked
  <1>2. ASSUME NEW x \in Slots PROVE RequestSound(req'[x], order')
    <2>1. CASE x = s
      BY <2>1 DEF IInv, TypeOK
    <2>2. CASE x # s
      <3>1. req'[x] = req[x]
        BY <2>2 DEF IInv, TypeOK
      <3>2. req[x].snap # NoOrder => Below(req[x].snap, order')
        BY DEF IInv, CopiesSound, Below
      <3>3. QED
        BY <1>1, <3>1, <3>2 DEF IInv, CopiesSound, StagesSound, RequestSound
    <2>3. QED
      BY <2>1, <2>2
  <1>3. QED
    BY <1>2 DEF MilestonesRecorded, CopiesSound, StagesSound, RequestSound

\* Saving nothing loses nothing.
LEMMA BelowItself == \A o : Below(o, o)
  BY DEF Below

LEMMA InvInit == Init => IInv
  <1> SUFFICES ASSUME Init PROVE IInv
    OBVIOUS
  <1>1. TypeOK
    BY TypeInit
  <1>2. MilestonesRecorded
    BY DEF Init, MilestonesRecorded, Reached
  <1>3. \A s \in Slots : req[s].snap = NoOrder /\ req[s].stage = "idle"
    BY DEF Init, Idle
  <1>4. DOMAIN rows = {}
    BY DEF Init
  <1>5. QED
    BY <1>1, <1>2, <1>3, <1>4 DEF IInv, CopiesSound, StagesSound

LEMMA InvStep == IInv /\ [Next]_vars => IInv'
  <1> SUFFICES ASSUME IInv, [Next]_vars PROVE MilestonesRecorded' /\ CopiesSound' /\ StagesSound'
    BY TypeStep DEF IInv
  <1>1. order \in Order /\ Reached(order) /\ Below(order, order)
    BY BelowItself DEF IInv, TypeOK, MilestonesRecorded
  <1>2. DOMAIN rows # {} => Worked(order)
    BY DEF IInv, StagesSound
  <1>3. ASSUME NEW s \in Slots, NEW target \in Status, NEW edited \in Order,
               Load(s, target, edited), Reached([edited EXCEPT !.status = target]),
               Below(order, edited)
        PROVE  MilestonesRecorded' /\ CopiesSound' /\ StagesSound'
    <2> DEFINE new == [edited EXCEPT !.status = target]
               r == [Idle EXCEPT !.stage = "save", !.snap = order, !.new = new]
    <2>1. new \in Order /\ Below(order, new)
      BY <1>3 DEF Order, Below
    <2>2. order # NoOrder
      BY <1>1, NullsOK
    <2>3. RequestSound(r, order)
      BY <1>1, <1>3, <2>1, <2>2 DEF RequestSound, Idle
    <2>4. req' = [req EXCEPT ![s] = r] /\ UNCHANGED <<order, rows>>
      BY <1>3 DEF Load
    <2>5. QED
      BY <1>1, <1>2, <2>3, <2>4, OneRequest
  <1>4. ASSUME NEW s \in Slots, Save(s)
        PROVE  MilestonesRecorded' /\ CopiesSound' /\ StagesSound'
    <2>1. req[s].snap # NoOrder
      BY <1>4 DEF Save, IInv, StagesSound
    <2>2. /\ Reached(order') /\ Below(order, order')
          /\ req[s].new.status = "SubmittedForApproval" => Worked(order')
      BY <1>4, <2>1, SaveOrderType DEF Save, IInv
    <2> DEFINE r == IF req[s].new.status = "SubmittedForApproval"
                    THEN [Idle EXCEPT !.stage = "match"] ELSE Idle
    <2>3. RequestSound(r, order')
      BY <2>2 DEF RequestSound, Idle
    <2>4. req' = [req EXCEPT ![s] = r] /\ rows' = rows
      BY <1>4 DEF Save
    <2>5. DOMAIN rows' # {} => Worked(order')
      BY <1>2, <2>2, <2>4 DEF Below, Worked
    <2>6. QED
      BY <2>2, <2>3, <2>4, <2>5, OneRequest
  <1>5. ASSUME NEW s \in Slots, Match(s)
        PROVE  MilestonesRecorded' /\ CopiesSound' /\ StagesSound'
    <2>1. Worked(order)
      BY <1>5 DEF Match, IInv, StagesSound
    <2>2. PICK r : req' = [req EXCEPT ![s] = r] /\ RequestSound(r, order)
      BY <1>5, <2>1, IdleSound DEF Match, RequestSound, Idle
    <2>3. UNCHANGED <<order, rows>>
      BY <1>5 DEF Match
    <2>4. QED
      BY <1>1, <1>2, <2>2, <2>3, OneRequest
  <1>6. ASSUME NEW s \in Slots, Replace(s)
        PROVE  MilestonesRecorded' /\ CopiesSound' /\ StagesSound'
    <2>1. Worked(order)
      BY <1>6 DEF Replace, IInv, StagesSound
    <2>2. req' = [req EXCEPT ![s] = Idle] /\ order' = order
      BY <1>6 DEF Replace
    <2>3. QED
      BY <1>1, <2>1, <2>2, IdleSound, OneRequest
  <1>7. ASSUME NEW s \in Slots, NEW u \in Users, NEW verb \in {"Approved", "Rejected"},
               Pick(s, u, verb)
        PROVE  MilestonesRecorded' /\ CopiesSound' /\ StagesSound'
    <2>1. Worked(order)
      BY <1>2, <1>7 DEF Pick, FirstPending, Pending
    <2>2. PICK r : req' = [req EXCEPT ![s] = r] /\ RequestSound(r, order)
      BY <1>7, <2>1 DEF Pick, RequestSound, Idle
    <2>3. UNCHANGED <<order, rows>>
      BY <1>7 DEF Pick
    <2>4. QED
      BY <1>1, <1>2, <2>2, <2>3, OneRequest
  <1>8. ASSUME NEW s \in Slots, ReviewApproval(s) \/ ReviewRejection(s)
        PROVE  MilestonesRecorded' /\ CopiesSound' /\ StagesSound'
    <2>1. Worked(order) /\ RequestSound(req[s], order)
      BY <1>8 DEF ReviewApproval, ReviewRejection, IInv, CopiesSound, StagesSound, RequestSound
    <2>2. req[s] \in Request /\ req[s].stage = "review"
      BY <1>8 DEF ReviewApproval, ReviewRejection, IInv, TypeOK
    <2>3. \A st \in {"load", "decide"} : \A o :
             /\ RequestSound([req[s] EXCEPT !.stage = st], order)
             /\ RequestSound([req[s] EXCEPT !.stage = st, !.others = o], order)
      BY <2>1, <2>2 DEF RequestSound, Request
    <2>4. PICK r : req' = [req EXCEPT ![s] = r] /\ RequestSound(r, order)
      BY <1>8, <2>3 DEF ReviewApproval, ReviewRejection, IInv, TypeOK
    <2>5. UNCHANGED <<order, rows>>
      BY <1>8 DEF ReviewApproval, ReviewRejection
    <2>6. QED
      BY <1>1, <1>2, <2>4, <2>5, OneRequest
  <1>9. ASSUME NEW s \in Slots, LoadOrder(s)
        PROVE  MilestonesRecorded' /\ CopiesSound' /\ StagesSound'
    <2>1. Worked(order) /\ req[s].verb # "none" /\ req[s] \in Request
      BY <1>9 DEF LoadOrder, IInv, StagesSound, TypeOK
    <2>2. ASSUME NEW st \in {"Accepted", "InProgress"}
          PROVE  LET new == [order EXCEPT !.status = st]
                 IN  new \in Order /\ Reached(new) /\ Below(order, new)
      BY <1>1, <2>1 DEF Order, Status, Worked, Reached, Below
    <2>3. ASSUME NEW st \in {"Accepted", "InProgress"}
          PROVE  RequestSound([req[s] EXCEPT !.stage = "decide", !.snap = order,
                                             !.new = [order EXCEPT !.status = st]], order)
      BY <1>1, <2>1, <2>2 DEF RequestSound, Request
    <2>4. PICK r : req' = [req EXCEPT ![s] = r] /\ RequestSound(r, order)
      BY <1>9, <2>3 DEF LoadOrder, IInv, TypeOK
    <2>5. UNCHANGED <<order, rows>>
      BY <1>9 DEF LoadOrder
    <2>6. QED
      BY <1>1, <1>2, <2>4, <2>5, OneRequest
  <1>10. ASSUME NEW s \in Slots, Decide(s)
         PROVE  MilestonesRecorded' /\ CopiesSound' /\ StagesSound'
    <2>1. Worked(order)
      BY <1>10 DEF Decide, IInv, StagesSound
    <2>2. Reached(order') /\ Below(order, order')
      BY <1>1, <1>10, SaveOrderType DEF Decide, IInv
    <2>3. Worked(order')
      BY <2>1, <2>2 DEF Below, Worked
    <2>4. req' = [req EXCEPT ![s] = Idle]
      BY <1>10 DEF Decide
    <2>5. QED
      BY <2>2, <2>3, <2>4, IdleSound, OneRequest
  <1>11. ASSUME NEW s \in Slots, SaveThrows(s) \/ Abort(s)
         PROVE  MilestonesRecorded' /\ CopiesSound' /\ StagesSound'
    <2>1. req' = [req EXCEPT ![s] = Idle] /\ UNCHANGED <<order, rows>>
      BY <1>11 DEF SaveThrows, Abort
    <2>2. QED
      BY <1>1, <1>2, <2>1, IdleSound, OneRequest
  <1>12. CASE Tick \/ UNCHANGED vars
    <2>1. UNCHANGED <<order, rows, req>>
      BY <1>12 DEF Tick, vars
    <2>2. QED
      BY <2>1 DEF IInv, MilestonesRecorded, CopiesSound, StagesSound
  <1>13. ASSUME NEW s \in Slots,
                \/ \E u \in Users : Assign(s, u)
                \/ Start(s) \/ Complete(s) \/ Accept(s) \/ Reject(s) \/ Close(s) \/ Cancel(s)
                \/ Submit(s)
         PROVE  MilestonesRecorded' /\ CopiesSound' /\ StagesSound'
    <2>1. PICK target \in Status, edited \in Order :
             /\ Load(s, target, edited)
             /\ Reached([edited EXCEPT !.status = target])
             /\ Below(order, edited)
      BY <1>1, <1>13, ServiceLoads DEF IInv
    <2>2. QED
      BY <1>3, <2>1
  <1>14. QED
    BY <1>4, <1>5, <1>6, <1>7, <1>8, <1>9, <1>10, <1>11, <1>12, <1>13
       DEF Next, Service, Approvals

\* The invariant that carries the results below: the copies requests hold have
\* all that their status presupposes, and no column they saw set was unset since.
THEOREM Inductive == Spec => []IInv
  BY InvInit, InvStep, PTL DEF Spec

\* Every reachable state is well-formed.
THEOREM TypeCorrect == Spec => []TypeOK
  BY Inductive, PTL DEF IInv

\* However many requests overlap, no status is stored without its columns.
THEOREM Milestones == Spec => []MilestonesRecorded
  BY Inductive, PTL DEF IInv

\* A column that is set stays set, whichever versions of the order overlapping
\* requests have loaded and save over each other.
THEOREM ColumnsStaySet == Spec => [][Below(order, order')]_vars
  <1>1. ASSUME IInv, [Next]_vars PROVE Below(order, order')
    <2>1. CASE UNCHANGED order
      BY <2>1, BelowItself
    <2>2. ASSUME NEW s \in Slots, Save(s) \/ Decide(s), ~ UNCHANGED order
          PROVE  Below(order, order')
      <3>1. req[s].snap # NoOrder /\ SaveOrder(s)
        BY <1>1, <2>2 DEF Save, Decide, IInv, StagesSound
      <3>2. QED
        BY <1>1, <3>1, SaveOrderType DEF IInv
    <2>3. QED
      BY <1>1, <2>1, <2>2
      DEF Next, Service, Approvals, Assign, Start, Complete, Accept, Reject, Close, Cancel,
          Submit, Load, Match, Replace, Pick, ReviewApproval, ReviewRejection, LoadOrder,
          SaveThrows, Abort, Tick, vars
  <1>2. IInv /\ [Next]_vars => [Below(order, order')]_vars
    BY <1>1
  <1>3. QED
    BY <1>2, Inductive, PTL DEF Spec

\* An approval record is decided for good: it is never open again, and what it
\* asks for never changes; it can only be removed with its chain.
VerdictStays ==
    \A id \in DOMAIN rows \cap DOMAIN rows' :
        /\ rows'[id].need = rows[id].need
        /\ rows[id].action # "Pending" => rows'[id].action # "Pending"

\* However decisions and submissions overlap, a verdict may be overruled by a later
\* one but never undone, and no record changes hands.
THEOREM VerdictsStay == Spec => [][VerdictStays]_vars
  <1>1. ASSUME IInv, [Next]_vars PROVE VerdictStays
    <2>1. CASE UNCHANGED rows
      BY <2>1 DEF VerdictStays
    <2>2. ASSUME NEW s \in Slots, Replace(s) PROVE VerdictStays
      <3> DEFINE t == req[s].template
                 kept == Kept(req[s].others)
      <3>1. PICK r \in Rounds \ UsedRounds :
               rows' = [id \in kept \cup {<<r, k>> : k \in 1..Len(t)} |->
                           IF id \in kept THEN rows[id]
                           ELSE [need |-> t[id[2]], action |-> "Pending", by |-> Nobody]]
        BY <2>2 DEF Replace
      <3>2. \A k \in 1..Len(t) : <<r, k>> \notin DOMAIN rows
        BY DEF UsedRounds
      <3>3. \A id \in DOMAIN rows \cap DOMAIN rows' : id \in kept
        BY <3>1, <3>2
      <3>4. QED
        BY <3>1, <3>3 DEF VerdictStays
    <2>3. ASSUME NEW s \in Slots, Decide(s) PROVE VerdictStays
      <3>1. req[s].verb # "none" /\ req[s].verb \in {"none", "Approved", "Rejected"}
        BY <1>1, <2>3 DEF Decide, IInv, StagesSound, TypeOK, Request
      <3>2. \A id \in DOMAIN rows : rows[id] \in Row
        BY <1>1 DEF IInv, TypeOK
      <3>3. QED
        BY <2>3, <3>1, <3>2 DEF Decide, VerdictStays, Row
    <2>4. QED
      BY <1>1, <2>1, <2>2, <2>3
      DEF Next, Service, Approvals, Assign, Start, Complete, Accept, Reject, Close, Cancel,
          Submit, Load, Save, Match, Pick, ReviewApproval, ReviewRejection, LoadOrder,
          SaveThrows, Abort, Tick, vars
  <1>2. IInv /\ [Next]_vars => [VerdictStays]_vars
    BY <1>1
  <1>3. QED
    BY <1>2, Inductive, PTL DEF Spec

-----------------------------------------------------------------------------
(* Entitlement *)

\* A request is entitled to the record it holds for as long as that exists.
PickedEntitled ==
    \A s \in Slots : req[s].row \in DOMAIN rows =>
        Entitled(req[s].by, rows[req[s].row].need)

EInv == DecidersEntitled /\ PickedEntitled

\* A record written by Replace is known to no request yet.
LEMMA FreshRows ==
  ASSUME TypeOK, NEW s \in Slots, NEW r \in Rounds \ UsedRounds, NEW k \in Nat
  PROVE  req[s].row # <<r, k>>
  <1> SUFFICES ASSUME req[s].row = <<r, k>> PROVE FALSE
    OBVIOUS
  <1>1. req[s].row # NoRow
    BY NullsOK DEF RowIds
  <1>2. req[s].row[1] = r
    OBVIOUS
  <1>3. QED
    BY <1>1, <1>2 DEF UsedRounds

\* Records keep what they ask for; a request that changes is a new pick, one that
\* keeps its record, or one that ends.
LEMMA EntitledStep ==
  ASSUME TypeOK, EInv, [Next]_vars
  PROVE  EInv'
  <1> USE DEF EInv, DecidersEntitled, PickedEntitled
  <1>1. Idle.row = NoRow /\ NoRow \notin DOMAIN rows /\ req \in [Slots -> Request]
    BY NullsOK DEF Idle, TypeOK
  <1>2. ASSUME NEW s \in Slots, NEW r, req' = [req EXCEPT ![s] = r], rows' = rows,
               r.row = NoRow \/ (r.row = req[s].row /\ r.by = req[s].by)
        PROVE  EInv'
    BY <1>1, <1>2
  <1>3. ASSUME NEW s \in Slots, NEW target \in Status, NEW edited, Load(s, target, edited)
        PROVE  EInv'
    BY <1>2, <1>3 DEF Load, Idle
  <1>4. ASSUME NEW s \in Slots, Save(s) \/ Match(s) PROVE EInv'
    BY <1>2, <1>4 DEF Save, Match, Idle
  <1>5. ASSUME NEW s \in Slots, SaveThrows(s) \/ Abort(s) PROVE EInv'
    BY <1>1, <1>2, <1>5 DEF SaveThrows, Abort
  <1>6. ASSUME NEW s \in Slots, ReviewApproval(s) \/ ReviewRejection(s) \/ LoadOrder(s)
        PROVE  EInv'
    <2>1. req[s] \in Request
      BY <1>1
    <2>2. PICK r : /\ req' = [req EXCEPT ![s] = r]
                   /\ r.row = req[s].row /\ r.by = req[s].by
      BY <1>1, <1>6, <2>1 DEF ReviewApproval, ReviewRejection, LoadOrder, Request
    <2>3. rows' = rows
      BY <1>6 DEF ReviewApproval, ReviewRejection, LoadOrder
    <2>4. QED
      BY <1>2, <2>2, <2>3
  <1>7. ASSUME NEW s \in Slots, NEW u \in Users, NEW verb, Pick(s, u, verb) PROVE EInv'
    <2>1. PICK id \in FirstPending :
             /\ Entitled(u, rows[id].need)
             /\ req' = [req EXCEPT ![s] = [Idle EXCEPT !.stage = "review", !.verb = verb,
                                                       !.by = u, !.row = id]]
             /\ rows' = rows
      BY <1>7 DEF Pick
    <2>2. req'[s].row = id /\ req'[s].by = u
      BY <1>1, <2>1 DEF Idle
    <2>3. QED
      BY <1>1, <2>1, <2>2
  <1>8. ASSUME NEW s \in Slots, Decide(s) PROVE EInv'
    <2>1. DOMAIN rows' = DOMAIN rows /\ req' = [req EXCEPT ![s] = Idle]
      BY <1>8 DEF Decide
    <2>2. ASSUME NEW id \in DOMAIN rows
          PROVE  /\ rows'[id].need = rows[id].need
                 /\ rows'[id].by = rows[id].by \/ (id = req[s].row /\ rows'[id].by = req[s].by)
      BY <1>8 DEF Decide, TypeOK, Row
    <2>3. QED
      BY <1>1, <2>1, <2>2
  <1>9. ASSUME NEW s \in Slots, Replace(s) PROVE EInv'
    <2> DEFINE t == req[s].template
               kept == Kept(req[s].others)
    <2>1. PICK r \in Rounds \ UsedRounds :
             rows' = [id \in kept \cup {<<r, k>> : k \in 1..Len(t)} |->
                         IF id \in kept THEN rows[id]
                         ELSE [need |-> t[id[2]], action |-> "Pending", by |-> Nobody]]
      BY <1>9 DEF Replace
    <2>2. req' = [req EXCEPT ![s] = Idle] /\ kept \subseteq DOMAIN rows
      BY <1>9 DEF Replace, Kept
    <2>3. DecidersEntitled'
      BY <2>1, <2>2
    <2>4. ASSUME NEW x \in Slots, req'[x].row \in DOMAIN rows'
          PROVE  req'[x].row \in kept /\ req'[x] = req[x]
      <3>1. ASSUME NEW k \in 1..Len(t) PROVE req'[x].row # <<r, k>>
        <4>1. k \in Nat /\ <<r, k>> \in RowIds
          BY DEF RowIds
        <4>2. CASE x = s
          BY <1>1, <2>2, <4>1, <4>2, NullsOK
        <4>3. CASE x # s
          <5>1. req'[x] = req[x]
            BY <1>1, <2>2, <4>3
          <5>2. QED
            BY <4>1, <5>1, FreshRows
        <4>4. QED
          BY <4>2, <4>3
      <3>2. req'[x].row \in kept
        BY <2>1, <2>4, <3>1
      <3>3. x # s
        BY <1>1, <2>2, <3>2
      <3>4. QED
        BY <1>1, <2>2, <3>2, <3>3
    <2>5. \A id \in kept : rows'[id] = rows[id] /\ id \in DOMAIN rows
      BY <2>1, <2>2
    <2>6. PickedEntitled'
      BY <2>4, <2>5
    <2>7. QED
      BY <2>3, <2>6
  <1>10. CASE Tick \/ UNCHANGED vars
    BY <1>10 DEF Tick, vars
  <1>11. ASSUME NEW s \in Slots,
                \/ \E u \in Users : Assign(s, u)
                \/ Start(s) \/ Complete(s) \/ Accept(s) \/ Reject(s) \/ Close(s) \/ Cancel(s)
                \/ Submit(s)
         PROVE  EInv'
    BY <1>3, <1>11 DEF Assign, Start, Complete, Accept, Reject, Close, Cancel, Submit, Status
  <1>12. QED
    BY <1>4, <1>5, <1>6, <1>7, <1>8, <1>9, <1>10, <1>11 DEF Next, Service, Approvals

\* However many users decide, submit and replace at once, a record that names who
\* decided it names somebody entitled to that step.
THEOREM Deciders == Spec => []DecidersEntitled
  <1>1. Init => EInv
    BY NullsOK DEF Init, EInv, DecidersEntitled, PickedEntitled
  <1>2. QED
    BY <1>1, EntitledStep, TypeCorrect, PTL DEF Spec, EInv

-----------------------------------------------------------------------------
(* Requests one after the other *)

Serial == \A s, t \in Slots : s = t

\* Row id of rws is pending, and no pending row is of an earlier step.
FirstOf(id, rws) ==
    /\ id \in DOMAIN rws /\ rws[id].action = "Pending"
    /\ \A other \in DOMAIN rws : rws[other].action = "Pending" => id[2] <= other[2]

\* All other records are approved.
Final(id, rws) == \A other \in DOMAIN rws \ {id} : rws[other].action = "Approved"

LaterPending(id, rws) ==
    {other \in DOMAIN rws : rws[other].action = "Pending" /\ other[2] > id[2]}

\* With nobody in between, a request's copy is the stored order, and what it has
\* found out about the records is still so when it saves.
SerialAt(r, o, rws) ==
    /\ r.snap # NoOrder => r.snap = o /\ r.stage \in {"save", "decide"}
    /\ r.stage = "save" => r.snap # NoOrder /\ r.new.status \in ValidTransitions[o.status]
    /\ r.stage \in {"match", "replace"} => o.status = "SubmittedForApproval"
    /\ r.stage = "replace" => r.others = DOMAIN rws
    /\ r.stage \in {"review", "load", "decide"} =>
          FirstOf(r.row, rws) /\ r.verb \in {"Approved", "Rejected"}
    /\ r.stage = "review" => r.others = {}
    /\ r.stage \in {"load", "decide"} =>
          r.others = IF r.verb = "Approved" THEN {} ELSE LaterPending(r.row, rws)
    /\ r.stage = "load" /\ r.verb = "Approved" => Final(r.row, rws)
    /\ r.stage = "decide" /\ r.verb = "Approved" =>
          IF Final(r.row, rws) THEN r.snap # NoOrder /\ r.new.status = "Accepted"
                               ELSE r.snap = NoOrder
    /\ r.stage = "decide" /\ r.verb = "Rejected" =>
          r.snap # NoOrder /\ r.new.status = "InProgress"

SerialSound == \A s \in Slots : SerialAt(req[s], order, rows)

SInv == SerialSound /\ ChainInOrder /\ FinishedChainAccepts

LEMMA IdleIsSerial == \A o, rws : SerialAt(Idle, o, rws)
  BY DEF SerialAt, Idle

\* The only request takes a step.
LEMMA OnlyRequest ==
  ASSUME Serial, TypeOK, NEW s \in Slots, NEW r, req' = [req EXCEPT ![s] = r],
         SerialAt(r, order', rows')
  PROVE  SerialSound'
  <1>1. req'[s] = r
    BY DEF TypeOK
  <1>2. ASSUME NEW x \in Slots PROVE SerialAt(req'[x], order', rows')
    BY <1>1 DEF Serial
  <1>3. QED
    BY <1>2 DEF SerialSound

\* A save over the order that was loaded stores the edited copy.
LEMMA MergedAlone ==
  ASSUME TypeOK, NEW new \in Order
  PROVE  Merged(order, new).status = new.status
  BY MergedColumns DEF TypeOK, Order

\* The copies of a request that saves the order.
LEMMA SavesCopy ==
  ASSUME TypeOK, CopiesSound, SerialSound, NEW s \in Slots, req[s].snap # NoOrder, SaveOrder(s)
  PROVE  /\ order'.status = req[s].new.status
         /\ announced' = [from |-> order.status, to |-> req[s].new.status]
  <1>1. req[s].snap = order /\ req[s].new \in Order
    BY DEF SerialSound, SerialAt, CopiesSound
  <1>2. QED
    BY <1>1, MergedAlone DEF SaveOrder

\* The records after a decision on the first pending one are in order, and all
\* approved only if it was the last approval.
LEMMA DecideInOrder ==
  ASSUME TypeOK, ChainInOrder, NEW s \in Slots, SerialAt(req[s], order, rows), Decide(s)
  PROVE  /\ ChainInOrder'
         /\ (\A id \in DOMAIN rows' : rows'[id].action = "Approved") =>
               req[s].verb = "Approved" /\ Final(req[s].row, rows)
  <1> DEFINE p == req[s].row
             others == req[s].others
  <1>1. FirstOf(p, rows) /\ req[s].verb \in {"Approved", "Rejected"}
        /\ others = IF req[s].verb = "Approved" THEN {} ELSE LaterPending(p, rows)
    BY DEF SerialAt, Decide
  <1>2. DOMAIN rows' = DOMAIN rows
    BY DEF Decide
  <1>3. \A id \in DOMAIN rows :
           rows'[id].action = IF id = p THEN req[s].verb
                              ELSE IF id \in others THEN "Rejected" ELSE rows[id].action
    BY DEF Decide, TypeOK, Row
  <1>4. \A id \in DOMAIN rows :
           id[2] \in Nat /\ rows[id].action \in {"Pending", "Approved", "Rejected"}
    BY DEF TypeOK, RowIds, Row
  <1> HIDE DEF p, others
  <1>5. ASSUME NEW id \in DOMAIN rows, NEW later \in DOMAIN rows, id[2] < later[2]
        PROVE  /\ rows'[later].action = "Approved" => rows'[id].action = "Approved"
               /\ rows'[id].action = "Rejected" => rows'[later].action = "Rejected"
    <2>1. /\ rows[later].action = "Approved" => rows[id].action = "Approved"
          /\ rows[id].action = "Rejected" => rows[later].action = "Rejected"
      BY <1>5 DEF ChainInOrder
    <2>2. p \in DOMAIN rows /\ rows[p].action = "Pending"
          /\ (rows[id].action = "Pending" => p[2] <= id[2])
          /\ (rows[later].action = "Pending" => p[2] <= later[2])
      BY <1>1 DEF FirstOf
    <2>3. rows[later].action = "Approved" => p # id
      BY <2>1, <2>2
    <2>4. CASE later = p
      <3>1. rows[id].action = "Approved"
        BY <1>4, <1>5, <2>1, <2>2, <2>4
      <3>2. id # p /\ id \notin others
        BY <1>1, <1>4, <1>5, <2>4, <3>1 DEF LaterPending
      <3>3. QED
        BY <1>3, <3>1, <3>2
    <2>5. CASE id = p
      <3>1. rows[later].action # "Approved" /\ later # p
        BY <1>5, <1>4, <2>3, <2>5
      <3>2. req[s].verb = "Rejected" => rows'[later].action = "Rejected"
        BY <1>1, <1>3, <1>4, <1>5, <2>5, <3>1 DEF LaterPending
      <3>3. req[s].verb = "Approved" => rows'[later].action # "Approved" \/ rows'[id].action = "Approved"
        BY <1>3, <2>5
      <3>4. rows'[id].action = req[s].verb
        BY <1>3, <2>5
      <3>5. QED
        BY <1>1, <3>2, <3>3, <3>4
    <2>6. CASE id # p /\ later # p
      <3>1. id \in others => later \in others \/ rows[later].action = "Rejected"
        <4>1. SUFFICES ASSUME id \in others PROVE later \in others \/ rows[later].action = "Rejected"
          OBVIOUS
        <4>2. rows[id].action = "Pending" /\ id[2] > p[2] /\ req[s].verb = "Rejected"
          BY <1>1, <4>1 DEF LaterPending
        <4>3. rows[later].action # "Approved" /\ later[2] > p[2]
          BY <1>4, <1>5, <2>1, <2>2, <4>2
        <4>4. QED
          BY <1>1, <1>4, <4>2, <4>3 DEF LaterPending
      <3>2. later \in others => rows[later].action # "Approved"
        BY <1>1 DEF LaterPending
      <3>3. id \in others => rows[id].action # "Approved"
        BY <1>1 DEF LaterPending
      <3>4. QED
        BY <1>3, <2>1, <2>6, <3>1, <3>2, <3>3
    <2>7. QED
      BY <2>4, <2>5, <2>6
  <1>6. ChainInOrder'
    BY <1>2, <1>5 DEF ChainInOrder
  <1>7. ASSUME \A id \in DOMAIN rows : rows'[id].action = "Approved"
        PROVE  req[s].verb = "Approved" /\ Final(p, rows)
    <2>1. p \in DOMAIN rows
      BY <1>1 DEF FirstOf
    <2>2. req[s].verb = "Approved"
      BY <1>3, <1>7, <2>1
    <2>3. \A id \in DOMAIN rows \ {p} : rows[id].action = "Approved"
      BY <1>1, <1>3, <1>7, <2>2
    <2>4. QED
      BY <2>2, <2>3 DEF Final
  <1>8. QED
    BY <1>2, <1>6, <1>7 DEF p

LEMMA SerialStep ==
  ASSUME Serial, IInv, SInv, [Next]_vars
  PROVE  SInv'
  <1> USE DEF IInv, SInv
  <1>1. order \in Order /\ req \in [Slots -> Request]
    BY DEF TypeOK
  <1>2. \A s \in Slots : SerialAt(req[s], order, rows)
    BY DEF SerialSound
  <1>3. ASSUME UNCHANGED <<order, rows>>, SerialSound' PROVE SInv'
    BY <1>3 DEF ChainInOrder, FinishedChainAccepts
  <1>4. ASSUME NEW s \in Slots, NEW r, req' = [req EXCEPT ![s] = r],
               UNCHANGED <<order, rows>>, SerialAt(r, order, rows)
        PROVE  SInv'
    BY <1>3, <1>4, OnlyRequest
  <1>5. ASSUME NEW s \in Slots,
               \/ \E u \in Users : Assign(s, u)
               \/ Start(s) \/ Complete(s) \/ Accept(s) \/ Reject(s) \/ Close(s) \/ Cancel(s)
               \/ Submit(s)
        PROVE  SInv'
    <2>1. PICK target \in Status, edited \in Order : Load(s, target, edited)
      BY <1>5, ServiceLoads DEF MilestonesRecorded
    <2> DEFINE n == [edited EXCEPT !.status = target]
               r == [Idle EXCEPT !.stage = "save", !.snap = order, !.new = n]
    <2>2. n.status = target /\ target \in ValidTransitions[order.status]
      BY <2>1 DEF Load, Order
    <2>3. r.stage = "save" /\ r.snap = order /\ r.new = n /\ order # NoOrder
      BY <1>1, NullsOK DEF Idle
    <2>4. SerialAt(r, order, rows)
      BY <2>2, <2>3 DEF SerialAt
    <2>5. QED
      BY <1>4, <2>1, <2>4 DEF Load
  <1>6. ASSUME NEW s \in Slots, Save(s) PROVE SInv'
    <2>1. /\ req[s].snap # NoOrder
          /\ req[s].new.status \in ValidTransitions[order.status]
      BY <1>2, <1>6 DEF SerialAt, Save
    <2>2. order'.status = req[s].new.status
      BY <1>6, <2>1, SavesCopy DEF Save
    <2>3. order.status \in {"Accepted", "Closed"} => order'.status \in {"Accepted", "Closed"}
      BY <2>1, <2>2 DEF ValidTransitions, Status
    <2>4. rows' = rows
      BY <1>6 DEF Save
    <2>5. ChainInOrder' /\ FinishedChainAccepts'
      BY <2>3, <2>4 DEF ChainInOrder, FinishedChainAccepts
    <2>6. req[s].new.status = "SubmittedForApproval" =>
             SerialAt([Idle EXCEPT !.stage = "match"], order', rows')
      BY <2>2 DEF SerialAt, Idle
    <2>7. SerialSound'
      BY <1>6, <2>6, IdleIsSerial, OnlyRequest DEF Save
    <2>8. QED
      BY <2>5, <2>7
  <1>7. ASSUME NEW s \in Slots, Match(s) PROVE SInv'
    <2>1. PICK t \in MatchTemplate :
             req' = [req EXCEPT ![s] = IF t = NoTemplate THEN Idle
                                       ELSE [Idle EXCEPT !.stage = "replace", !.template = t,
                                                         !.others = DOMAIN rows]]
      BY <1>7 DEF Match
    <2>2. SerialAt([Idle EXCEPT !.stage = "replace", !.template = t, !.others = DOMAIN rows],
                   order, rows)
      BY <1>2, <1>7 DEF SerialAt, Idle, Match
    <2>3. UNCHANGED <<order, rows>>
      BY <1>7 DEF Match
    <2>4. CASE t = NoTemplate
      BY <1>4, <2>1, <2>3, <2>4, IdleIsSerial
    <2>5. CASE t # NoTemplate
      BY <1>4, <2>1, <2>2, <2>3, <2>5
    <2>6. QED
      BY <2>4, <2>5
  <1>8. ASSUME NEW s \in Slots, Replace(s) PROVE SInv'
    <2> DEFINE t == req[s].template
    <2>1. Kept(req[s].others) = {}
      BY <1>2, <1>8 DEF SerialAt, Replace, Kept
    <2>2. PICK r \in Rounds :
             /\ DOMAIN rows' = {<<r, k>> : k \in 1..Len(t)}
             /\ \A id \in DOMAIN rows' : rows'[id].action = "Pending"
      BY <1>8, <2>1 DEF Replace
    <2>3. t \in Seq(Need) /\ t # <<>>
      BY <1>1, <1>8, ConstantsOK DEF StagesSound, Request, Replace
    <2>4. Len(t) \in Nat /\ Len(t) # 0
      BY <2>3
    <2>5. <<r, 1>> \in DOMAIN rows'
      BY <2>2, <2>4
    <2>6. ChainInOrder' /\ FinishedChainAccepts'
      BY <2>2, <2>5 DEF ChainInOrder, FinishedChainAccepts
    <2>7. SerialSound'
      BY <1>8, IdleIsSerial, OnlyRequest DEF Replace
    <2>8. QED
      BY <2>6, <2>7
  <1>9. ASSUME NEW s \in Slots, NEW u \in Users, NEW verb \in {"Approved", "Rejected"},
               Pick(s, u, verb)
        PROVE  SInv'
    <2>1. PICK id \in FirstPending :
             req' = [req EXCEPT ![s] = [Idle EXCEPT !.stage = "review", !.verb = verb,
                                                    !.by = u, !.row = id]]
      BY <1>9 DEF Pick
    <2>2. FirstOf(id, rows)
      BY <2>1 DEF FirstPending, Pending, FirstOf
    <2>3. SerialAt([Idle EXCEPT !.stage = "review", !.verb = verb, !.by = u, !.row = id],
                   order, rows)
      BY <2>2 DEF SerialAt, Idle
    <2>4. QED
      BY <1>4, <1>9, <2>1, <2>3 DEF Pick
  <1>10. ASSUME NEW s \in Slots, ReviewApproval(s) PROVE SInv'
    <2> DEFINE stage == IF Final(req[s].row, rows) THEN "load" ELSE "decide"
               r == [req[s] EXCEPT !.stage = stage]
    <2>1. req' = [req EXCEPT ![s] = r]
      BY <1>10 DEF ReviewApproval, Final
    <2>2. /\ r.stage = stage /\ r.snap = NoOrder /\ r.others = {} /\ r.row = req[s].row
          /\ r.verb = "Approved" /\ FirstOf(r.row, rows)
      BY <1>1, <1>2, <1>10 DEF ReviewApproval, SerialAt, Request
    <2>3. SerialAt(r, order, rows)
      BY <2>2 DEF SerialAt
    <2>4. QED
      BY <1>4, <1>10, <2>1, <2>3 DEF ReviewApproval
  <1>11. ASSUME NEW s \in Slots, ReviewRejection(s) PROVE SInv'
    <2> DEFINE r == [req[s] EXCEPT !.stage = "load", !.others = LaterPending(req[s].row, rows)]
    <2>1. LaterPending(req[s].row, rows) = {id \in Pending : id[2] > req[s].row[2]}
      BY DEF LaterPending, Pending
    <2>2. req' = [req EXCEPT ![s] = r]
      BY <1>1, <1>11, <2>1 DEF ReviewRejection
    <2>3. /\ r.stage = "load" /\ r.snap = NoOrder /\ r.row = req[s].row
          /\ r.others = LaterPending(r.row, rows)
          /\ r.verb = "Rejected" /\ FirstOf(r.row, rows)
      BY <1>1, <1>2, <1>11 DEF ReviewRejection, SerialAt, Request
    <2>4. SerialAt(r, order, rows)
      BY <2>3 DEF SerialAt
    <2>5. QED
      BY <1>4, <1>11, <2>2, <2>4 DEF ReviewRejection
  <1>12. ASSUME NEW s \in Slots, LoadOrder(s) PROVE SInv'
    <2> DEFINE target == IF req[s].verb = "Approved" THEN "Accepted" ELSE "InProgress"
               n == [order EXCEPT !.status = target]
               r == [req[s] EXCEPT !.stage = "decide", !.snap = order, !.new = n]
    <2>1. req' = [req EXCEPT ![s] = r]
      BY <1>1, <1>12 DEF LoadOrder
    <2>2. n.status = target
      BY <1>1 DEF Order
    <2>3. /\ r.stage = "decide" /\ r.snap = order /\ r.new = n /\ order # NoOrder
          /\ r.row = req[s].row /\ r.others = req[s].others /\ r.verb = req[s].verb
      BY <1>1, NullsOK DEF Request
    <2>4. /\ FirstOf(r.row, rows) /\ r.verb \in {"Approved", "Rejected"}
          /\ r.others = IF r.verb = "Approved" THEN {} ELSE LaterPending(r.row, rows)
          /\ r.verb = "Approved" => Final(r.row, rows)
      BY <1>2, <1>12, <2>3 DEF LoadOrder, SerialAt
    <2>5. SerialAt(r, order, rows)
      BY <2>2, <2>3, <2>4 DEF SerialAt
    <2>6. QED
      BY <1>4, <1>12, <2>1, <2>5 DEF LoadOrder
  <1>13. ASSUME NEW s \in Slots, Decide(s) PROVE SInv'
    <2>1. /\ ChainInOrder'
          /\ (\A id \in DOMAIN rows' : rows'[id].action = "Approved") =>
                req[s].verb = "Approved" /\ Final(req[s].row, rows)
      BY <1>2, <1>13, DecideInOrder
    <2>2. ASSUME req[s].verb = "Approved", Final(req[s].row, rows)
          PROVE  order'.status = "Accepted"
      <3>1. req[s].snap # NoOrder /\ req[s].new.status = "Accepted"
        BY <1>2, <1>13, <2>2 DEF SerialAt, Decide
      <3>2. QED
        BY <1>13, <3>1, SavesCopy DEF Decide
    <2>3. FinishedChainAccepts'
      BY <2>1, <2>2 DEF FinishedChainAccepts
    <2>4. SerialSound'
      BY <1>13, IdleIsSerial, OnlyRequest DEF Decide
    <2>5. QED
      BY <2>1, <2>3, <2>4
  <1>14. ASSUME NEW s \in Slots, SaveThrows(s) \/ Abort(s) PROVE SInv'
    BY <1>4, <1>14, IdleIsSerial DEF SaveThrows, Abort
  <1>15. CASE Tick \/ UNCHANGED vars
    BY <1>3, <1>15 DEF Tick, vars, SerialSound
  <1>16. QED
    BY <1>5, <1>6, <1>7, <1>8, <1>9, <1>10, <1>11, <1>12, <1>13, <1>14, <1>15
       DEF Next, Service, Approvals

\* What the requests know holds throughout when they follow one another.
LEMMA SerialInductive == ASSUME Serial PROVE Spec => []SInv
  <1>1. Init => SInv
    BY IdleIsSerial DEF Init, SInv, SerialSound, ChainInOrder, FinishedChainAccepts
  <1>2. IInv /\ SInv /\ [Next]_vars => SInv'
    BY SerialStep
  <1>3. QED
    BY <1>1, <1>2, Inductive, PTL DEF Spec

\* Served one after the other, the approvals of any chain go step by step, and a
\* rejection leaves no later step open.
THEOREM StepByStep == ASSUME Serial PROVE Spec => []ChainInOrder
  <1>1. SInv => ChainInOrder
    BY DEF SInv
  <1>2. QED
    BY <1>1, SerialInductive, PTL

\* Served one after the other, the last approval of any chain accepts the order.
THEOREM LastApprovalAccepts == ASSUME Serial PROVE Spec => []FinishedChainAccepts
  <1>1. SInv => FinishedChainAccepts
    BY DEF SInv
  <1>2. QED
    BY <1>1, SerialInductive, PTL

\* Served one after the other, every change of the order's status is told as it
\* was stored.
THEOREM EventsTellChanges == ASSUME Serial PROVE Spec => EventsChain
  <1> DEFINE A == order'.status # order.status =>
                     announced' = [from |-> order.status, to |-> order'.status]
  <1>1. IInv /\ SInv /\ [Next]_vars => [A]_vars
    <2>1. SUFFICES ASSUME IInv, SInv, [Next]_vars, order'.status # order.status
                   PROVE  announced' = [from |-> order.status, to |-> order'.status]
      OBVIOUS
    <2>2. PICK s \in Slots : Save(s) \/ (Decide(s) /\ req[s].snap # NoOrder)
      BY <2>1 DEF Next, vars, Service, Approvals, Tick, Abort, Match, Replace, Pick,
                  ReviewApproval, ReviewRejection, LoadOrder, SaveThrows, Decide, Load,
                  Assign, Start, Complete, Accept, Reject, Close, Cancel, Submit
    <2>3. req[s].snap # NoOrder
      BY <2>1, <2>2 DEF SInv, SerialSound, SerialAt, Save
    <2>4. SaveOrder(s)
      BY <2>2 DEF Save, Decide
    <2>5. QED
      BY <2>1, <2>3, <2>4, SavesCopy DEF IInv, SInv
  <1>2. QED
    BY <1>1, Inductive, SerialInductive, PTL DEF Spec, EventsChain

-----------------------------------------------------------------------------
(* Requests one after the other implement Lifecycle *)

\* Steps are numbered apart; once one is rejected, none is open.
ChainShape ==
    /\ \A id, other \in DOMAIN rows : id[2] = other[2] => id = other
    /\ \A id, other \in DOMAIN rows :
          rows[id].action = "Rejected" => rows[other].action # "Pending"

\* A chain that replaces all others is shaped so.
LEMMA ReplaceAlone ==
  ASSUME IInv, SerialSound, NEW s \in Slots, Replace(s)
  PROVE  /\ ChainShape'
         /\ order.status = "SubmittedForApproval"
         /\ StepsIn("Pending")' = 1..Len(req[s].template)
         /\ StepsIn("Approved")' = {} /\ StepsIn("Rejected")' = {}
         /\ Len(req[s].template) \in Nat \ {0}
  <1> DEFINE t == req[s].template
  <1>1. Kept(req[s].others) = {} /\ order.status = "SubmittedForApproval"
    BY DEF SerialSound, SerialAt, Replace, Kept
  <1>2. t \in Seq(Need) /\ t # <<>>
    BY ConstantsOK DEF IInv, TypeOK, StagesSound, Request, Replace
  <1>3. Len(t) \in Nat \ {0}
    BY <1>2
  <1>4. PICK r \in Rounds :
           /\ DOMAIN rows' = {<<r, k>> : k \in 1..Len(t)}
           /\ \A id \in DOMAIN rows' : rows'[id].action = "Pending"
    BY <1>1 DEF Replace
  <1>5. StepsIn("Approved")' = {} /\ StepsIn("Rejected")' = {}
    BY <1>4 DEF StepsIn
  <1>6. {x \in DOMAIN rows' : rows'[x].action = "Pending"} = {<<r, k>> : k \in 1..Len(t)}
    BY <1>4
  <1>7. StepsIn("Pending")' = 1..Len(t)
    <2> DEFINE ids == {<<r, k>> : k \in 1..Len(t)}
    <2>1. StepsIn("Pending")' = {id[2] : id \in ids}
      BY <1>6 DEF StepsIn
    <2>2. ASSUME NEW k \in 1..Len(t) PROVE k \in {id[2] : id \in ids}
      <3>1. <<r, k>> \in ids /\ <<r, k>>[2] = k
        OBVIOUS
      <3>2. QED
        BY <3>1
    <2>3. \A id \in ids : id[2] \in 1..Len(t)
      OBVIOUS
    <2>4. QED
      BY <2>1, <2>2, <2>3
  <1>8. ChainShape'
    BY <1>4 DEF ChainShape
  <1>9. QED
    BY <1>1, <1>3, <1>5, <1>7, <1>8

\* An approval takes the lowest open step to the approved ones.
LEMMA ApproveAlone ==
  ASSUME IInv, SInv, ChainShape, NEW s \in Slots, Decide(s), req[s].verb = "Approved"
  PROVE  ChainShape' /\ Requests!Approve
  <1> DEFINE p == req[s].row
             k == p[2]
  <1> USE DEF IInv, SInv
  <1>1. SerialAt(req[s], order, rows)
    BY DEF SerialSound
  <1>2. FirstOf(p, rows) /\ req[s].others = {} /\ p \in DOMAIN rows
    BY <1>1 DEF SerialAt, Decide, FirstOf
  <1>3. DOMAIN rows' = DOMAIN rows
    BY DEF Decide
  <1>4. \A id \in DOMAIN rows :
           rows'[id].action = IF id = p THEN "Approved" ELSE rows[id].action
    BY <1>2 DEF Decide, TypeOK, Row
  <1>5. \A id \in DOMAIN rows : id[2] = k => id = p
    BY <1>2 DEF ChainShape
  <1>6. rows[p].action = "Pending"
        /\ \A id \in DOMAIN rows : rows[id].action = "Pending" => k <= id[2]
    BY <1>2 DEF FirstOf
  <1>7. \A id \in DOMAIN rows : rows[id].action \in {"Pending", "Approved", "Rejected"}
    BY DEF TypeOK, Row
  <1>8. \A id \in DOMAIN rows : rows[id].action # "Rejected"
    BY <1>2, <1>6 DEF ChainShape
  <1> HIDE DEF p, k
  <1>9. ChainShape'
    BY <1>3, <1>4, <1>8 DEF ChainShape
  <1>10. k \in StepsIn("Pending") /\ \A other \in StepsIn("Pending") : k <= other
    BY <1>2, <1>6 DEF StepsIn, k
  <1>11. StepsIn("Pending")' = StepsIn("Pending") \ {k}
    <2>1. ASSUME NEW n \in StepsIn("Pending")' PROVE n \in StepsIn("Pending") \ {k}
      <3>1. PICK id \in DOMAIN rows : rows'[id].action = "Pending" /\ n = id[2]
        BY <1>3, <2>1 DEF StepsIn
      <3>2. QED
        BY <1>4, <1>5, <3>1 DEF StepsIn
    <2>2. ASSUME NEW n \in StepsIn("Pending") \ {k} PROVE n \in StepsIn("Pending")'
      <3>1. PICK id \in DOMAIN rows : rows[id].action = "Pending" /\ n = id[2]
        BY <2>2 DEF StepsIn
      <3>2. id # p
        BY <2>2, <3>1 DEF k
      <3>3. QED
        BY <1>3, <1>4, <3>1, <3>2 DEF StepsIn
    <2>3. QED
      BY <2>1, <2>2
  <1>12. StepsIn("Approved")' = StepsIn("Approved") \cup {k}
    <2>1. ASSUME NEW n \in StepsIn("Approved")' PROVE n \in StepsIn("Approved") \cup {k}
      <3>1. PICK id \in DOMAIN rows : rows'[id].action = "Approved" /\ n = id[2]
        BY <1>3, <2>1 DEF StepsIn
      <3>2. CASE id = p
        BY <3>1, <3>2 DEF k
      <3>3. CASE id # p
        BY <1>4, <3>1, <3>3 DEF StepsIn
      <3>4. QED
        BY <3>2, <3>3
    <2>2. ASSUME NEW n \in StepsIn("Approved") PROVE n \in StepsIn("Approved")'
      <3>1. PICK id \in DOMAIN rows : rows[id].action = "Approved" /\ n = id[2]
        BY <2>2 DEF StepsIn
      <3>2. QED
        BY <1>3, <1>4, <3>1 DEF StepsIn
    <2>3. k \in StepsIn("Approved")'
      BY <1>2, <1>3, <1>4 DEF StepsIn, k
    <2>4. QED
      BY <2>1, <2>2, <2>3
  <1>13. StepsIn("Rejected")' = StepsIn("Rejected")
    BY <1>3, <1>4, <1>6, <1>8 DEF StepsIn
  <1>14. StepsIn("Pending")' = {} <=> Final(p, rows)
    <2>1. ASSUME Final(p, rows) PROVE StepsIn("Pending")' = {}
      BY <1>3, <1>4, <2>1 DEF Final, StepsIn
    <2>2. ASSUME ~Final(p, rows) PROVE StepsIn("Pending")' # {}
      <3>1. PICK id \in DOMAIN rows \ {p} : rows[id].action # "Approved"
        BY <2>2 DEF Final
      <3>2. rows'[id].action = "Pending"
        BY <1>4, <1>7, <1>8, <3>1
      <3>3. QED
        BY <1>3, <3>1, <3>2 DEF StepsIn
    <2>3. QED
      BY <2>1, <2>2
  <1>15. order'.status = IF Final(p, rows) THEN "Accepted" ELSE order.status
    <2>1. IF Final(p, rows) THEN req[s].snap # NoOrder /\ req[s].new.status = "Accepted"
                            ELSE req[s].snap = NoOrder
      BY <1>1 DEF SerialAt, Decide, p
    <2>2. CASE Final(p, rows)
      BY <2>1, <2>2, SavesCopy DEF Decide
    <2>3. CASE ~Final(p, rows)
      BY <2>1, <2>3 DEF Decide
    <2>4. QED
      BY <2>2, <2>3
  <1>16. QED
    BY <1>9, <1>10, <1>11, <1>12, <1>13, <1>14, <1>15 DEF Requests!Approve

\* A rejection takes all open steps to the rejected ones.
LEMMA RejectAlone ==
  ASSUME IInv, SInv, ChainShape, NEW s \in Slots, Decide(s), req[s].verb = "Rejected"
  PROVE  ChainShape' /\ Requests!Reject
  <1> DEFINE p == req[s].row
             others == req[s].others
  <1> USE DEF IInv, SInv
  <1>1. SerialAt(req[s], order, rows)
    BY DEF SerialSound
  <1>2. FirstOf(p, rows) /\ others = LaterPending(p, rows) /\ p \in DOMAIN rows
    BY <1>1 DEF SerialAt, Decide, FirstOf
  <1>3. DOMAIN rows' = DOMAIN rows
    BY DEF Decide
  <1>4. \A id \in DOMAIN rows :
           rows'[id].action = IF id = p \/ id \in others THEN "Rejected" ELSE rows[id].action
    BY <1>2 DEF Decide, TypeOK, Row
  <1>5. \A id \in DOMAIN rows : rows[id].action = "Pending" <=> id = p \/ id \in others
    <2>1. \A id \in DOMAIN rows : id[2] \in Nat
      BY DEF TypeOK, RowIds
    <2>2. \A id \in DOMAIN rows : rows[id].action = "Pending" => p[2] <= id[2]
      BY <1>2 DEF FirstOf
    <2>3. \A id \in DOMAIN rows : id[2] = p[2] => id = p
      BY <1>2 DEF ChainShape
    <2>4. rows[p].action = "Pending"
      BY <1>2 DEF FirstOf
    <2>5. ASSUME NEW id \in DOMAIN rows, rows[id].action = "Pending", id # p
          PROVE  id \in others
      <3>1. id[2] > p[2]
        BY <1>2, <2>1, <2>2, <2>3, <2>5
      <3>2. QED
        BY <1>2, <2>5, <3>1 DEF LaterPending
    <2>6. QED
      BY <1>2, <2>4, <2>5 DEF LaterPending
  <1> HIDE DEF p, others
  <1>6. \A id \in DOMAIN rows :
           rows'[id].action = IF rows[id].action = "Pending" THEN "Rejected" ELSE rows[id].action
    BY <1>4, <1>5
  <1>7. ChainShape'
    BY <1>3, <1>6 DEF ChainShape
  <1>8. StepsIn("Pending") # {} /\ StepsIn("Pending")' = {}
    <2>1. rows[p].action = "Pending"
      BY <1>2 DEF FirstOf
    <2>2. QED
      BY <1>2, <1>3, <1>6, <2>1 DEF StepsIn
  <1>9. StepsIn("Approved")' = StepsIn("Approved")
    BY <1>3, <1>6 DEF StepsIn
  <1>10. StepsIn("Rejected")' = StepsIn("Rejected") \cup StepsIn("Pending")
    <2>1. ASSUME NEW n \in StepsIn("Rejected")'
          PROVE  n \in StepsIn("Rejected") \cup StepsIn("Pending")
      <3>1. PICK id \in DOMAIN rows : rows'[id].action = "Rejected" /\ n = id[2]
        BY <1>3, <2>1 DEF StepsIn
      <3>2. rows[id].action = "Rejected" \/ rows[id].action = "Pending"
        BY <1>6, <3>1
      <3>3. QED
        BY <3>1, <3>2 DEF StepsIn
    <2>2. ASSUME NEW n \in StepsIn("Rejected") \cup StepsIn("Pending")
          PROVE  n \in StepsIn("Rejected")'
      <3>1. PICK id \in DOMAIN rows :
               rows[id].action \in {"Rejected", "Pending"} /\ n = id[2]
        BY <2>2 DEF StepsIn
      <3>2. rows'[id].action = "Rejected"
        BY <1>6, <3>1
      <3>3. QED
        BY <1>3, <3>1, <3>2 DEF StepsIn
    <2>3. QED
      BY <2>1, <2>2
  <1>11. order'.status = "InProgress"
    <2>1. req[s].snap # NoOrder /\ req[s].new.status = "InProgress"
      BY <1>1 DEF SerialAt, Decide
    <2>2. QED
      BY <2>1, SavesCopy DEF Decide
  <1>12. QED
    BY <1>7, <1>8, <1>9, <1>10, <1>11 DEF Requests!Reject

\* Every step of a request that is alone is a step of Lifecycle or none.
LEMMA LifecycleStep ==
  ASSUME Serial, IInv, SInv, ChainShape, [Next]_vars
  PROVE  ChainShape' /\ [Requests!Next]_<<order.status, Requests!steps>>
  <1> USE DEF IInv, SInv
  <1>1. \A s \in Slots : SerialAt(req[s], order, rows)
    BY DEF SerialSound
  <1>2. ASSUME UNCHANGED rows PROVE ChainShape' /\ UNCHANGED Requests!steps
    BY <1>2 DEF ChainShape, Requests!steps, StepsIn
  <1>3. CASE UNCHANGED <<order, rows>>
    BY <1>2, <1>3
  <1>4. ASSUME NEW s \in Slots, Save(s)
        PROVE  ChainShape' /\ Requests!Next
    <2>1. /\ req[s].snap # NoOrder
          /\ req[s].new.status \in ValidTransitions[order.status]
      BY <1>1, <1>4 DEF SerialAt, Save
    <2>2. order'.status \in ValidTransitions[order.status]
      BY <1>4, <2>1, SavesCopy DEF Save
    <2>3. rows' = rows
      BY <1>4 DEF Save
    <2>4. QED
      BY <1>2, <2>2, <2>3 DEF Requests!Next, Requests!Move
  <1>5. ASSUME NEW s \in Slots, Replace(s)
        PROVE  ChainShape' /\ Requests!Next
    <2> DEFINE n == Len(req[s].template)
    <2>1. /\ ChainShape'
          /\ order.status = "SubmittedForApproval"
          /\ StepsIn("Pending")' = 1..n
          /\ StepsIn("Approved")' = {} /\ StepsIn("Rejected")' = {}
          /\ n \in Nat \ {0}
      BY <1>5, ReplaceAlone
    <2>2. order' = order
      BY <1>5 DEF Replace
    <2> HIDE DEF n
    <2>3. 1..n # {} /\ \A k \in 1..n : k \in Nat \ {0} /\ 1..k \subseteq 1..n
      BY <2>1
    <2>4. Requests!NewChain
      BY <2>1, <2>2, <2>3 DEF Requests!NewChain
    <2>5. QED
      BY <2>1, <2>4 DEF Requests!Next
  <1>6. ASSUME NEW s \in Slots, Decide(s)
        PROVE  ChainShape' /\ Requests!Next
    <2>1. req[s].verb = "Approved" \/ req[s].verb = "Rejected"
      BY <1>1, <1>6 DEF SerialAt, Decide
    <2>2. QED
      BY <1>6, <2>1, ApproveAlone, RejectAlone DEF Requests!Next
  <1>7. CASE \/ Tick \/ UNCHANGED vars
             \/ \E s \in Slots :
                   \/ \E u \in Users : Assign(s, u)
                   \/ Start(s) \/ Complete(s) \/ Accept(s) \/ Reject(s) \/ Close(s)
                   \/ Cancel(s) \/ Submit(s) \/ Match(s)
                   \/ \E u \in Users, verb \in {"Approved", "Rejected"} : Pick(s, u, verb)
                   \/ ReviewApproval(s) \/ ReviewRejection(s) \/ LoadOrder(s)
                   \/ SaveThrows(s) \/ Abort(s)
    <2>1. UNCHANGED <<order, rows>>
      BY <1>7 DEF Tick, vars, Assign, Start, Complete, Accept, Reject, Close, Cancel, Submit,
                  Load, Match, Pick, ReviewApproval, ReviewRejection, LoadOrder, SaveThrows,
                  Abort
    <2>2. QED
      BY <1>3, <2>1
  <1>8. QED
    BY <1>4, <1>5, <1>6, <1>7 DEF Next, Service, Approvals

\* Served one after the other, requests show as if each were done in one step or
\* not at all, for any users and chains and wherever a request is cut off.
THEOREM ImplementsLifecycle == ASSUME Serial PROVE Spec => WholeRequests
  <1>1. Init => ChainShape /\ Requests!Init
    BY DEF Init, ChainShape, Requests!Init, StepsIn
  <1>2. IInv /\ SInv /\ ChainShape /\ [Next]_vars
           => ChainShape' /\ [Requests!Next]_<<order.status, Requests!steps>>
    BY LifecycleStep
  <1>3. QED
    BY <1>1, <1>2, Inductive, SerialInductive, PTL DEF Spec, WholeRequests, Requests!Spec
=============================================================================

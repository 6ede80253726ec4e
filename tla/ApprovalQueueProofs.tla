------------------------ MODULE ApprovalQueueProofs ------------------------
(***************************************************************************)
(* For any requests, any undo window and any number of decisions on their  *)
(* way: the approval queue keeps its state well-typed, what the toast says *)
(* was decided stands, and every request lives as ApprovalLifecycle says.  *)
(***************************************************************************)
EXTENDS ApprovalQueue, TLAPS

(* The inductive invariant: a decision can be undone only while the store  *)
(* still holds it, which is what makes the undo a step of the lifecycle.   *)
IInv == TypeOK /\ LastDecisionStands

(* The refinement mapping of Lifecycle, by name.                           *)
Status == [id \in Local \cup Server |-> IF id \in Local THEN items[id] ELSE awaiting[id]]

Last == IF lastDecision = NoDecision THEN NoDecision ELSE lastDecision.id

LEMMA InitInv == Init => IInv
BY QueueAssumption DEF Init, IInv, TypeOK, Statuses, LastDecisionStands, Decisions

LEMMA DecideType ==
  ASSUME TypeOK, NEW id \in Local \cup Server, NEW action \in Actions,
         Decide(id, action), mounted
  PROVE  /\ items' \in [Local -> Statuses]
         /\ overdue' \subseteq Local
         /\ lastDecision' \in Decisions \cup {NoDecision}
         /\ mounted' \in BOOLEAN
         /\ showToast' \in BOOLEAN /\ (showToast' => mounted')
<1>1. CASE id \in Local /\ items[id] = "pending"
  <2>1. /\ items' = [items EXCEPT ![id] = Outcome(action)]
        /\ lastDecision' = [id |-> id, action |-> action, age |-> 0]
        /\ showToast' = TRUE
        /\ UNCHANGED <<overdue, mounted>>
    BY <1>1 DEF Decide
  <2>2. lastDecision' \in Decisions
    BY <1>1, <2>1, QueueAssumption DEF Decisions
  <2>3. items' \in [Local -> Statuses]
    BY <1>1, <2>1 DEF TypeOK, Outcome, Statuses
  <2>4. QED
    BY <2>1, <2>2, <2>3 DEF TypeOK
<1>2. CASE ~(id \in Local /\ items[id] = "pending")
  BY <1>2 DEF TypeOK, Decide, localVars, pageVars
<1>3. QED
  BY <1>1, <1>2

LEMMA TypeStep == TypeOK /\ [Next]_vars => TypeOK'
<1> SUFFICES ASSUME TypeOK, [Next]_vars PROVE TypeOK'
  OBVIOUS
<1> USE QueueAssumption
<1>1. CASE AddRequests
  BY <1>1 DEF AddRequests, TypeOK, Statuses, pageVars, serverVars
<1>2. CASE RowDecides
  <2> PICK id \in Local \cup Server, action \in Actions :
        /\ CanDecide(id)
        /\ IF Online
           THEN /\ requests' = requests \cup {[id |-> id, action |-> action]}
                /\ UNCHANGED <<localVars, pageVars>>
           ELSE Decide(id, action) /\ UNCHANGED requests
    BY <1>2 DEF RowDecides
  <2> UNCHANGED <<connection, awaiting, queue>>
    BY <1>2 DEF RowDecides
  <2>1. CASE Online
    BY <2>1 DEF TypeOK, localVars, pageVars
  <2>2. CASE ~Online
    <3>1. Decide(id, action) /\ mounted /\ UNCHANGED requests
      BY <2>2 DEF CanDecide
    <3>2. QED
      BY <3>1, DecideType DEF TypeOK
  <2>3. QED
    BY <2>1, <2>2
<1>3. CASE DetailDecides
  <2> PICK id \in Local \cup Server, action \in Actions : mounted /\ Decide(id, action)
    BY <1>3 DEF DetailDecides, CanDecide
  <2> UNCHANGED <<connection, serverVars>>
    BY <1>3 DEF DetailDecides
  <2> QED
    BY DecideType DEF TypeOK, serverVars
<1>4. CASE UndoButton
  BY <1>4 DEF UndoButton, UndoLast, TypeOK, Decisions, Statuses, serverVars
<1>5. CASE ToastTimeout
  BY <1>5 DEF ToastTimeout, TypeOK, localVars, serverVars
<1>6. CASE DismissExpired
  BY <1>6 DEF DismissExpired, SweptStatus, TypeOK, Statuses, pageVars, serverVars
<1>7. CASE OpenPage \/ LeavePage \/ Reload
  BY <1>7 DEF OpenPage, LeavePage, Reload, TypeOK, localVars, serverVars
<1>8. CASE DecisionAges
  BY <1>8 DEF DecisionAges, TypeOK, Decisions, pageVars, serverVars
<1>9. CASE RequestOverdue
  BY <1>9 DEF RequestOverdue, TypeOK, pageVars, serverVars
<1>10. CASE HealthAnswers \/ FetchQueue
  BY <1>10 DEF HealthAnswers, FetchQueue, TypeOK, localVars, pageVars, serverVars
<1>11. CASE RequestArrives
  <2> PICK r \in requests :
        /\ requests' = requests \ {r}
        /\ awaiting' = IF r.id \in Server /\ awaiting[r.id] = "pending"
                       THEN [awaiting EXCEPT ![r.id] = Outcome(r.action)] ELSE awaiting
    BY <1>11 DEF RequestArrives
  <2>1. awaiting' \in [Server -> Statuses]
    BY DEF TypeOK, Statuses, Outcome
  <2>2. QED
    BY <1>11, <2>1 DEF RequestArrives, TypeOK, localVars, pageVars
<1>12. CASE RequestFails
  BY <1>12 DEF RequestFails, TypeOK, localVars, pageVars
<1>13. CASE GatewayProposes \/ GatewayExpires
  BY <1>13 DEF GatewayProposes, GatewayExpires, TypeOK, Statuses, localVars, pageVars
<1>14. CASE UNCHANGED vars
  BY <1>14 DEF vars, localVars, pageVars, serverVars, TypeOK
<1>15. QED
  BY <1>1, <1>2, <1>3, <1>4, <1>5, <1>6, <1>7, <1>8, <1>9, <1>10, <1>11, <1>12, <1>13, <1>14
  DEF Next

LEMMA DecideStands ==
  ASSUME IInv, NEW id, NEW action \in Actions, Decide(id, action)
  PROVE  LastDecisionStands'
BY QueueAssumption
DEF IInv, TypeOK, LastDecisionStands, Decide, Decisions, localVars, Outcome

LEMMA StandsStep == IInv /\ [Next]_vars => LastDecisionStands'
<1> SUFFICES ASSUME IInv, [Next]_vars PROVE LastDecisionStands'
  OBVIOUS
<1> USE QueueAssumption DEF IInv
<1>1. CASE AddRequests
  BY <1>1 DEF AddRequests, TypeOK, Decisions, Actions, Outcome, LastDecisionStands
<1>2. CASE RowDecides
  <2> PICK id \in Local \cup Server, action \in Actions :
        Decide(id, action) \/ UNCHANGED localVars
    BY <1>2 DEF RowDecides
  <2> QED
    BY DecideStands DEF localVars, LastDecisionStands
<1>3. CASE DetailDecides
  BY <1>3, DecideStands DEF DetailDecides
<1>4. CASE UndoButton \/ Reload
  BY <1>4 DEF UndoButton, UndoLast, Reload, LastDecisionStands
<1>5. CASE DismissExpired
  BY <1>5 DEF DismissExpired, SweptStatus, TypeOK, Decisions, Actions, Outcome,
              LastDecisionStands
<1>6. CASE DecisionAges
  BY <1>6 DEF DecisionAges, TypeOK, Decisions, LastDecisionStands
<1>7. CASE \/ ToastTimeout \/ OpenPage \/ LeavePage \/ RequestOverdue \/ HealthAnswers
           \/ FetchQueue \/ RequestArrives \/ RequestFails \/ GatewayProposes
           \/ GatewayExpires \/ UNCHANGED vars
  <2>1. UNCHANGED <<items, lastDecision>>
    BY <1>7 DEF ToastTimeout, OpenPage, LeavePage, RequestOverdue, HealthAnswers,
                FetchQueue, RequestArrives, RequestFails, GatewayProposes,
                GatewayExpires, vars, localVars
  <2>2. QED
    BY <2>1 DEF LastDecisionStands
<1>8. QED
  BY <1>1, <1>2, <1>3, <1>4, <1>5, <1>6, <1>7 DEF Next

(* The inductive invariant holds in every reachable state.                 *)
THEOREM Invariance == Spec => []IInv
<1>1. IInv /\ [Next]_vars => IInv'
  BY TypeStep, StandsStep DEF IInv
<1>2. QED
  BY InitInv, <1>1, PTL DEF Spec

(* The store, the page, the queue fetched and the decisions on their way   *)
(* to the gateway stay well-typed, and no toast is shown on a page left.   *)
THEOREM TypeCorrect == Spec => []TypeOK
<1>1. IInv => TypeOK
  BY DEF IInv
<1>2. QED
  BY <1>1, Invariance, PTL

(* The request named by the decision that can be undone has the status     *)
(* that decision gave it.                                                  *)
THEOREM LastStands == Spec => []LastDecisionStands
<1>1. IInv => LastDecisionStands
  BY DEF IInv
<1>2. QED
  BY <1>1, Invariance, PTL
-----------------------------------------------------------------------------
LEMMA InitRefines == Init => Lifecycle!Init
BY QueueAssumption DEF Init, Lifecycle!Init, Lifecycle!Statuses

(* A step that touches neither the statuses nor the last decision's id.    *)
LEMMA Frame ==
  ASSUME UNCHANGED <<items, awaiting, Last>>
  PROVE  UNCHANGED <<Status, Last>>
BY DEF Status

(* A decision of a local request is a decision of the lifecycle.           *)
LEMMA DecideRefines ==
  ASSUME TypeOK, NEW id \in Local \cup Server, NEW action \in Actions,
         Decide(id, action), UNCHANGED awaiting
  PROVE  Lifecycle!Decide(id) \/ UNCHANGED <<Status, Last>>
<1>1. CASE id \in Local /\ items[id] = "pending"
  <2>1. Status[id] = "pending"
    BY <1>1 DEF Status
  <2>2. Status' = [Status EXCEPT ![id] = Outcome(action)]
    BY <1>1 DEF Decide, Status, TypeOK
  <2>3. Last' = id
    <3>1. lastDecision' = [id |-> id, action |-> action, age |-> 0]
      BY <1>1 DEF Decide
    <3>2. lastDecision' \in [id: Local, action: Actions, age: Nat]
      BY <1>1, <3>1
    <3>3. lastDecision' # NoDecision
      BY <3>2, QueueAssumption DEF Actions
    <3>4. QED
      BY <3>1, <3>3 DEF Last
  <2>4. Outcome(action) \in Lifecycle!Decided
    BY DEF Outcome, Lifecycle!Decided
  <2>5. QED
    BY <2>1, <2>2, <2>3, <2>4 DEF Lifecycle!Decide, Status, Last
<1>2. CASE ~(id \in Local /\ items[id] = "pending")
  BY <1>2 DEF Decide, localVars, Status, Last
<1>3. QED
  BY <1>1, <1>2

(* Each step of the queue is a step of the lifecycle, or none: a decision  *)
(* counts when the store or the gateway takes it, an undo takes back the   *)
(* last one, and a reload, or an undo that comes late, forgets it.         *)
LEMMA StepRefines == IInv /\ [Next]_vars => [Lifecycle!Next]_(Lifecycle!vars)
<1> SUFFICES ASSUME IInv, [Next]_vars
             PROVE  Lifecycle!Next \/ UNCHANGED <<Status, Last>>
  BY DEF Lifecycle!vars, Status, Last
<1> TypeOK
  BY DEF IInv
<1> USE QueueAssumption
<1>1. CASE AddRequests
  <2> PICK ids \in SUBSET {id \in Local : items[id] = "absent"} :
        items' = [id \in Local |-> IF id \in ids THEN "pending" ELSE items[id]]
    BY <1>1 DEF AddRequests
  <2>1. UNCHANGED <<awaiting, Last>>
    BY <1>1 DEF AddRequests, serverVars, Last
  <2>2. ids \in SUBSET {r \in Local \cup Server : Status[r] = "absent"}
    BY DEF Status
  <2>3. Status' = [r \in Local \cup Server |-> IF r \in ids THEN "pending" ELSE Status[r]]
    BY <2>1 DEF Status
  <2>4. Lifecycle!Propose
    BY <2>1, <2>2, <2>3 DEF Lifecycle!Propose, Status, Last
  <2>5. QED
    BY <2>4 DEF Lifecycle!Next
<1>2. CASE RowDecides
  <2> PICK id \in Local \cup Server, action \in Actions :
        UNCHANGED localVars \/ Decide(id, action)
    BY <1>2 DEF RowDecides
  <2> UNCHANGED awaiting
    BY <1>2 DEF RowDecides
  <2>1. CASE UNCHANGED localVars
    BY <2>1, Frame DEF localVars, Last
  <2>2. CASE Decide(id, action)
    BY <2>2, DecideRefines DEF Lifecycle!Next
  <2>3. QED
    BY <2>1, <2>2
<1>3. CASE DetailDecides
  <2> PICK id \in Local \cup Server, action \in Actions : Decide(id, action)
    BY <1>3 DEF DetailDecides
  <2> UNCHANGED awaiting
    BY <1>3 DEF DetailDecides, serverVars
  <2> QED
    BY DecideRefines DEF Lifecycle!Next
<1>4. CASE UndoButton
  <2>1. lastDecision \in Decisions /\ lastDecision # NoDecision
    BY <1>4 DEF UndoButton, TypeOK
  <2>2. Last = lastDecision.id /\ Last \in Local /\ Last # NoDecision /\ Last' = NoDecision
    BY <1>4, <2>1 DEF UndoButton, UndoLast, Decisions, Last
  <2>3. UNCHANGED awaiting
    BY <1>4 DEF UndoButton, serverVars
  <2>4. CASE lastDecision.age > UndoWindow
    <3>1. UNCHANGED Status
      BY <1>4, <2>3, <2>4 DEF UndoButton, UndoLast, Status
    <3>2. QED
      BY <2>2, <3>1 DEF Lifecycle!Next, Lifecycle!TooLate, Status, Last
  <2>5. CASE ~(lastDecision.age > UndoWindow)
    <3>1. items' = [items EXCEPT ![Last] = "pending"]
      BY <1>4, <2>2, <2>5 DEF UndoButton, UndoLast
    <3>2. Status' = [Status EXCEPT ![Last] = "pending"]
      BY <2>2, <2>3, <3>1 DEF Status, TypeOK
    <3>3. Status[Last] \in Lifecycle!Decided
      BY <2>1, <2>2 DEF IInv, LastDecisionStands, Outcome, Status, Lifecycle!Decided
    <3>4. Lifecycle!TakeBack
      BY <2>2, <3>2, <3>3 DEF Lifecycle!TakeBack, Status, Last
    <3>5. QED
      BY <3>4 DEF Lifecycle!Next
  <2>6. QED
    BY <2>4, <2>5
<1>5. CASE DismissExpired
  <2> DEFINE swept == {id \in Local : items[id] = "pending" /\ id \in overdue}
  <2>1. UNCHANGED <<awaiting, Last>>
    BY <1>5 DEF DismissExpired, serverVars, Last
  <2>2. swept \in SUBSET {r \in Local \cup Server : Status[r] = "pending"}
    BY DEF Status
  <2>3. Status' = [r \in Local \cup Server |-> IF r \in swept THEN "expired" ELSE Status[r]]
    BY <1>5, <2>1 DEF DismissExpired, SweptStatus, Status
  <2>4. Lifecycle!Expire
    BY <2>1, <2>2, <2>3 DEF Lifecycle!Expire, Status, Last
  <2>5. QED
    BY <2>4 DEF Lifecycle!Next
<1>6. CASE Reload
  <2>1. UNCHANGED Status /\ Last' = NoDecision
    BY <1>6 DEF Reload, Status, Last
  <2>2. QED
    BY <2>1 DEF Lifecycle!Next, Lifecycle!TooLate, Status, Last
<1>7. CASE DecisionAges
  <2>1. UNCHANGED <<items, awaiting>>
    BY <1>7 DEF DecisionAges, serverVars
  <2>2. lastDecision' \in Decisions /\ lastDecision \in Decisions
         /\ lastDecision'.id = lastDecision.id
    BY <1>7 DEF DecisionAges, TypeOK, Decisions
  <2>3. UNCHANGED Last
    <3>1. lastDecision' # NoDecision /\ lastDecision # NoDecision
      BY <1>7, <2>2 DEF DecisionAges, Decisions, Actions
    <3>2. QED
      BY <2>2, <3>1 DEF Last
  <2>4. QED
    BY <2>1, <2>3, Frame
<1>8. CASE RequestArrives
  <2> PICK r \in requests :
        awaiting' = IF r.id \in Server /\ awaiting[r.id] = "pending"
                    THEN [awaiting EXCEPT ![r.id] = Outcome(r.action)] ELSE awaiting
    BY <1>8 DEF RequestArrives
  <2>1. UNCHANGED <<items, Last>>
    BY <1>8 DEF RequestArrives, localVars, Last
  <2>2. CASE r.id \in Server /\ awaiting[r.id] = "pending"
    <3>1. Status[r.id] = "pending" /\ r.id \notin Local
      BY <2>2 DEF Status
    <3>2. Status' = [Status EXCEPT ![r.id] = Outcome(r.action)]
      BY <2>1, <2>2, <3>1 DEF Status, TypeOK
    <3>3. Outcome(r.action) \in Lifecycle!Decided
      BY DEF Outcome, Lifecycle!Decided
    <3>4. Lifecycle!Decide(r.id)
      BY <2>1, <3>1, <3>2, <3>3 DEF Lifecycle!Decide, Status, Last
    <3>5. QED
      BY <2>2, <3>4 DEF Lifecycle!Next
  <2>3. CASE ~(r.id \in Server /\ awaiting[r.id] = "pending")
    BY <2>1, <2>3, Frame
  <2>4. QED
    BY <2>2, <2>3
<1>9. CASE GatewayProposes
  <2> PICK id \in Server : awaiting[id] = "absent" /\ awaiting' = [awaiting EXCEPT ![id] = "pending"]
    BY <1>9 DEF GatewayProposes
  <2>1. UNCHANGED <<items, Last>>
    BY <1>9 DEF GatewayProposes, localVars, Last
  <2>2. {id} \in SUBSET {r \in Local \cup Server : Status[r] = "absent"}
    BY DEF Status
  <2>3. Status' = [r \in Local \cup Server |-> IF r \in {id} THEN "pending" ELSE Status[r]]
    BY <2>1 DEF Status, TypeOK
  <2>4. Lifecycle!Propose
    BY <2>1, <2>2, <2>3 DEF Lifecycle!Propose, Status, Last
  <2>5. QED
    BY <2>4 DEF Lifecycle!Next
<1>10. CASE GatewayExpires
  <2> PICK id \in Server : awaiting[id] = "pending" /\ awaiting' = [awaiting EXCEPT ![id] = "expired"]
    BY <1>10 DEF GatewayExpires
  <2>1. UNCHANGED <<items, Last>>
    BY <1>10 DEF GatewayExpires, localVars, Last
  <2>2. {id} \in SUBSET {r \in Local \cup Server : Status[r] = "pending"}
    BY DEF Status
  <2>3. Status' = [r \in Local \cup Server |-> IF r \in {id} THEN "expired" ELSE Status[r]]
    BY <2>1 DEF Status, TypeOK
  <2>4. Lifecycle!Expire
    BY <2>1, <2>2, <2>3 DEF Lifecycle!Expire, Status, Last
  <2>5. QED
    BY <2>4 DEF Lifecycle!Next
<1>11. CASE \/ ToastTimeout \/ OpenPage \/ LeavePage \/ RequestOverdue \/ HealthAnswers
            \/ FetchQueue \/ RequestFails \/ UNCHANGED vars
  <2>1. UNCHANGED <<items, lastDecision, awaiting>>
    BY <1>11 DEF ToastTimeout, OpenPage, LeavePage, RequestOverdue, HealthAnswers,
                 FetchQueue, RequestFails, vars, localVars, serverVars
  <2>2. QED
    BY <2>1, Frame DEF Last
<1>12. QED
  BY <1>1, <1>2, <1>3, <1>4, <1>5, <1>6, <1>7, <1>8, <1>9, <1>10, <1>11 DEF Next

(* No order of clicks, sweeps, arrivals and failures gives a request       *)
(* another life than ApprovalLifecycle allows: decided or expired is for   *)
(* good, but for the one decision that can be taken back.                  *)
THEOREM Refinement == Spec => ImplementsLifecycle
<1>1. Init => Lifecycle!Init
  BY InitRefines
<1>2. IInv /\ [Next]_vars => [Lifecycle!Next]_(Lifecycle!vars)
  BY StepRefines
<1>3. QED
  BY <1>1, <1>2, Invariance, PTL DEF Spec, ImplementsLifecycle, Lifecycle!Spec
=============================================================================

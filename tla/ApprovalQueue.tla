--------------------------- MODULE ApprovalQueue ---------------------------
(***************************************************************************)
(* The approval queue of the operator's page: the local store of requests  *)
(* with its decision, undo and sweep (lib/stores/approval-store.ts), the   *)
(* queue served by the gateway (lib/hooks/use-workflows-api.ts), and the   *)
(* list, the detail pane and the toast that act on one or the other        *)
(* (components/approvals/).                                                *)
(*                                                                         *)
(* Time is kept as what the code asks of it: which local requests are past *)
(* their expiry, and how old the last decision is, in units of which       *)
(* UndoWindow make the 8 seconds of the undo.  The gateway is external: it *)
(* lists the requests that await a decision, decides one when asked (409   *)
(* unless it still awaits), and lets them expire.                          *)
(***************************************************************************)
EXTENDS Naturals, FiniteSets

CONSTANTS
  Local,       \* ids of requests of the local store
  Server,      \* ids of requests at the gateway
  NoDecision,  \* lastDecision: null
  NoData,      \* the gateway's queue was not fetched yet
  UndoWindow,  \* the longest age of a decision that can be undone
  MaxInFlight  \* bound on the decisions on their way to the gateway at once

ASSUME QueueAssumption ==
  /\ Local \cap Server = {}
  /\ NoDecision \notin Local \cup Server
  /\ NoDecision \notin [id: Local, action: {"approve", "reject"}, age: Nat]
  /\ UndoWindow \in Nat
  /\ MaxInFlight \in Nat

VARIABLES
  connection,   \* useConnectionState()
  items,        \* status of each local request, "absent" before it is added
  overdue,      \* local requests whose expires_at has passed
  lastDecision, \* [id, action, age], or NoDecision
  mounted,      \* the approvals page is open
  showToast,    \* its toast
  awaiting,     \* status of each request at the gateway
  queue,        \* ids in the last queue fetched, or NoData
  requests      \* decisions on their way to the gateway, [id, action]

localVars == <<items, overdue, lastDecision>>
pageVars == <<mounted, showToast>>
serverVars == <<awaiting, queue, requests>>
vars == <<connection, localVars, pageVars, serverVars>>

Statuses == {"absent", "pending", "approved", "rejected", "expired"}

Actions == {"approve", "reject"}

Outcome(action) == IF action = "approve" THEN "approved" ELSE "rejected"

Decisions == [id: Local, action: Actions, age: 0..(UndoWindow + 1)]

Online == connection = "online"

(***************************************************************************)
(* The local store.                                                        *)
(***************************************************************************)
\* decide: nothing happens for an id that is not in the store, or not pending.
Decide(id, action) ==
  IF id \in Local /\ items[id] = "pending"
  THEN /\ items' = [items EXCEPT ![id] = Outcome(action)]
       /\ lastDecision' = [id |-> id, action |-> action, age |-> 0]
       /\ showToast' = TRUE
       /\ UNCHANGED <<overdue, mounted>>
  ELSE UNCHANGED <<localVars, pageVars>>

\* undoLast puts the request back as it was when it was decided: pending.
UndoLast ==
  /\ items' = IF lastDecision.age > UndoWindow THEN items
              ELSE [items EXCEPT ![lastDecision.id] = "pending"]
  /\ lastDecision' = NoDecision

\* Mutant: the sweep does not look at the status.
SweepsDecided(id) == IF items[id] # "absent" /\ id \in overdue THEN "expired" ELSE items[id]

SweptStatus(id) ==
  IF items[id] = "pending" /\ id \in overdue THEN "expired" ELSE items[id]

\* Mutant: the requests of the run take the place of those there with their ids.
ReplacesRequests ==
  /\ \E ids \in SUBSET Local \ {{}} :
       items' = [id \in Local |-> IF id \in ids THEN "pending" ELSE items[id]]
  /\ UNCHANGED <<connection, overdue, lastDecision, pageVars, serverVars>>

\* addRequests, from a run of a local workflow.
AddRequests ==
  /\ \E ids \in SUBSET {id \in Local : items[id] = "absent"} \ {{}} :
       items' = [id \in Local |-> IF id \in ids THEN "pending" ELSE items[id]]
  /\ UNCHANGED <<connection, overdue, lastDecision, pageVars, serverVars>>

(***************************************************************************)
(* The page.  What it lists: the gateway's queue when the connection is    *)
(* online and a queue was fetched, else the local requests; the buttons of *)
(* a pending request work unless the connection is offline.  While the     *)
(* first health check is out no row is shown, but the detail pane is.      *)
(***************************************************************************)
ShowsServer == Online /\ queue # NoData

ShownPending ==
  IF ShowsServer THEN queue ELSE {id \in Local : items[id] = "pending"}

CanDecide(id) == mounted /\ id \in ShownPending /\ connection # "offline"

\* The buttons of a row: decideRow sends to the gateway when online.
RowDecides ==
  /\ connection # "checking"
  /\ \E id \in Local \cup Server, action \in Actions :
       /\ CanDecide(id)
       /\ IF Online
          THEN /\ requests' = requests \cup {[id |-> id, action |-> action]}
               /\ Cardinality(requests') <= MaxInFlight
               /\ UNCHANGED <<localVars, pageVars>>
          ELSE Decide(id, action) /\ UNCHANGED requests
  /\ UNCHANGED <<connection, awaiting, queue>>

\* The buttons of the detail pane: the local store, whatever is shown.
DetailDecides ==
  /\ \E id \in Local \cup Server, action \in Actions :
       CanDecide(id) /\ Decide(id, action)
  /\ UNCHANGED <<connection, serverVars>>

UndoButton ==
  /\ mounted
  /\ showToast
  /\ lastDecision # NoDecision
  /\ UndoLast
  /\ showToast' = FALSE
  /\ UNCHANGED <<connection, overdue, mounted, serverVars>>

\* The toast goes 8 seconds after it came.
ToastTimeout ==
  /\ mounted
  /\ showToast
  /\ lastDecision # NoDecision => lastDecision.age >= UndoWindow
  /\ showToast' = FALSE
  /\ UNCHANGED <<connection, localVars, mounted, serverVars>>

\* Mutant: the sweep is left to the gateway while the connection is not offline.
SweepsOffline ==
  /\ mounted
  /\ items' = [id \in Local |-> IF connection = "offline" THEN SweptStatus(id) ELSE items[id]]
  /\ UNCHANGED <<connection, overdue, lastDecision, pageVars, serverVars>>

\* dismissExpired, each minute while the page is open.
DismissExpired ==
  /\ mounted
  /\ items' = [id \in Local |-> SweptStatus(id)]
  /\ UNCHANGED <<connection, overdue, lastDecision, pageVars, serverVars>>

\* Opening the page shows the toast of a decision that is still the last.
OpenPage ==
  /\ ~mounted
  /\ mounted' = TRUE
  /\ showToast' = (lastDecision # NoDecision)
  /\ UNCHANGED <<connection, localVars, serverVars>>

\* Mutant: the toast is not the page's.
ToastOutlivesPage ==
  /\ mounted
  /\ mounted' = FALSE
  /\ UNCHANGED <<connection, localVars, showToast, serverVars>>

LeavePage ==
  /\ mounted
  /\ mounted' = FALSE
  /\ showToast' = FALSE
  /\ UNCHANGED <<connection, localVars, serverVars>>

\* A reload restores the requests only, and forgets the fetched queue.
Reload ==
  /\ lastDecision' = NoDecision
  /\ showToast' = FALSE
  /\ connection' = "checking"
  /\ queue' = NoData
  /\ requests' = {}
  /\ UNCHANGED <<items, overdue, mounted, awaiting>>

(***************************************************************************)
(* Time, the gateway and the connection to it.                             *)
(***************************************************************************)
DecisionAges ==
  /\ lastDecision # NoDecision
  /\ lastDecision.age <= UndoWindow
  /\ lastDecision' = [lastDecision EXCEPT !.age = @ + 1]
  /\ UNCHANGED <<connection, items, overdue, pageVars, serverVars>>

RequestOverdue ==
  /\ \E id \in {l \in Local : items[l] # "absent"} \ overdue : overdue' = overdue \cup {id}
  /\ UNCHANGED <<connection, items, lastDecision, pageVars, serverVars>>

HealthAnswers ==
  /\ connection' \in {"online", "degraded", "offline"} \ {connection}
  /\ UNCHANGED <<localVars, pageVars, serverVars>>

\* Mutant: the queue fetched is added to the last one.
MergesQueue ==
  /\ mounted
  /\ Online
  /\ queue' = (IF queue = NoData THEN {} ELSE queue) \cup {id \in Server : awaiting[id] = "pending"}
  /\ UNCHANGED <<connection, localVars, pageVars, awaiting, requests>>

\* The queue is fetched on the page, every 10 seconds while online, and after
\* each decision that succeeded.
FetchQueue ==
  /\ mounted
  /\ Online
  /\ queue' = {id \in Server : awaiting[id] = "pending"}
  /\ UNCHANGED <<connection, localVars, pageVars, awaiting, requests>>

\* A decision arrives: it counts if the request still awaits one.
RequestArrives ==
  /\ \E r \in requests :
       /\ requests' = requests \ {r}
       /\ awaiting' = IF r.id \in Server /\ awaiting[r.id] = "pending"
                      THEN [awaiting EXCEPT ![r.id] = Outcome(r.action)] ELSE awaiting
  /\ UNCHANGED <<connection, localVars, pageVars, queue>>

RequestFails ==
  /\ \E r \in requests : requests' = requests \ {r}
  /\ UNCHANGED <<connection, localVars, pageVars, awaiting, queue>>

GatewayProposes ==
  /\ \E id \in Server : awaiting[id] = "absent" /\ awaiting' = [awaiting EXCEPT ![id] = "pending"]
  /\ UNCHANGED <<connection, localVars, pageVars, queue, requests>>

GatewayExpires ==
  /\ \E id \in Server : awaiting[id] = "pending" /\ awaiting' = [awaiting EXCEPT ![id] = "expired"]
  /\ UNCHANGED <<connection, localVars, pageVars, queue, requests>>

Init ==
  /\ connection = "checking"
  /\ items \in [Local -> {"absent", "pending", "approved"}]
  /\ overdue \in SUBSET {id \in Local : items[id] # "absent"}
  /\ lastDecision = NoDecision
  /\ mounted = TRUE
  /\ showToast = FALSE
  /\ awaiting \in [Server -> {"absent", "pending"}]
  /\ queue = NoData
  /\ requests = {}

Next ==
  \/ AddRequests
  \/ RowDecides \/ DetailDecides \/ UndoButton \/ ToastTimeout \/ DismissExpired
  \/ OpenPage \/ LeavePage \/ Reload
  \/ DecisionAges \/ RequestOverdue \/ HealthAnswers \/ FetchQueue
  \/ RequestArrives \/ RequestFails \/ GatewayProposes \/ GatewayExpires

Spec == Init /\ [][Next]_vars

(***************************************************************************)
(* The intervals of the page run while it is open, and a request comes to  *)
(* an end.                                                                 *)
(***************************************************************************)
FairSpec ==
  /\ Spec
  /\ WF_vars(DismissExpired) /\ WF_vars(FetchQueue)
  /\ WF_vars(RequestArrives \/ RequestFails)
-----------------------------------------------------------------------------
(***************************************************************************)
(* Properties.                                                             *)
(***************************************************************************)
TypeOK ==
  /\ connection \in {"checking", "online", "degraded", "offline"}
  /\ items \in [Local -> Statuses]
  /\ overdue \subseteq Local
  /\ lastDecision \in Decisions \cup {NoDecision}
  /\ mounted \in BOOLEAN
  /\ showToast \in BOOLEAN /\ (showToast => mounted)
  /\ awaiting \in [Server -> Statuses]
  /\ queue = NoData \/ queue \subseteq Server
  /\ requests \subseteq [id: Local \cup Server, action: Actions]

(* What the toast says was decided is what the store holds: from the       *)
(* decision until the undo, a later decision or a reload, neither the      *)
(* sweep nor a run of a workflow changes the request it names.             *)
LastDecisionStands ==
  lastDecision # NoDecision => items[lastDecision.id] = Outcome(lastDecision.action)

(* The requests of the local store and those of the gateway all live as    *)
(* ApprovalLifecycle says, the decision that can be taken back being the   *)
(* last one of the local store.                                            *)
Lifecycle == INSTANCE ApprovalLifecycle WITH
  Requests <- Local \cup Server,
  NoRequest <- NoDecision,
  status <- [id \in Local \cup Server |-> IF id \in Local THEN items[id] ELSE awaiting[id]],
  last <- IF lastDecision = NoDecision THEN NoDecision ELSE lastDecision.id

ImplementsLifecycle == Lifecycle!Spec

(* While the page is open, a pending local request that is past its expiry *)
(* does not wait for good: it is swept, or decided.                        *)
OverdueIsSwept ==
  \A id \in Local : (items[id] = "pending" /\ id \in overdue)
                      ~> (items[id] # "pending" \/ ~mounted)

(* A request that the gateway no longer waits for, because this page or    *)
(* anybody else decided it or it expired, leaves the list of an open page  *)
(* that stays online.                                                      *)
DecidedLeavesQueue ==
  \A id \in Server : (queue # NoData /\ id \in queue /\ awaiting[id] # "pending")
                       ~> (queue = NoData \/ id \notin queue \/ ~Online \/ ~mounted)
=============================================================================

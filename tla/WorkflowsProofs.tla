-------------------------- MODULE WorkflowsProofs --------------------------
(***************************************************************************)
(* The workflows page and the canvas of its builder.                       *)
(*                                                                         *)
(* For any workflows and any number of requests on their way: the state of *)
(* the page stays well-typed, a save writes one workflow, and a step       *)
(* changes no workflow of the browser but the one it is about.             *)
(*                                                                         *)
(* For any set of steps and any canvas: the edges stay those of chains,    *)
(* validateGraph refuses the graphs it should and no other, graphToSteps   *)
(* compiles a whole chain that survives saving and opening, and no control *)
(* takes the gate off a step.  The walks of the code are recursive         *)
(* functions.  What one computes is proved by induction in the form of a   *)
(* set of numbers that holds the first one and with a number the next;     *)
(* that one exists, by Recursion.                                          *)
(***************************************************************************)
EXTENDS Workflows, WorkflowEditor, FiniteSetTheorems, SequenceTheorems,
        WellFoundedInduction, TLAPS

-----------------------------------------------------------------------------
(***************************************************************************)
(* The page.                                                               *)
(***************************************************************************)

(* While the builder is open the canvas is that of the workflow edited; the *)
(* draft always has the name of the workflow edited, if it is listed, or of *)
(* none.  Neither can be seen from the requests alone.                      *)
CanvasOfEdited == builderOpen => canvas.of = editingId

DraftOfEdited == draft.of \in {EditingWorkflow, NoWorkflow}

(* The inductive invariant.                                                *)
IInv == TypeOK /\ CanvasOfEdited /\ DraftOfEdited /\ SavesAreOfOneWorkflow

(* The requests there can be.                                              *)
Sent == [op: Ops, id: Ids \cup {NoWorkflow}, draftOf: Ids \cup {NoWorkflow},
         canvasOf: Ids \cup {NoWorkflow}, here: BOOLEAN]

LEMMA NothingType ==
  /\ NoCanvas \in [of: Ids \cup {NoWorkflow}, steps: Compilations]
  /\ Blank \in [of: Ids \cup {NoWorkflow}, typed: BOOLEAN]
BY DEF NoCanvas, Blank, Compilations

LEMMA InitInv == Init => IInv
<1> SUFFICES ASSUME Init PROVE IInv
  OBVIOUS
<1>1. TypeOK
  <2>1. runs \in Seq(Local) /\ Len(runs) <= MaxRuns
    BY WorkflowsAssumption DEF Init
  <2>2. local \in [Local -> Steps \cup {"absent"}]
    BY DEF Init, Steps
  <2>3. QED
    BY <2>1, <2>2, NothingType DEF Init, TypeOK
<1>2. CanvasOfEdited /\ DraftOfEdited /\ SavesAreOfOneWorkflow
  BY DEF Init, Blank, CanvasOfEdited, DraftOfEdited, SavesAreOfOneWorkflow
<1>3. QED
  BY <1>1, <1>2 DEF IInv

-----------------------------------------------------------------------------
(* What the parts of the steps keep of the types.                          *)

LEMMA DraftEffectType ==
  ASSUME TypeOK, DraftEffect, editingId' \in Ids \cup {NoWorkflow}
  PROVE  draft' \in [of: Ids \cup {NoWorkflow}, typed: BOOLEAN]
BY DEF DraftEffect, EditingWorkflow, TypeOK

LEMMA SendType ==
  ASSUME TypeOK,
         NEW op \in Ops, NEW id \in Ids \cup {NoWorkflow},
         NEW d \in Ids \cup {NoWorkflow}, NEW c \in Ids \cup {NoWorkflow},
         Send(Request(op, id, [draftOf |-> d, canvasOf |-> c]))
  PROVE  /\ UNCHANGED <<server, fetched>>
         /\ requests' \subseteq Sent
<1> DEFINE r == Request(op, id, [draftOf |-> d, canvasOf |-> c])
<1>1. r = [op |-> op, id |-> id, draftOf |-> d, canvasOf |-> c, here |-> TRUE]
  BY DEF Request
<1>2. requests' = requests \cup {r} /\ UNCHANGED <<server, fetched>>
  BY DEF Send
<1>3. r \in Sent
  <2>1. [op |-> op, id |-> id, draftOf |-> d, canvasOf |-> c, here |-> TRUE] \in Sent
    BY DEF Sent
  <2>2. QED
    BY <1>1, <2>1, Zenon
<1>4. QED
  BY <1>2, <1>3 DEF TypeOK, Sent

LEMMA ListedIsKnown ==
  ASSUME TypeOK
  PROVE  /\ Listed \subseteq Ids
         /\ ~online => Listed \subseteq {id \in Local : local[id] # "absent"}
BY DEF Listed, TypeOK, Ids

LEMMA CreateType ==
  ASSUME TypeOK, NEW s \in Steps, CreateWorkflow(s)
  PROVE  local' \in [Local -> Steps \cup {"absent"}] /\ UNCHANGED runs
BY DEF CreateWorkflow, TypeOK

LEMMA RunType ==
  ASSUME TypeOK, NEW id \in Local, RunWorkflow(id)
  PROVE  runs' \in Seq(Local) /\ Len(runs') <= MaxRuns /\ UNCHANGED local
<1> DEFINE all == <<id>> \o runs
           n == IF Len(runs) < MaxRuns THEN Len(runs) + 1 ELSE MaxRuns
<1>1. runs \in Seq(Local) /\ Len(runs) \in Nat /\ Len(runs) <= MaxRuns
  BY DEF TypeOK
<1>2. all \in Seq(Local) /\ Len(all) = Len(runs) + 1
  BY <1>1
<1>3. n \in 1..Len(all) /\ n <= MaxRuns
  BY <1>1, <1>2, WorkflowsAssumption
<1>4. SubSeq(all, 1, n) \in Seq(Local) /\ Len(SubSeq(all, 1, n)) = n
  BY <1>2, <1>3, SubSeqProperties
<1>5. QED
  BY <1>3, <1>4 DEF RunWorkflow

-----------------------------------------------------------------------------
LEMMA TypeStep == TypeOK /\ [Next]_vars => TypeOK'
<1> SUFFICES ASSUME TypeOK, [Next]_vars PROVE TypeOK'
  OBVIOUS
<1> USE WorkflowsAssumption DEF Ids
<1>1. CASE OpenCreate
  <2>1. editingId' \in Ids \cup {NoWorkflow}
        /\ draft' \in [of: Ids \cup {NoWorkflow}, typed: BOOLEAN]
    BY <1>1, DraftEffectType DEF OpenCreate
  <2>2. QED
    BY <1>1, <2>1, NothingType DEF OpenCreate, TypeOK, stores, gateway
<1>2. CASE OpenEdit
  <2>1. PICK id \in Listed, steps \in Steps :
          editingId' = id /\ canvas' = [of |-> id, steps |-> steps]
    BY <1>2 DEF OpenEdit
  <2>2. draft' \in [of: Ids \cup {NoWorkflow}, typed: BOOLEAN]
    BY <1>2, <2>1, ListedIsKnown, DraftEffectType DEF OpenEdit
  <2>3. canvas' \in [of: Ids \cup {NoWorkflow}, steps: Compilations]
        /\ editingId' \in Ids \cup {NoWorkflow}
    BY <2>1, ListedIsKnown DEF Compilations
  <2>4. QED
    BY <1>2, <2>2, <2>3 DEF OpenEdit, TypeOK, stores, gateway
<1>3. CASE HandleRun
  <2> PICK id \in Listed :
        IF online THEN Send(Request("run", id, NotSaved)) /\ UNCHANGED stores
                  ELSE RunWorkflow(id) /\ UNCHANGED gateway
    BY <1>3 DEF HandleRun
  <2>1. CASE online
    <3>1. Send(Request("run", id, [draftOf |-> NoWorkflow, canvasOf |-> NoWorkflow]))
      BY <2>1 DEF NotSaved
    <3>2. QED
      BY <1>3, <2>1, <3>1, ListedIsKnown, SendType DEF Sent, HandleRun, Ops, TypeOK, stores, builder
  <2>2. CASE ~online
    BY <1>3, <2>2, ListedIsKnown, RunType DEF HandleRun, TypeOK, gateway, builder
  <2>3. QED
    BY <2>1, <2>2
<1>4. CASE Duplicate
  <2> PICK id \in Listed :
        IF online THEN Send(Request("copy", NoWorkflow, NotSaved)) /\ UNCHANGED stores
                  ELSE DuplicateWorkflow(id) /\ UNCHANGED gateway
    BY <1>4 DEF Duplicate
  <2>1. CASE online
    <3>1. Send(Request("copy", NoWorkflow, [draftOf |-> NoWorkflow, canvasOf |-> NoWorkflow]))
      BY <2>1 DEF NotSaved
    <3>2. QED
      BY <1>4, <2>1, <3>1, SendType DEF Sent, Duplicate, Ops, TypeOK, stores, builder
  <2>2. CASE ~online
    <3>1. local[id] \in Steps
      BY <2>2, ListedIsKnown DEF TypeOK
    <3>2. CreateWorkflow(local[id])
      BY <2>2 DEF DuplicateWorkflow
    <3>3. QED
      BY <1>4, <2>2, <3>1, <3>2, CreateType DEF Duplicate, TypeOK, gateway, builder
  <2>3. QED
    BY <2>1, <2>2
<1>5. CASE Delete
  <2> PICK id \in Listed :
        IF online THEN Send(Request("remove", id, NotSaved)) /\ UNCHANGED stores
                  ELSE DeleteWorkflow(id) /\ UNCHANGED gateway
    BY <1>5 DEF Delete
  <2>1. draft' \in [of: Ids \cup {NoWorkflow}, typed: BOOLEAN]
    BY <1>5, DraftEffectType DEF Delete, TypeOK
  <2>2. CASE online
    <3>1. Send(Request("remove", id, [draftOf |-> NoWorkflow, canvasOf |-> NoWorkflow]))
      BY <2>2 DEF NotSaved
    <3>2. QED
      BY <1>5, <2>1, <2>2, <3>1, ListedIsKnown, SendType DEF Sent, Delete, Ops, TypeOK, stores
  <2>3. CASE ~online
    BY <1>5, <2>1, <2>3 DEF Delete, DeleteWorkflow, TypeOK, gateway
  <2>4. QED
    BY <2>2, <2>3
<1>6. CASE HandleImportFile
  <2>1. Send(Request("import", NoWorkflow, [draftOf |-> NoWorkflow, canvasOf |-> NoWorkflow]))
    BY <1>6 DEF HandleImportFile, NotSaved
  <2>2. QED
    BY <1>6, <2>1, SendType DEF Sent, HandleImportFile, Ops, TypeOK, stores, builder
<1>7. CASE TypeDraft \/ Draw \/ Cancel
  <2>1. CASE TypeDraft
    BY <2>1 DEF TypeDraft, TypeOK, stores, gateway
  <2>2. CASE Draw
    BY <2>2 DEF Draw, TypeOK, stores, gateway
  <2>3. CASE Cancel
    BY <2>3, NothingType DEF Cancel, TypeOK, stores, gateway
  <2>4. QED
    BY <1>7, <2>1, <2>2, <2>3
<1>8. CASE HandleSave
  <2>1. CASE online
    <3>1. PICK op \in Ops :
            Send(Request(op, editingId, [draftOf |-> draft.of, canvasOf |-> canvas.of]))
      BY <1>8, <2>1 DEF HandleSave, HandleSaveOnline, Ops
    <3>2. draft.of \in Ids \cup {NoWorkflow} /\ canvas.of \in Ids \cup {NoWorkflow}
          /\ editingId \in Ids \cup {NoWorkflow}
      BY DEF TypeOK
    <3>3. UNCHANGED <<online, stores, builder>>
      BY <1>8, <2>1 DEF HandleSave, HandleSaveOnline
    <3>4. QED
      BY <3>1, <3>2, <3>3, SendType DEF Sent, TypeOK, stores, builder
  <2>2. CASE ~online
    <3>1. canvas.steps \in Steps
      BY <1>8 DEF HandleSave, Savable
    <3>2. CreateWorkflow(canvas.steps) \/ UpdateWorkflow(editingId, canvas.steps)
      BY <1>8, <2>2 DEF HandleSave
    <3>3. local' \in [Local -> Steps \cup {"absent"}] /\ UNCHANGED runs
      BY <3>1, <3>2, CreateType DEF UpdateWorkflow, TypeOK
    <3>4. QED
      BY <1>8, <2>2, <3>3, NothingType DEF HandleSave, TypeOK, gateway
  <2>3. QED
    BY <2>1, <2>2
<1>9. CASE HealthAnswers \/ FetchWorkflows
  <2>1. draft' \in [of: Ids \cup {NoWorkflow}, typed: BOOLEAN]
    BY <1>9, DraftEffectType DEF HealthAnswers, FetchWorkflows, TypeOK
  <2>2. QED
    BY <1>9, <2>1 DEF HealthAnswers, FetchWorkflows, TypeOK, stores, gateway
<1>10. CASE RequestSucceeds
  <2> PICK r \in requests :
        /\ Accepts(r)
        /\ requests' = requests \ {r}
        /\ builderOpen' \in {FALSE, builderOpen}
        /\ canvas' \in {NoCanvas, canvas}
    BY <1>10 DEF RequestSucceeds
  <2>1. server' \in [Server -> {"absent", "plain", "override"}]
    BY DEF Accepts, TypeOK
  <2>2. QED
    <3>1. UNCHANGED <<online, local, runs, fetched, editingId, draft>>
      BY <1>10 DEF RequestSucceeds, stores
    <3>2. /\ builderOpen' \in BOOLEAN
          /\ canvas' \in [of: Ids \cup {NoWorkflow}, steps: Compilations]
      BY NothingType DEF TypeOK
    <3>3. QED
      BY <2>1, <3>1, <3>2 DEF TypeOK
<1>11. CASE RequestFails \/ ServerChanges
  BY <1>11 DEF RequestFails, ServerChanges, TypeOK, stores, builder
<1>12. CASE Remount
  <2>1. \A r \in Sent : [r EXCEPT !.here = FALSE] \in Sent
    BY DEF Sent
  <2>2. requests \subseteq Sent
    BY DEF TypeOK, Sent
  <2>3. requests' \subseteq Sent
    BY <1>12, <2>1, <2>2 DEF Remount
  <2>4. QED
    BY <1>12, <2>3, NothingType DEF Remount, TypeOK, stores, Sent
<1>13. CASE UNCHANGED vars
  BY <1>13 DEF vars, stores, gateway, builder, TypeOK
<1>14. QED
  BY <1>1, <1>2, <1>3, <1>4, <1>5, <1>6, <1>7, <1>8, <1>9, <1>10, <1>11, <1>12, <1>13 DEF Next
-----------------------------------------------------------------------------
LEMMA EditedIsListed == EditingWorkflow = NoWorkflow \/ (EditingWorkflow = editingId /\ editingId \in Listed)
BY DEF EditingWorkflow

(* The effect keeps the draft that of the workflow edited.                 *)
LEMMA DraftEffectEdited ==
  ASSUME DraftOfEdited, DraftEffect
  PROVE  DraftOfEdited'
BY DEF DraftOfEdited, DraftEffect

(* A list that only grows leaves the draft that of the workflow edited.    *)
LEMMA GrowingKeepsDraft ==
  ASSUME DraftOfEdited, UNCHANGED editingId, draft'.of = draft.of,
         Listed \subseteq Listed'
  PROVE  DraftOfEdited'
BY DEF DraftOfEdited, EditingWorkflow

LEMMA ListedFrame ==
  ASSUME UNCHANGED <<online, local, fetched>>
  PROVE  UNCHANGED Listed
BY DEF Listed

LEMMA DraftStep == IInv /\ [Next]_vars => DraftOfEdited'
<1> SUFFICES ASSUME IInv, [Next]_vars PROVE DraftOfEdited'
  OBVIOUS
<1> TypeOK /\ DraftOfEdited
  BY DEF IInv
<1> USE WorkflowsAssumption
<1>1. CASE OpenCreate \/ OpenEdit \/ Delete \/ HealthAnswers \/ FetchWorkflows
  BY <1>1, DraftEffectEdited
  DEF OpenCreate, OpenEdit, Delete, HealthAnswers, FetchWorkflows
<1>2. CASE HandleRun \/ Duplicate \/ HandleSave
  <2>1. UNCHANGED <<online, editingId, draft>>
    BY <1>2 DEF HandleRun, Duplicate, HandleSave, HandleSaveOnline, builder
  <2>2. UNCHANGED fetched
    BY <1>2 DEF HandleRun, Duplicate, HandleSave, HandleSaveOnline, Send, gateway
  <2>3. \A id \in Local : local[id] # "absent" => local'[id] # "absent"
    <3>1. CASE UNCHANGED local
      BY <3>1
    <3>2. CASE \E s : CreateWorkflow(s)
      BY <3>2 DEF CreateWorkflow, TypeOK
    <3>3. CASE UpdateWorkflow(editingId, canvas.steps) /\ canvas.steps \in Steps
      BY <3>3 DEF UpdateWorkflow, TypeOK, Steps
    <3>4. QED
      BY <1>2, <3>1, <3>2, <3>3
      DEF HandleRun, Duplicate, HandleSave, HandleSaveOnline, RunWorkflow,
          DuplicateWorkflow, Savable, stores
  <2>4. Listed \subseteq Listed'
    BY <2>1, <2>2, <2>3 DEF Listed
  <2>5. QED
    BY <2>1, <2>4, GrowingKeepsDraft
<1>3. CASE \/ HandleImportFile \/ TypeDraft \/ Draw \/ Cancel \/ RequestSucceeds
           \/ RequestFails \/ ServerChanges \/ UNCHANGED vars
  <2>1. UNCHANGED <<online, local, fetched, editingId>> /\ draft'.of = draft.of
    BY <1>3 DEF HandleImportFile, Send, TypeDraft, Draw, Cancel, RequestSucceeds,
                RequestFails, ServerChanges, vars, stores, gateway, builder, TypeOK
  <2>2. QED
    BY <2>1, ListedFrame, GrowingKeepsDraft
<1>4. CASE Remount
  BY <1>4 DEF Remount, Blank, DraftOfEdited
<1>5. QED
  BY <1>1, <1>2, <1>3, <1>4 DEF Next

LEMMA CanvasStep == IInv /\ [Next]_vars => CanvasOfEdited'
<1> SUFFICES ASSUME IInv, [Next]_vars PROVE CanvasOfEdited'
  OBVIOUS
<1> USE DEF IInv, CanvasOfEdited
<1>1. CASE OpenCreate \/ OpenEdit
  BY <1>1 DEF OpenCreate, OpenEdit, NoCanvas
<1>2. CASE Draw
  BY <1>2 DEF Draw, TypeOK
<1>3. CASE HandleSave \/ RequestSucceeds \/ Cancel \/ Remount
  BY <1>3 DEF HandleSave, HandleSaveOnline, RequestSucceeds, Cancel, Remount, builder
<1>4. CASE \/ HandleRun \/ Duplicate \/ Delete \/ HandleImportFile \/ TypeDraft
           \/ HealthAnswers \/ FetchWorkflows \/ RequestFails \/ ServerChanges
           \/ UNCHANGED vars
  <2>1. UNCHANGED <<builderOpen, editingId, canvas>>
    BY <1>4 DEF HandleRun, Duplicate, Delete, HandleImportFile, TypeDraft,
                HealthAnswers, FetchWorkflows, RequestFails, ServerChanges, vars, builder
  <2>2. QED
    BY <2>1
<1>5. QED
  BY <1>1, <1>2, <1>3, <1>4 DEF Next

LEMMA SavesStep == IInv /\ [Next]_vars => SavesAreOfOneWorkflow'
<1> SUFFICES ASSUME IInv, [Next]_vars PROVE SavesAreOfOneWorkflow'
  OBVIOUS
<1>1. CASE HandleSave
  <2>1. CASE online
    <3> DEFINE r(op) == Request(op, editingId, [draftOf |-> draft.of, canvasOf |-> canvas.of])
    <3>1. PICK op : requests' = requests \cup {r(op)}
      BY <1>1, <2>1 DEF HandleSave, HandleSaveOnline, Send
    <3>2. r(op).id = editingId /\ r(op).canvasOf = canvas.of /\ r(op).draftOf = draft.of
      BY DEF Request
    <3>3. canvas.of = editingId
      BY <1>1 DEF HandleSave, IInv, CanvasOfEdited
    <3>4. draft.of \in {editingId, NoWorkflow}
      BY EditedIsListed DEF IInv, DraftOfEdited
    <3>5. QED
      BY <3>1, <3>2, <3>3, <3>4 DEF IInv, SavesAreOfOneWorkflow
  <2>2. CASE ~online
    BY <1>1, <2>2 DEF HandleSave, gateway, IInv, SavesAreOfOneWorkflow
  <2>3. QED
    BY <2>1, <2>2
<1>2. CASE HandleRun \/ Duplicate \/ Delete \/ HandleImportFile
  <2>1. \/ UNCHANGED requests
        \/ \E op \in {"run", "copy", "remove", "import"} : \E id \in Listed \cup {NoWorkflow} :
             requests' = requests \cup {Request(op, id, NotSaved)}
    BY <1>2 DEF HandleRun, Duplicate, Delete, HandleImportFile, Send, gateway
  <2>2. QED
    BY <2>1 DEF Request, IInv, SavesAreOfOneWorkflow
<1>3. CASE Remount
  <2>1. \A r \in requests : /\ [r EXCEPT !.here = FALSE].op = r.op
                            /\ [r EXCEPT !.here = FALSE].id = r.id
                            /\ [r EXCEPT !.here = FALSE].canvasOf = r.canvasOf
                            /\ [r EXCEPT !.here = FALSE].draftOf = r.draftOf
    BY DEF IInv, TypeOK
  <2>2. SUFFICES ASSUME NEW q \in requests', q.op \in {"create", "update"}
                 PROVE  q.canvasOf = q.id /\ q.draftOf \in {q.id, NoWorkflow}
    BY DEF SavesAreOfOneWorkflow
  <2>3. PICK r \in requests : q = [r EXCEPT !.here = FALSE]
    BY <1>3 DEF Remount
  <2>4. /\ q.op = r.op /\ q.id = r.id
        /\ q.canvasOf = r.canvasOf /\ q.draftOf = r.draftOf
    BY <2>1, <2>3
  <2>5. QED
    BY <2>2, <2>4 DEF IInv, SavesAreOfOneWorkflow
<1>4. CASE \/ OpenCreate \/ OpenEdit \/ TypeDraft \/ Draw \/ Cancel \/ HealthAnswers
           \/ FetchWorkflows \/ RequestSucceeds \/ RequestFails \/ ServerChanges
           \/ UNCHANGED vars
  <2>1. requests' \subseteq requests
    BY <1>4 DEF OpenCreate, OpenEdit, TypeDraft, Draw, Cancel, HealthAnswers,
                FetchWorkflows, RequestSucceeds, RequestFails, ServerChanges, vars, gateway
  <2>2. QED
    BY <2>1 DEF IInv, SavesAreOfOneWorkflow
<1>5. QED
  BY <1>1, <1>2, <1>3, <1>4 DEF Next

(* The inductive invariant holds in every reachable state.                 *)
THEOREM Invariance == Spec => []IInv
<1>1. IInv /\ [Next]_vars => IInv'
  BY TypeStep, CanvasStep, DraftStep, SavesStep DEF IInv
<1>2. QED
  BY InitInv, <1>1, PTL DEF Spec

(* The stores, the requests and the builder stay well-typed: only what     *)
(* compiled is ever saved, and no more runs are kept than MaxRuns.         *)
THEOREM TypeCorrect == Spec => []TypeOK
<1>1. IInv => TypeOK
  BY DEF IInv
<1>2. QED
  BY <1>1, Invariance, PTL

(* Whatever happened before and under the builder, a save on its way to    *)
(* the gateway has the graph and the name of the workflow it writes.       *)
THEOREM SavesCorrect == Spec => []SavesAreOfOneWorkflow
<1>1. IInv => SavesAreOfOneWorkflow
  BY DEF IInv
<1>2. QED
  BY <1>1, Invariance, PTL

-----------------------------------------------------------------------------
LEMMA LocalStep == [Next]_vars /\ online => UNCHANGED local
BY DEF Next, OpenCreate, OpenEdit, HandleRun, Duplicate, Delete, HandleImportFile,
       TypeDraft, Draw, Cancel, HandleSave, HandleSaveOnline, HealthAnswers,
       FetchWorkflows, RequestSucceeds, RequestFails, Remount, ServerChanges,
       vars, stores

(* What a step may change in the browser: the builder the workflow it was  *)
(* opened with, the list one it has.                                       *)
Builds(id) ==
  /\ builderOpen
  /\ editingId = IF local[id] = "absent" THEN NoWorkflow ELSE id
  /\ canvas = [of |-> editingId, steps |-> local'[id]]
  /\ draft.of \in {editingId, NoWorkflow}

Lists(id) ==
  \/ ~builderOpen /\ local'[id] = "absent"
  \/ /\ ~builderOpen /\ local[id] = "absent"
     /\ \E other \in Local : local[other] = local'[id]

Alone(id) == \A other \in Local \ {id} : local'[other] = local[other]

LEMMA BuildStep ==
  ASSUME IInv, HandleSave, ~online, NEW id \in Local, local'[id] # local[id]
  PROVE  Alone(id) /\ Builds(id)
<1>1. /\ local \in [Local -> Steps \cup {"absent"}] /\ canvas.steps \in Steps
      /\ canvas = [of |-> canvas.of, steps |-> canvas.steps]
  BY DEF IInv, TypeOK, HandleSave, Savable
<1>2. builderOpen /\ canvas.of = editingId
  BY DEF IInv, CanvasOfEdited, HandleSave
<1>3. draft.of \in {editingId, NoWorkflow}
  BY EditedIsListed DEF IInv, DraftOfEdited
<1>4. CASE editingId = NoWorkflow
  <2>1. PICK i \in Local : local[i] = "absent" /\ local' = [local EXCEPT ![i] = canvas.steps]
    BY <1>4 DEF HandleSave, CreateWorkflow
  <2>2. id = i /\ local'[id] = canvas.steps /\ Alone(id)
    BY <1>1, <2>1 DEF Alone
  <2>3. QED
    BY <1>1, <1>2, <1>3, <1>4, <2>1, <2>2 DEF Builds
<1>5. CASE editingId # NoWorkflow
  <2>1. UpdateWorkflow(editingId, canvas.steps)
    BY <1>5 DEF HandleSave
  <2>2. /\ editingId \in Local /\ local[editingId] # "absent"
        /\ local' = [local EXCEPT ![editingId] = canvas.steps]
    BY <2>1 DEF UpdateWorkflow
  <2>3. id = editingId /\ local'[id] = canvas.steps /\ Alone(id)
    BY <1>1, <2>2 DEF Alone
  <2>4. QED
    BY <1>1, <1>2, <1>3, <2>2, <2>3 DEF Builds
<1>6. QED
  BY <1>4, <1>5

LEMMA ListStep ==
  ASSUME IInv, Duplicate \/ Delete, ~online, NEW id \in Local, local'[id] # local[id]
  PROVE  Alone(id) /\ Lists(id)
<1>1. local \in [Local -> Steps \cup {"absent"}]
  BY DEF IInv, TypeOK
<1>2. CASE Duplicate
  <2>1. PICK other \in Listed : DuplicateWorkflow(other) /\ ~builderOpen
    BY <1>2 DEF Duplicate
  <2>2. other \in Local
    BY <2>1, ListedIsKnown DEF IInv
  <2>3. PICK i \in Local : local[i] = "absent" /\ local' = [local EXCEPT ![i] = local[other]]
    BY <2>1 DEF DuplicateWorkflow, CreateWorkflow
  <2>4. id = i /\ local'[id] = local[other] /\ Alone(id)
    BY <1>1, <2>3 DEF Alone
  <2>5. QED
    BY <2>1, <2>2, <2>3, <2>4 DEF Lists
<1>3. CASE Delete
  <2>1. PICK i \in Listed : DeleteWorkflow(i) /\ ~builderOpen
    BY <1>3 DEF Delete
  <2>2. i \in Local /\ local' = [local EXCEPT ![i] = "absent"]
    BY <2>1 DEF DeleteWorkflow
  <2>3. id = i /\ local'[id] = "absent" /\ Alone(id)
    BY <1>1, <2>2 DEF Alone
  <2>4. QED
    BY <2>1, <2>3 DEF Lists
<1>4. QED
  BY <1>2, <1>3

LEMMA OtherSteps ==
  ASSUME [Next]_vars, ~HandleSave, ~Duplicate, ~Delete
  PROVE  UNCHANGED local
BY DEF Next, OpenCreate, OpenEdit, HandleRun, RunWorkflow, HandleImportFile,
       TypeDraft, Draw, Cancel, HealthAnswers, FetchWorkflows, RequestSucceeds,
       RequestFails, Remount, ServerChanges, vars, stores

(* The workflows of the browser change only while the gateway is away, one *)
(* at a time, and by the builder only into what is drawn in it for the     *)
(* workflow it was opened with, under that one's name or a typed one.      *)
THEOREM BrowserCorrect == Spec => BrowserIsKept
<1> DEFINE Kept == /\ online => UNCHANGED local
                   /\ \A id \in Local : local'[id] # local[id] =>
                        Alone(id) /\ (Builds(id) \/ Lists(id))
<1>1. IInv /\ [Next]_vars => Kept
  BY LocalStep, BuildStep, ListStep, OtherSteps
<1>2. Kept => /\ online => UNCHANGED local
              /\ \A id \in Local : local'[id] # local[id] =>
                   /\ \A other \in Local \ {id} : local'[other] = local[other]
                   /\ \/ /\ builderOpen
                         /\ editingId = IF local[id] = "absent" THEN NoWorkflow ELSE id
                         /\ canvas = [of |-> editingId, steps |-> local'[id]]
                         /\ draft.of \in {editingId, NoWorkflow}
                      \/ ~builderOpen /\ local'[id] = "absent"
                      \/ /\ ~builderOpen /\ local[id] = "absent"
                         /\ \E other \in Local : local[other] = local'[id]
  BY DEF Alone, Builds, Lists
<1> HIDE DEF Kept
<1>3. QED
  BY <1>1, <1>2, Invariance, PTL DEF Spec, BrowserIsKept

-----------------------------------------------------------------------------
(***************************************************************************)
(* Numbers, induction, and functions defined from one number to the next.  *)
(***************************************************************************)
LEMMA SmallNumbers ==
  /\ \A n \in Nat \ {0} : n = 1 \/ n > 1
  /\ \A n \in Nat : n # 0 => (n <= 1 <=> n = 1)
  /\ \A n \in Nat : \A i \in 1..n : i < n \/ i = n
  /\ \A m, n \in Nat : m <= n => m < n \/ m = n
OBVIOUS

LEMMA LeastNat ==
  ASSUME NEW T \in SUBSET Nat, T # {}
  PROVE  \E x \in T : \A y \in T : x <= y
<1> DEFINE R == {p \in Nat \X Nat : p[1] < p[2]}
<1>1. IsWellFoundedOn(R, Nat)
  BY NatLessThanWellFounded DEF OpToRel
<1>2. \A x, y \in T : <<y, x>> \notin R => x <= y
  OBVIOUS
<1>3. \E x \in T : \A y \in T : <<y, x>> \notin R
  <2> HIDE DEF R
  <2>1. QED
    BY <1>1, WFMin
<1>4. QED
  <2> HIDE DEF R
  <2>1. QED
    BY <1>2, <1>3

(* Induction along a..n.                                                   *)
LEMMA UpTo ==
  ASSUME NEW a \in Nat, NEW n \in Nat, NEW T, a \in T,
         \A k \in a..n : k # a /\ k - 1 \in T => k \in T
  PROVE  \A k \in a..n : k \in T
<1> DEFINE Missing == {k \in a..n : k \notin T}
<1> SUFFICES ASSUME Missing # {} PROVE FALSE
  OBVIOUS
<1>1. PICK x \in Missing : \A y \in Missing : x <= y
  <2>1. Missing \in SUBSET Nat
    OBVIOUS
  <2> HIDE DEF Missing
  <2>2. QED
    BY <2>1, LeastNat
<1>2. x # a /\ x - 1 \in a..n
  OBVIOUS
<1>3. x - 1 \notin T
  BY <1>2
<1>4. x - 1 \in Missing
  BY <1>2, <1>3
<1>5. QED
  BY <1>1, <1>4

(* A function defined by recursion along a..n exists: it begins with b and *)
(* goes on as the step st says.                                            *)
Courses(a, n, S) == [a..n -> S]

Stepping(a, n, S) == [S \X (a..n) -> S]

Unfolds(f, a, n, b, st) ==
  \A k \in a..n : f[k] = IF k = a THEN b ELSE st[<<f[k - 1], k>>]

LEMMA Recursion ==
  ASSUME NEW a \in Nat, NEW n \in Nat, a <= n, NEW S, NEW b \in S,
         NEW st \in Stepping(a, n, S)
  PROVE  \E f \in Courses(a, n, S) : Unfolds(f, a, n, b, st)
<1> USE DEF Courses, Stepping, Unfolds
<1> DEFINE Good(m, f) ==
             f[a] = b /\ \A k \in a..m : k # a => f[k] = st[<<f[k - 1], k>>]
           T == {m \in a..n : \E f \in [a..n -> S] : Good(m, f)}
<1>1. a \in T
  <2> DEFINE f == [k \in a..n |-> b]
  <2>1. f \in [a..n -> S] /\ f[a] = b
    OBVIOUS
  <2>2. Good(a, f)
    BY <2>1
  <2>3. a \in a..n
    OBVIOUS
  <2> HIDE DEF f, Good
  <2>4. QED
    BY <2>1, <2>2, <2>3
<1>2. ASSUME NEW m \in a..n, m # a, m - 1 \in T PROVE m \in T
  <2>1. PICK f \in [a..n -> S] : Good(m - 1, f)
    BY <1>2
  <2>2. m - 1 \in a..n
    BY <1>2
  <2>3. st[<<f[m - 1], m>>] \in S
    <3>1. f[m - 1] \in S
      BY <2>2
    <3>2. <<f[m - 1], m>> \in S \X (a..n)
      BY <3>1
    <3>3. QED
      BY <3>2
  <2> DEFINE g == [f EXCEPT ![m] = st[<<f[m - 1], m>>]]
  <2>4. g \in [a..n -> S]
    BY <2>3
  <2>5. g[m] = st[<<f[m - 1], m>>] /\ \A k \in a..n : k # m => g[k] = f[k]
    OBVIOUS
  <2> HIDE DEF g
  <2>6. g[a] = b
    BY <1>2, <2>1, <2>5
  <2>7. ASSUME NEW k \in a..m, k # a PROVE g[k] = st[<<g[k - 1], k>>]
    <3>1. k - 1 \in a..n /\ k - 1 # m
      BY <2>7
    <3>2. g[k - 1] = f[k - 1]
      BY <3>1, <2>5
    <3>3. CASE k = m
      BY <3>2, <3>3, <2>5
    <3>4. CASE k # m
      <4>1. k \in a..(m - 1)
        BY <3>4
      <4>2. f[k] = st[<<f[k - 1], k>>]
        BY <4>1, <2>1, <2>7
      <4>3. QED
        BY <3>2, <3>4, <4>2, <2>5
    <3>5. QED
      BY <3>3, <3>4
  <2>8. QED
    BY <2>4, <2>6, <2>7
<1>3. n \in T
  <2> HIDE DEF T
  <2>1. n \in a..n
    OBVIOUS
  <2>2. QED
    BY <1>1, <1>2, <2>1, UpTo
<1>4. PICK f \in [a..n -> S] : Good(n, f)
  BY <1>3
<1>5. QED
  BY <1>4

-----------------------------------------------------------------------------
(* Arrays of nodes.                                                        *)

Distinct(ns) == \A i, j \in DOMAIN ns : ns[i] = ns[j] => i = j

LEMMA DistinctIsUnrepeated ==
  ASSUME NEW ns
  PROVE  Distinct(ns) <=> Repeated(ns) = {}
BY DEF Distinct, Repeated, Nodes

LEMMA NodesAreOf ==
  ASSUME NEW N, NEW ns \in Seq(N)
  PROVE  Nodes(ns) \subseteq N
BY LenProperties DEF Nodes

LEMMA NodesOfAppend ==
  ASSUME NEW N, NEW ns \in Seq(N), NEW n \in N
  PROVE  /\ Nodes(Append(ns, n)) = Nodes(ns) \cup {n}
         /\ Distinct(ns) /\ n \notin Nodes(ns) => Distinct(Append(ns, n))
         /\ Repeated(ns) \subseteq Repeated(Append(ns, n))
         /\ n \in Nodes(ns) => n \in Repeated(Append(ns, n))
<1> DEFINE more == Append(ns, n)
<1>1. DOMAIN more = 1..(Len(ns) + 1) /\ DOMAIN ns = 1..Len(ns) /\ Len(ns) \in Nat
  BY AppendProperties, LenProperties
<1>2. \A i \in 1..Len(ns) : more[i] = ns[i]
  BY AppendProperties
<1>3. more[Len(ns) + 1] = n
  BY AppendProperties
<1>4. \A i \in 1..(Len(ns) + 1) : i = Len(ns) + 1 \/ i \in 1..Len(ns)
  BY <1>1
<1> HIDE DEF more
<1>5. Nodes(more) = Nodes(ns) \cup {n}
  BY <1>1, <1>2, <1>3, <1>4 DEF Nodes
<1>6. ASSUME Distinct(ns), n \notin Nodes(ns) PROVE Distinct(more)
  BY <1>1, <1>2, <1>3, <1>4, <1>6 DEF Distinct, Nodes
<1>7. ASSUME NEW m, NEW i \in DOMAIN more, NEW j \in DOMAIN more,
             i # j, more[i] = m, more[j] = m
      PROVE  m \in Repeated(more)
  BY <1>7 DEF Repeated, Nodes
<1>8. ASSUME NEW m \in Repeated(ns) PROVE m \in Repeated(more)
  <2>1. PICK i \in 1..Len(ns), j \in 1..Len(ns) : i # j /\ ns[i] = m /\ ns[j] = m
    BY <1>1 DEF Repeated
  <2>2. i \in DOMAIN more /\ j \in DOMAIN more /\ more[i] = m /\ more[j] = m
    BY <1>1, <1>2, <2>1
  <2>3. QED
    BY <1>7, <2>1, <2>2
<1>9. ASSUME n \in Nodes(ns) PROVE n \in Repeated(more)
  <2>1. PICK i \in 1..Len(ns) : ns[i] = n
    BY <1>1, <1>9 DEF Nodes
  <2>2. i \in DOMAIN more /\ Len(ns) + 1 \in DOMAIN more /\ i # Len(ns) + 1 /\ more[i] = n
    BY <1>1, <1>2, <2>1
  <2>3. QED
    BY <1>3, <1>7, <2>2
<1>10. QED
  BY <1>5, <1>6, <1>8, <1>9 DEF more

LEMMA NodesAreAsMany ==
  ASSUME NEW N, NEW ns \in Seq(N), Distinct(ns)
  PROVE  IsFiniteSet(Nodes(ns)) /\ Cardinality(Nodes(ns)) = Len(ns)
<1>1. DOMAIN ns = 1..Len(ns) /\ Len(ns) \in Nat /\ ns \in [1..Len(ns) -> N]
  BY LenProperties
<1>2. ns \in Bijection(1..Len(ns), Nodes(ns))
  BY <1>1 DEF Nodes, Distinct, Bijection, Injection, Surjection, IsInjective
<1>3. IsFiniteSet(1..Len(ns)) /\ Cardinality(1..Len(ns)) = Len(ns)
  BY <1>1, FS_Interval
<1>4. ExistsBijection(1..Len(ns), Nodes(ns))
  BY <1>2 DEF ExistsBijection
<1>5. QED
  BY <1>1, <1>3, <1>4, FS_Bijection DEF Nodes

(* Removing takes the nodes out and keeps the others as they were, those   *)
(* with an id that repeats among them.                                     *)
LEMMA WithoutFacts ==
  ASSUME NEW N, NEW ns \in Seq(N), NEW ids
  PROVE  /\ Without(ns, ids) \in Seq(N)
         /\ Nodes(Without(ns, ids)) = Nodes(ns) \ ids
         /\ Repeated(ns) \ ids \subseteq Repeated(Without(ns, ids))
<1> DEFINE n == Len(ns)
           Upto(k) == {ns[i] : i \in 1..k}
           Again(k) == {m \in Upto(k) : \E i, j \in 1..k : i # j /\ ns[i] = m /\ ns[j] = m}
           F(f) == f = [k \in 0..n |->
                          IF k = 0 THEN <<>>
                          ELSE IF ns[k] \in ids THEN f[k - 1] ELSE Append(f[k - 1], ns[k])]
           st == [p \in Seq(N) \X (0..n) |->
                    IF p[2] = 0 \/ ns[p[2]] \in ids THEN p[1] ELSE Append(p[1], ns[p[2]])]
           kept == CHOOSE f : F(f)
           Good == {k \in 0..n : /\ kept[k] \in Seq(N)
                                 /\ Nodes(kept[k]) = Upto(k) \ ids
                                 /\ Again(k) \ ids \subseteq Repeated(kept[k])}
<1>1. n \in Nat /\ DOMAIN ns = 1..n /\ \A i \in 1..n : ns[i] \in N
  BY LenProperties
<1>2. Without(ns, ids) = kept[n]
  BY DEF Without
<1>3. F(kept)
  <2>1. \A s \in Seq(N), k \in 0..n : k # 0 => Append(s, ns[k]) \in Seq(N)
    BY <1>1, AppendProperties
  <2>2. \A s \in Seq(N), k \in 0..n :
          st[<<s, k>>] = IF k = 0 \/ ns[k] \in ids THEN s ELSE Append(s, ns[k])
    OBVIOUS
  <2>3. st \in Stepping(0, n, Seq(N))
    BY <1>1, <2>1 DEF Stepping
  <2> HIDE DEF st
  <2>4. PICK f \in Courses(0, n, Seq(N)) : Unfolds(f, 0, n, <<>>, st)
    <3> DEFINE S == Seq(N)
               b == <<>>
    <3>1. b \in S /\ st \in Stepping(0, n, S)
      BY <2>3, EmptySeq
    <3>2. 0 \in Nat /\ n \in Nat /\ 0 <= n
      BY <1>1
    <3> HIDE DEF S, b, n
    <3>3. \E f \in Courses(0, n, S) : Unfolds(f, 0, n, b, st)
      BY <3>1, <3>2, Recursion
    <3>4. QED
      BY <3>3 DEF S, b
  <2>5. \A k \in 0..n : k # 0 => k - 1 \in 0..n /\ f[k - 1] \in Seq(N)
    BY <1>1 DEF Courses
  <2>6. \A k \in 0..n : k # 0 =>
          st[<<f[k - 1], k>>] = IF ns[k] \in ids THEN f[k - 1] ELSE Append(f[k - 1], ns[k])
    BY <2>2, <2>5
  <2>7. F(f)
    BY <2>4, <2>6 DEF Courses, Unfolds
  <2> HIDE DEF F
  <2>8. QED
    BY <2>7
<1> HIDE DEF kept
<1>4. 0 \in Good
  <2>1. kept[0] = <<>>
    BY <1>1, <1>3
  <2>2. <<>> \in Seq(N) /\ DOMAIN <<>> = {}
    BY EmptySeq
  <2>3. Upto(0) = {} /\ Again(0) = {} /\ Nodes(<<>>) = {}
    BY <2>2 DEF Nodes
  <2>4. /\ kept[0] \in Seq(N) /\ Nodes(kept[0]) = Upto(0) \ ids
        /\ Again(0) \ ids \subseteq Repeated(kept[0])
    <3> HIDE DEF Upto, Again
    <3>1. QED
      BY <2>1, <2>2, <2>3
  <2>5. QED
    BY <1>1, <2>4
<1>5. ASSUME NEW k \in 0..n, k # 0, k - 1 \in Good PROVE k \in Good
  <2>1. k \in 1..n /\ Upto(k) = Upto(k - 1) \cup {ns[k]} /\ ns[k] \in N
    BY <1>1, <1>5
  <2>2. ASSUME NEW m \in Again(k), m \notin Again(k - 1)
        PROVE  m = ns[k] /\ m \in Upto(k - 1)
    <3>1. PICK i \in 1..k, j \in 1..k : i # j /\ ns[i] = m /\ ns[j] = m
      OBVIOUS
    <3>2. (i = k \/ i \in 1..(k - 1)) /\ (j = k \/ j \in 1..(k - 1))
      BY <1>1, <2>1
    <3>3. ~(i \in 1..(k - 1) /\ j \in 1..(k - 1))
      BY <2>2, <3>1
    <3>4. QED
      BY <3>1, <3>2, <3>3
  <2>3. /\ kept[k - 1] \in Seq(N) /\ Nodes(kept[k - 1]) = Upto(k - 1) \ ids
        /\ Again(k - 1) \ ids \subseteq Repeated(kept[k - 1])
    BY <1>5
  <2> HIDE DEF Upto, Again
  <2>4. CASE ns[k] \in ids
    <3>1. kept[k] = kept[k - 1]
      BY <1>3, <1>5, <2>4
    <3>2. Again(k) \ ids \subseteq Again(k - 1)
      BY <2>2, <2>4
    <3>3. QED
      BY <1>5, <2>1, <2>3, <2>4, <3>1, <3>2
  <2>5. CASE ns[k] \notin ids
    <3>1. kept[k] = Append(kept[k - 1], ns[k])
      BY <1>3, <1>5, <2>5
    <3>2. kept[k] \in Seq(N)
      BY <2>1, <2>3, <3>1, AppendProperties
    <3>3. /\ Nodes(kept[k]) = Nodes(kept[k - 1]) \cup {ns[k]}
          /\ Repeated(kept[k - 1]) \subseteq Repeated(kept[k])
          /\ ns[k] \in Nodes(kept[k - 1]) => ns[k] \in Repeated(kept[k])
      BY <2>1, <2>3, <3>1, NodesOfAppend
    <3>4. Nodes(kept[k]) = Upto(k) \ ids
      BY <2>1, <2>3, <2>5, <3>3
    <3>5. Again(k) \ ids \subseteq Repeated(kept[k])
      BY <2>2, <2>3, <2>5, <3>3
    <3>6. QED
      BY <3>2, <3>4, <3>5
  <2>6. QED
    BY <2>4, <2>5
<1>6. n \in Good
  <2> HIDE DEF Good
  <2>1. \A k \in 0..n : k \in Good
    BY <1>1, <1>4, <1>5, UpTo
  <2>2. QED
    BY <1>1, <2>1
<1>7. Nodes(ns) = Upto(n) /\ Repeated(ns) = Again(n)
  BY <1>1 DEF Nodes, Repeated
<1>8. QED
  <2> HIDE DEF Upto, Again
  <2>1. QED
    BY <1>2, <1>6, <1>7

-----------------------------------------------------------------------------
(* validateGraph.                                                          *)

ClosedUnder(es, S) == \A e \in es : e[1] \in S => e[2] \in S

(* The walk for the cycle visits the steps that can be reached from a      *)
(* start: those of every set that has the starts and is closed under the   *)
(* edges.  It is long enough: as long as a round of it adds a step, there  *)
(* are as many steps visited as rounds made.                               *)
LEMMA VisitedFacts ==
  ASSUME NEW N, NEW ns \in Seq(N), Distinct(ns), NEW es \in SUBSET (Nodes(ns) \X Nodes(ns))
  PROVE  /\ Visited(ns, es) \subseteq Nodes(ns)
         /\ Roots(ns, es) \subseteq Visited(ns, es)
         /\ ClosedUnder(es, Visited(ns, es))
         /\ \A S : Roots(ns, es) \subseteq S /\ ClosedUnder(es, S) => Visited(ns, es) \subseteq S
<1> DEFINE n == Len(ns)
           V == Nodes(ns)
           R == Roots(ns, es)
           More(S) == S \cup {e[2] : e \in {f \in es : f[1] \in S}}
           F(f) == f = [k \in 0..n |-> IF k = 0 THEN R ELSE More(f[k - 1])]
           Sets == SUBSET V
           st == [p \in Sets \X (0..n) |-> More(p[1])]
           w == CHOOSE f : F(f)
<1>1. /\ n \in Nat /\ IsFiniteSet(V) /\ Cardinality(V) = n
      /\ R \in SUBSET V
  BY NodesAreAsMany, LenProperties DEF Roots
<1>2. Visited(ns, es) = w[n]
  BY DEF Visited
<1>3. \A S \in SUBSET V : /\ More(S) \in SUBSET V /\ S \subseteq More(S)
                          /\ ClosedUnder(es, S) => More(S) = S
                          /\ ~ClosedUnder(es, S) => More(S) # S
  BY DEF ClosedUnder
<1>4. F(w)
  <2>1. R \in Sets /\ \A S \in Sets : More(S) \in Sets
    BY <1>1, <1>3
  <2>2. /\ st \in Stepping(0, n, Sets)
        /\ \A S \in Sets, k \in 0..n : st[<<S, k>>] = More(S)
    <3> HIDE DEF More, n, Sets
    <3>1. QED
      BY <2>1 DEF Stepping
  <2>3. PICK f \in Courses(0, n, Sets) : Unfolds(f, 0, n, R, st)
    <3>1. 0 \in Nat /\ n \in Nat /\ 0 <= n
      BY <1>1
    <3> HIDE DEF Sets, R, n, st
    <3>2. QED
      BY <2>1, <2>2, <3>1, Recursion
  <2> HIDE DEF st
  <2>4. \A k \in 0..n : k # 0 => st[<<f[k - 1], k>>] = More(f[k - 1])
    <3> HIDE DEF More, Sets
    <3>1. \A k \in 0..n : k # 0 => k - 1 \in 0..n /\ f[k - 1] \in Sets
      BY <1>1 DEF Courses
    <3>2. QED
      BY <2>2, <3>1
  <2>5. F(f)
    <3> HIDE DEF Sets, R, More
    <3>1. QED
      BY <2>3, <2>4 DEF Courses, Unfolds
  <2> HIDE DEF F
  <2>6. QED
    BY <2>5
<1>5. w[0] = R /\ \A k \in 0..n : k # 0 => w[k] = More(w[k - 1])
  <2> HIDE DEF w, R, More
  <2>1. QED
    BY <1>1, <1>4
<1> HIDE DEF w, More, n, V, R
<1>6. \A k \in 0..n : w[k] \in SUBSET V /\ R \subseteq w[k]
  <2> DEFINE T == {k \in 0..n : w[k] \in SUBSET V /\ R \subseteq w[k]}
  <2>1. 0 \in T
    BY <1>1, <1>5
  <2>2. \A k \in 0..n : k # 0 /\ k - 1 \in T => k \in T
    BY <1>3, <1>5
  <2> HIDE DEF T
  <2>3. \A k \in 0..n : k \in T
    BY <1>1, <2>1, <2>2, UpTo
  <2>4. QED
    BY <2>3 DEF T
<1>7. ClosedUnder(es, w[n])
  <2> DEFINE T == {k \in 0..n : ClosedUnder(es, w[k]) \/ Cardinality(w[k]) >= k}
  <2>1. \A k \in 0..n : IsFiniteSet(w[k]) /\ Cardinality(w[k]) \in Nat
    BY <1>1, <1>6, FS_Subset, FS_CardinalityType
  <2>2. 0 \in T
    BY <1>1, <2>1
  <2>3. ASSUME NEW k \in 0..n, k # 0, k - 1 \in T PROVE k \in T
    <3>1. k - 1 \in 0..n /\ w[k] = More(w[k - 1]) /\ w[k - 1] \in SUBSET V
      BY <1>1, <1>5, <1>6, <2>3
    <3>2. CASE ClosedUnder(es, w[k - 1])
      BY <1>3, <3>1, <3>2
    <3>3. CASE ~ClosedUnder(es, w[k - 1])
      <4>1. w[k - 1] \in SUBSET w[k] /\ w[k - 1] # w[k]
        BY <1>3, <3>1, <3>3
      <4>2. Cardinality(w[k - 1]) < Cardinality(w[k])
        <5>1. /\ Cardinality(w[k - 1]) <= Cardinality(w[k])
              /\ Cardinality(w[k - 1]) # Cardinality(w[k])
          BY <2>1, <4>1, FS_Subset
        <5>2. QED
          BY <2>1, <3>1, <5>1
      <4>3. Cardinality(w[k - 1]) >= k - 1
        BY <2>3, <3>3
      <4>4. QED
        BY <2>1, <3>1, <4>2, <4>3
    <3>4. QED
      BY <3>2, <3>3
  <2>4. n \in T
    <3> HIDE DEF T
    <3>1. \A k \in 0..n : k \in T
      BY <1>1, <2>2, <2>3, UpTo
    <3>2. QED
      BY <1>1, <3>1
  <2>5. CASE Cardinality(w[n]) >= n
    <3>1. w[n] \in SUBSET V /\ Cardinality(w[n]) = Cardinality(V)
      <4>1. w[n] \in SUBSET V /\ n \in 0..n
        BY <1>1, <1>6
      <4>2. Cardinality(w[n]) <= Cardinality(V)
        BY <1>1, <4>1, FS_Subset
      <4>3. QED
        BY <1>1, <2>1, <2>5, <4>1, <4>2
    <3>2. w[n] = V
      BY <1>1, <3>1, FS_Subset
    <3>3. QED
      BY <3>2 DEF ClosedUnder, V
  <2>6. QED
    BY <2>4, <2>5
<1>8. ASSUME NEW S, R \subseteq S, ClosedUnder(es, S) PROVE w[n] \subseteq S
  <2> DEFINE T == {k \in 0..n : w[k] \subseteq S}
  <2>1. 0 \in T
    BY <1>1, <1>5, <1>8
  <2>2. \A k \in 0..n : k # 0 /\ k - 1 \in T => k \in T
    BY <1>5, <1>8 DEF More, ClosedUnder
  <2> HIDE DEF T
  <2>3. \A k \in 0..n : k \in T
    BY <1>1, <2>1, <2>2, UpTo
  <2>4. QED
    BY <1>1, <2>3 DEF T
<1>9. n \in 0..n
  BY <1>1
<1>10. QED
  BY <1>2, <1>6, <1>7, <1>8, <1>9 DEF R, V

Linear(ns, es) ==
  /\ Distinct(ns)
  /\ es \subseteq Nodes(ns) \X Nodes(ns)
  /\ \A e \in es : e[1] # e[2]
  /\ \A e, f \in es : e[1] = f[1] \/ e[2] = f[2] => e = f

Lone(es, n) == \A e \in es : n \notin {e[1], e[2]}

IsRing(es, S) == \A n \in S : \E m \in S : <<m, n>> \in es

(* On a canvas whose edges are those of chains a step has an edge out or   *)
(* none, and one in or none: only a lone step has an error of its own.     *)
LEMMA CountsOfLinear ==
  ASSUME NEW ns, NEW es, Linear(ns, es)
  PROVE  /\ Counted(ns, es) = es
         /\ \A n : /\ OutCount(ns, es, n) = IF \E e \in es : e[1] = n THEN 1 ELSE 0
                   /\ InCount(ns, es, n) = IF \E e \in es : e[2] = n THEN 1 ELSE 0
         /\ \A n : n \in Roots(ns, es) <=> n \in Nodes(ns) /\ \A e \in es : e[2] # n
         /\ StepErrors(ns, es) = {} <=> \A n \in Nodes(ns) : ~Lone(es, n)
<1>1. Counted(ns, es) = es
  BY DEF Linear, Counted
<1>2. \A S : (\A e, f \in S : e = f) =>
          Cardinality(S) = IF \E e : e \in S THEN 1 ELSE 0
  <2> SUFFICES ASSUME NEW S, \A e, f \in S : e = f
               PROVE  Cardinality(S) = IF \E e : e \in S THEN 1 ELSE 0
    OBVIOUS
  <2>1. CASE S = {}
    BY <2>1, FS_EmptySet
  <2>2. CASE S # {}
    <3>1. PICK e : S = {e}
      BY <2>2
    <3>2. QED
      BY <3>1, FS_Singleton
  <2>3. QED
    BY <2>1, <2>2
<1>3. ASSUME NEW n
      PROVE  /\ OutCount(ns, es, n) = IF \E e \in es : e[1] = n THEN 1 ELSE 0
             /\ InCount(ns, es, n) = IF \E e \in es : e[2] = n THEN 1 ELSE 0
  <2> DEFINE out == {e \in es : e[1] = n}
             in == {e \in es : e[2] = n}
  <2>1. (\A e, f \in out : e = f) /\ (\A e, f \in in : e = f)
    BY DEF Linear
  <2>2. /\ (\E e : e \in out) <=> \E e \in es : e[1] = n
        /\ (\E e : e \in in) <=> \E e \in es : e[2] = n
    OBVIOUS
  <2>3. OutCount(ns, es, n) = Cardinality(out) /\ InCount(ns, es, n) = Cardinality(in)
    BY <1>1 DEF OutCount, InCount
  <2> HIDE DEF out, in
  <2>4. QED
    BY <1>2, <2>1, <2>2, <2>3
<1>4. \A n : n \in Roots(ns, es) <=> n \in Nodes(ns) /\ \A e \in es : e[2] # n
  BY <1>3 DEF Roots
<1>5. StepErrors(ns, es) = {} <=> \A n \in Nodes(ns) : ~Lone(es, n)
  <2>1. \A n : <<n, n>> \notin es
    BY DEF Linear
  <2>2. \A n : ~(OutCount(ns, es, n) > 1) /\ ~(InCount(ns, es, n) > 1)
    BY <1>3
  <2>3. \A n : OutCount(ns, es, n) = 0 /\ InCount(ns, es, n) = 0 <=> Lone(es, n)
    BY <1>3 DEF Lone
  <2>4. Repeated(ns) = {}
    BY DistinctIsUnrepeated DEF Linear
  <2>5. StepErrors(ns, es) = {<<"unconnected", n>> : n \in {m \in Nodes(ns) : Lone(es, m)}}
    BY <2>1, <2>2, <2>3, <2>4 DEF StepErrors
  <2>6. QED
    BY <2>5
<1>6. QED
  BY <1>1, <1>3, <1>4, <1>5

LEMMA ErrorsAre ==
  ASSUME NEW ns, NEW es
  PROVE  GraphErrors(ns, es) =
           IF Len(ns) <= 1 THEN {}
           ELSE IF StepErrors(ns, es) # {} THEN StepErrors(ns, es)
           ELSE IF Cardinality(Visited(ns, es)) < Len(ns) THEN {<<"cycle">>} ELSE {}
BY DEF GraphErrors

(* validateGraph finds an error exactly when a graph of two steps or more  *)
(* has a lone step or a ring: what is not visited is a ring, as each step  *)
(* of it has an edge in, and of a ring nothing is visited.                 *)
LEMMA ErrorsOfLinear ==
  ASSUME NEW N, NEW ns \in Seq(N), NEW es, Linear(ns, es)
  PROVE  GraphErrors(ns, es) # {} <=>
           /\ Len(ns) > 1
           /\ \/ \E n \in Nodes(ns) : Lone(es, n)
              \/ \E ring \in (SUBSET Nodes(ns)) \ {{}} : IsRing(es, ring)
<1> DEFINE V == Visited(ns, es)
<1>1. Distinct(ns) /\ es \in SUBSET (Nodes(ns) \X Nodes(ns))
  BY DEF Linear
<1>2. /\ V \subseteq Nodes(ns)
      /\ ClosedUnder(es, V)
      /\ Roots(ns, es) \subseteq V
      /\ \A S : Roots(ns, es) \subseteq S /\ ClosedUnder(es, S) => V \subseteq S
  BY <1>1, VisitedFacts
<1>3. \A n : n \in Roots(ns, es) <=> n \in Nodes(ns) /\ \A e \in es : e[2] # n
  BY CountsOfLinear
<1>4. StepErrors(ns, es) = {} <=> \A n \in Nodes(ns) : ~Lone(es, n)
  BY CountsOfLinear
<1>5. Cardinality(V) < Len(ns) <=> V # Nodes(ns)
  <2>1. IsFiniteSet(Nodes(ns)) /\ Cardinality(Nodes(ns)) = Len(ns)
    BY <1>1, NodesAreAsMany
  <2>2. /\ Cardinality(V) <= Cardinality(Nodes(ns))
        /\ Cardinality(Nodes(ns)) = Cardinality(V) => Nodes(ns) = V
    BY <1>2, <2>1, FS_Subset
  <2>3. Cardinality(V) \in Nat
    BY <1>2, <2>1, FS_Subset, FS_CardinalityType
  <2>4. Len(ns) \in Nat
    BY LenProperties
  <2> HIDE DEF V
  <2>5. QED
    BY <2>1, <2>2, <2>3, <2>4
<1> HIDE DEF V
<1>6. ASSUME V # Nodes(ns)
      PROVE  \E ring \in (SUBSET Nodes(ns)) \ {{}} : IsRing(es, ring)
  <2> DEFINE ring == Nodes(ns) \ V
  <2>1. ring \in (SUBSET Nodes(ns)) \ {{}}
    BY <1>2, <1>6
  <2>2. ASSUME NEW n \in ring PROVE \E m \in ring : <<m, n>> \in es
    <3>1. PICK e \in es : e[2] = n
      BY <1>2, <1>3
    <3>2. e = <<e[1], n>> /\ e[1] \in Nodes(ns)
      BY <1>1, <3>1
    <3>3. e[1] \notin V
      BY <1>2, <3>1 DEF ClosedUnder
    <3>4. QED
      BY <3>2, <3>3
  <2>3. QED
    BY <2>1, <2>2 DEF IsRing
<1>7. ASSUME NEW ring \in (SUBSET Nodes(ns)) \ {{}}, IsRing(es, ring)
      PROVE  V # Nodes(ns)
  <2> DEFINE S == Nodes(ns) \ ring
  <2>1. Roots(ns, es) \subseteq S
    <3>1. \A n \in ring : \E e \in es : e[2] = n
      BY <1>7 DEF IsRing
    <3>2. QED
      BY <1>3, <3>1
  <2>2. ASSUME NEW e \in es, e[1] \in S PROVE e[2] \in S
    <3> SUFFICES ASSUME e[2] \in ring PROVE FALSE
      BY <1>1
    <3>1. PICK m \in ring : <<m, e[2]>> \in es
      BY <1>7 DEF IsRing
    <3>2. e = <<m, e[2]>>
      BY <3>1 DEF Linear
    <3>3. QED
      BY <2>2, <3>1, <3>2
  <2>3. V \subseteq S
    BY <1>2, <2>1, <2>2 DEF ClosedUnder
  <2>4. QED
    BY <1>7, <2>3
<1>8. GraphErrors(ns, es) # {} <=>
        Len(ns) > 1 /\ (StepErrors(ns, es) # {} \/ V # Nodes(ns))
  <2>1. Len(ns) \in Nat
    BY LenProperties
  <2>2. GraphErrors(ns, es) =
          IF Len(ns) <= 1 THEN {}
          ELSE IF StepErrors(ns, es) # {} THEN StepErrors(ns, es)
          ELSE IF Cardinality(V) < Len(ns) THEN {<<"cycle">>} ELSE {}
    BY ErrorsAre DEF V
  <2>3. CASE Len(ns) <= 1
    BY <2>1, <2>2, <2>3
  <2>4. CASE ~(Len(ns) <= 1)
    <3>1. Len(ns) > 1
      BY <2>1, <2>4
    <3>2. CASE StepErrors(ns, es) # {}
      BY <2>2, <2>4, <3>1, <3>2, Zenon
    <3>3. CASE StepErrors(ns, es) = {}
      BY <1>5, <2>2, <2>4, <3>1, <3>3
    <3>4. QED
      BY <3>2, <3>3
  <2>5. QED
    BY <2>3, <2>4
<1>9. QED
  BY <1>4, <1>6, <1>7, <1>8

-----------------------------------------------------------------------------
(* graphToSteps.                                                           *)

Chain(es, s) == \A i \in 1..(Len(s) - 1) : <<s[i], s[i + 1]>> \in es

Stuck(es, s) == \A e \in es : e[1] = s[Len(s)] => e[2] \in Nodes(s)

LEMMA RootNodeFacts ==
  ASSUME NEW N, NEW ns \in Seq(N), ns # <<>>, NEW es, Linear(ns, es)
  PROVE  /\ RootNode(ns, es) \in Nodes(ns)
         /\ Roots(ns, es) # {} => RootNode(ns, es) \in Roots(ns, es)
<1> DEFINE starts == {i \in DOMAIN ns : \A e \in Counted(ns, es) : e[2] # ns[i]}
           first == CHOOSE i \in starts : \A j \in starts : i <= j
<1>1. Len(ns) \in Nat \ {0} /\ DOMAIN ns = 1..Len(ns)
  BY EmptySeq, LenProperties
<1>2. RootNode(ns, es) = ns[IF starts = {} THEN 1 ELSE first]
  BY DEF RootNode
<1>3. \A n : n \in Roots(ns, es) <=> \E i \in starts : n = ns[i]
  BY CountsOfLinear DEF Nodes
<1>4. starts # {} => first \in starts
  <2>1. starts \in SUBSET Nat
    BY <1>1
  <2> HIDE DEF starts
  <2>2. starts # {} => \E i \in starts : \A j \in starts : i <= j
    BY <2>1, LeastNat
  <2>3. QED
    BY <2>2
<1> HIDE DEF first
<1>5. (IF starts = {} THEN 1 ELSE first) \in DOMAIN ns
  BY <1>1, <1>4
<1>6. RootNode(ns, es) \in Nodes(ns)
  <2> HIDE DEF starts
  <2>1. QED
    BY <1>2, <1>5 DEF Nodes
<1>7. Roots(ns, es) # {} => RootNode(ns, es) \in Roots(ns, es)
  <2> HIDE DEF starts
  <2>1. QED
    BY <1>2, <1>3, <1>4
<1>8. QED
  BY <1>6, <1>7

(* A step of the walk leaves it where it is stuck, or makes it longer.     *)
LEMMA FollowFacts ==
  ASSUME NEW ns, NEW es, Linear(ns, es),
         NEW s \in Seq(Nodes(ns)), s # <<>>, Distinct(s), Chain(es, s)
  PROVE  LET t == Follow(ns, es, s)
         IN  \/ t = s /\ Stuck(es, s)
             \/ /\ ~Stuck(es, s)
                /\ t \in Seq(Nodes(ns)) /\ Len(t) = Len(s) + 1
                /\ t[1] = s[1] /\ Distinct(t) /\ Chain(es, t)
<1> DEFINE V == Nodes(ns)
           next == {e[2] : e \in {f \in Counted(ns, es) : f[1] = s[Len(s)]}} \ Nodes(s)
           n == CHOOSE m \in next : TRUE
<1>1. Counted(ns, es) = es
  BY CountsOfLinear
<1>2. Follow(ns, es, s) = IF next = {} THEN s ELSE Append(s, n)
  BY DEF Follow
<1>3. CASE next = {}
  <2>1. Stuck(es, s)
    BY <1>1, <1>3 DEF Stuck
  <2> HIDE DEF next
  <2>2. QED
    BY <1>2, <1>3, <2>1
<1>4. CASE next # {}
  <2>1. n \in next
    <3> HIDE DEF next
    <3>1. QED
      BY <1>4
  <2> HIDE DEF n
  <2>2. PICK e \in es : e[1] = s[Len(s)] /\ e[2] = n
    BY <1>1, <2>1
  <2>3. <<s[Len(s)], n>> \in es /\ n \in V /\ n \notin Nodes(s)
    BY <2>1, <2>2 DEF Linear
  <2> DEFINE t == Append(s, n)
  <2>4. /\ t \in Seq(V) /\ Len(t) = Len(s) + 1
        /\ \A i \in 1..Len(s) : t[i] = s[i]
        /\ t[Len(s) + 1] = n
    <3> HIDE DEF V
    <3>1. QED
      BY <2>3, AppendProperties DEF V
  <2>5. Distinct(t)
    BY <2>3, NodesOfAppend
  <2>6. Len(s) \in Nat \ {0}
    BY EmptySeq
  <2> HIDE DEF t, V
  <2>7. Chain(es, t)
    <3> SUFFICES ASSUME NEW i \in 1..(Len(t) - 1) PROVE <<t[i], t[i + 1]>> \in es
      BY DEF Chain
    <3>1. i \in 1..Len(s)
      BY <2>4, <2>6
    <3>2. CASE i = Len(s)
      BY <2>3, <2>4, <3>1, <3>2
    <3>3. CASE i # Len(s)
      <4>1. i \in 1..(Len(s) - 1) /\ i + 1 \in 1..Len(s)
        BY <2>6, <3>1, <3>3
      <4>2. <<s[i], s[i + 1]>> \in es
        BY <4>1 DEF Chain
      <4>3. QED
        BY <2>4, <3>1, <4>1, <4>2
    <3>4. QED
      BY <3>2, <3>3
  <2>8. t[1] = s[1]
    BY <2>4, <2>6
  <2>9. Follow(ns, es, s) = t
    BY <1>2, <1>4 DEF t
  <2>10. ~Stuck(es, s)
    BY <2>2, <2>3 DEF Stuck
  <2>11. QED
    BY <2>4, <2>5, <2>7, <2>8, <2>9, <2>10 DEF V
<1>5. QED
  BY <1>3, <1>4

(* What graphToSteps compiles: a chain that begins at the root, where no   *)
(* edge ends, and from whose last step none goes on.                       *)
IsWholeChain(ns, es, s) ==
  /\ s \in Seq(Nodes(ns)) /\ s # <<>> /\ Distinct(s)
  /\ Chain(es, s)
  /\ \A e \in es : e[2] # s[1] /\ e[1] # s[Len(s)]

(* The walk, as long as the array: it is stuck, or has taken a step in     *)
(* each of its rounds and thus every one.                                  *)
LEMMA WalkFacts ==
  ASSUME NEW N, NEW ns \in Seq(N), ns # <<>>, NEW es, Linear(ns, es),
         GraphErrors(ns, es) = {}
  PROVE  LET s == GraphToSteps(ns, es)
         IN  /\ s \in Seq(Nodes(ns)) /\ s # <<>> /\ Distinct(s) /\ Chain(es, s)
             /\ s[1] = RootNode(ns, es)
             /\ Stuck(es, s)
<1> DEFINE n == Len(ns)
           V == Nodes(ns)
           Seqs == Seq(V)
           root == RootNode(ns, es)
           More(s) == Follow(ns, es, s)
           F(f) == f = [k \in 1..n |-> IF k = 1 THEN <<root>> ELSE More(f[k - 1])]
           st == [p \in Seqs \X (1..n) |-> More(p[1])]
           w == CHOOSE f : F(f)
           Walk(s) == /\ s \in Seqs /\ s # <<>> /\ Distinct(s) /\ Chain(es, s)
                      /\ s[1] = root
           Good == {k \in 1..n : Walk(w[k]) /\ (Stuck(es, w[k]) \/ Len(w[k]) = k)}
<1>1. n \in Nat \ {0} /\ 1 \in 1..n /\ n \in 1..n
  BY EmptySeq
<1>2. GraphToSteps(ns, es) = w[n]
  BY DEF GraphToSteps
<1>3. root \in V /\ <<root>> \in Seqs /\ <<root>> # <<>> /\ Len(<<root>>) = 1 /\ <<root>>[1] = root
  BY RootNodeFacts
<1>4. \A s \in Seqs : More(s) \in Seqs
  <2> SUFFICES ASSUME NEW s \in Seqs PROVE More(s) \in Seqs
    OBVIOUS
  <2> DEFINE next == {e[2] : e \in {f \in Counted(ns, es) : f[1] = s[Len(s)]}} \ Nodes(s)
             m == CHOOSE x \in next : TRUE
  <2>1. More(s) = IF next = {} THEN s ELSE Append(s, m)
    BY DEF Follow
  <2>2. next \subseteq V
    BY DEF Counted
  <2> HIDE DEF next, More, V
  <2>3. next # {} => m \in V
    BY <2>2
  <2> HIDE DEF m
  <2>4. QED
    BY <2>1, <2>3, AppendProperties
<1>5. F(w)
  <2>1. /\ st \in Stepping(1, n, Seqs)
        /\ \A s \in Seqs, k \in 1..n : st[<<s, k>>] = More(s)
    <3> HIDE DEF More, n, Seqs
    <3>1. QED
      BY <1>4 DEF Stepping
  <2>2. PICK f \in Courses(1, n, Seqs) : Unfolds(f, 1, n, <<root>>, st)
    <3> DEFINE b == <<root>>
    <3>1. 1 \in Nat /\ n \in Nat /\ 1 <= n /\ b \in Seqs
      BY <1>1, <1>3
    <3> HIDE DEF Seqs, b, n, st
    <3>2. \E f \in Courses(1, n, Seqs) : Unfolds(f, 1, n, b, st)
      BY <2>1, <3>1, Recursion
    <3>3. QED
      BY <3>2 DEF b
  <2> HIDE DEF st
  <2>3. \A k \in 1..n : k # 1 => st[<<f[k - 1], k>>] = More(f[k - 1])
    <3> HIDE DEF More, Seqs
    <3>1. \A k \in 1..n : k # 1 => k - 1 \in 1..n /\ f[k - 1] \in Seqs
      BY <1>1 DEF Courses
    <3>2. QED
      BY <2>1, <3>1
  <2>4. F(f)
    <3> HIDE DEF Seqs, root, More
    <3>1. f = [k \in 1..n |-> f[k]]
      BY <2>2 DEF Courses
    <3>2. \A k \in 1..n : f[k] = IF k = 1 THEN <<root>> ELSE More(f[k - 1])
      BY <2>2, <2>3 DEF Unfolds
    <3>3. QED
      BY <3>1, <3>2
  <2> HIDE DEF F
  <2>5. QED
    BY <2>4
<1>6. w[1] = <<root>> /\ \A k \in 1..n : k # 1 => w[k] = More(w[k - 1])
  <2> HIDE DEF w, root, More
  <2>1. QED
    BY <1>1, <1>5
<1> HIDE DEF w, n, root
<1>7. 1 \in Good
  <2>1. Distinct(<<root>>) /\ Chain(es, <<root>>)
    BY DEF Distinct, Chain
  <2>2. QED
    BY <1>1, <1>3, <1>6, <2>1
<1>8. ASSUME NEW k \in 1..n, k # 1, k - 1 \in Good PROVE k \in Good
  <2> DEFINE s == w[k - 1]
             t == w[k]
  <2>1. k - 1 \in 1..n /\ Walk(s) /\ (Stuck(es, s) \/ Len(s) = k - 1)
    BY <1>8
  <2>2. t = Follow(ns, es, s)
    BY <1>6, <1>8
  <2> HIDE DEF s, t
  <2>3. \/ t = s /\ Stuck(es, s)
        \/ /\ ~Stuck(es, s)
           /\ t \in Seq(Nodes(ns)) /\ Len(t) = Len(s) + 1
           /\ t[1] = s[1] /\ Distinct(t) /\ Chain(es, t)
    BY <2>1, <2>2, FollowFacts
  <2>4. CASE t = s /\ Stuck(es, s)
    BY <2>1, <2>4 DEF t
  <2>5. CASE /\ ~Stuck(es, s)
             /\ t \in Seq(Nodes(ns)) /\ Len(t) = Len(s) + 1
             /\ t[1] = s[1] /\ Distinct(t) /\ Chain(es, t)
    <3>1. Len(s) \in Nat
      BY <2>1, LenProperties
    <3>2. t # <<>>
      BY <2>5, <3>1, EmptySeq
    <3>3. Walk(t) /\ Len(t) = k
      BY <1>1, <2>1, <2>5, <3>2
    <3>4. QED
      BY <3>3 DEF t
  <2>6. QED
    BY <2>3, <2>4, <2>5
<1>9. Walk(w[n]) /\ Stuck(es, w[n])
  <2>1. n \in Good
    <3> HIDE DEF Good
    <3>1. \A k \in 1..n : k \in Good
      BY <1>1, <1>7, <1>8, UpTo
    <3>2. QED
      BY <1>1, <3>1
  <2>2. CASE Len(w[n]) = n
    <3> DEFINE s == w[n]
    <3>1. s \in Seq(V) /\ Distinct(s)
      BY <2>1
    <3> HIDE DEF s, V
    <3>2. IsFiniteSet(Nodes(s)) /\ Cardinality(Nodes(s)) = Len(s) /\ Nodes(s) \subseteq V
      BY <3>1, NodesAreAsMany, NodesAreOf
    <3>3. IsFiniteSet(V) /\ Cardinality(V) = n
      BY NodesAreAsMany DEF V, n, Linear
    <3>4. Nodes(s) = V
      BY <2>2, <3>2, <3>3, FS_Subset DEF s
    <3>5. Stuck(es, s)
      BY <3>4 DEF Stuck, Linear, V
    <3>6. QED
      BY <2>1, <3>5 DEF s
  <2>3. QED
    BY <2>1, <2>2
<1>10. QED
  BY <1>2, <1>9 DEF root

LEMMA CompiledIsWhole ==
  ASSUME NEW N, NEW ns \in Seq(N), ns # <<>>, NEW es, Linear(ns, es),
         GraphErrors(ns, es) = {}
  PROVE  IsWholeChain(ns, es, GraphToSteps(ns, es))
<1> DEFINE s == GraphToSteps(ns, es)
<1>1. /\ s \in Seq(Nodes(ns)) /\ s # <<>> /\ Distinct(s) /\ Chain(es, s)
      /\ s[1] = RootNode(ns, es) /\ Stuck(es, s)
  BY WalkFacts
<1>2. Len(s) \in Nat \ {0} /\ DOMAIN s = 1..Len(s) /\ s \in [1..Len(s) -> Nodes(ns)]
  BY <1>1, EmptySeq, LenProperties
<1>3. Len(ns) \in Nat \ {0}
  BY EmptySeq
<1> HIDE DEF s
<1>4. ASSUME NEW e \in es PROVE e[2] # s[1]
  <2>1. CASE Len(ns) = 1
    <3>1. \A m, n \in Nodes(ns) : m = n
      BY <2>1, LenProperties DEF Nodes
    <3>2. QED
      BY <3>1 DEF Linear
  <2>2. CASE Len(ns) > 1
    <3>1. ~\E ring \in (SUBSET Nodes(ns)) \ {{}} : IsRing(es, ring)
      BY <2>2, ErrorsOfLinear
    <3>2. Nodes(ns) # {}
      BY <1>3, LenProperties DEF Nodes
    <3>3. PICK n \in Nodes(ns) : \A m \in Nodes(ns) : <<m, n>> \notin es
      BY <3>1, <3>2 DEF IsRing
    <3>4. n \in Roots(ns, es)
      BY <3>3, CountsOfLinear DEF Linear
    <3>5. s[1] \in Roots(ns, es)
      BY <1>1, <3>4, RootNodeFacts
    <3>6. QED
      BY <3>5, CountsOfLinear
  <2>3. Len(ns) = 1 \/ Len(ns) > 1
    BY <1>3, SmallNumbers
  <2>4. QED
    BY <2>1, <2>2, <2>3
<1>5. ASSUME NEW e \in es, e[1] = s[Len(s)] PROVE FALSE
  <2>1. PICK j \in 1..Len(s) : e[2] = s[j]
    BY <1>1, <1>2, <1>5 DEF Stuck, Nodes
  <2>2. j # 1
    BY <1>4, <2>1
  <2>3. j - 1 \in 1..(Len(s) - 1) /\ (j - 1) + 1 = j
    BY <1>2, <2>2
  <2>4. <<s[j - 1], s[j]>> \in es
    BY <1>1, <2>3 DEF Chain
  <2>5. e = <<s[j - 1], s[j]>>
    BY <2>1, <2>4 DEF Linear
  <2>6. s[j - 1] = s[Len(s)]
    BY <1>5, <2>5
  <2>7. QED
    BY <1>1, <1>2, <2>3, <2>6 DEF Distinct
<1>6. QED
  BY <1>1, <1>4, <1>5 DEF IsWholeChain, s

(* A graph without errors compiles to all of its steps unless it has more  *)
(* than one start: from the only one everything can be reached.            *)
LEMMA OneStartIsAll ==
  ASSUME NEW N, NEW ns \in Seq(N), ns # <<>>, NEW es, Linear(ns, es),
         GraphErrors(ns, es) = {}, NEW s, IsWholeChain(ns, es, s)
  PROVE  Nodes(s) = Nodes(ns) <=> Cardinality(Roots(ns, es)) <= 1
<1> DEFINE R == Roots(ns, es)
<1>1. \A n : n \in R <=> n \in Nodes(ns) /\ \A e \in es : e[2] # n
  BY CountsOfLinear
<1>2. Len(s) \in Nat \ {0} /\ DOMAIN s = 1..Len(s) /\ s \in [1..Len(s) -> Nodes(ns)]
  BY EmptySeq, LenProperties DEF IsWholeChain
<1>3. s[1] \in Nodes(s) /\ s[1] \in Nodes(ns) /\ Nodes(s) \subseteq Nodes(ns)
  BY <1>2 DEF Nodes
<1>4. s[1] \in R
  BY <1>1, <1>3 DEF IsWholeChain
<1>5. IsFiniteSet(Nodes(ns)) /\ Cardinality(Nodes(ns)) = Len(ns)
  BY NodesAreAsMany DEF Linear
<1>6. IsFiniteSet(R) /\ Cardinality(R) \in Nat
  BY <1>1, <1>5, FS_Subset, FS_CardinalityType
<1>7. Cardinality(R) <= 1 <=> R = {s[1]}
  <2> HIDE DEF R
  <2>1. Cardinality(R) # 0
    BY <1>4, <1>6, FS_EmptySet
  <2>2. Cardinality(R) = 1 <=> \E n : R = {n}
    BY <1>6, FS_Singleton
  <2>3. Cardinality(R) <= 1 <=> \E n : R = {n}
    BY <1>6, <2>1, <2>2, SmallNumbers
  <2>4. QED
    BY <1>4, <2>3
<1>8. ASSUME Nodes(s) = Nodes(ns) PROVE R = {s[1]}
  <2> SUFFICES ASSUME NEW n \in R PROVE n = s[1]
    BY <1>4
  <2>1. PICK i \in 1..Len(s) : n = s[i]
    BY <1>1, <1>2, <1>8 DEF Nodes
  <2>2. CASE i # 1
    <3>1. i - 1 \in 1..(Len(s) - 1) /\ (i - 1) + 1 = i
      BY <1>2, <2>2
    <3>2. <<s[i - 1], s[i]>> \in es
      BY <3>1 DEF IsWholeChain, Chain
    <3>3. QED
      BY <1>1, <2>1, <3>2
  <2>3. QED
    BY <2>1, <2>2
<1>9. ASSUME R = {s[1]} PROVE Nodes(s) = Nodes(ns)
  <2>1. ClosedUnder(es, Nodes(s))
    <3> SUFFICES ASSUME NEW e \in es, e[1] \in Nodes(s) PROVE e[2] \in Nodes(s)
      BY DEF ClosedUnder
    <3>1. PICK i \in 1..Len(s) : e[1] = s[i]
      BY <1>2 DEF Nodes
    <3>2. i \in 1..(Len(s) - 1) /\ i + 1 \in 1..Len(s)
      BY <1>2, <3>1 DEF IsWholeChain
    <3>3. <<s[i], s[i + 1]>> \in es
      BY <3>2 DEF IsWholeChain, Chain
    <3>4. e = <<s[i], s[i + 1]>>
      BY <3>1, <3>3 DEF Linear
    <3>5. QED
      BY <1>2, <3>2, <3>4 DEF Nodes
  <2>2. Visited(ns, es) \subseteq Nodes(s)
    BY <1>3, <1>9, <2>1, VisitedFacts DEF Linear
  <2>3. CASE Len(ns) > 1
    <3>1. Visited(ns, es) = Nodes(ns)
      <4>1. Visited(ns, es) \subseteq Nodes(ns)
        BY VisitedFacts DEF Linear
      <4>2. ~(Cardinality(Visited(ns, es)) < Len(ns))
        <5>1. ~(Len(ns) <= 1)
          BY <2>3, LenProperties
        <5>2. StepErrors(ns, es) = {}
          BY <5>1, ErrorsAre, Zenon
        <5>3. QED
          BY <5>1, <5>2, ErrorsAre
      <4>3. /\ Cardinality(Visited(ns, es)) \in Nat
            /\ Cardinality(Visited(ns, es)) <= Cardinality(Nodes(ns))
            /\ Cardinality(Nodes(ns)) = Cardinality(Visited(ns, es)) => Nodes(ns) = Visited(ns, es)
        BY <1>5, <4>1, FS_Subset, FS_CardinalityType
      <4>4. Len(ns) \in Nat
        BY LenProperties
      <4>5. QED
        BY <1>5, <4>2, <4>3, <4>4
    <3>2. QED
      BY <1>3, <2>2, <3>1
  <2>4. CASE Len(ns) = 1
    <3>1. \A m, n \in Nodes(ns) : m = n
      BY <2>4, LenProperties DEF Nodes
    <3>2. QED
      BY <1>3, <3>1
  <2>5. Len(ns) = 1 \/ Len(ns) > 1
    <3>1. Len(ns) \in Nat \ {0}
      BY EmptySeq
    <3>2. QED
      BY <3>1, SmallNumbers
  <2>6. QED
    BY <2>3, <2>4, <2>5
<1>10. QED
  BY <1>7, <1>8, <1>9

(* The steps of any list, drawn as a graph, have no errors and compile to  *)
(* the list.                                                               *)
LEMMA DrawnIsLinear ==
  ASSUME NEW N, NEW s \in Seq(N), Distinct(s)
  PROVE  LET g == StepsToGraph(s)
         IN  g.nodes = s /\ Linear(s, g.edges) /\ GraphErrors(s, g.edges) = {}
<1> DEFINE es == {<<s[i], s[i + 1]>> : i \in 1..(Len(s) - 1)}
<1>1. StepsToGraph(s).nodes = s /\ StepsToGraph(s).edges = es
  BY DEF StepsToGraph
<1>2. Len(s) \in Nat /\ DOMAIN s = 1..Len(s)
  BY LenProperties
<1>3. \A i \in 1..(Len(s) - 1) : i \in 1..Len(s) /\ i + 1 \in 1..Len(s)
  BY <1>2
<1>4. Linear(s, es)
  <2>0. \A i \in 1..(Len(s) - 1) :
          s[i] \in Nodes(s) /\ s[i + 1] \in Nodes(s) /\ s[i] # s[i + 1]
    <3>1. \A i \in 1..(Len(s) - 1) : i # i + 1
      BY <1>2
    <3>2. QED
      BY <1>2, <1>3, <3>1 DEF Nodes, Distinct
  <2>1. es \subseteq Nodes(s) \X Nodes(s)
    BY <2>0
  <2>2. \A e \in es : e[1] # e[2]
    BY <2>0
  <2>3. ASSUME NEW e \in es, NEW f \in es, e[1] = f[1] \/ e[2] = f[2] PROVE e = f
    <3>1. PICK i \in 1..(Len(s) - 1) : e = <<s[i], s[i + 1]>>
      OBVIOUS
    <3>2. PICK j \in 1..(Len(s) - 1) : f = <<s[j], s[j + 1]>>
      OBVIOUS
    <3>3. s[i] = s[j] \/ s[i + 1] = s[j + 1]
      BY <2>3, <3>1, <3>2
    <3>4. i = j \/ i + 1 = j + 1
      BY <1>2, <1>3, <3>3 DEF Distinct
    <3>5. i = j
      BY <1>2, <3>4
    <3>6. QED
      BY <3>1, <3>2, <3>5
  <2>4. QED
    BY <2>1, <2>2, <2>3 DEF Linear
<1>5. ASSUME Len(s) > 1, NEW n \in Nodes(s) PROVE ~Lone(es, n)
  <2>1. PICK i \in 1..Len(s) : n = s[i]
    BY <1>2 DEF Nodes
  <2>2. CASE i < Len(s)
    <3>1. i \in 1..(Len(s) - 1)
      BY <1>2, <2>2
    <3>2. <<s[i], s[i + 1]>> \in es
      BY <3>1
    <3>3. QED
      BY <2>1, <3>2 DEF Lone
  <2>3. CASE i = Len(s)
    <3>1. i - 1 \in 1..(Len(s) - 1) /\ (i - 1) + 1 = i
      BY <1>2, <1>5, <2>3
    <3>2. <<s[i - 1], s[i]>> \in es
      BY <3>1
    <3>3. QED
      BY <2>1, <3>2 DEF Lone
  <2>4. i < Len(s) \/ i = Len(s)
    BY <1>2, SmallNumbers
  <2> HIDE DEF es
  <2>5. QED
    BY <2>2, <2>3, <2>4
<1>6. ASSUME NEW ring \in (SUBSET Nodes(s)) \ {{}}, IsRing(es, ring) PROVE FALSE
  <2> DEFINE at == {i \in 1..Len(s) : s[i] \in ring}
  <2>1. at \in SUBSET Nat /\ at # {}
    BY <1>2, <1>6 DEF Nodes
  <2>2. PICK i \in at : \A j \in at : i <= j
    <3> HIDE DEF at
    <3>1. QED
      BY <2>1, LeastNat
  <2>3. PICK m \in ring : <<m, s[i]>> \in es
    BY <1>6, <2>2 DEF IsRing
  <2>4. PICK j \in 1..(Len(s) - 1) : <<m, s[i]>> = <<s[j], s[j + 1]>>
    BY <2>3
  <2>5. m = s[j] /\ s[i] = s[j + 1]
    BY <2>4
  <2>6. i = j + 1
    BY <1>2, <1>3, <2>2, <2>5 DEF Distinct
  <2>7. j \in at
    BY <1>3, <2>3, <2>5
  <2>8. QED
    BY <1>2, <2>2, <2>6, <2>7
<1>7. GraphErrors(s, es) = {}
  <2> HIDE DEF es
  <2>1. QED
    BY <1>4, <1>5, <1>6, ErrorsOfLinear
<1>8. QED
  BY <1>1, <1>4, <1>7

LEMMA DrawnIsCompiled ==
  ASSUME NEW N, NEW s \in Seq(N), Distinct(s)
  PROVE  LET g == StepsToGraph(s) IN GraphToSteps(g.nodes, g.edges) = s
<1> DEFINE es == {<<s[i], s[i + 1]>> : i \in 1..(Len(s) - 1)}
           t == GraphToSteps(s, es)
<1>1. StepsToGraph(s).nodes = s /\ StepsToGraph(s).edges = es
  BY DEF StepsToGraph
<1>2. Len(s) \in Nat /\ DOMAIN s = 1..Len(s)
  BY LenProperties
<1>3. Linear(s, es) /\ GraphErrors(s, es) = {}
  BY <1>1, DrawnIsLinear
<1>4. CASE s = <<>>
  <2>1. t = <<>>
    BY <1>3, <1>4 DEF GraphToSteps
  <2>2. QED
    BY <1>1, <1>4, <2>1
<1>5. CASE s # <<>>
  <2>1. IsWholeChain(s, es, t)
    <3> HIDE DEF es
    <3>1. QED
      BY <1>3, <1>5, CompiledIsWhole
  <2> HIDE DEF t
  <2>2. /\ Len(t) \in Nat \ {0} /\ DOMAIN t = 1..Len(t) /\ t \in [1..Len(t) -> Nodes(s)]
        /\ t \in Seq(Nodes(s)) /\ Chain(es, t)
        /\ \A e \in es : e[2] # t[1] /\ e[1] # t[Len(t)]
    BY <2>1, EmptySeq, LenProperties DEF IsWholeChain
  <2> DEFINE Same == {k \in 1..Len(t) : k <= Len(s) /\ t[k] = s[k]}
  <2>3. 1 \in Same
    <3>1. PICK i \in 1..Len(s) : t[1] = s[i]
      BY <1>2, <2>2 DEF Nodes
    <3>2. CASE i # 1
      <4>1. i - 1 \in 1..(Len(s) - 1) /\ (i - 1) + 1 = i
        BY <1>2, <3>2
      <4>2. <<s[i - 1], s[i]>> \in es
        BY <4>1
      <4>3. QED
        BY <2>2, <3>1, <4>2
    <3>3. QED
      BY <1>2, <2>2, <3>1, <3>2
  <2>4. ASSUME NEW k \in 1..Len(t), k # 1, k - 1 \in Same PROVE k \in Same
    <3>1. k - 1 \in 1..(Len(t) - 1) /\ (k - 1) + 1 = k
      BY <2>2, <2>4
    <3>2. <<t[k - 1], t[k]>> \in es
      BY <2>2, <3>1 DEF Chain
    <3>3. PICK i \in 1..(Len(s) - 1) : <<t[k - 1], t[k]>> = <<s[i], s[i + 1]>>
      BY <3>2
    <3>4. t[k - 1] = s[i] /\ t[k] = s[i + 1] /\ t[k - 1] = s[k - 1] /\ k - 1 \in 1..Len(s)
      BY <1>2, <2>4, <3>1, <3>3
    <3>5. i = k - 1
      <4>1. i \in DOMAIN s /\ k - 1 \in DOMAIN s /\ s[i] = s[k - 1]
        BY <1>2, <3>4
      <4>2. QED
        BY <4>1 DEF Distinct
    <3>6. QED
      BY <1>2, <3>1, <3>4, <3>5
  <2>5. \A k \in 1..Len(t) : k <= Len(s) /\ t[k] = s[k]
    <3> HIDE DEF Same
    <3>1. \A k \in 1..Len(t) : k \in Same
      BY <2>2, <2>3, <2>4, UpTo
    <3>2. QED
      BY <3>1 DEF Same
  <2>6. Len(t) = Len(s)
    <3>1. Len(t) <= Len(s) /\ t[Len(t)] = s[Len(t)]
      BY <2>2, <2>5
    <3>2. CASE Len(t) < Len(s)
      <4>1. <<s[Len(t)], s[Len(t) + 1]>> \in es
        BY <1>2, <2>2, <3>2
      <4>2. QED
        BY <2>2, <3>1, <4>1
    <3>3. Len(t) < Len(s) \/ Len(t) = Len(s)
      BY <1>2, <2>2, <3>1, SmallNumbers
    <3>4. QED
      BY <3>1, <3>2, <3>3
  <2>7. s \in Seq(Nodes(s))
    BY <1>2 DEF Nodes
  <2>8. t = s
    BY <2>2, <2>5, <2>6, <2>7, SeqEqual
  <2>9. QED
    BY <1>1, <2>8 DEF t
<1>6. QED
  BY <1>4, <1>5

-----------------------------------------------------------------------------
(* The editor.                                                             *)

LEMMA CanvasIsGraph ==
  ASSUME CanvasIsLinear
  PROVE  /\ nodes \in Seq(StepIds) /\ Nodes(nodes) \subseteq StepIds
         /\ Repeated(nodes) = {} => Linear(nodes, edges)
<1>1. nodes \in Seq(StepIds) /\ edges \subseteq StepIds \X StepIds
  BY DEF CanvasIsLinear, EditorTypeOK
<1>2. Nodes(nodes) \subseteq StepIds
  BY <1>1, NodesAreOf
<1>3. ASSUME Repeated(nodes) = {} PROVE Linear(nodes, edges)
  <2>1. /\ \A e \in edges : e[1] # e[2] /\ e[1] \in Nodes(nodes) /\ e[2] \in Nodes(nodes)
        /\ \A e, f \in edges : e[1] = f[1] \/ e[2] = f[2] => e = f
    BY <1>3 DEF CanvasIsLinear, LinearEdges
  <2>2. edges \subseteq Nodes(nodes) \X Nodes(nodes)
    BY <1>1, <2>1
  <2>3. Distinct(nodes)
    BY <1>3, DistinctIsUnrepeated
  <2>4. QED
    BY <2>1, <2>2, <2>3 DEF Linear
<1>4. QED
  BY <1>1, <1>2, <1>3

(* A repeated id is an error of a graph, which has two nodes or more then. *)
LEMMA RepeatedRefused ==
  ASSUME CanvasIsLinear, Repeated(nodes) # {}
  PROVE  Len(nodes) > 1 /\ GraphErrors(nodes, edges) # {}
<1>1. PICK n \in Repeated(nodes) : TRUE
  OBVIOUS
<1>2. Len(nodes) > 1
  <2>1. PICK i \in 1..Len(nodes), j \in 1..Len(nodes) : i # j
    BY <1>1, CanvasIsGraph, LenProperties DEF Repeated
  <2>2. Len(nodes) \in Nat
    BY CanvasIsGraph, LenProperties
  <2>3. QED
    BY <2>1, <2>2
<1>3. StepErrors(nodes, edges) # {}
  BY <1>1 DEF StepErrors
<1>4. ~(Len(nodes) <= 1)
  BY <1>2, CanvasIsGraph, LenProperties
<1>5. GraphErrors(nodes, edges) = StepErrors(nodes, edges)
  BY <1>3, <1>4, ErrorsAre, Zenon
<1>6. QED
  BY <1>2, <1>3, <1>5

LEMMA LinearRefuses == CanvasIsLinear => RefusesExactly
<1> SUFFICES ASSUME CanvasIsLinear PROVE RefusesExactly
  OBVIOUS
<1>1. CASE Repeated(nodes) = {}
  <2>1. GraphErrors(nodes, edges) # {} <=>
          /\ Len(nodes) > 1
          /\ \/ \E n \in Nodes(nodes) : Lone(edges, n)
             \/ \E ring \in (SUBSET Nodes(nodes)) \ {{}} : IsRing(edges, ring)
    BY <1>1, CanvasIsGraph, ErrorsOfLinear
  <2>2. QED
    BY <1>1, <2>1 DEF RefusesExactly, Lone, IsRing
<1>2. CASE Repeated(nodes) # {}
  BY <1>2, RepeatedRefused DEF RefusesExactly
<1>3. QED
  BY <1>1, <1>2

LEMMA LinearCompiles == CanvasIsLinear => RunOrderIsTheCanvas
<1> SUFFICES ASSUME CanvasIsLinear, Compiled # NoSteps PROVE RunOrderIsTheCanvas
  BY DEF RunOrderIsTheCanvas, RunOrderIsAChain, ReopenKeepsSteps, OneStartKeepsSteps
<1> DEFINE order == Compiled
<1>2. GraphErrors(nodes, edges) = {} /\ order = GraphToSteps(nodes, edges)
  BY DEF Compiled, GraphToSteps
<1>1. nodes \in Seq(StepIds) /\ Linear(nodes, edges)
  BY <1>2, CanvasIsGraph, RepeatedRefused
<1>3. CASE nodes = <<>>
  <2>1. order = <<>> /\ DOMAIN <<>> = {} /\ Len(<<>>) = 0
    BY <1>2, <1>3 DEF GraphToSteps
  <2>2. Nodes(nodes) = {} /\ edges = {} /\ Roots(nodes, edges) = {}
    BY <1>1, <1>3, <2>1 DEF Nodes, Linear, Roots
  <2> HIDE DEF order
  <2>3. RunOrderIsAChain
    BY <1>3, <2>1, <2>2 DEF RunOrderIsAChain, order
  <2>4. ReopenKeepsSteps
    <3>1. Distinct(<<>>) /\ <<>> \in Seq(StepIds)
      BY <2>1, EmptySeq DEF Distinct
    <3>2. QED
      BY <2>1, <3>1, DrawnIsCompiled DEF ReopenKeepsSteps, order
  <2>5. OneStartKeepsSteps
    BY <1>3, <2>1, <2>2, FS_EmptySet DEF OneStartKeepsSteps, order
  <2>6. QED
    BY <2>3, <2>4, <2>5 DEF RunOrderIsTheCanvas
<1>4. CASE nodes # <<>>
  <2>1. IsWholeChain(nodes, edges, order)
    BY <1>1, <1>2, <1>4, CompiledIsWhole
  <2>2. Len(order) \in Nat \ {0} /\ DOMAIN order = 1..Len(order) /\ order \in Seq(Nodes(nodes))
    BY <2>1, EmptySeq, LenProperties DEF IsWholeChain
  <2> HIDE DEF order
  <2>3. RunOrderIsAChain
    <3>1. order # <<>> /\ \A i, j \in DOMAIN order : order[i] = order[j] => i = j
      BY <2>1 DEF IsWholeChain, Distinct
    <3>2. \A i \in 1..(Len(order) - 1) : <<order[i], order[i + 1]>> \in edges
      BY <2>1 DEF IsWholeChain, Chain
    <3>3. \A e \in edges : e[2] # order[1] /\ e[1] # order[Len(order)]
      BY <2>1 DEF IsWholeChain
    <3>4. \A i \in DOMAIN order : i < Len(order) \/ i = Len(order)
      BY <2>2, SmallNumbers
    <3>5. \A e \in edges : \A i \in DOMAIN order : e[1] = order[i] => i < Len(order)
      BY <3>3, <3>4
    <3>6. QED
      BY <1>4, <3>1, <3>2, <3>3, <3>5 DEF RunOrderIsAChain, order
  <2>4. ReopenKeepsSteps
    <3>1. Distinct(order)
      BY <2>1 DEF IsWholeChain
    <3>2. QED
      BY <2>2, <3>1, DrawnIsCompiled DEF ReopenKeepsSteps, order
  <2>5. OneStartKeepsSteps
    BY <1>1, <1>2, <1>4, <2>1, OneStartIsAll DEF OneStartKeepsSteps, order
  <2>6. QED
    BY <2>3, <2>4, <2>5 DEF RunOrderIsTheCanvas
<1>5. QED
  BY <1>3, <1>4

-----------------------------------------------------------------------------
(* What each handler keeps of the canvas.                                  *)

LEMMA StepTypes ==
  /\ \A kind \in Kinds : NewStep(kind) \in WorkflowStep
  /\ \A s \in WorkflowStep, kind \in Kinds : WithKind(s, kind) \in WorkflowStep
  /\ \A s \in WorkflowStep : [s EXCEPT !.requiresApproval = ~@] \in WorkflowStep
  /\ NoStep \in WorkflowStep /\ ToolBoundStep \in WorkflowStep
BY DEF Kinds, NewStep, WorkflowStep, WithKind, NoStep, ToolBoundStep

LEMMA CanvasInit == EditorInit => CanvasIsLinear
<1> SUFFICES ASSUME EditorInit PROVE CanvasIsLinear
  OBVIOUS
<1>1. PICK ids \in InitialSteps : nodes = StepsToGraph(ids).nodes /\ edges = StepsToGraph(ids).edges
  BY DEF EditorInit
<1>2. ids \in Seq(StepIds)
  BY EditorAssumption
<1>3. nodes = ids /\ edges = {<<ids[i], ids[i + 1]>> : i \in 1..(Len(ids) - 1)}
  BY <1>1 DEF StepsToGraph
<1>4. Nodes(nodes) \subseteq StepIds
  BY <1>2, <1>3, NodesAreOf
<1>5. LinearEdges
  <2>1. \A i \in 1..(Len(ids) - 1) : i \in DOMAIN ids /\ i + 1 \in DOMAIN ids /\ i # i + 1
    BY <1>2, LenProperties
  <2>2. \A e \in edges : {e[1], e[2]} \subseteq Nodes(nodes)
    BY <1>3, <2>1 DEF Nodes
  <2>3. ASSUME NEW i \in DOMAIN ids, NEW j \in DOMAIN ids, i # j, ids[i] = ids[j]
        PROVE  ids[i] \in Repeated(nodes)
    BY <1>3, <2>3 DEF Repeated, Nodes
  <2>4. \A e \in edges : e[1] = e[2] => e[1] \in Repeated(nodes)
    BY <1>3, <2>1, <2>3
  <2>5. ASSUME NEW e \in edges, NEW f \in edges, e # f
        PROVE  /\ e[1] = f[1] => e[1] \in Repeated(nodes)
               /\ e[2] = f[2] => e[2] \in Repeated(nodes)
    <3>1. PICK i \in 1..(Len(ids) - 1) : e = <<ids[i], ids[i + 1]>>
      BY <1>3
    <3>2. PICK j \in 1..(Len(ids) - 1) : f = <<ids[j], ids[j + 1]>>
      BY <1>3
    <3>3. i # j /\ i + 1 # j + 1
      BY <2>5, <3>1, <3>2
    <3>4. QED
      BY <2>1, <2>3, <3>1, <3>2, <3>3
  <2>6. QED
    BY <2>2, <2>4, <2>5 DEF LinearEdges
<1>6. step \in [StepIds -> WorkflowStep]
  BY StepTypes DEF EditorInit
<1>7. edges \subseteq StepIds \X StepIds
  BY <1>2, <1>3, LenProperties
<1>8. 0 \in 0..MaxEdits
  BY EditorAssumption
<1>9. QED
  BY <1>2, <1>3, <1>5, <1>6, <1>7, <1>8 DEF EditorInit, CanvasIsLinear, EditorTypeOK

LEMMA SelectKeeps ==
  ASSUME CanvasIsLinear, NEW ids, SelectNode(ids), ids \subseteq Nodes(nodes)
  PROVE  CanvasIsLinear'
BY DEF CanvasIsLinear, EditorTypeOK, LinearEdges, SelectNode, Nodes, Repeated

LEMMA InsertKeeps ==
  ASSUME CanvasIsLinear, NEW id \in StepIds, NEW s \in WorkflowStep, InsertNode(id, s)
  PROVE  CanvasIsLinear'
<1>1. nodes \in Seq(StepIds)
  BY CanvasIsGraph
<1>2. nodes' \in Seq(StepIds)
  BY <1>1, AppendProperties DEF InsertNode
<1>3. Nodes(nodes') = Nodes(nodes) \cup {id} /\ Repeated(nodes) \subseteq Repeated(nodes')
  <2>1. /\ Nodes(Append(nodes, id)) = Nodes(nodes) \cup {id}
        /\ Repeated(nodes) \subseteq Repeated(Append(nodes, id))
    BY <1>1, NodesOfAppend
  <2>2. QED
    BY <2>1 DEF InsertNode
<1>4. LinearEdges'
  BY <1>3 DEF CanvasIsLinear, LinearEdges, InsertNode
<1>5. edits' \in 0..MaxEdits
  BY EditorAssumption DEF CanvasIsLinear, EditorTypeOK, InsertNode
<1>6. step' \in [StepIds -> WorkflowStep]
  BY DEF CanvasIsLinear, EditorTypeOK, InsertNode
<1>7. QED
  BY <1>2, <1>3, <1>4, <1>5, <1>6
     DEF CanvasIsLinear, EditorTypeOK, InsertNode

LEMMA RemoveKeeps ==
  ASSUME CanvasIsLinear, NEW ids, NEW es, Remove(ids, es)
  PROVE  CanvasIsLinear'
<1>1. nodes \in Seq(StepIds)
  BY CanvasIsGraph
<1>2. /\ nodes' \in Seq(StepIds) /\ Nodes(nodes') = Nodes(nodes) \ ids
      /\ Repeated(nodes) \ ids \subseteq Repeated(nodes')
  <2>1. /\ Without(nodes, ids) \in Seq(StepIds)
        /\ Nodes(Without(nodes, ids)) = Nodes(nodes) \ ids
        /\ Repeated(nodes) \ ids \subseteq Repeated(Without(nodes, ids))
    BY <1>1, WithoutFacts
  <2>2. QED
    BY <2>1 DEF Remove
<1>3. edges' \subseteq edges /\ \A e \in edges' : e[1] \notin ids /\ e[2] \notin ids
  BY DEF Remove, EdgesWithout
<1>4. LinearEdges'
  BY <1>2, <1>3 DEF CanvasIsLinear, LinearEdges
<1>5. step' \in [StepIds -> WorkflowStep]
  BY StepTypes DEF CanvasIsLinear, EditorTypeOK, Remove
<1>6. selected' \subseteq Nodes(nodes') /\ selectedEdge' \subseteq edges'
  BY <1>2 DEF CanvasIsLinear, EditorTypeOK, Remove
<1>7. QED
  BY <1>2, <1>3, <1>4, <1>5, <1>6 DEF CanvasIsLinear, EditorTypeOK, Remove

LEMMA ConnectKeeps ==
  ASSUME CanvasIsLinear, NEW s, NEW t, Connect(s, t)
  PROVE  CanvasIsLinear'
<1>1. s # t /\ s \in Nodes(nodes) /\ t \in Nodes(nodes)
      /\ \A e \in edges : e[1] # s /\ e[2] # t
  BY DEF Connect, ConnectionIsValid
<1>2. edges' = edges \cup {<<s, t>>} /\ UNCHANGED nodes /\ Nodes(nodes') = Nodes(nodes)
  BY DEF Connect, Nodes
<1>3. Nodes(nodes) \subseteq StepIds /\ Repeated(nodes') = Repeated(nodes)
  BY <1>2, CanvasIsGraph DEF Repeated, Nodes
<1>4. edges' \subseteq StepIds \X StepIds
  BY <1>1, <1>2, <1>3 DEF CanvasIsLinear, EditorTypeOK
<1>5. /\ \A e \in edges' : {e[1], e[2]} \subseteq Nodes(nodes')
      /\ \A e \in edges' : e[1] = e[2] => e[1] \in Repeated(nodes')
  BY <1>1, <1>2, <1>3 DEF CanvasIsLinear, LinearEdges
<1>6. ASSUME NEW e \in edges', NEW f \in edges', e # f
      PROVE  /\ e[1] = f[1] => e[1] \in Repeated(nodes')
             /\ e[2] = f[2] => e[2] \in Repeated(nodes')
  <2>1. CASE e \in edges /\ f \in edges
    BY <1>3, <1>6, <2>1 DEF CanvasIsLinear, LinearEdges
  <2>2. CASE e = <<s, t>> \/ f = <<s, t>>
    BY <1>1, <1>2, <1>6, <2>2
  <2>3. QED
    BY <1>2, <2>1, <2>2
<1>7. LinearEdges'
  BY <1>5, <1>6, Zenon DEF LinearEdges
<1>8. EditorTypeOK'
  BY <1>2, <1>4 DEF CanvasIsLinear, EditorTypeOK, Connect
<1>9. QED
  BY <1>7, <1>8 DEF CanvasIsLinear

LEMMA PanelFacts ==
  ASSUME CanvasIsLinear
  PROVE  /\ SelectedIndex # 0 => SelectedIndex \in 1..Len(nodes)
         /\ \A id : PanelShows(id) => id = nodes[SelectedIndex] /\ id \in Nodes(nodes) /\ id \in StepIds
<1> DEFINE sel == {i \in DOMAIN nodes : nodes[i] \in selected}
<1>1. nodes \in Seq(StepIds) /\ DOMAIN nodes = 1..Len(nodes) /\ Len(nodes) \in Nat
  BY CanvasIsGraph, LenProperties
<1>2. sel # {} => \E i \in sel : \A j \in sel : i <= j
  <2>1. sel \in SUBSET Nat
    BY <1>1
  <2> HIDE DEF sel
  <2>2. QED
    BY <2>1, LeastNat
<1>3. SelectedIndex = IF sel = {} THEN 0 ELSE CHOOSE i \in sel : \A j \in sel : i <= j
  BY DEF SelectedIndex
<1>4. SelectedIndex # 0 => SelectedIndex \in sel
  <2> HIDE DEF sel
  <2>1. QED
    BY <1>2, <1>3
<1>5. QED
  BY <1>1, <1>4 DEF PanelShows, Nodes

LEMMA PatchKeeps ==
  ASSUME CanvasIsLinear, NEW id, PanelShows(id), NEW s \in WorkflowStep, PatchStep(s)
  PROVE  /\ CanvasIsLinear' /\ id \in StepIds
         /\ step' = [step EXCEPT ![id] = s]
<1>1. id \in StepIds /\ id = nodes[SelectedIndex]
  BY PanelFacts
<1>2. step' = [step EXCEPT ![id] = s]
  BY <1>1 DEF PatchStep
<1>3. step' \in [StepIds -> WorkflowStep]
  BY <1>1, <1>2 DEF CanvasIsLinear, EditorTypeOK
<1>4. edits' \in 0..MaxEdits
  BY EditorAssumption DEF CanvasIsLinear, EditorTypeOK, PatchStep
<1>5. QED
  BY <1>1, <1>2, <1>3, <1>4 DEF CanvasIsLinear, EditorTypeOK, LinearEdges, Nodes, Repeated, PatchStep

-----------------------------------------------------------------------------
(* The controls.  Each is a handler, or leaves the canvas alone.           *)

LEMMA EditorStep ==
  ASSUME CanvasIsLinear, [EditorNext]_editorVars
  PROVE  CanvasIsLinear'
<1>1. CASE Palette
  BY <1>1, InsertKeeps, StepTypes DEF Palette
<1>2. CASE Catalog
  BY <1>2, InsertKeeps, StepTypes DEF Catalog
<1>3. CASE Canvas
  <2>1. CASE SelectNode({})
    BY <2>1, SelectKeeps
  <2>2. CASE /\ \E id \in Nodes(nodes) : selected' = SymDiff(selected, {id})
             /\ UNCHANGED <<nodes, edges, step, selectedEdge, argsText, edits>>
    <3>1. selected' \subseteq Nodes(nodes)
      BY <2>2 DEF SymDiff, CanvasIsLinear, EditorTypeOK
    <3>2. nodes' = nodes /\ edges' = edges /\ step' = step /\ selectedEdge' = selectedEdge
          /\ argsText' = argsText /\ edits' = edits
      BY <2>2
    <3>3. Nodes(nodes') = Nodes(nodes) /\ Repeated(nodes') = Repeated(nodes)
      BY <3>2
    <3>4. EditorTypeOK'
      BY <3>1, <3>2, <3>3 DEF CanvasIsLinear, EditorTypeOK
    <3>5. LinearEdges'
      BY <3>2, <3>3 DEF CanvasIsLinear, LinearEdges
    <3>6. QED
      BY <3>4, <3>5 DEF CanvasIsLinear
  <2>3. CASE \E e \in edges :
               /\ selected' = {}
               /\ selectedEdge' = {e}
               /\ UNCHANGED <<nodes, edges, step, argsText, edits>>
    BY <2>3 DEF CanvasIsLinear, EditorTypeOK, LinearEdges, Nodes, Repeated
  <2>4. CASE Remove(selected, selectedEdge)
    BY <2>4, RemoveKeeps
  <2>5. QED
    BY <1>3, <2>1, <2>2, <2>3, <2>4 DEF Canvas
<1>4. CASE CanvasKeyDown
  BY <1>4, SelectKeeps DEF CanvasKeyDown
<1>5. CASE GotoNeighbor
  <2>1. SelectedIndex \in 1..Len(nodes) /\ Len(nodes) \in Nat \ {0} /\ DOMAIN nodes = 1..Len(nodes)
    <3>1. SelectedIndex \in 1..Len(nodes)
      BY <1>5, PanelFacts DEF GotoNeighbor
    <3>2. QED
      BY <3>1, CanvasIsGraph, LenProperties
  <2>2. PICK next \in {SelectedIndex + Len(nodes) - 1, SelectedIndex + 1} :
               SelectNode({nodes[((next - 1) % Len(nodes)) + 1]})
    BY <1>5 DEF GotoNeighbor
  <2>3. ((next - 1) % Len(nodes)) + 1 \in 1..Len(nodes)
    BY <2>1
  <2>4. {nodes[((next - 1) % Len(nodes)) + 1]} \subseteq Nodes(nodes)
    BY <2>1, <2>3 DEF Nodes
  <2>5. QED
    BY <2>2, <2>4, SelectKeeps
<1>6. CASE KindSelect
  <2>1. PICK id \in StepIds, kind \in Kinds : PanelShows(id) /\ PatchStep(WithKind(step[id], kind))
    BY <1>6 DEF KindSelect
  <2>2. WithKind(step[id], kind) \in WorkflowStep
    BY StepTypes DEF CanvasIsLinear, EditorTypeOK
  <2>3. QED
    BY <2>1, <2>2, PatchKeeps
<1>7. CASE ArgsBox
  BY <1>7 DEF ArgsBox, CanvasIsLinear, EditorTypeOK, LinearEdges, Nodes, Repeated
<1>8. CASE ApprovalBox
  <2>1. PICK id \in StepIds : PanelShows(id) /\ PatchStep([step[id] EXCEPT !.requiresApproval = ~@])
    BY <1>8 DEF ApprovalBox
  <2>2. [step[id] EXCEPT !.requiresApproval = ~@] \in WorkflowStep
    BY StepTypes DEF CanvasIsLinear, EditorTypeOK
  <2>3. QED
    BY <2>1, <2>2, PatchKeeps
<1>9. CASE Connections
  BY <1>9, ConnectKeeps, RemoveKeeps DEF Connections
<1>10. CASE DeleteStep
  BY <1>10, RemoveKeeps DEF DeleteStep
<1>11. CASE Outline
  <2>1. PICK id \in Nodes(Compiled) : Compiled # NoSteps /\ SelectNode({id})
    BY <1>11 DEF Outline
  <2>2. GraphErrors(nodes, edges) = {} /\ Compiled = GraphToSteps(nodes, edges)
    BY <2>1 DEF Compiled, GraphToSteps
  <2>3. CASE nodes = <<>>
    <3>1. Compiled = <<>>
      BY <2>2, <2>3 DEF GraphToSteps
    <3>2. QED
      BY <2>1, <3>1 DEF Nodes
  <2>4. CASE nodes # <<>>
    <3>1. Compiled \in Seq(Nodes(nodes)) /\ Distinct(Compiled)
      BY <2>2, <2>4, CanvasIsGraph, RepeatedRefused, CompiledIsWhole DEF IsWholeChain
    <3>2. Nodes(Compiled) \subseteq Nodes(nodes)
      BY <3>1, NodesAreOf
    <3>3. QED
      BY <2>1, <3>2, SelectKeeps
  <2>5. QED
    BY <2>3, <2>4
<1>12. CASE UNCHANGED editorVars
  BY <1>12 DEF editorVars, CanvasIsLinear, EditorTypeOK, LinearEdges, Nodes, Repeated
<1>13. QED
  BY <1>1, <1>2, <1>3, <1>4, <1>5, <1>6, <1>7, <1>8, <1>9, <1>10, <1>11, <1>12 DEF EditorNext

(* A change of the step shown takes no gate off.                           *)
LEMMA GateStep ==
  ASSUME CanvasIsLinear, [EditorNext]_editorVars, NEW id \in StepIds, Ungated(id)'
  PROVE  Ungated(id)
<1>1. step \in [StepIds -> WorkflowStep]
  BY DEF CanvasIsLinear, EditorTypeOK
<1>2. ASSUME NEW n \in StepIds, NEW s, InsertNode(n, s), s.requiresApproval = TRUE
      PROVE  Ungated(id)
  BY <1>1, <1>2 DEF InsertNode, Ungated
<1>3. ASSUME NEW ids, NEW es, Remove(ids, es) PROVE Ungated(id)
  BY <1>1, <1>3 DEF Remove, Ungated, NoStep, NewStep
<1>4. ASSUME NEW n, PanelShows(n), NEW s \in WorkflowStep, PatchStep(s),
             s.kind \in Elevated => s.requiresApproval = TRUE
      PROVE  Ungated(id)
  <2>1. n \in StepIds /\ step' = [step EXCEPT ![n] = s]
    BY <1>4, PatchKeeps
  <2>2. QED
    BY <1>1, <1>4, <2>1 DEF Ungated
<1>5. CASE UNCHANGED step
  BY <1>5 DEF Ungated
<1>6. CASE Palette
  BY <1>2, <1>6 DEF Palette, NewStep
<1>7. CASE Catalog
  BY <1>2, <1>7 DEF Catalog, ToolBoundStep, NewStep
<1>8. CASE Canvas
  BY <1>3, <1>5, <1>8 DEF Canvas, SelectNode
<1>9. CASE KindSelect
  <2>1. PICK n \in StepIds, kind \in Kinds : PanelShows(n) /\ PatchStep(WithKind(step[n], kind))
    BY <1>9 DEF KindSelect
  <2> DEFINE s == WithKind(step[n], kind)
  <2>2. s \in WorkflowStep /\ (s.kind \in Elevated => s.requiresApproval = TRUE)
    <3>1. step[n] \in WorkflowStep
      BY <1>1
    <3>2. s \in WorkflowStep
      BY <3>1, StepTypes
    <3>3. CASE kind \in Elevated
      <4>1. s = [step[n] EXCEPT !.kind = kind, !.requiresApproval = TRUE]
        BY <3>3 DEF WithKind
      <4>2. s.requiresApproval = TRUE
        BY <3>1, <4>1 DEF WorkflowStep
      <4>3. QED
        BY <3>2, <4>2
    <3>4. CASE kind \notin Elevated
      <4>1. s = [step[n] EXCEPT !.kind = kind]
        BY <3>4 DEF WithKind
      <4>2. s.kind = kind
        BY <3>1, <4>1 DEF WorkflowStep
      <4>3. QED
        BY <3>2, <3>4, <4>2
    <3>5. QED
      BY <3>3, <3>4
  <2> HIDE DEF s
  <2>3. QED
    BY <1>4, <2>1, <2>2 DEF s
<1>10. CASE ApprovalBox
  <2>1. PICK n \in StepIds : PanelShows(n) /\ ~Locked(step[n])
                             /\ PatchStep([step[n] EXCEPT !.requiresApproval = ~@])
    BY <1>10 DEF ApprovalBox
  <2> DEFINE s == [step[n] EXCEPT !.requiresApproval = ~@]
  <2>2. s \in WorkflowStep /\ s.kind \notin Elevated
    BY <1>1, <2>1, StepTypes DEF Locked, WorkflowStep
  <2> HIDE DEF s
  <2>3. QED
    BY <1>4, <2>1, <2>2 DEF s
<1>11. CASE Connections
  BY <1>3, <1>5, <1>11 DEF Connections, Connect
<1>12. CASE DeleteStep
  BY <1>3, <1>12 DEF DeleteStep
<1>13. CASE CanvasKeyDown \/ GotoNeighbor \/ ArgsBox \/ Outline
  BY <1>5, <1>13 DEF CanvasKeyDown, GotoNeighbor, ArgsBox, Outline, SelectNode
<1>14. CASE UNCHANGED editorVars
  BY <1>5, <1>14 DEF editorVars
<1>15. QED
  BY <1>6, <1>7, <1>8, <1>9, <1>10, <1>11, <1>12, <1>13, <1>14 DEF EditorNext

-----------------------------------------------------------------------------
(***************************************************************************)
(* The theorems.                                                           *)
(***************************************************************************)

(* After any sequence of edits, of any length and for any set of steps,    *)
(* each edge of the canvas joins two different steps that are on it, and   *)
(* no step has two edges in or two out, but for a step whose id repeats:   *)
(* what connectionIsValid and removeNode together keep, whatever list of   *)
(* steps the canvas was opened with.                                       *)
THEOREM CanvasLinear == EditorSpec => []CanvasIsLinear
<1>1. EditorInit => CanvasIsLinear
  BY CanvasInit
<1>2. CanvasIsLinear /\ [EditorNext]_editorVars => CanvasIsLinear'
  BY EditorStep
<1>3. QED
  BY <1>1, <1>2, PTL DEF EditorSpec

(* validateGraph refuses what is drawn exactly when it has two nodes or    *)
(* more, and an id repeats, a step is alone or some are joined in a ring:  *)
(* it accepts several chains side by side, as well as one.                 *)
THEOREM RefusesLoneAndRing == EditorSpec => []RefusesExactly
<1>1. CanvasIsLinear => RefusesExactly
  BY LinearRefuses
<1>2. QED
  BY <1>1, CanvasLinear, PTL

(* What graphToSteps saves is a whole chain of what is drawn, is the same  *)
(* again after it is opened and saved, and is all of the canvas exactly    *)
(* when that has no more than one start.                                   *)
THEOREM SavedIsDrawn == EditorSpec => []RunOrderIsTheCanvas
<1>1. CanvasIsLinear => RunOrderIsTheCanvas
  BY LinearCompiles
<1>2. QED
  BY <1>1, CanvasLinear, PTL

(* No control of the editor takes the gate off a step of an elevated kind, *)
(* or makes one without it.                                                *)
THEOREM GatesStay == EditorSpec => NoStepLosesItsGate
<1>1. CanvasIsLinear /\ [EditorNext]_editorVars
        => [\A id \in StepIds : Ungated(id)' => Ungated(id)]_editorVars
  BY GateStep
<1>2. QED
  BY <1>1, CanvasLinear, PTL DEF EditorSpec, NoStepLosesItsGate

=============================================================================

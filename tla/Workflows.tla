----------------------------- MODULE Workflows -----------------------------
(***************************************************************************)
(* The workflows page (components/workflows/workflows-view.tsx) between    *)
(* its two sources: the workflows of the browser (lib/stores/              *)
(* workflow-store.ts), listed and changed while the gateway is not online, *)
(* and those of the gateway (lib/hooks/use-workflows-api.ts, lib/api/      *)
(* workflows.ts), listed once they were fetched and changed by requests.   *)
(* The builder has the draft of the name, description and trigger, which   *)
(* an effect sets again whenever the workflow edited becomes another or    *)
(* leaves the list, and the canvas, whose last compilation is what a save  *)
(* takes (WorkflowEditor is the canvas itself).                            *)
(*                                                                         *)
(* Of a workflow of the browser the model keeps whether a step of it is    *)
(* gated, of one of the gateway whether a step overrides the model it runs *)
(* with.  The selection, kept in the URL, and the toasts are left out; the *)
(* gateway and its other clients are external.                             *)
(***************************************************************************)
EXTENDS Naturals, Sequences, FiniteSets

CONSTANTS
  Local,       \* ids of workflows of the browser
  Server,      \* ids of workflows of the gateway
  NoWorkflow,  \* null, for an id or a workflow
  NoData,      \* the list of the gateway was not fetched yet
  MaxRuns,     \* the runs kept, 50
  MaxInFlight  \* bound on the requests on their way at once

ASSUME WorkflowsAssumption ==
  /\ Local \cap Server = {}
  /\ NoWorkflow \notin Local \cup Server
  /\ MaxRuns \in Nat \ {0}
  /\ MaxInFlight \in Nat

VARIABLES
  online,     \* useConnectionState() is "online"
  local,      \* the workflows of the browser: absent, or what their steps are
  runs,       \* the ids of the workflows run in the browser, newest first
  server,     \* the workflows of the gateway
  fetched,    \* ids in the last list fetched, or NoData
  requests,   \* mutations on their way
  builderOpen,
  editingId,  \* the workflow edited, or NoWorkflow for a new one
  draft,      \* [of, typed]: the workflow whose name the draft has, and
              \* whether the operator typed over it
  canvas      \* [of, steps]: the workflow drawn first, and what is drawn

stores == <<local, runs>>
gateway == <<server, fetched, requests>>
builder == <<builderOpen, editingId, draft, canvas>>
vars == <<online, stores, gateway, builder>>

Ids == Local \cup Server

\* What steps can be: with a gate, without one, none, or refused (null).
Steps == {"gated", "open"}
Compilations == Steps \cup {"none", "refused"}

Blank == [of |-> NoWorkflow, typed |-> FALSE]

NoCanvas == [of |-> NoWorkflow, steps |-> "none"]

(***************************************************************************)
(* What is listed, and the workflow edited if it is listed.                *)
(***************************************************************************)
Listed ==
  IF online /\ fetched # NoData THEN fetched
  ELSE {id \in Local : local[id] # "absent"}

EditingWorkflow == IF editingId \in Listed THEN editingId ELSE NoWorkflow

\* Mutant: the draft is set again only when there is a workflow to edit.
KeepsOldDraft ==
  draft' = IF EditingWorkflow' \in {EditingWorkflow, NoWorkflow}
           THEN draft ELSE [of |-> EditingWorkflow', typed |-> FALSE]

\* The effect of useDraftWorkflow, after every step that may change it.
DraftEffect ==
  draft' = IF EditingWorkflow' = EditingWorkflow
           THEN draft ELSE [of |-> EditingWorkflow', typed |-> FALSE]

(***************************************************************************)
(* The store of the browser.                                               *)
(***************************************************************************)
CreateWorkflow(steps) ==
  /\ \E id \in Local : local[id] = "absent" /\ local' = [local EXCEPT ![id] = steps]
  /\ runs' = runs

\* Nothing happens for an id that the store does not have.
UpdateWorkflow(id, steps) ==
  /\ local' = IF id \in Local /\ local[id] # "absent"
              THEN [local EXCEPT ![id] = steps] ELSE local
  /\ runs' = runs

DeleteWorkflow(id) ==
  /\ local' = IF id \in Local THEN [local EXCEPT ![id] = "absent"] ELSE local
  /\ runs' = runs

\* A copy has new ids.  Called with the id of a workflow that is listed.
DuplicateWorkflow(id) == CreateWorkflow(local[id])

\* The requests for the gated steps join the queue (ApprovalQueue).
RunWorkflow(id) ==
  /\ runs' = SubSeq(<<id>> \o runs, 1, IF Len(runs) < MaxRuns THEN Len(runs) + 1 ELSE MaxRuns)
  /\ local' = local

(***************************************************************************)
(* Requests.  here is false once the page that sent one is gone.           *)
(***************************************************************************)
Request(op, id, saved) ==
  [op |-> op, id |-> id, draftOf |-> saved.draftOf, canvasOf |-> saved.canvasOf, here |-> TRUE]

NotSaved == [draftOf |-> NoWorkflow, canvasOf |-> NoWorkflow]

Send(r) ==
  /\ requests' = requests \cup {r}
  /\ Cardinality(requests') <= MaxInFlight
  /\ UNCHANGED <<server, fetched>>

(***************************************************************************)
(* The buttons of the page, out of reach while the builder is open.        *)
(***************************************************************************)
OpenCreate ==
  /\ ~builderOpen
  /\ builderOpen' = TRUE
  /\ editingId' = NoWorkflow
  /\ canvas' = NoCanvas
  /\ UNCHANGED <<online, stores, gateway>>
  /\ DraftEffect

StepsOf(id) == IF id \in Local THEN {local[id]} ELSE Steps

OpenEdit ==
  /\ ~builderOpen
  /\ \E id \in Listed, steps \in Steps :
       /\ steps \in StepsOf(id)
       /\ editingId' = id
       /\ canvas' = [of |-> id, steps |-> steps]
  /\ builderOpen' = TRUE
  /\ UNCHANGED <<online, stores, gateway>>
  /\ DraftEffect

\* Run and duplicate change no draft: nothing leaves the list.
HandleRun ==
  /\ ~builderOpen
  /\ \E id \in Listed :
       IF online THEN Send(Request("run", id, NotSaved)) /\ UNCHANGED stores
                 ELSE RunWorkflow(id) /\ UNCHANGED gateway
  /\ UNCHANGED <<online, builder>>

\* Mutant: the copy is made in the browser if that has the workflow.
DuplicateHere ==
  /\ ~builderOpen
  /\ \E id \in Listed :
       IF id \in Server THEN Send(Request("copy", NoWorkflow, NotSaved)) /\ UNCHANGED stores
                        ELSE DuplicateWorkflow(id) /\ UNCHANGED gateway
  /\ UNCHANGED <<online, builder>>

Duplicate ==
  /\ ~builderOpen
  /\ \E id \in Listed :
       IF online THEN Send(Request("copy", NoWorkflow, NotSaved)) /\ UNCHANGED stores
                 ELSE DuplicateWorkflow(id) /\ UNCHANGED gateway
  /\ UNCHANGED <<online, builder>>

Delete ==
  /\ ~builderOpen
  /\ \E id \in Listed :
       IF online THEN Send(Request("remove", id, NotSaved)) /\ UNCHANGED stores
                 ELSE DeleteWorkflow(id) /\ UNCHANGED gateway
  /\ UNCHANGED <<online, builderOpen, editingId, canvas>>
  /\ DraftEffect

\* A file is created at the gateway, or refused: offline, or as it is read.
HandleImportFile ==
  /\ ~builderOpen
  /\ online
  /\ Send(Request("import", NoWorkflow, NotSaved))
  /\ UNCHANGED <<online, stores, builder>>

(***************************************************************************)
(* The builder.                                                            *)
(***************************************************************************)
TypeDraft ==
  /\ builderOpen
  /\ draft' = [draft EXCEPT !.typed = TRUE]
  /\ UNCHANGED <<online, stores, gateway, builderOpen, editingId, canvas>>

Draw ==
  /\ builderOpen
  /\ \E steps \in Compilations : canvas' = [canvas EXCEPT !.steps = steps]
  /\ UNCHANGED <<online, stores, gateway, builderOpen, editingId, draft>>

Cancel ==
  /\ builderOpen
  /\ builderOpen' = FALSE
  /\ canvas' = NoCanvas
  /\ UNCHANGED <<online, stores, gateway, editingId, draft>>

\* Mutant: a graph with errors can be saved.
SavableRefused == draft # Blank

\* There is a name, and a run order with a step.
Savable == draft # Blank /\ canvas.steps \in Steps

\* Online a request is sent and the builder stays until it succeeded.
HandleSaveOnline ==
  /\ Send(Request(IF editingId = NoWorkflow THEN "create" ELSE "update", editingId,
                  [draftOf |-> draft.of, canvasOf |-> canvas.of]))
  /\ UNCHANGED <<stores, builder>>

HandleSave ==
  /\ builderOpen
  /\ Savable
  /\ IF online THEN HandleSaveOnline
     ELSE /\ IF editingId = NoWorkflow THEN CreateWorkflow(canvas.steps)
             ELSE UpdateWorkflow(editingId, canvas.steps)
          /\ builderOpen' = FALSE
          /\ canvas' = NoCanvas
          /\ UNCHANGED <<gateway, editingId, draft>>
  /\ UNCHANGED online

(***************************************************************************)
(* The connection, the gateway, and the page as a whole.                   *)
(***************************************************************************)
HealthAnswers ==
  /\ online' = ~online
  /\ UNCHANGED <<stores, gateway, builderOpen, editingId, canvas>>
  /\ DraftEffect

\* Every 30 seconds while online, and after every mutation that succeeded.
FetchWorkflows ==
  /\ online
  /\ fetched' = {id \in Server : server[id] # "absent"}
  /\ UNCHANGED <<online, stores, server, requests, builderOpen, editingId, canvas>>
  /\ DraftEffect

\* What the gateway makes of a request it accepts.  The page knows no
\* override of a model: what it writes has none, but a file may have one.
Accepts(r) ==
  \/ /\ r.op \in {"create", "copy", "import"}
     /\ \E id \in Server : /\ server[id] = "absent"
                           /\ \E s \in {"plain"} \cup (IF r.op = "import" THEN {"override"} ELSE {}) :
                                server' = [server EXCEPT ![id] = s]
  \/ /\ r.op = "update"
     /\ r.id \in Server /\ server[r.id] # "absent"
     /\ server' = [server EXCEPT ![r.id] = "plain"]
  \/ /\ r.op = "remove"
     /\ r.id \in Server /\ server[r.id] # "absent"
     /\ server' = [server EXCEPT ![r.id] = "absent"]
  \/ /\ r.op = "run"
     /\ r.id \in Server /\ server[r.id] # "absent"
     /\ server' = server

\* A save that succeeded closes the builder, whatever it has open by then.
RequestSucceeds ==
  /\ \E r \in requests :
       /\ Accepts(r)
       /\ requests' = requests \ {r}
       /\ IF r.here /\ r.op \in {"create", "update"}
          THEN builderOpen' = FALSE /\ canvas' = NoCanvas
          ELSE UNCHANGED <<builderOpen, canvas>>
  /\ UNCHANGED <<online, stores, fetched, editingId, draft>>

\* Refused by the gateway, or lost: the builder stays.
RequestFails ==
  /\ \E r \in requests : requests' = requests \ {r}
  /\ UNCHANGED <<online, stores, server, fetched, builder>>

\* The page is left and opened again.
Remount ==
  /\ builderOpen' = FALSE
  /\ editingId' = NoWorkflow
  /\ draft' = Blank
  /\ canvas' = NoCanvas
  /\ requests' = {[r EXCEPT !.here = FALSE] : r \in requests}
  /\ UNCHANGED <<online, stores, server, fetched>>

\* Somebody else creates, changes or deletes a workflow of the gateway.
ServerChanges ==
  /\ \E id \in Server, s \in {"absent", "plain", "override"} : server' = [server EXCEPT ![id] = s]
  /\ UNCHANGED <<online, stores, fetched, requests, builder>>

Init ==
  /\ online = FALSE
  /\ local \in [Local -> {"absent", "gated"}]
  /\ runs = <<>>
  /\ server \in [Server -> {"absent", "plain", "override"}]
  /\ fetched = NoData
  /\ requests = {}
  /\ builderOpen = FALSE
  /\ editingId = NoWorkflow
  /\ draft = Blank
  /\ canvas = NoCanvas

Next ==
  \/ OpenCreate \/ OpenEdit \/ HandleRun \/ Duplicate \/ Delete \/ HandleImportFile
  \/ TypeDraft \/ Draw \/ Cancel \/ HandleSave
  \/ HealthAnswers \/ FetchWorkflows \/ RequestSucceeds \/ RequestFails
  \/ Remount \/ ServerChanges

Spec == Init /\ [][Next]_vars
-----------------------------------------------------------------------------
(***************************************************************************)
(* Properties.                                                             *)
(***************************************************************************)
Ops == {"create", "update", "copy", "import", "remove", "run"}

TypeOK ==
  /\ online \in BOOLEAN
  /\ local \in [Local -> Steps \cup {"absent"}]
  /\ runs \in Seq(Local) /\ Len(runs) <= MaxRuns
  /\ server \in [Server -> {"absent", "plain", "override"}]
  /\ fetched = NoData \/ fetched \subseteq Server
  /\ requests \subseteq [op: Ops, id: Ids \cup {NoWorkflow}, draftOf: Ids \cup {NoWorkflow},
                         canvasOf: Ids \cup {NoWorkflow}, here: BOOLEAN]
  /\ builderOpen \in BOOLEAN
  /\ editingId \in Ids \cup {NoWorkflow}
  /\ draft \in [of: Ids \cup {NoWorkflow}, typed: BOOLEAN]
  /\ canvas \in [of: Ids \cup {NoWorkflow}, steps: Compilations]

(* A save writes one workflow: the graph is that of the workflow written,  *)
(* and so are the name, description and trigger, unless they were typed    *)
(* from nothing.  Neither another workflow edited before, nor a connection *)
(* that comes and goes under the builder, nor a list fetched again mixes   *)
(* two workflows in one.                                                   *)
SavesAreOfOneWorkflow ==
  \A r \in requests : r.op \in {"create", "update"} =>
    /\ r.canvasOf = r.id
    /\ r.draftOf \in {r.id, NoWorkflow}

(* The workflows of the browser change only while the gateway is away, and *)
(* one at a time: while it is back no button of the page changes them,     *)
(* whichever list is shown.  The builder then changes the one it was       *)
(* opened with into what is drawn, under its own name or a typed one, or   *)
(* makes one that was opened as none; outside the builder one is deleted,  *)
(* or copied from another.                                                 *)
BrowserIsKept ==
  [][/\ online => UNCHANGED local
     /\ \A id \in Local : local'[id] # local[id] =>
          /\ \A other \in Local \ {id} : local'[other] = local[other]
          /\ \/ /\ builderOpen
                /\ editingId = IF local[id] = "absent" THEN NoWorkflow ELSE id
                /\ canvas = [of |-> editingId, steps |-> local'[id]]
                /\ draft.of \in {editingId, NoWorkflow}
             \/ ~builderOpen /\ local'[id] = "absent"
             \/ /\ ~builderOpen /\ local[id] = "absent"
                /\ \E other \in Local : local[other] = local'[id]]_vars

(* What docs/guides/build-workflow.md:71-78 says of the canvas and of JSON *)
(* authoring, that mixed editing is safe: no request of the page takes the *)
(* override of a step's model off a workflow.  It does not hold of this    *)
(* code, and no run checks it: what the page reads (StepsOf) has no        *)
(* override, and its next save of the workflow writes none.                *)
MixedEditingIsSafe ==
  [][\A id \in Server : server[id] = "override" /\ server'[id] = "plain" => ServerChanges]_vars
=============================================================================

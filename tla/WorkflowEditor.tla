--------------------------- MODULE WorkflowEditor ---------------------------
(***************************************************************************)
(* The canvas on which a workflow is drawn (components/workflows/canvas/   *)
(* workflow-canvas-editor.tsx): the graph of its steps, what is selected,  *)
(* the panel that edits the selected step, and the box for its arguments,  *)
(* in which a text that does not parse stays.  Handlers are operators; the *)
(* controls of the page, with the condition under which each is shown, are *)
(* the actions.                                                            *)
(*                                                                         *)
(* React Flow calls onNodesChange and onEdgesChange for clicks and for the *)
(* delete key; no onConnect is given, so dragging connects nothing.  Of a  *)
(* step the model keeps the kind and the gate, and of a text in the box    *)
(* for the arguments whether it parses; the arguments themselves and the   *)
(* summary, target and preview of a step are left out.  Nodes that repeat  *)
(* an id say the same; handlers reach a node by its id, so the copies are  *)
(* selected, patched and removed together, and nothing compiles until they *)
(* are all gone.                                                           *)
(***************************************************************************)
EXTENDS WorkflowGraph, FiniteSetsExt

CONSTANTS
  StepIds,      \* ids of steps, those of the workflow edited and those drawn
  InitialSteps, \* the lists of ids an editor may be opened with
  NoText,       \* argsText: null
  MaxEdits,     \* bound on the patches of steps and the exec_tool steps added
  MaxSelected   \* bound on the nodes selected at once

ASSUME EditorAssumption ==
  /\ InitialSteps \subseteq Seq(StepIds)
  /\ NoText # "invalid"
  /\ MaxEdits \in Nat
  /\ MaxSelected \in Nat

VARIABLES
  nodes,        \* the node array, by id
  edges,        \* the edges
  step,         \* data.step of each id
  selected,     \* ids of the selected nodes
  selectedEdge, \* the selected edges, at most one
  argsText,     \* the text left in the arguments box, or NoText
  edits         \* patches and exec_tool steps added so far

editorVars == <<nodes, edges, step, selected, selectedEdge, argsText, edits>>

Kinds == {"exec_tool", "write_file"}

\* ELEVATED_KINDS; exec_tool stands for send_email too.
Elevated == {"exec_tool"}

WorkflowStep == [kind: Kinds, requiresApproval: BOOLEAN]

\* newStep
NewStep(kind) == [kind |-> kind, requiresApproval |-> TRUE]

\* What step holds for an id that is not on the canvas.
NoStep == NewStep("write_file")

\* toolBoundStep: an exec_tool step, its target a tool of the catalog.
ToolBoundStep == NewStep("exec_tool")

(***************************************************************************)
(* An editor opens with the steps of a workflow.  The first of them is of  *)
(* any kind and gate (the seeded workflows hold an exec_tool step without  *)
(* a gate), the others as newStep makes them.                              *)
(***************************************************************************)
EditorInit ==
  /\ \E ids \in InitialSteps :
       /\ nodes = StepsToGraph(ids).nodes
       /\ edges = StepsToGraph(ids).edges
       /\ \E first \in WorkflowStep :
            step = [n \in StepIds |-> IF ids # <<>> /\ n = ids[1] THEN first ELSE NoStep]
  /\ selected = {}
  /\ selectedEdge = {}
  /\ argsText = NoText
  /\ edits = 0

Compiled == GraphToSteps(nodes, edges)

\* selectedId: the first node of the array that is selected.  The panel
\* shows its step, if there is one.
SelectedIndex ==
  LET sel == {i \in DOMAIN nodes : nodes[i] \in selected}
  IN IF sel = {} THEN 0 ELSE CHOOSE i \in sel : \A j \in sel : i <= j

PanelShows(id) == SelectedIndex # 0 /\ id = nodes[SelectedIndex]

(***************************************************************************)
(* Handlers.                                                               *)
(***************************************************************************)
SelectNode(ids) ==
  /\ selected' = ids
  /\ selectedEdge' = {}
  /\ UNCHANGED <<nodes, edges, step, argsText, edits>>

InsertNode(id, s) ==
  /\ id \in StepIds \ Nodes(nodes)
  /\ nodes' = Append(nodes, id)
  /\ step' = [step EXCEPT ![id] = s]
  /\ selected' = {id}
  /\ s = NoStep \/ edits < MaxEdits
  /\ edits' = IF s = NoStep THEN edits ELSE edits + 1
  /\ UNCHANGED <<edges, selectedEdge, argsText>>

\* Mutant: an edge stays when one of its ends does.
LeavesDangling(ids) == {e \in edges : e[1] \notin ids \/ e[2] \notin ids}

\* The edges that stay when the nodes ids go.
EdgesWithout(ids) == {e \in edges : e[1] \notin ids /\ e[2] \notin ids}

Remove(ids, es) ==
  /\ nodes' = Without(nodes, ids)
  /\ edges' = EdgesWithout(ids) \ es
  /\ selected' = selected \ ids
  /\ selectedEdge' = selectedEdge \cap edges'
  /\ step' = [n \in StepIds |-> IF n \in ids THEN NoStep ELSE step[n]]
  /\ UNCHANGED <<argsText, edits>>

Connect(s, t) ==
  /\ ConnectionIsValid(nodes, edges, s, t)
  /\ edges' = edges \cup {<<s, t>>}
  /\ selectedEdge' = {}
  /\ UNCHANGED <<nodes, step, selected, argsText, edits>>

\* Mutant: a change of the kind leaves the gate alone.
KeepsGate(s, kind) == [s EXCEPT !.kind = kind]

\* What patchStep makes of a change of the step's kind, and of one of its gate.
WithKind(s, kind) ==
  IF kind \in Elevated THEN [s EXCEPT !.kind = kind, !.requiresApproval = TRUE]
                       ELSE [s EXCEPT !.kind = kind]

PatchStep(s) ==
  /\ edits < MaxEdits
  /\ edits' = edits + 1
  /\ step' = [step EXCEPT ![nodes[SelectedIndex]] = s]
  /\ UNCHANGED <<nodes, edges, selected, selectedEdge, argsText>>

(***************************************************************************)
(* Controls.                                                               *)
(***************************************************************************)
Palette == \E id \in StepIds, kind \in Kinds : InsertNode(id, NewStep(kind))

Catalog == \E id \in StepIds : InsertNode(id, ToolBoundStep)

\* Clicks on the pane, on a node with the key that adds it to the selection
\* or takes it out, and on an edge; and the delete key.
Canvas ==
  /\ \/ SelectNode({})
     \/ /\ \E id \in Nodes(nodes) : /\ selected' = SymDiff(selected, {id})
                                       /\ Cardinality(selected') <= MaxSelected
        /\ UNCHANGED <<nodes, edges, step, selectedEdge, argsText, edits>>
     \/ \E e \in edges :
          /\ selected' = {}
          /\ selectedEdge' = {e}
          /\ UNCHANGED <<nodes, edges, step, argsText, edits>>
     \/ selected \cup selectedEdge # {} /\ Remove(selected, selectedEdge)

\* onCanvasKeyDown: Enter or space on a node that has the focus; a click on
\* a node selects it alone too.
CanvasKeyDown == \E id \in Nodes(nodes) : SelectNode({id})

GotoNeighbor ==
  /\ SelectedIndex # 0
  /\ \E next \in {SelectedIndex + Len(nodes) - 1, SelectedIndex + 1} :
       SelectNode({nodes[((next - 1) % Len(nodes)) + 1]})

KindSelect ==
  /\ \E id \in StepIds, kind \in Kinds :
       PanelShows(id) /\ step[id].kind # kind /\ PatchStep(WithKind(step[id], kind))

\* A text is typed and the box left: one that parses becomes the arguments of
\* the step shown, another one stays in the box, whatever step it shows next.
ArgsBox ==
  /\ \E id \in StepIds : PanelShows(id)
  /\ argsText' \in {NoText, "invalid"}
  /\ UNCHANGED <<nodes, edges, step, selected, selectedEdge, edits>>

\* The box is ticked for an elevated kind whatever the step says, and locked.
Locked(s) == s.kind \in Elevated

ApprovalBox ==
  /\ \E id \in StepIds :
       /\ PanelShows(id)
       /\ ~Locked(step[id])
       /\ PatchStep([step[id] EXCEPT !.requiresApproval = ~@])

ConnectableBefore(id) ==
  {n \in Nodes(nodes) \ {id} : \A e \in edges : e[1] # n /\ e[2] # id}

ConnectableAfter(id) ==
  {n \in Nodes(nodes) \ {id} : \A e \in edges : e[2] # n /\ e[1] # id}

\* For either side of the step shown, its edge with a button that unlinks
\* it, or else the list of steps it can be connected to.
Connections ==
  /\ \E id \in StepIds :
       /\ PanelShows(id)
       /\ \/ \E n \in ConnectableBefore(id) : Connect(n, id)
          \/ \E n \in ConnectableAfter(id) : Connect(id, n)
          \/ \E e \in edges : id \in {e[1], e[2]} /\ Remove({}, {e})

DeleteStep == \E id \in StepIds : PanelShows(id) /\ Remove({id}, {})

Outline ==
  /\ LET order == Compiled
     IN order # NoSteps /\ \E id \in Nodes(order) : SelectNode({id})

EditorNext ==
  \/ Palette \/ Catalog \/ Canvas \/ CanvasKeyDown \/ GotoNeighbor
  \/ KindSelect \/ ArgsBox \/ ApprovalBox
  \/ Connections \/ DeleteStep \/ Outline

EditorSpec == EditorInit /\ [][EditorNext]_editorVars
-----------------------------------------------------------------------------
(***************************************************************************)
(* Properties.                                                             *)
(***************************************************************************)
EditorTypeOK ==
  /\ nodes \in Seq(StepIds)
  /\ edges \subseteq StepIds \X StepIds
  /\ step \in [StepIds -> WorkflowStep]
  /\ selected \subseteq Nodes(nodes)
  /\ selectedEdge \subseteq edges
  /\ argsText \in {NoText, "invalid"}
  /\ edits \in 0..MaxEdits

(* Whatever is opened, added, connected, unlinked and deleted by the panel *)
(* or by the keys, an edge joins two different steps of the canvas, and a  *)
(* step has at most one edge in and one out, save where the workflow was   *)
(* opened with an id that repeats and is still there: that step may be     *)
(* joined to itself, and have several edges in and out.                    *)
LinearEdges ==
  /\ \A e \in edges : {e[1], e[2]} \subseteq Nodes(nodes)
  /\ \A e \in edges : e[1] = e[2] => e[1] \in Repeated(nodes)
  /\ \A e, f \in edges :
       \/ e = f
       \/ /\ e[1] = f[1] => e[1] \in Repeated(nodes)
          /\ e[2] = f[2] => e[2] \in Repeated(nodes)

(* The editor refuses a graph exactly when it has two nodes or more, and   *)
(* two of them have one id, or one has no edge, or some are joined in a    *)
(* ring.  What is accepted is one chain or several side by side, each of   *)
(* two steps or more: validateGraph does not look for the single           *)
(* start-to-end path that its last error asks for (graph.ts:147).          *)
RefusesExactly ==
  GraphErrors(nodes, edges) # {} <=>
    /\ Len(nodes) > 1
    /\ \/ Repeated(nodes) # {}
       \/ \E n \in Nodes(nodes) : \A e \in edges : n \notin {e[1], e[2]}
       \/ \E ring \in (SUBSET Nodes(nodes)) \ {{}} :
            \A n \in ring : \E m \in ring : <<m, n>> \in edges

(* The run order that is saved is a whole chain of the canvas: no step     *)
(* twice, each joined to the next, nothing before the first or after the   *)
(* last.                                                                   *)
RunOrderIsAChain ==
  LET order == Compiled
  IN order # NoSteps =>
       /\ (order = <<>>) = (nodes = <<>>)
       /\ \A i, j \in DOMAIN order : order[i] = order[j] => i = j
       /\ \A i \in 1..(Len(order) - 1) : <<order[i], order[i + 1]>> \in edges
       /\ \A e \in edges :
            /\ order # <<>> => e[2] # order[1]
            /\ \A i \in DOMAIN order : e[1] = order[i] => i < Len(order)

(* Opening what was saved and saving it again changes nothing: the steps   *)
(* of the run order, drawn as a graph, compile to the same run order.      *)
ReopenKeepsSteps ==
  LET order == Compiled
      g == StepsToGraph(order)
  IN order # NoSteps => GraphToSteps(g.nodes, g.edges) = order

(* A graph without errors compiles to all of its steps when it has one     *)
(* start, and to fewer only when it has several.                           *)
OneStartKeepsSteps ==
  LET order == Compiled
  IN order # NoSteps =>
       (Nodes(order) = Nodes(nodes) <=> Cardinality(Roots(nodes, edges)) <= 1)

(* The canvas is well formed after any sequence of edits.                  *)
CanvasIsLinear == EditorTypeOK /\ LinearEdges

(* What is saved stands for what is drawn: the run order is a whole chain, *)
(* which survives saving and opening, and all of the canvas when it has    *)
(* one start.                                                              *)
RunOrderIsTheCanvas == RunOrderIsAChain /\ ReopenKeepsSteps /\ OneStartKeepsSteps

(* No control of the editor leaves a step of an elevated kind without its  *)
(* gate that was not so before: neither by a change of the kind, nor by    *)
(* the box for the approval, nor by a new step.                            *)
Ungated(id) == step[id].kind \in Elevated /\ ~step[id].requiresApproval

NoStepLosesItsGate == [][\A id \in StepIds : Ungated(id)' => Ungated(id)]_editorVars
=============================================================================

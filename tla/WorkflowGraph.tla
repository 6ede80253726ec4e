--------------------------- MODULE WorkflowGraph ---------------------------
(***************************************************************************)
(* The translation between a workflow's list of steps and the graph of the *)
(* canvas (web/src/lib/workflows/graph.ts).  A graph is the array of nodes *)
(* ns, a sequence of step ids, and the set es of its edges <<source,       *)
(* target>>.  Ids may repeat: a workflow that is imported, or that the     *)
(* gateway holds, has the ids its author gave (workflows-view.tsx:65).     *)
(* What a step says travels beside it: compile orders the ids.             *)
(***************************************************************************)
EXTENDS Naturals, Sequences, FiniteSets

CONSTANT NoSteps    \* steps: null, the result of a graph with errors

Nodes(ns) == {ns[i] : i \in DOMAIN ns}

Repeated(ns) == {n \in Nodes(ns) : \E i, j \in DOMAIN ns : i # j /\ ns[i] = n /\ ns[j] = n}

\* The array of nodes without those of ids.
Without(ns, ids) ==
  LET kept[k \in 0..Len(ns)] ==
        IF k = 0 THEN <<>>
        ELSE IF ns[k] \in ids THEN kept[k - 1] ELSE Append(kept[k - 1], ns[k])
  IN kept[Len(ns)]

\* stepsToGraph: the nodes in the order of the steps, chained.
StepsToGraph(ids) ==
  [nodes |-> ids, edges |-> {<<ids[i], ids[i + 1]>> : i \in 1..(Len(ids) - 1)}]

(***************************************************************************)
(* validateGraph.  An edge counts for its ends when both are nodes and     *)
(* they differ; parallel edges, which only a repeated id brings, count as  *)
(* one, as the repeated id is an error already.  The walk for the cycle is *)
(* made only when no step has an error of its own, and a graph of one node *)
(* is not looked at.                                                       *)
(***************************************************************************)
Counted(ns, es) == {e \in es : e[1] # e[2] /\ {e[1], e[2]} \subseteq Nodes(ns)}

OutCount(ns, es, n) == Cardinality({e \in Counted(ns, es) : e[1] = n})

InCount(ns, es, n) == Cardinality({e \in Counted(ns, es) : e[2] = n})

\* Mutant: a step without an edge is no error.
ForgivesLone(ns, es) ==
  {<<"duplicate", n>> : n \in Repeated(ns)}
  \cup {<<"branching", n>> : n \in {m \in Nodes(ns) : OutCount(ns, es, m) > 1}}
  \cup {<<"merging", n>> : n \in {m \in Nodes(ns) : InCount(ns, es, m) > 1}}

StepErrors(ns, es) ==
       {<<"duplicate", n>> : n \in Repeated(ns)}
  \cup {<<"self", n>> : n \in {m \in Nodes(ns) : <<m, m>> \in es}}
  \cup {<<"branching", n>> : n \in {m \in Nodes(ns) : OutCount(ns, es, m) > 1}}
  \cup {<<"merging", n>> : n \in {m \in Nodes(ns) : InCount(ns, es, m) > 1}}
  \cup {<<"unconnected", n>> : n \in {m \in Nodes(ns) :
          OutCount(ns, es, m) = 0 /\ InCount(ns, es, m) = 0}}

Roots(ns, es) == {n \in Nodes(ns) : InCount(ns, es, n) = 0}

Visited(ns, es) ==
  LET within[k \in 0..Len(ns)] ==
        IF k = 0 THEN Roots(ns, es)
        ELSE LET seen == within[k - 1]
             IN seen \cup {e[2] : e \in {f \in es : f[1] \in seen}}
  IN within[Len(ns)]

GraphErrors(ns, es) ==
  LET errors == StepErrors(ns, es)
  IN IF Len(ns) <= 1 THEN {}
  ELSE IF errors # {} THEN errors
  ELSE IF Cardinality(Visited(ns, es)) < Len(ns) THEN {<<"cycle">>} ELSE {}

(***************************************************************************)
(* graphToSteps: from the first node of the array that is no edge's        *)
(* target, else from the first node, along the edges until there is none   *)
(* or it leads to a step already taken.                                    *)
(***************************************************************************)
\* Mutant: the walk starts at the first node of the array.
FirstNode(ns, es) == ns[1]

RootNode(ns, es) ==
  LET starts == {i \in DOMAIN ns : \A e \in Counted(ns, es) : e[2] # ns[i]}
  IN ns[IF starts = {} THEN 1 ELSE CHOOSE i \in starts : \A j \in starts : i <= j]

Follow(ns, es, walked) ==
  LET next == {e[2] : e \in {f \in Counted(ns, es) : f[1] = walked[Len(walked)]}} \ Nodes(walked)
  IN IF next = {} THEN walked ELSE Append(walked, CHOOSE n \in next : TRUE)

GraphToSteps(ns, es) ==
  LET walk[k \in 1..Len(ns)] ==
        IF k = 1 THEN <<RootNode(ns, es)>> ELSE Follow(ns, es, walk[k - 1])
  IN IF GraphErrors(ns, es) # {} THEN NoSteps
     ELSE IF ns = <<>> THEN <<>> ELSE walk[Len(ns)]

\* connectionIsValid.
ConnectionIsValid(ns, es, s, t) ==
  /\ s # t
  /\ {s, t} \subseteq Nodes(ns)
  /\ \A e \in es : e[1] # s /\ e[2] # t
=============================================================================

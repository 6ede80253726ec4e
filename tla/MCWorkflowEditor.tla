-------------------------- MODULE MCWorkflowEditor --------------------------
(* The canvas opened with no step, one, two, or one id twice: its node is  *)
(* joined to itself, and stays two after any edit but its removal.         *)
EXTENDS WorkflowEditor, TLC

MCInitialSteps == {<<>>} \cup {<<m>> : m \in StepIds}
                  \cup {<<p[1], p[2]>> : p \in StepIds \X StepIds}

Symmetry == Permutations(StepIds)

(* Four nodes at most, those of a repeated id among them.                  *)
BoundedNext == EditorNext /\ Len(nodes') <= 4

BoundedSpec == EditorInit /\ [][BoundedNext]_editorVars
=============================================================================

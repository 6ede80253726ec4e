---------------------------- MODULE MCWorkflows ----------------------------
(* The workflows of either source are alike. *)
EXTENDS Workflows, TLC

Symmetry == Permutations(Local) \cup Permutations(Server)
=============================================================================

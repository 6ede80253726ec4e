--------------------------- MODULE MCRegistryFile ---------------------------
(* RegistryFile with two handler threads and the poller, and two contents  *)
(* besides the empty one.                                                  *)
EXTENDS RegistryFile, TLC

Symmetry == Permutations(Threads) \cup Permutations(Content \ {Empty})
=============================================================================

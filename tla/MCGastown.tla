------------------------------ MODULE MCGastown ------------------------------
(* Gastown for liveness: behaviours with several POSTs and no fault, and   *)
(* with one POST and up to MaxFaults faults.                               *)
EXTENDS Gastown, FiniteSets

FaultsOrPosts == faults = 0 \/ Cardinality({w \in WS : pc[w] # "none"}) <= 1

\* The bound stops POSTs and faults only, and fairness asks for neither.
BoundedSpec == Init /\ [][Next /\ FaultsOrPosts']_vars /\ Fairness
=============================================================================

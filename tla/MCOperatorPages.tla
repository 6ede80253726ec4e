--------------------------- MODULE MCOperatorPages ---------------------------
(* The pages for TLC: the gateway's state and data and the operator's        *)
(* requests change 4 times in all.  None of these steps is owed by anyone.   *)
EXTENDS OperatorPages

BoundedNext == Next /\ changes' + version' + calls' <= 4

BoundedSpec == Init /\ [][BoundedNext]_vars /\ Fairness
=============================================================================

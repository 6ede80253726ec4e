--------------------------- MODULE MCGraphExplorer ---------------------------
(* A small graph for TLC: first a chain of three entities; then one of them  *)
(* has another name and the last is gone; in the end there is none.          *)
EXTENDS GraphExplorer

Chain ==
  [ent |-> [a |-> [name |-> "ada", type |-> "person"],
            b |-> [name |-> "bay", type |-> "place"],
            c |-> [name |-> "cy", type |-> "person"]],
   rel |-> {[from |-> "a", to |-> "b", confidence |-> 2],
            [from |-> "b", to |-> "c", confidence |-> 1]}]

Renamed ==
  [ent |-> [a |-> [name |-> "ida", type |-> "person"], b |-> Chain.ent.b],
   rel |-> {[from |-> "a", to |-> "b", confidence |-> 2]}]

MCGraphAt == [v \in 0..MaxVersion |-> <<Chain, Renamed, NoGraph>>[v + 1]]

MCMatches == [w \in {"ad"} |-> {"ada"}]

(* The operator, the gateway's state and its graph change 4 times in all.    *)
BoundedNext == GraphNext /\ clicks' + changes' + version' <= 4

BoundedSpec == GraphInit /\ [][BoundedNext]_graphVars
=============================================================================

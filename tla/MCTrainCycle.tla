---------------------------- MODULE MCTrainCycle ----------------------------
(* TrainCycle for TLC: two runs that claim a goal and one that does not.   *)
(* Which runs share an id: all, or any two of them.  That the ids, and the *)
(* two runs, are interchangeable is used in the initial states, as a       *)
(* SYMMETRY would not be sound under a temporal property.                  *)
EXTENDS TrainCycle

CONSTANTS r1, r2, r3, i1, i2

MCRuns == {r1, r2, r3}
MCIds  == {i1, i2}

MCInit == Init /\ ckpt[r1] = i1 /\ ~(ckpt[r2] = i2 /\ ckpt[r3] = i2)

MCSpec == MCInit /\ [][Next]_vars /\ \A r \in Runs : WF_vars(Step(r))
=============================================================================

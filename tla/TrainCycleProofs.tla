-------------------------- MODULE TrainCycleProofs --------------------------
(***************************************************************************)
(* For any number of runs in one output directory: the lock excludes until *)
(* a run has removed its file, and whatever the lock does, at most one     *)
(* checkpoint gets into the registry, it stays there, and only the run     *)
(* that registered it proposes it.                                         *)
(***************************************************************************)
EXTENDS TrainCycle, FiniteSetTheorems, TLAPS

(* There is one path, so there is at most one row.                         *)
LEMMA OneRow ==
  ASSUME NEW S \in SUBSET Row, NEW id, CanRegister(S, id, MergedPath)
  PROVE  S = {}
BY DEF Row, CanRegister

FirstRow(id) == [id |-> id, path |-> MergedPath, date |-> Today, rowid |-> 1]

LEMMA FirstRegistered ==
  ASSUME NEW id \in Ids
  PROVE  /\ FirstRow(id) \in Row
         /\ Registered({}, id, MergedPath, Today) = {FirstRow(id)}
<1>1. Max({0}) = 0
  BY DEF Max
<1>2. NextRowid({}) = 1
  <2>1. {0} \cup {r.rowid : r \in {}} = {0}
    OBVIOUS
  <2>2. QED
    BY <1>1, <2>1 DEF NextRowid
<1>3. QED
  BY <1>2 DEF Registered, FirstRow, Row

(* A retain that keeps two rows keeps the one there is.                    *)
LEMMA RetainKeepsOne == ASSUME NEW row \in Row PROVE Retained({row}, 2) = {row}
<1>1. {s \in {row} : Newer(s, row)} = {}
  BY DEF Row, Newer, Today
<1>2. Cardinality({s \in {row} : Newer(s, row)}) < 2
  BY <1>1, FS_EmptySet
<1>3. QED
  BY <1>2 DEF Retained

LEMMA RetainKeepsNone == Retained({}, 2) = {}
BY DEF Retained

-----------------------------------------------------------------------------
LEMMA TypeInit == Init => TypeOK
<1> SUFFICES ASSUME Init PROVE TypeOK
  OBVIOUS
<1>1. pc \in [Runs -> Outside \cup Inside]
  BY DEF Init, Outside
<1>2. /\ fd \in [Runs -> Runs \cup {Nobody}]
      /\ owner \in [Runs -> Runs \cup {Nobody}]
      /\ lease \in [Runs -> Runs \cup {Nobody}]
  BY DEF Init
<1>3. /\ result \in [Runs -> {"none", "refused", "None", "ckpt"}]
      /\ goal \in [Runs -> {"none", "open", "claimed"}]
  BY DEF Init
<1>4. rows \in SUBSET Row /\ proposals \in SUBSET [run : Runs, id : Ids]
  BY DEF Init
<1>5. QED
  BY <1>1, <1>2, <1>3, <1>4 DEF Init, TypeOK

LEMMA TypeStep == TypeOK /\ [Next]_vars => TypeOK'
<1> SUFFICES ASSUME TypeOK, [Next]_vars PROVE TypeOK'
  OBVIOUS
<1> USE DEF TypeOK, Goto, Returns, Inside, Outside
<1>1. ASSUME NEW r \in Runs, Open(r) PROVE TypeOK'
  <2>1. lockfile' \in Runs /\ fd' \in [Runs -> Runs \cup {Nobody}]
    BY <1>1 DEF Open
  <2>2. QED
    BY <1>1, <2>1 DEF Open, server
<1>2. ASSUME NEW r \in Runs, Flock(r) PROVE TypeOK'
  BY <1>2 DEF Flock, locking, server
<1>3. ASSUME NEW r \in Runs, Refused(r) PROVE TypeOK'
  BY <1>3 DEF Refused, locking, server
<1>4. ASSUME NEW r \in Runs, CreateGoal(r) PROVE TypeOK'
  BY <1>4 DEF CreateGoal, locking, server
<1>5. ASSUME NEW r \in Runs, CreateGoalFails(r) PROVE TypeOK'
  BY <1>5 DEF CreateGoalFails, locking, server
<1>6. ASSUME NEW r \in Runs, Claim(r) PROVE TypeOK'
  BY <1>6 DEF Claim, locking, server
<1>7. ASSUME NEW r \in Runs, ClaimFails(r) PROVE TypeOK'
  BY <1>7 DEF ClaimFails, locking, server
<1>8. ASSUME NEW r \in Runs, Train(r) PROVE TypeOK'
  BY <1>8 DEF Train, locking, server
<1>9. ASSUME NEW r \in Runs, TrainFails(r) PROVE TypeOK'
  BY <1>9 DEF TrainFails, locking, server
<1>10. ASSUME NEW r \in Runs, Merge(r) PROVE TypeOK'
  BY <1>10 DEF Merge, locking, server
<1>11. ASSUME NEW r \in Runs, MergeFails(r) PROVE TypeOK'
  BY <1>11 DEF MergeFails, locking, server
<1>12. ASSUME NEW r \in Runs, Register(r) PROVE TypeOK'
  <2>1. rows' = {FirstRow(ckpt[r])} /\ FirstRow(ckpt[r]) \in Row
    BY <1>12, OneRow, FirstRegistered DEF Register
  <2>2. QED
    BY <1>12, <2>1 DEF Register, locking, server
<1>13. ASSUME NEW r \in Runs, RegisterFails(r) PROVE TypeOK'
  BY <1>13 DEF RegisterFails, locking, server
<1>14. ASSUME NEW r \in Runs, Propose(r) PROVE TypeOK'
  <2>1. Proposal(r) \in [run : Runs, id : Ids]
    BY DEF Proposal
  <2>2. QED
    BY <1>14, <2>1 DEF Propose, locking
<1>15. ASSUME NEW r \in Runs, ProposeFails(r) PROVE TypeOK'
  <2>1. Proposal(r) \in [run : Runs, id : Ids]
    BY DEF Proposal
  <2>2. QED
    BY <1>15, <2>1 DEF ProposeFails, locking
<1>16. ASSUME NEW r \in Runs, Retain(r) PROVE TypeOK'
  <2>1. rows' \in SUBSET Row
    BY <1>16 DEF Retain, Retained
  <2>2. QED
    BY <1>16, <2>1 DEF Retain, locking, server
<1>17. ASSUME NEW r \in Runs, Unlock(r) PROVE TypeOK'
  <2>1. owner' \in [Runs -> Runs \cup {Nobody}]
    BY <1>17 DEF Unlock
  <2>2. fd' \in [Runs -> Runs \cup {Nobody}]
    BY <1>17 DEF Unlock
  <2>3. QED
    BY <1>17, <2>1, <2>2 DEF Unlock, server
<1>18. ASSUME NEW r \in Runs, Unlink(r) PROVE TypeOK'
  BY <1>18 DEF Unlink, locking, server
<1>19. ASSUME NEW r \in Runs, Crash(r) PROVE TypeOK'
  <2>1. owner' \in [Runs -> Runs \cup {Nobody}]
    BY <1>19 DEF Crash
  <2>2. merged' \in Runs \cup {Nobody}
    BY <1>19 DEF Crash
  <2>3. QED
    BY <1>19, <2>1, <2>2 DEF Crash, server
<1>20. CASE UNCHANGED vars
  BY <1>20 DEF vars, locking, server
<1>21. QED
  BY <1>1, <1>2, <1>3, <1>4, <1>5, <1>6, <1>7, <1>8, <1>9, <1>10, <1>11,
     <1>12, <1>13, <1>14, <1>15, <1>16, <1>17, <1>18, <1>19, <1>20 DEF Next,
     Step

(* What the runs hold, return and send stays well-typed.                   *)
THEOREM TypeCorrect == Spec => []TypeOK
BY TypeInit, TypeStep, PTL DEF Spec

-----------------------------------------------------------------------------
(* A run inside holds the lock of the file it has open, which is the file  *)
(* that has the name until somebody has removed it.                        *)
LockInv ==
  \A r \in Runs :
    /\ pc[r] \in Inside => fd[r] \in Runs /\ owner[fd[r]] = r
    /\ pc[r] = "flock" => fd[r] \in Runs
    /\ ~unlinked /\ pc[r] \in Inside \cup {"flock"} => fd[r] = lockfile

LEMMA LockInit == Init => LockInv
BY DEF Init, LockInv, Inside

LEMMA LockStep == TypeOK /\ LockInv /\ [Next]_vars => LockInv'
<1> SUFFICES ASSUME TypeOK, LockInv, [Next]_vars PROVE LockInv'
  OBVIOUS
<1> USE CycleAssumption DEF TypeOK, LockInv, Goto, Inside
<1>1. ASSUME NEW r \in Runs, Open(r) PROVE LockInv'
  BY <1>1 DEF Open
<1>2. ASSUME NEW r \in Runs, Flock(r) PROVE LockInv'
  BY <1>2 DEF Flock
<1>3. ASSUME NEW r \in Runs, Refused(r) PROVE LockInv'
  BY <1>3 DEF Refused
<1>4. ASSUME NEW r \in Runs, Unlock(r) PROVE LockInv'
  BY <1>4 DEF Unlock
<1>5. ASSUME NEW r \in Runs, Unlink(r) PROVE LockInv'
  BY <1>5 DEF Unlink
<1>6. ASSUME NEW r \in Runs, Crash(r) PROVE LockInv'
  BY <1>6 DEF Crash
<1>7. ASSUME NEW r \in Runs, UNCHANGED locking, pc[r] \in Inside,
             NEW next \in Inside, pc' = [pc EXCEPT ![r] = next]
      PROVE  LockInv'
  BY <1>7 DEF locking
<1>8. ASSUME NEW r \in Runs,
             \/ CreateGoal(r) \/ CreateGoalFails(r) \/ Claim(r) \/ ClaimFails(r)
             \/ Train(r) \/ TrainFails(r) \/ Merge(r) \/ MergeFails(r)
             \/ Register(r) \/ RegisterFails(r) \/ Propose(r) \/ ProposeFails(r)
             \/ Retain(r)
      PROVE  LockInv'
  <2>1. UNCHANGED locking /\ pc[r] \in Inside
    BY <1>8 DEF CreateGoal, CreateGoalFails, Claim, ClaimFails, Train,
      TrainFails, Merge, MergeFails, Register, RegisterFails, Propose,
      ProposeFails, Retain
  <2>2. \E next \in Inside : pc' = [pc EXCEPT ![r] = next]
    BY <1>8 DEF CreateGoal, CreateGoalFails, Claim, ClaimFails, Train,
      TrainFails, Merge, MergeFails, Register, RegisterFails, Propose,
      ProposeFails, Retain
  <2>3. QED
    BY <2>1, <2>2, <1>7
<1>9. CASE UNCHANGED vars
  BY <1>9 DEF vars, locking
<1>10. QED
  BY <1>1, <1>2, <1>3, <1>4, <1>5, <1>6, <1>8, <1>9 DEF Next, Step

(* Until a run has removed the lock file, at most one run is inside, for   *)
(* any number of runs, refusals and crashes.                               *)
THEOREM Exclusive == Spec => []ExclusiveUntilUnlink
<1>1. Init => TypeOK /\ LockInv
  BY TypeInit, LockInit
<1>2. TypeOK /\ LockInv /\ [Next]_vars => (TypeOK /\ LockInv)'
  BY TypeStep, LockStep
<1>3. TypeOK /\ LockInv => ExclusiveUntilUnlink
  BY DEF LockInv, ExclusiveUntilUnlink
<1>4. QED
  BY <1>1, <1>2, <1>3, PTL DEF Spec

-----------------------------------------------------------------------------
(* The registry holds one checkpoint at most, and the run that put it      *)
(* there is the only one that is about to propose or has proposed.         *)
Proposing(r) == pc[r] = "propose" \/ \E p \in proposals : p.run = r

RegistryInv ==
  /\ \A a, b \in rows : a = b
  /\ \A r \in Runs : Proposing(r) => \E row \in rows : row.id = ckpt[r]
  /\ \A p, q \in Runs : Proposing(p) /\ Proposing(q) => p = q
  /\ \A p \in proposals : p = Proposal(p.run)
  /\ ReturnedIsProposed

LEMMA RegistryInit == Init => RegistryInv
BY DEF Init, RegistryInv, Proposing, ReturnedIsProposed

LEMMA RegistryStep == TypeOK /\ RegistryInv /\ [Next]_vars => RegistryInv'
<1> SUFFICES ASSUME TypeOK, RegistryInv, [Next]_vars PROVE RegistryInv'
  OBVIOUS
<1> USE DEF TypeOK, RegistryInv, Proposing, ReturnedIsProposed, Proposal, Goto,
            Returns
<1>1. ASSUME UNCHANGED <<rows, proposals, ckpt>>,
             \A r \in Runs : /\ pc'[r] = "propose" => pc[r] = "propose"
                             /\ result'[r] = "ckpt" => result[r] = "ckpt"
      PROVE  RegistryInv'
  BY <1>1
<1>2. ASSUME NEW r \in Runs, Register(r) PROVE RegistryInv'
  <2>1. rows = {} /\ rows' = {FirstRow(ckpt[r])}
    BY <1>2, OneRow, FirstRegistered DEF Register
  <2>2. UNCHANGED <<ckpt, result, proposals>> /\ pc' = [pc EXCEPT ![r] = "propose"]
    BY <1>2 DEF Register, server
  <2>3. \A q \in Runs : ~Proposing(q)
    BY <2>1
  <2>4. \A q \in Runs : Proposing(q)' => q = r
    BY <2>2, <2>3
  <2>5. FirstRow(ckpt[r]).id = ckpt[r]
    BY DEF FirstRow
  <2>6. QED
    BY <2>1, <2>2, <2>4, <2>5
<1>3. ASSUME NEW r \in Runs, Propose(r) \/ ProposeFails(r) PROVE RegistryInv'
  <2>1. pc[r] = "propose" /\ UNCHANGED <<rows, ckpt>>
    BY <1>3 DEF Propose, ProposeFails
  <2>2. proposals' \in {proposals, proposals \cup {Proposal(r)}}
    BY <1>3 DEF Propose, ProposeFails
  <2>3. pc'[r] # "propose" /\ \A q \in Runs \ {r} : pc'[q] = pc[q]
    BY <1>3 DEF Propose, ProposeFails
  <2>4. \A q \in Runs : Proposing(q)' => Proposing(q)
    BY <2>1, <2>2, <2>3
  <2>5. \A p \in proposals' : p = Proposal(p.run)'
    BY <2>1, <2>2
  <2>6. ReturnedIsProposed'
    BY <1>3, <2>1, <2>2 DEF Propose, ProposeFails
  <2>7. QED
    BY <2>1, <2>4, <2>5, <2>6
<1>4. ASSUME NEW r \in Runs, Retain(r) PROVE RegistryInv'
  <2>1. rows' = rows
    <3>1. CASE rows = {}
      BY <1>4, <3>1, RetainKeepsNone DEF Retain
    <3>2. ASSUME NEW row \in rows PROVE rows' = rows
      <4>1. rows = {row} /\ row \in Row
        OBVIOUS
      <4>2. QED
        BY <1>4, <4>1, RetainKeepsOne DEF Retain
    <3>3. QED
      BY <3>1, <3>2
  <2>2. QED
    BY <1>4, <2>1, <1>1 DEF Retain, server
<1>5. ASSUME NEW r \in Runs, Open(r) PROVE RegistryInv'
  BY <1>5, <1>1 DEF Open, server
<1>6. ASSUME NEW r \in Runs, Flock(r) PROVE RegistryInv'
  BY <1>6, <1>1 DEF Flock, server
<1>7. ASSUME NEW r \in Runs, Refused(r) PROVE RegistryInv'
  BY <1>7, <1>1 DEF Refused, server
<1>8. ASSUME NEW r \in Runs, CreateGoal(r) PROVE RegistryInv'
  BY <1>8, <1>1 DEF CreateGoal, server
<1>9. ASSUME NEW r \in Runs, CreateGoalFails(r) PROVE RegistryInv'
  BY <1>9, <1>1 DEF CreateGoalFails, server
<1>10. ASSUME NEW r \in Runs, Claim(r) PROVE RegistryInv'
  BY <1>10, <1>1 DEF Claim, server
<1>11. ASSUME NEW r \in Runs, ClaimFails(r) PROVE RegistryInv'
  BY <1>11, <1>1 DEF ClaimFails, server
<1>12. ASSUME NEW r \in Runs, Train(r) PROVE RegistryInv'
  BY <1>12, <1>1 DEF Train, server
<1>13. ASSUME NEW r \in Runs, TrainFails(r) PROVE RegistryInv'
  BY <1>13, <1>1 DEF TrainFails, server
<1>14. ASSUME NEW r \in Runs, Merge(r) PROVE RegistryInv'
  BY <1>14, <1>1 DEF Merge, server
<1>15. ASSUME NEW r \in Runs, MergeFails(r) PROVE RegistryInv'
  BY <1>15, <1>1 DEF MergeFails, server
<1>16. ASSUME NEW r \in Runs, RegisterFails(r) PROVE RegistryInv'
  BY <1>16, <1>1 DEF RegisterFails, server
<1>17. ASSUME NEW r \in Runs, Unlock(r) PROVE RegistryInv'
  BY <1>17, <1>1 DEF Unlock, server
<1>18. ASSUME NEW r \in Runs, Unlink(r) PROVE RegistryInv'
  BY <1>18, <1>1 DEF Unlink, server
<1>19. ASSUME NEW r \in Runs, Crash(r) PROVE RegistryInv'
  BY <1>19, <1>1 DEF Crash, server
<1>20. CASE UNCHANGED vars
  BY <1>20, <1>1 DEF vars, server
<1>21. QED
  BY <1>2, <1>3, <1>4, <1>5, <1>6, <1>7, <1>8, <1>9, <1>10, <1>11, <1>12,
     <1>13, <1>14, <1>15, <1>16, <1>17, <1>18, <1>19, <1>20 DEF Next, Step

THEOREM RegistryInvariance == Spec => [](TypeOK /\ RegistryInv)
<1>1. Init => TypeOK /\ RegistryInv
  BY TypeInit, RegistryInit
<1>2. TypeOK /\ RegistryInv /\ [Next]_vars => (TypeOK /\ RegistryInv)'
  BY TypeStep, RegistryStep
<1>3. QED
  BY <1>1, <1>2, PTL DEF Spec

(* The server is sent only proposals of checkpoints that the registry has, *)
(* however many runs the lock lets in.                                     *)
THEOREM ProposalsRegistered == Spec => []ProposedIsRegistered
<1>1. TypeOK /\ RegistryInv => ProposedIsRegistered
  BY DEF TypeOK, RegistryInv, Proposing, Proposal, ProposedIsRegistered
<1>2. QED
  BY <1>1, RegistryInvariance, PTL

(* No two runs propose the same checkpoint.                                *)
THEOREM ProposalsUnique == Spec => []ProposedOnce
<1>1. TypeOK /\ RegistryInv => ProposedOnce
  BY DEF TypeOK, RegistryInv, Proposing, Proposal, ProposedOnce
<1>2. QED
  BY <1>1, RegistryInvariance, PTL

(* A run that returns a checkpoint id has proposed it.                     *)
THEOREM ReturnsProposed == Spec => []ReturnedIsProposed
<1>1. RegistryInv => ReturnedIsProposed
  BY DEF RegistryInv
<1>2. QED
  BY <1>1, RegistryInvariance, PTL
=============================================================================

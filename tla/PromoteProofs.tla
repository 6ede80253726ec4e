---------------------------- MODULE PromoteProofs ----------------------------
(***************************************************************************)
(* Proofs about Promote, for any number of promotes and checkpoints.       *)
(***************************************************************************)
EXTENDS Promote, TLAPS

-----------------------------------------------------------------------------
LEMMA InitTypeOK == Init => TypeOK
  BY DEF Init, TypeOK, Unflipped, Flipped

LEMMA StepTypeOK == TypeOK /\ [Next]_vars => TypeOK'
<1> SUFFICES ASSUME TypeOK, [Next]_vars PROVE TypeOK'
  OBVIOUS
<1> USE DEF TypeOK, Goto, Unflipped, Flipped, history, locals
<1>1. ASSUME NEW p \in Promotes, Lookup(p) \/ NotFound(p) \/ IsSymlink(p) \/ ReadLink(p)
      PROVE  TypeOK'
  <2>1. CASE Lookup(p)
    BY <2>1 DEF Lookup
  <2>2. CASE NotFound(p)
    BY <2>2 DEF NotFound
  <2>3. CASE IsSymlink(p)
    BY <2>3 DEF IsSymlink
  <2>4. CASE ReadLink(p)
    BY <2>4 DEF ReadLink
  <2>5. QED
    BY <1>1, <2>1, <2>2, <2>3, <2>4
<1>2. ASSUME NEW p \in Promotes, Flip(p) \/ FlipFails(p) \/ Restart(p) \/ RestartFails(p)
      PROVE  TypeOK'
  BY <1>2 DEF Flip, FlipFails, Restart, RestartFails
<1>3. ASSUME NEW p \in Promotes, SmokePasses(p) \/ SmokeFails(p)
      PROVE  TypeOK'
  BY <1>3 DEF SmokePasses, SmokeFails
<1>4. ASSUME NEW p \in Promotes, Rollback(p) \/ RollbackFails(p) \/ Killed(p)
      PROVE  TypeOK'
  BY <1>4 DEF Rollback, RollbackFails, Killed
<1>5. ASSUME NEW d \in Dirs, Discard(d) \/ Remake(d)
      PROVE  TypeOK'
  BY <1>5 DEF Discard, Remake
<1>6. CASE UNCHANGED vars
  BY <1>6 DEF vars
<1> QED
  BY <1>1, <1>2, <1>3, <1>4, <1>5, <1>6 DEF Next, Step

(* What promotes hold, and what the link names, is a directory of a        *)
(* registered checkpoint or none.                                          *)
THEOREM TypeCorrect == Spec => []TypeOK
  BY InitTypeOK, StepTypeOK, PTL DEF Spec

-----------------------------------------------------------------------------
(* Without an overlap at most one promote is active,                       *)
AloneInv == ~overlapped => \A p, q \in Active : p = q

(* and without a stranded one it remembers the release: before its flip    *)
(* the link still names it, and after the flip the target.                 *)
HoldsRelease(p) ==
  /\ pc[p] \in Unflipped => link = release
  /\ pc[p] \in Flipped => link = target[p]
  /\ pc[p] \in Flipped \cup {"flip"} => prior[p] = release

ReleaseInv ==
  ~overlapped /\ ~stranded =>
    /\ \A p \in Active : HoldsRelease(p)
    /\ Active = {} => link = release

(* A promote that has not looked at the link remembers nothing.            *)
UnreadInv == \A p \in Promotes : pc[p] \in {"look", "link"} => prior[p] = NoDir

IInv == TypeOK /\ AloneInv /\ UnreadInv /\ ReleaseInv

LEMMA InitIInv == Init => IInv
  BY InitTypeOK
  DEF IInv, Init, AloneInv, UnreadInv, ReleaseInv, Active, Unflipped, Flipped

LEMMA StepUnread == IInv /\ [Next]_vars => UnreadInv'
<1> SUFFICES ASSUME IInv, [Next]_vars PROVE UnreadInv'
  OBVIOUS
<1> USE DEF IInv, TypeOK, UnreadInv, Goto, Unflipped, Flipped, history, locals
<1>1. ASSUME NEW p \in Promotes, Lookup(p) \/ NotFound(p) \/ IsSymlink(p) \/ ReadLink(p)
      PROVE  UnreadInv'
  BY <1>1 DEF Lookup, NotFound, IsSymlink, ReadLink
<1>2. ASSUME NEW p \in Promotes, Flip(p) \/ FlipFails(p) \/ Restart(p) \/ RestartFails(p)
      PROVE  UnreadInv'
  BY <1>2 DEF Flip, FlipFails, Restart, RestartFails
<1>3. ASSUME NEW p \in Promotes, SmokePasses(p) \/ SmokeFails(p)
      PROVE  UnreadInv'
  BY <1>3 DEF SmokePasses, SmokeFails
<1>4. ASSUME NEW p \in Promotes, Rollback(p) \/ RollbackFails(p) \/ Killed(p)
      PROVE  UnreadInv'
  BY <1>4 DEF Rollback, RollbackFails, Killed
<1>5. CASE \E d \in Dirs : Discard(d) \/ Remake(d)
  BY <1>5 DEF Discard, Remake
<1>6. CASE UNCHANGED vars
  BY <1>6 DEF vars
<1> QED
  BY <1>1, <1>2, <1>3, <1>4, <1>5, <1>6 DEF Next, Step

(* A promote becomes active by looking at the link, which records that     *)
(* another one is.                                                         *)
LEMMA StepAlone == IInv /\ [Next]_vars => AloneInv'
<1> SUFFICES ASSUME IInv, [Next]_vars PROVE AloneInv'
  OBVIOUS
<1> USE DEF IInv, TypeOK, AloneInv, Active, Goto, Unflipped, Flipped, history, locals
<1>1. ASSUME NEW p \in Promotes, IsSymlink(p) PROVE AloneInv'
  <2>1. CASE Active = {}
    <3>1. \A q \in Promotes : pc'[q] \in Unflipped \cup Flipped => q = p
      BY <1>1, <2>1 DEF IsSymlink
    <3> QED
      BY <3>1
  <2>2. CASE Active # {}
    BY <1>1, <2>2 DEF IsSymlink
  <2> QED
    BY <2>1, <2>2
<1>2. ASSUME NEW p \in Promotes, Lookup(p) \/ NotFound(p) \/ ReadLink(p) PROVE AloneInv'
  <2>1. CASE Lookup(p) \/ NotFound(p)
    BY <2>1 DEF Lookup, NotFound
  <2>2. CASE ReadLink(p)
    BY <2>2 DEF ReadLink
  <2>3. QED
    BY <1>2, <2>1, <2>2
<1>3. ASSUME NEW p \in Promotes, Flip(p) \/ FlipFails(p) \/ Restart(p) \/ RestartFails(p)
      PROVE  AloneInv'
  BY <1>3 DEF Flip, FlipFails, Restart, RestartFails
<1>4. ASSUME NEW p \in Promotes, SmokePasses(p) \/ SmokeFails(p)
      PROVE  AloneInv'
  BY <1>4 DEF SmokePasses, SmokeFails
<1>5. ASSUME NEW p \in Promotes, Rollback(p) \/ RollbackFails(p) \/ Killed(p)
      PROVE  AloneInv'
  BY <1>5 DEF Rollback, RollbackFails, Killed
<1>6. CASE \E d \in Dirs : Discard(d) \/ Remake(d)
  BY <1>6 DEF Discard, Remake
<1>7. CASE UNCHANGED vars
  BY <1>7 DEF vars
<1> QED
  BY <1>1, <1>2, <1>3, <1>4, <1>5, <1>6, <1>7 DEF Next, Step

LEMMA StepRelease == IInv /\ [Next]_vars => ReleaseInv'
<1> SUFFICES ASSUME IInv, [Next]_vars, ~overlapped', ~stranded'
             PROVE  (\A p \in Active : HoldsRelease(p))' /\ (Active = {} => link = release)'
  BY DEF ReleaseInv
<1> DEFINE Goal == (\A p \in Active : HoldsRelease(p))' /\ (Active = {} => link = release)'
<1> USE DEF IInv, TypeOK, AloneInv, UnreadInv, ReleaseInv, HoldsRelease, Active, Goto,
            Unflipped, Flipped, history, locals
<1>1. ASSUME NEW p \in Promotes, Lookup(p) \/ NotFound(p) PROVE Goal
  BY <1>1 DEF Lookup, NotFound
<1>2. ASSUME NEW p \in Promotes, IsSymlink(p) PROVE Goal
  <2>1. Active = {} /\ link = release
    BY <1>2 DEF IsSymlink
  <2> QED
    BY <1>2, <2>1 DEF IsSymlink
<1>3. ASSUME NEW p \in Promotes, ReadLink(p) PROVE Goal
  <2>1. link = release /\ \A q \in Active : q = p
    BY <1>3 DEF ReadLink
  <2> QED
    BY <1>3, <2>1 DEF ReadLink
<1>4. ASSUME NEW p \in Promotes, Flip(p) \/ FlipFails(p) PROVE Goal
  <2>1. link = release /\ prior[p] = release /\ \A q \in Active : q = p
    BY <1>4 DEF Flip, FlipFails
  <2> QED
    BY <1>4, <2>1 DEF Flip, FlipFails
<1>5. ASSUME NEW p \in Promotes, Restart(p) \/ SmokeFails(p) PROVE Goal
  BY <1>5 DEF Restart, SmokeFails
<1>6. ASSUME NEW p \in Promotes, SmokePasses(p) PROVE Goal
  <2>1. link = target[p] /\ \A q \in Active : q = p
    BY <1>6 DEF SmokePasses
  <2> QED
    BY <1>6, <2>1 DEF SmokePasses
<1>7. ASSUME NEW p \in Promotes, Rollback(p) PROVE Goal
  <2>1. prior[p] = release /\ \A q \in Active : q = p
    BY <1>7 DEF Rollback
  <2> QED
    BY <1>7, <2>1 DEF Rollback
<1>8. ASSUME NEW p \in Promotes, RestartFails(p) \/ RollbackFails(p) PROVE Goal
  BY <1>8 DEF RestartFails, RollbackFails
<1>9. ASSUME NEW p \in Promotes, Killed(p) PROVE Goal
  <2>1. pc[p] \notin Flipped /\ ~stranded /\ link = link' /\ release = release'
    BY <1>9 DEF Killed
  <2>2. CASE p \in Active
    <3>1. link = release /\ \A q \in Active : q = p
      BY <1>9, <2>1, <2>2 DEF Killed
    <3> QED
      BY <1>9, <2>1, <3>1 DEF Killed
  <2>3. CASE p \notin Active
    BY <1>9, <2>1, <2>3 DEF Killed
  <2> QED
    BY <2>2, <2>3
<1>10. CASE \E d \in Dirs : Discard(d) \/ Remake(d)
  BY <1>10 DEF Discard, Remake
<1>11. CASE UNCHANGED vars
  BY <1>11 DEF vars
<1> QED
  BY <1>1, <1>2, <1>3, <1>4, <1>5, <1>6, <1>7, <1>8, <1>9, <1>10, <1>11 DEF Next, Step

THEOREM Invariance == Spec => []IInv
<1>1. IInv /\ [Next]_vars => IInv'
  BY StepTypeOK, StepAlone, StepUnread, StepRelease DEF IInv
<1> QED
  BY InitIInv, <1>1, PTL DEF Spec

(* However many promotes there are, one after the other the link names the *)
(* checkpoint promoted last, or the one that is being tried.               *)
THEOREM LinkNamesRelease == Spec => []LinkIsRelease
<1>1. IInv => LinkIsRelease
  BY DEF IInv, TypeOK, ReleaseInv, HoldsRelease, LinkIsRelease, Active
<1> QED
  BY Invariance, <1>1, PTL
=============================================================================

------------------------- MODULE RegistryFileProofs -------------------------
(***************************************************************************)
(* For any number of threads and any contents: the registry's lock keeps   *)
(* loads and saves apart, a load never reads a file that a live save is    *)
(* writing, and the file behaves as the atomic registry.                   *)
(***************************************************************************)
EXTENDS RegistryFile, TLAPS

Steps(t) ==
  \/ StartLoad(t) \/ LockForLoad(t) \/ ReadFile(t) \/ EndLoad(t)
  \/ \E d \in Content : StartSave(t, d)
  \/ LockForSave(t) \/ Truncate(t) \/ Write(t) \/ EndSave(t)
  \/ ReadFails(t) \/ LoadRaises(t) \/ SaveRaises(t)

(* A torn file is being written right now, or a save was cut short; and a  *)
(* thread between its truncate and the end of its write has torn the file. *)
TornOK ==
  /\ file = Torn => cut \/ MidWrite
  /\ MidWrite => file = Torn

(* The inductive invariant.                                                *)
IInv == TypeOK /\ LockOK /\ TornOK

LEMMA InitInv == Init => IInv
<1> SUFFICES ASSUME Init PROVE IInv
  OBVIOUS
<1> USE ConstAssumption
<1>1. TypeOK
  <2>1. /\ arg \in [Threads -> Content]
        /\ out \in [Threads -> Content]
    BY DEF Init
  <2>2. pc \in [Threads -> {"idle"}]
    BY DEF Init
  <2>3. file \in Content \cup {Torn} /\ lock \in Threads \cup {NoThread}
    BY DEF Init
  <2>4. faults \in 0 .. MaxFaults
    BY DEF Init
  <2>5. before \in Content /\ cut \in BOOLEAN
    BY DEF Init
  <2>6. QED
    BY <2>1, <2>2, <2>3, <2>4, <2>5 DEF TypeOK
<1>2. LockOK
  BY DEF Init, LockOK, Inside
<1>3. TornOK
  BY DEF Init, TornOK, MidWrite
<1>4. QED
  BY <1>1, <1>2, <1>3 DEF IInv

LEMMA TypeStep == TypeOK /\ [Next]_vars => TypeOK'
<1> SUFFICES ASSUME TypeOK, [Next]_vars PROVE TypeOK'
  OBVIOUS
<1> USE ConstAssumption DEF TypeOK, Goto, Acquire, Release, Parsed, history
<1>1. ASSUME NEW t \in Threads, Steps(t) PROVE TypeOK'
  <2>1. CASE StartLoad(t) \/ LockForLoad(t) \/ EndLoad(t)
    BY <2>1 DEF StartLoad, LockForLoad, EndLoad
  <2>2. CASE ReadFile(t)
    BY <2>2 DEF ReadFile
  <2>3. CASE \E d \in Content : StartSave(t, d)
    BY <2>3 DEF StartSave
  <2>4. CASE LockForSave(t) \/ EndSave(t)
    BY <2>4 DEF LockForSave, EndSave
  <2>5. CASE Truncate(t) \/ Write(t)
    <3>1. CASE Truncate(t)
      BY <3>1 DEF Truncate
    <3>2. CASE Write(t)
      BY <3>2 DEF Write
    <3>3. QED
      BY <2>5, <3>1, <3>2
  <2>6. CASE SaveRaises(t)
    <3>1. cut' \in BOOLEAN
      BY <2>6 DEF SaveRaises
    <3>2. faults' \in 0 .. MaxFaults
      BY <2>6 DEF SaveRaises
    <3>3. /\ UNCHANGED <<file, arg, out, before>>
          /\ lock' = NoThread /\ pc' = [pc EXCEPT ![t] = "idle"]
      BY <2>6 DEF SaveRaises
    <3>4. QED
      BY <3>1, <3>2, <3>3
  <2>7. CASE ReadFails(t)
    BY <2>7 DEF ReadFails
  <2>8. CASE LoadRaises(t)
    BY <2>8 DEF LoadRaises
  <2>9. QED
    BY <1>1, <2>1, <2>2, <2>3, <2>4, <2>5, <2>6, <2>7, <2>8 DEF Steps
<1>2. CASE Crash
  BY <1>2 DEF Crash
<1>3. CASE UNCHANGED vars
  BY <1>3 DEF vars
<1>4. QED
  BY <1>1, <1>2, <1>3 DEF Next, Steps

LEMMA LockStep == TypeOK /\ LockOK /\ [Next]_vars => LockOK'
<1> SUFFICES ASSUME TypeOK, LockOK, [Next]_vars PROVE LockOK'
  OBVIOUS
<1> USE ConstAssumption DEF TypeOK, LockOK, Inside, Goto, Acquire, Release
<1>1. ASSUME NEW t \in Threads, Steps(t) PROVE LockOK'
  <2>1. CASE StartLoad(t) \/ \E d \in Content : StartSave(t, d)
    BY <2>1 DEF StartLoad, StartSave
  <2>2. CASE LockForLoad(t) \/ LockForSave(t)
    BY <2>2 DEF LockForLoad, LockForSave
  <2>3. CASE ReadFile(t) \/ ReadFails(t) \/ Truncate(t) \/ Write(t)
    BY <2>3 DEF ReadFile, ReadFails, Truncate, Write
  <2>4. CASE EndLoad(t) \/ EndSave(t) \/ LoadRaises(t)
    BY <2>4 DEF EndLoad, EndSave, LoadRaises
  <2>5. CASE SaveRaises(t)
    BY <2>5 DEF SaveRaises
  <2>6. QED
    BY <1>1, <2>1, <2>2, <2>3, <2>4, <2>5 DEF Steps
<1>2. CASE Crash
  BY <1>2 DEF Crash
<1>3. CASE UNCHANGED vars
  BY <1>3 DEF vars
<1>4. QED
  BY <1>1, <1>2, <1>3 DEF Next, Steps

(* A thread that neither starts nor ends a write leaves MidWrite as it is. *)
LEMMA MidWriteFrame ==
  ASSUME TypeOK, NEW t \in Threads, NEW s,
         pc' = [pc EXCEPT ![t] = s], s # "writing", pc[t] # "writing"
  PROVE  MidWrite' <=> MidWrite
BY DEF TypeOK, MidWrite

LEMMA TornStep == IInv /\ [Next]_vars => TornOK'
<1> SUFFICES ASSUME IInv, [Next]_vars PROVE TornOK'
  OBVIOUS
<1> USE ConstAssumption DEF IInv
<1>1. ASSUME NEW t \in Threads, Steps(t) PROVE TornOK'
  <2>1. CASE \/ StartLoad(t) \/ LockForLoad(t) \/ ReadFile(t) \/ EndLoad(t)
             \/ LockForSave(t) \/ EndSave(t)
             \/ ReadFails(t) \/ LoadRaises(t)
             \/ \E d \in Content : StartSave(t, d)
    <3>1. PICK s : s # "writing" /\ pc[t] # "writing"
                   /\ pc' = [pc EXCEPT ![t] = s]
      BY <2>1 DEF StartLoad, LockForLoad, ReadFile, EndLoad, LockForSave,
                  EndSave, StartSave, ReadFails, LoadRaises, Goto
    <3>2. MidWrite' <=> MidWrite
      BY <3>1, MidWriteFrame
    <3>3. UNCHANGED <<file, cut>>
      BY <2>1 DEF StartLoad, LockForLoad, ReadFile, EndLoad, LockForSave,
                  EndSave, StartSave, ReadFails, LoadRaises, history
    <3>4. QED
      BY <3>2, <3>3 DEF TornOK
  <2>2. CASE Truncate(t)
    BY <2>2 DEF Truncate, Goto, TornOK, MidWrite, TypeOK
  <2>3. CASE Write(t)
    <3>1. ~MidWrite'
      BY <2>3 DEF Write, Goto, MidWrite, TypeOK, LockOK, Inside
    <3>2. file' # Torn
      BY <2>3 DEF Write, TypeOK
    <3>3. QED
      BY <3>1, <3>2 DEF TornOK
  <2>4. CASE SaveRaises(t)
    <3>1. ~MidWrite'
      BY <2>4 DEF SaveRaises, MidWrite, TypeOK, LockOK, Inside
    <3>2. file' = Torn => cut'
      BY <2>4 DEF SaveRaises, TornOK, MidWrite, TypeOK, LockOK, Inside
    <3>3. QED
      BY <3>1, <3>2 DEF TornOK
  <2>5. QED
    BY <1>1, <2>1, <2>2, <2>3, <2>4 DEF Steps
<1>2. CASE Crash
  BY <1>2 DEF Crash, TornOK, MidWrite, TypeOK
<1>3. CASE UNCHANGED vars
  BY <1>3 DEF vars, history, TornOK, MidWrite
<1>4. QED
  BY <1>1, <1>2, <1>3 DEF Next, Steps

(* The inductive invariant holds in every reachable state.                 *)
THEOREM Invariance == Spec => []IInv
<1>1. Init => IInv
  BY InitInv
<1>2. IInv /\ [Next]_vars => IInv'
  BY TypeStep, LockStep, TornStep DEF IInv
<1>3. QED
  BY <1>1, <1>2, PTL DEF Spec

(* The file, the lock and the threads' local variables stay well-typed: a  *)
(* load of any thread returns a whole content, never a fragment.           *)
THEOREM TypeCorrect == Spec => []TypeOK
<1>1. IInv => TypeOK
  BY DEF IInv
<1>2. QED
  BY <1>1, Invariance, PTL

(* Only the holder of the lock is inside a load or a save.                 *)
THEOREM LockCorrect == Spec => []LockOK
<1>1. IInv => LockOK
  BY DEF IInv
<1>2. QED
  BY <1>1, Invariance, PTL

(* A thread about to read finds a torn file only if the last write was cut *)
(* short.                                                                  *)
THEOREM NoTornReadCorrect == Spec => []NoTornRead
<1>1. IInv => NoTornRead
  BY DEF IInv, TypeOK, LockOK, TornOK, NoTornRead, MidWrite, Inside
<1>2. QED
  BY <1>1, Invariance, PTL

-----------------------------------------------------------------------------
(* What the refinement mapping makes of each thread's program counter.     *)
LEMMA ReqOf ==
  ASSUME NEW t \in Threads
  PROVE  /\ pc[t] \in {"load", "reading"} => req[t] = Atomic!LoadReq
         /\ pc[t] \in {"save", "opening", "writing"} =>
              req[t].op = "save" /\ req[t].data = arg[t]
         /\ pc[t] \in {"idle", "loaded", "saved"} => req[t] = Atomic!NoReq
BY DEF req, Atomic!LoadReq, Atomic!NoReq

(* A step of thread t that keeps its request keeps everybody's.            *)
LEMMA ReqFrame ==
  ASSUME TypeOK, NEW t \in Threads, NEW s,
         pc' = [pc EXCEPT ![t] = s], UNCHANGED arg,
         \/ {pc[t], s} \subseteq {"load", "reading"}
         \/ {pc[t], s} \subseteq {"save", "opening", "writing"}
         \/ {pc[t], s} \subseteq {"idle", "loaded", "saved"}
  PROVE  UNCHANGED req
<1> SUFFICES ASSUME NEW u \in Threads PROVE req'[u] = req[u]
  BY DEF req
<1>1. CASE u = t
  BY <1>1 DEF req, TypeOK
<1>2. CASE u # t
  BY <1>2 DEF req, TypeOK
<1>3. QED
  BY <1>1, <1>2

(* A step of thread t that ends its request changes nobody else's.         *)
LEMMA ReqEnd ==
  ASSUME TypeOK, NEW t \in Threads, NEW s \in {"idle", "loaded", "saved"},
         pc' = [pc EXCEPT ![t] = s], UNCHANGED arg
  PROVE  req' = [req EXCEPT ![t] = Atomic!NoReq]
BY DEF req, TypeOK, Atomic!NoReq

(* Nobody is in the middle of a write while another thread is inside.      *)
LEMMA SoleWriter ==
  ASSUME IInv, NEW t \in Threads, pc[t] \in Inside, pc[t] # "writing"
  PROVE  ~MidWrite
BY DEF IInv, LockOK, MidWrite, Inside

LEMMA InitRefines == Init => Atomic!AInit
BY ConstAssumption
DEF Init, Atomic!AInit, Atomic!NoReq, val, req, MidWrite, Parsed

(* Each step of the file-level registry is a step of the atomic one, or    *)
(* none: a load takes effect when the file is read, a save when its write  *)
(* ends, a failed load, a failed save and a death of the process when they *)
(* happen.                                                                 *)
LEMMA StepRefines ==
  IInv /\ [Next]_vars => [Atomic!ANext]_(Atomic!aVars)
<1> SUFFICES ASSUME IInv, [Next]_vars
             PROVE  Atomic!ANext \/ UNCHANGED <<val, out, req>>
  BY DEF Atomic!aVars
<1> TypeOK
  BY DEF IInv
<1> USE ConstAssumption
<1>1. ASSUME NEW t \in Threads, Steps(t)
      PROVE  Atomic!ANext \/ UNCHANGED <<val, out, req>>
  <2>1. CASE StartLoad(t)
    <3>1. UNCHANGED <<val, out>>
      BY <2>1, MidWriteFrame DEF StartLoad, Goto, val, Parsed, history
    <3>2. req[t] = Atomic!NoReq
      BY <2>1, ReqOf DEF StartLoad, Goto
    <3>3. req' = [req EXCEPT ![t] = Atomic!LoadReq]
      BY <2>1 DEF StartLoad, Goto, req, TypeOK, Atomic!LoadReq
    <3>4. QED
      BY <3>1, <3>2, <3>3 DEF Atomic!ANext, Atomic!CallLoad
  <2>2. CASE \E d \in Content : StartSave(t, d)
    <3> PICK d \in Content : StartSave(t, d)
      BY <2>2
    <3>1. UNCHANGED <<val, out>>
      BY MidWriteFrame DEF StartSave, Goto, val, Parsed, history
    <3>2. req[t] = Atomic!NoReq
      BY ReqOf DEF StartSave, Goto
    <3>3. req' = [req EXCEPT ![t] = Atomic!SaveReq(d)]
      BY DEF StartSave, Goto, req, TypeOK, Atomic!SaveReq
    <3>4. QED
      BY <3>1, <3>2, <3>3 DEF Atomic!ANext, Atomic!CallSave
  <2>3. CASE LockForLoad(t) \/ LockForSave(t) \/ EndLoad(t) \/ EndSave(t)
    <3>1. UNCHANGED <<val, out>>
      BY <2>3, MidWriteFrame
      DEF LockForLoad, LockForSave, EndLoad, EndSave, Goto, val, Parsed, history
    <3>2. UNCHANGED req
      BY <2>3, ReqFrame DEF LockForLoad, LockForSave, EndLoad, EndSave, Goto
    <3>3. QED
      BY <3>1, <3>2
  <2>4. CASE ReadFile(t)
    <3>1. ~MidWrite /\ UNCHANGED val
      BY <2>4, SoleWriter, MidWriteFrame DEF ReadFile, Goto, val, Parsed,
         Inside, history
    <3>2. out' = [out EXCEPT ![t] = val]
      BY <2>4, <3>1 DEF ReadFile, val
    <3>3. req[t] = Atomic!LoadReq
      BY <2>4, ReqOf DEF ReadFile, Goto
    <3>4. req' = [req EXCEPT ![t] = Atomic!NoReq]
      BY <2>4, ReqEnd DEF ReadFile, Goto
    <3>5. QED
      BY <3>1, <3>2, <3>3, <3>4 DEF Atomic!ANext, Atomic!DoLoad
  <2>5. CASE Truncate(t)
    <3>1. ~MidWrite
      BY <2>5, SoleWriter DEF Truncate, Goto, Inside
    <3>2. MidWrite'
      BY <2>5 DEF Truncate, Goto, MidWrite, TypeOK
    <3>3. UNCHANGED <<val, out>>
      BY <2>5, <3>1, <3>2 DEF Truncate, val
    <3>4. UNCHANGED req
      BY <2>5, ReqFrame DEF Truncate, Goto
    <3>5. QED
      BY <3>3, <3>4
  <2>6. CASE Write(t)
    <3>1. ~MidWrite'
      BY <2>6 DEF Write, Goto, MidWrite, TypeOK, IInv, LockOK, Inside
    <3>2. val' = arg[t] /\ UNCHANGED out
      BY <2>6, <3>1 DEF Write, val, Parsed, TypeOK
    <3>3. req[t].op = "save" /\ req[t].data = arg[t]
      BY <2>6, ReqOf DEF Write, Goto
    <3>4. req' = [req EXCEPT ![t] = Atomic!NoReq]
      BY <2>6, ReqEnd DEF Write, Goto
    <3>5. QED
      BY <3>2, <3>3, <3>4 DEF Atomic!ANext, Atomic!DoSave
  <2>7. CASE SaveRaises(t)
    <3>1. ~MidWrite'
      BY <2>7 DEF SaveRaises, MidWrite, TypeOK, IInv, LockOK, Inside
    <3>2. val' \in {val, Empty} /\ UNCHANGED out
      BY <2>7, <3>1 DEF SaveRaises, val, Parsed, IInv, TornOK, MidWrite
    <3>3. req[t].op = "save" /\ req[t].data = arg[t]
      BY <2>7, ReqOf DEF SaveRaises
    <3>4. req' = [req EXCEPT ![t] = Atomic!NoReq]
      BY <2>7, ReqEnd DEF SaveRaises
    <3>5. QED
      BY <3>2, <3>3, <3>4 DEF Atomic!ANext, Atomic!FailSave
  <2>8. CASE ReadFails(t) \/ LoadRaises(t)
    <3>1. PICK s \in {"loaded", "idle"} : Goto(t, "reading", s)
      BY <2>8 DEF ReadFails, LoadRaises
    <3>2. UNCHANGED <<file, arg, before>>
      BY <2>8 DEF ReadFails, LoadRaises, history
    <3>3. UNCHANGED val
      BY <3>1, <3>2, MidWriteFrame DEF Goto, val, Parsed
    <3>4. out' \in {out, [out EXCEPT ![t] = Empty]}
      BY <2>8 DEF ReadFails, LoadRaises
    <3>5. req[t] = Atomic!LoadReq
      BY <3>1, ReqOf DEF Goto
    <3>6. req' = [req EXCEPT ![t] = Atomic!NoReq]
      BY <3>1, <3>2, ReqEnd DEF Goto
    <3>7. QED
      BY <3>3, <3>4, <3>5, <3>6 DEF Atomic!ANext, Atomic!FailLoad
  <2>9. QED
    BY <1>1, <2>1, <2>2, <2>3, <2>4, <2>5, <2>6, <2>7, <2>8 DEF Steps
<1>2. CASE Crash
  <2>1. ~MidWrite' /\ val' = Parsed(file)
    BY <1>2 DEF Crash, MidWrite, val, Parsed
  <2>2. \/ UNCHANGED val
        \/ val' = Empty /\ \E t \in Threads : req[t].op = "save"
    <3>1. CASE MidWrite
      <4>1. PICK t \in Threads : pc[t] = "writing"
        BY <3>1 DEF MidWrite
      <4>2. req[t].op = "save"
        BY <4>1, ReqOf
      <4>3. val' = Empty
        BY <2>1, <3>1 DEF Parsed, IInv, TornOK
      <4>4. QED
        BY <4>2, <4>3
    <3>2. CASE ~MidWrite
      BY <2>1, <3>2 DEF val
    <3>3. QED
      BY <3>1, <3>2
  <2>3. /\ req' = [t \in Threads |-> Atomic!NoReq]
        /\ out' = [t \in Threads |-> Empty]
    BY <1>2 DEF Crash, req, Atomic!NoReq
  <2>4. QED
    BY <2>2, <2>3 DEF Atomic!ANext, Atomic!Die
<1>3. CASE UNCHANGED vars
  BY <1>3 DEF vars, history, val, req, MidWrite, Parsed
<1>4. QED
  BY <1>1, <1>2, <1>3 DEF Next, Steps

(* The lock makes loads and saves of the file atomic: the file-level       *)
(* registry implements AtomicRegistry, for any threads and contents.       *)
THEOREM Refinement == Spec => ImplementsAtomic
<1>1. Init => Atomic!AInit
  BY InitRefines
<1>2. IInv /\ [Next]_vars => [Atomic!ANext]_(Atomic!aVars)
  BY StepRefines
<1>3. QED
  BY <1>1, <1>2, Invariance, PTL DEF Spec, ImplementsAtomic, Atomic!ASpec
=============================================================================

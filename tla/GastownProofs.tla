---------------------------- MODULE GastownProofs ----------------------------
(***************************************************************************)
(* For any number of POSTs, and any crashes, I/O errors and interleavings: *)
(* the bridge's outcomes have evidence, running means started, and while   *)
(* no out-of-date save and no fault has happened nothing is lost and       *)
(* terminal states are final.                                              *)
(***************************************************************************)
EXTENDS Gastown, TLAPS

LEMMA EntryFacts ==
  /\ NoEntry \in Entry /\ NewEntry \in Entry /\ Wiped \in [WS -> Entry]
  /\ \A old, new \in Entry : Merged(old, new) \in Entry
  /\ \A e \in Entry, k \in Keys : WithKey(e, k) \in Entry
  /\ \A e \in Entry, s \in States : InState(e, s) \in Entry
  /\ \A e \in Entry : e.state \in States
  /\ Keys = {"bead_id", "dispatch_error"}
  /\ {"absent", "queued", "running", "completed", "failed"} = States
BY DEF States, Terminal, NoEntry, NewEntry, Wiped, Entry, Keys, Merged,
   WithKey, InState

LEMMA ThreadFacts == Poller \in Threads /\ WS \subseteq Threads
BY DEF Threads

LEMMA TypeInit == Init => TypeOK
<1> SUFFICES ASSUME Init PROVE TypeOK
  OBVIOUS
<1> USE EntryFacts DEF Init
<1>1. reg \in [WS -> Entry] /\ ws \in [WS -> Entry]
  OBVIOUS
<1>2. snap \in [Threads -> [WS -> Entry]]
  OBVIOUS
<1>3. faults \in 0 .. MaxFaults
  BY GastownAssumption
<1>4. QED
  BY <1>1, <1>2, <1>3 DEF TypeOK, Phases

(* The actions that leave the registry, the copies of it and the poller    *)
(* alone, then those that load, those that save, and the rest.             *)
LEMMA TypeStep == TypeOK /\ [Next]_vars => TypeOK'
<1> SUFFICES ASSUME TypeOK, [Next]_vars PROVE TypeOK'
  OBVIOUS
<1> USE EntryFacts, ThreadFacts DEF TypeOK, Goto, Phases
<1>1. ASSUME NEW w \in WS, Post(w) PROVE TypeOK'
  BY <1>1 DEF Post, poller, outside, history
<1>2. ASSUME NEW w \in WS, LoadFirst(w) PROVE TypeOK'
  BY <1>2 DEF LoadFirst, Load, poller, outside
<1>3. ASSUME NEW w \in WS, SaveFirst(w) PROVE TypeOK'
  BY <1>3 DEF SaveFirst, Save, poller, outside
<1>4. ASSUME NEW w \in WS, NoGt(w) PROVE TypeOK'
  BY <1>4 DEF NoGt, poller, outside, history
<1>5. ASSUME NEW w \in WS, CreateBead(w) PROVE TypeOK'
  BY <1>5 DEF CreateBead, poller, outside, history
<1>6. ASSUME NEW w \in WS, CreateFails(w) PROVE TypeOK'
  BY <1>6 DEF CreateFails, poller, outside, history
<1>7. ASSUME NEW w \in WS, Sling(w) PROVE TypeOK'
  BY <1>7 DEF Sling, poller, outside, history
<1>8. ASSUME NEW w \in WS, SlingFails(w) PROVE TypeOK'
  BY <1>8 DEF SlingFails, poller, outside, history
<1>9. ASSUME NEW w \in WS, DispatchRaises(w) PROVE TypeOK'
  <2>1. faults' \in 0 .. MaxFaults
    BY <1>9, GastownAssumption DEF DispatchRaises
  <2>2. bead' \in [WS -> {"none", "open", "closed", "failed"}]
    BY <1>9 DEF DispatchRaises, outside
  <2>3. slung' \in [WS -> BOOLEAN]
    BY <1>9 DEF DispatchRaises, outside
  <2>4. QED
    BY <1>9, <2>1, <2>2, <2>3 DEF DispatchRaises, poller, history
<1>10. ASSUME NEW w \in WS, LoadAgain(w) PROVE TypeOK'
  BY <1>10 DEF LoadAgain, Load, poller, outside
<1>11. ASSUME NEW w \in WS, SaveMerged(w) PROVE TypeOK'
  BY <1>11 DEF SaveMerged, Save, poller, outside
<1>12. ASSUME NEW w \in WS, MergeMissing(w) PROVE TypeOK'
  BY <1>12 DEF MergeMissing, poller, outside
<1>13. ASSUME NEW w \in WS, LoadForError(w) PROVE TypeOK'
  BY <1>13 DEF LoadForError, Load, poller, outside
<1>14. ASSUME NEW w \in WS, SaveError(w) PROVE TypeOK'
  BY <1>14 DEF SaveError, Save, poller, outside
<1>15. ASSUME NEW w \in WS, ErrorMissing(w) PROVE TypeOK'
  BY <1>15 DEF ErrorMissing, Ended, poller, outside
<1>16. ASSUME NEW w \in WS, Reply(w) PROVE TypeOK'
  BY <1>16 DEF Reply, Ended, poller, outside, history
<1>17. ASSUME NEW w \in WS, HandlerSaveRaises(w) PROVE TypeOK'
  <2>1. faults' \in 0 .. MaxFaults
    BY <1>17, GastownAssumption DEF HandlerSaveRaises, SaveRaises
  <2>2. pc' \in [WS -> Phases]
    <3>1. pc' = [pc EXCEPT ![w] = pc'[w]] /\ pc'[w] \in Phases
      BY <1>17 DEF HandlerSaveRaises, Phases, Ended
    <3>2. QED
      BY <3>1
  <2>3. reg' \in [WS -> Entry] /\ snap' \in [Threads -> [WS -> Entry]]
    BY <1>17 DEF HandlerSaveRaises, SaveRaises
  <2>4. QED
    BY <1>17, <2>1, <2>2, <2>3 DEF HandlerSaveRaises, SaveRaises, Ended,
       poller, outside, history
<1>18. ASSUME NEW w \in WS, PollShow(w) PROVE TypeOK'
  BY <1>18 DEF PollShow, PollEntry, Shown, Terminal, handler, outside, history
<1>19. ASSUME NEW w \in WS, PollShowFails(w) PROVE TypeOK'
  BY <1>19 DEF PollShowFails, PollEntry, Terminal, handler, outside, history
<1>20. ASSUME NEW w \in WS, BeadEnds(w) PROVE TypeOK'
  BY <1>20 DEF BeadEnds, handler, poller, history
<1>21. CASE PollLoad
  BY <1>21 DEF PollLoad, Polled, Load, handler, outside
<1>22. CASE PollSave
  BY <1>22 DEF PollSave, Save, handler, outside
<1>23. CASE PollSkip
  BY <1>23 DEF PollSkip, EndRound, handler, outside
<1>24. CASE PollRaises
  <2>1. faults' \in 0 .. MaxFaults
    BY <1>24, GastownAssumption DEF PollRaises
  <2>2. pc' \in [WS -> Phases]
    BY <1>24 DEF PollRaises, Phases, Ended, handler
  <2>3. reg' \in [WS -> Entry] /\ snap' \in [Threads -> [WS -> Entry]]
    BY <1>24 DEF PollRaises, EndRound
  <2>4. QED
    BY <1>24, <2>1, <2>2, <2>3 DEF PollRaises, EndRound, handler, outside,
       history
<1>25. CASE PollSaveRaises
  <2>1. faults' \in 0 .. MaxFaults
    BY <1>25, GastownAssumption DEF PollSaveRaises, SaveRaises
  <2>2. pc' \in [WS -> Phases]
    BY <1>25 DEF PollSaveRaises, Phases, Ended, handler
  <2>3. reg' \in [WS -> Entry] /\ snap' \in [Threads -> [WS -> Entry]]
    BY <1>25 DEF PollSaveRaises, SaveRaises
  <2>4. QED
    BY <1>25, <2>1, <2>2, <2>3 DEF PollSaveRaises, SaveRaises, handler,
       outside, history
<1>26. CASE Crash
  <2>1. faults' \in 0 .. MaxFaults
    BY <1>26, GastownAssumption DEF Crash
  <2>2. pc' \in [WS -> Phases]
    BY <1>26 DEF Crash, Phases, Ended, handler
  <2>3. reg' \in [WS -> Entry] /\ snap' \in [Threads -> [WS -> Entry]]
    BY <1>26 DEF Crash, EndRound
  <2>4. QED
    BY <1>26, <2>1, <2>2, <2>3 DEF Crash, Ended, handler, outside, history
<1>27. CASE Restart
  BY <1>27 DEF Restart, handler, poller, outside, history
<1>28. CASE UNCHANGED vars
  BY <1>28 DEF vars, handler, poller, outside, history
<1>29. ASSUME NEW w \in WS, HandlerReadFails(w) \/ HandlerLoadRaises(w)
      PROVE  TypeOK'
  <2>1. faults' \in 0 .. MaxFaults
    BY <1>29, GastownAssumption DEF HandlerReadFails, HandlerLoadRaises, ReadFails
  <2>2. pc' \in [WS -> Phases]
    <3>1. pc' = [pc EXCEPT ![w] = pc'[w]] /\ pc'[w] \in Phases
      BY <1>29 DEF HandlerReadFails, HandlerLoadRaises, Phases, Ended
    <3>2. QED
      BY <3>1
  <2>3. UNCHANGED <<up, reg, ws, reply, poller, outside, stale>>
    BY <1>29 DEF HandlerReadFails, HandlerLoadRaises, ReadFails, history
  <2>4. snap' = snap \/ snap' = [snap EXCEPT ![w] = Wiped]
    BY <1>29 DEF HandlerReadFails, HandlerLoadRaises, ReadFails
  <2>5. fresh' = fresh \/ fresh' = [fresh EXCEPT ![w] = FALSE]
    BY <1>29 DEF HandlerReadFails, HandlerLoadRaises, ReadFails, history
  <2>6. snap' \in [Threads -> [WS -> Entry]]
    BY <2>4
  <2>7. fresh' \in [Threads -> BOOLEAN]
    BY <2>5
  <2>8. QED
    BY <2>1, <2>2, <2>3, <2>6, <2>7 DEF poller, outside
<1>30. CASE PollReadFails
  <2>1. faults' \in 0 .. MaxFaults
    BY <1>30, GastownAssumption DEF PollReadFails, ReadFails
  <2>2. UNCHANGED <<up, reg, pc, ws, reply, bead, slung, stale>>
    BY <1>30 DEF PollReadFails, ReadFails, handler, outside
  <2>3. snap' \in [Threads -> [WS -> Entry]] /\ fresh' \in [Threads -> BOOLEAN]
    BY <1>30 DEF PollReadFails, ReadFails
  <2>4. ppc' = "show" /\ todo' = {} /\ changed' = FALSE
    BY <1>30 DEF PollReadFails
  <2>5. QED
    BY <2>1, <2>2, <2>3, <2>4
<1>31. QED
  BY <1>1, <1>2, <1>3, <1>4, <1>5, <1>6, <1>7, <1>8, <1>9, <1>10, <1>11,
     <1>12, <1>13, <1>14, <1>15, <1>16, <1>17, <1>18, <1>19, <1>20, <1>21,
     <1>22, <1>23, <1>24, <1>25, <1>26, <1>27, <1>28, <1>29, <1>30
  DEF Next, HandlerStep, PollFinish

(* The registry's entries, the threads' copies of them and the answers     *)
(* stay well-typed, whatever is loaded, merged, wiped or restarted.        *)
THEOREM TypeCorrect == Spec => []TypeOK
BY TypeInit, TypeStep, PTL DEF Spec

-----------------------------------------------------------------------------
(* Evidence for what a copy r of the registry says of w.                   *)
Evidence(r, w) ==
  /\ r[w].state = "completed" => bead[w] = "closed" \/ w \in DoneWord
  /\ r[w].state = "failed" =>
       bead[w] = "failed" \/ w \in ErrWord \/ HasError(r[w])
  /\ r[w].state = "running" => slung[w]

(* Every copy of the registry has evidence,                                *)
CopiesInv ==
  \A w \in WS : Evidence(reg, w) /\ \A t \in Threads : Evidence(snap[t], w)

(* and so has each handler's own entry; a handler creates the issue once   *)
(* and starts the agent once.                                              *)
OwnInv ==
  \A w \in WS :
    /\ ws[w].state \notin Terminal
    /\ ws[w].state = "running" \/ reply[w] = "running" => slung[w]
    /\ pc[w] \in {"none", "load", "insert", "create"} => bead[w] = "none" /\ ~slung[w]
    /\ pc[w] = "sling" => ~slung[w]

EvidenceInv == CopiesInv /\ OwnInv

(* A step after which a workstream's evidence is no less than before.      *)
EvidenceKept ==
  \A w \in WS :
    /\ bead[w] = "closed" => bead'[w] = "closed"
    /\ bead[w] = "failed" => bead'[w] = "failed"
    /\ slung[w] => slung'[w]

LEMMA EvidenceGrows == TypeOK /\ EvidenceInv /\ [Next]_vars => EvidenceKept
<1> SUFFICES ASSUME TypeOK, EvidenceInv, [Next]_vars PROVE EvidenceKept
  OBVIOUS
<1>1. ASSUME NEW w \in WS, CreateBead(w) \/ CreateFails(w) PROVE EvidenceKept
  BY <1>1 DEF CreateBead, CreateFails, Goto, EvidenceKept, EvidenceInv,
     OwnInv, TypeOK
<1>2. ASSUME NEW w \in WS, Sling(w) \/ SlingFails(w) PROVE EvidenceKept
  BY <1>2 DEF Sling, SlingFails, Goto, EvidenceKept, EvidenceInv, OwnInv,
     TypeOK
<1>3. ASSUME NEW w \in WS, DispatchRaises(w) PROVE EvidenceKept
  BY <1>3 DEF DispatchRaises, outside, EvidenceKept, EvidenceInv, OwnInv,
     TypeOK
<1>4. ASSUME NEW w \in WS, BeadEnds(w) PROVE EvidenceKept
  BY <1>4 DEF BeadEnds, EvidenceKept, TypeOK
<1>5. CASE UNCHANGED outside
  BY <1>5 DEF outside, EvidenceKept
<1>6. QED
  BY <1>1, <1>2, <1>3, <1>4, <1>5
  DEF Next, HandlerStep, PollFinish, vars, Post, LoadFirst, SaveFirst, NoGt,
      LoadAgain, SaveMerged, MergeMissing, LoadForError, SaveError,
      ErrorMissing, Reply, HandlerSaveRaises, PollShow, PollShowFails,
      PollEntry, PollLoad, PollSave, PollSkip, PollRaises, PollSaveRaises,
      HandlerReadFails, HandlerLoadRaises, PollReadFails, Crash, Restart

LEMMA OwnStep == TypeOK /\ OwnInv /\ [Next]_vars => OwnInv'
<1> SUFFICES ASSUME TypeOK, OwnInv, [Next]_vars PROVE OwnInv'
  OBVIOUS
<1> USE DEF TypeOK, OwnInv, Goto
<1>1. ASSUME NEW w \in WS, Post(w) PROVE OwnInv'
  BY <1>1 DEF Post, outside, NewEntry, Terminal
<1>2. ASSUME NEW w \in WS, LoadFirst(w) PROVE OwnInv'
  BY <1>2 DEF LoadFirst, outside
<1>3. ASSUME NEW w \in WS, SaveFirst(w) PROVE OwnInv'
  BY <1>3 DEF SaveFirst, outside
<1>4. ASSUME NEW w \in WS, NoGt(w) PROVE OwnInv'
  BY <1>4 DEF NoGt, outside
<1>5. ASSUME NEW w \in WS, CreateBead(w) PROVE OwnInv'
  BY <1>5 DEF CreateBead, WithKey
<1>6. ASSUME NEW w \in WS, CreateFails(w) PROVE OwnInv'
  BY <1>6 DEF CreateFails, WithKey
<1>7. ASSUME NEW w \in WS, Sling(w) PROVE OwnInv'
  BY <1>7 DEF Sling, InState, Terminal
<1>8. ASSUME NEW w \in WS, SlingFails(w) PROVE OwnInv'
  BY <1>8 DEF SlingFails, WithKey
<1>9. ASSUME NEW w \in WS, DispatchRaises(w) PROVE OwnInv'
  BY <1>9 DEF DispatchRaises, outside
<1>10. ASSUME NEW w \in WS, LoadAgain(w) PROVE OwnInv'
  BY <1>10 DEF LoadAgain, outside
<1>11. ASSUME NEW w \in WS, SaveMerged(w) PROVE OwnInv'
  BY <1>11 DEF SaveMerged, outside
<1>12. ASSUME NEW w \in WS, MergeMissing(w) PROVE OwnInv'
  BY <1>12 DEF MergeMissing, outside
<1>13. ASSUME NEW w \in WS, LoadForError(w) PROVE OwnInv'
  BY <1>13 DEF LoadForError, outside
<1>14. ASSUME NEW w \in WS, SaveError(w) PROVE OwnInv'
  BY <1>14 DEF SaveError, outside
<1>15. ASSUME NEW w \in WS, ErrorMissing(w) PROVE OwnInv'
  BY <1>15 DEF ErrorMissing, outside
<1>16. ASSUME NEW w \in WS, Reply(w) PROVE OwnInv'
  BY <1>16 DEF Reply, outside
<1>17. ASSUME NEW w \in WS, HandlerSaveRaises(w) PROVE OwnInv'
  BY <1>17 DEF HandlerSaveRaises, outside
<1>18. ASSUME NEW w \in WS, BeadEnds(w) PROVE OwnInv'
  BY <1>18 DEF BeadEnds, handler
<1>19. CASE UNCHANGED <<handler, outside>>
  BY <1>19 DEF handler, outside
<1>20. CASE Crash
  BY <1>20 DEF Crash, outside, Ended
<1>21. ASSUME NEW w \in WS, HandlerReadFails(w) \/ HandlerLoadRaises(w)
      PROVE  OwnInv'
  BY <1>21 DEF HandlerReadFails, HandlerLoadRaises, outside
<1>22. QED
  BY <1>1, <1>2, <1>3, <1>4, <1>5, <1>6, <1>7, <1>8, <1>9, <1>10, <1>11,
     <1>12, <1>13, <1>14, <1>15, <1>16, <1>17, <1>18, <1>19, <1>20, <1>21
  DEF Next, HandlerStep, PollFinish, vars, PollShow, PollShowFails, PollEntry,
      PollLoad, PollReadFails, PollSave, PollSkip, PollRaises, PollSaveRaises,
      Restart

(* A copy that says nothing new needs no new evidence.                     *)
LEMMA EmptyEvidence == \A w \in WS : Evidence(Wiped, w)
BY DEF Evidence, Wiped, NoEntry

LEMMA CopiesStep ==
  TypeOK /\ EvidenceInv /\ EvidenceKept /\ [Next]_vars => CopiesInv'
<1> SUFFICES ASSUME TypeOK, CopiesInv, OwnInv, EvidenceKept, [Next]_vars
             PROVE  CopiesInv'
  BY DEF EvidenceInv
<1> USE ThreadFacts DEF TypeOK, EvidenceKept
<1>1. CASE UNCHANGED <<reg, snap>>
  BY <1>1 DEF CopiesInv, Evidence
<1>2. ASSUME NEW t \in Threads, Load(t) PROVE CopiesInv'
  BY <1>2 DEF Load, CopiesInv, Evidence
<1>3. ASSUME NEW w \in WS, SaveFirst(w) PROVE CopiesInv'
  <2>1. \A v \in WS : Evidence(reg, v)'
    BY <1>3 DEF SaveFirst, Save, CopiesInv, Evidence, OwnInv, Terminal
  <2>2. \A t \in Threads, v \in WS : Evidence(snap[t], v)'
    BY <1>3 DEF SaveFirst, Save, CopiesInv, Evidence, Wiped, NoEntry
  <2>3. QED
    BY <2>1, <2>2 DEF CopiesInv
<1>4. ASSUME NEW w \in WS, SaveMerged(w) PROVE CopiesInv'
  <2>1. \A v \in WS : Evidence(reg, v)'
    BY <1>4 DEF SaveMerged, Save, Merged, CopiesInv, Evidence, OwnInv, Terminal
  <2>2. \A t \in Threads, v \in WS : Evidence(snap[t], v)'
    BY <1>4 DEF SaveMerged, Save, CopiesInv, Evidence, Wiped, NoEntry
  <2>3. QED
    BY <2>1, <2>2 DEF CopiesInv
<1>5. ASSUME NEW w \in WS, SaveError(w) PROVE CopiesInv'
  <2>1. \A v \in WS : Evidence(reg, v)'
    BY <1>5 DEF SaveError, Save, WithKey, HasError, CopiesInv, Evidence
  <2>2. \A t \in Threads, v \in WS : Evidence(snap[t], v)'
    BY <1>5 DEF SaveError, Save, CopiesInv, Evidence, Wiped, NoEntry
  <2>3. QED
    BY <2>1, <2>2 DEF CopiesInv
<1>6. ASSUME NEW w \in WS, MergeMissing(w) \/ ErrorMissing(w) PROVE CopiesInv'
  <2>1. UNCHANGED reg /\ snap' = [snap EXCEPT ![w] = Wiped]
    BY <1>6 DEF MergeMissing, ErrorMissing
  <2>2. QED
    BY <2>1 DEF CopiesInv, Evidence, Wiped, NoEntry
<1>7. ASSUME NEW t \in Threads, SaveRaises(t) PROVE CopiesInv'
  BY <1>7 DEF SaveRaises, CopiesInv, Evidence, Wiped, NoEntry
<1>8. ASSUME NEW w \in WS, NEW state, PollEntry(w, state),
             state = Shown(w, snap[Poller][w].state)
      PROVE  CopiesInv'
  <2>1. UNCHANGED outside /\ UNCHANGED reg
    BY <1>8 DEF PollEntry
  <2>2. Evidence(snap[Poller], w)'
    BY <1>8, <2>1 DEF PollEntry, InState, Shown, CopiesInv, Evidence, outside,
       HasError
  <2>3. \A t \in Threads, v \in WS :
          t # Poller \/ v # w => snap'[t][v] = snap[t][v]
    BY <1>8 DEF PollEntry
  <2>4. \A v \in WS : Evidence(reg, v)'
    BY <2>1 DEF CopiesInv, Evidence, outside
  <2>5. ASSUME NEW t \in Threads, NEW v \in WS, t # Poller \/ v # w
        PROVE  Evidence(snap[t], v)'
    <3>1. Evidence(snap[t], v)
      BY DEF CopiesInv
    <3>2. snap'[t][v] = snap[t][v]
      BY <2>3, <2>5
    <3>3. QED
      BY <2>1, <3>1, <3>2 DEF Evidence, HasError, outside
  <2>6. QED
    BY <2>2, <2>4, <2>5 DEF CopiesInv
<1>9. ASSUME NEW w \in WS, PollShowFails(w) PROVE CopiesInv'
  <2>1. UNCHANGED outside /\ UNCHANGED reg
    BY <1>9 DEF PollShowFails, PollEntry
  <2>2. Evidence(snap[Poller], w)'
    BY <1>9, <2>1 DEF PollShowFails, PollEntry, InState, CopiesInv, Evidence,
                      outside, HasError
  <2>3. \A t \in Threads, v \in WS :
          t # Poller \/ v # w => snap'[t][v] = snap[t][v]
    BY <1>9 DEF PollShowFails, PollEntry
  <2>4. \A v \in WS : Evidence(reg, v)'
    BY <2>1 DEF CopiesInv, Evidence, outside
  <2>5. ASSUME NEW t \in Threads, NEW v \in WS, t # Poller \/ v # w
        PROVE  Evidence(snap[t], v)'
    <3>1. Evidence(snap[t], v)
      BY DEF CopiesInv
    <3>2. snap'[t][v] = snap[t][v]
      BY <2>3, <2>5
    <3>3. QED
      BY <2>1, <3>1, <3>2 DEF Evidence, HasError, outside
  <2>6. QED
    BY <2>2, <2>4, <2>5 DEF CopiesInv
<1>10. CASE PollSave
  BY <1>10 DEF PollSave, Save, CopiesInv, Evidence, Wiped, NoEntry
<1>11. CASE UNCHANGED reg /\ EndRound
  BY <1>11 DEF EndRound, CopiesInv, Evidence, Wiped, NoEntry
<1>12. CASE Crash
  BY <1>12 DEF Crash, CopiesInv, Evidence, Wiped, NoEntry
<1>13. ASSUME NEW t \in Threads, ReadFails(t) PROVE CopiesInv'
  BY <1>13 DEF ReadFails, CopiesInv, Evidence, Wiped, NoEntry
<1>14. QED
  BY <1>1, <1>2, <1>3, <1>4, <1>5, <1>6, <1>7, <1>8, <1>9, <1>10, <1>11, <1>12,
     <1>13
  DEF Next, HandlerStep, HandlerReadFails, HandlerLoadRaises, PollReadFails,
      PollFinish, vars, Post, LoadFirst, NoGt, CreateBead,
      CreateFails, Sling, SlingFails, DispatchRaises, LoadAgain, LoadForError,
      Reply, HandlerSaveRaises, PollShow, PollLoad, PollSkip, PollRaises,
      PollSaveRaises, Restart, BeadEnds

LEMMA EvidenceInit == Init => EvidenceInv
BY EmptyEvidence
DEF Init, EvidenceInv, CopiesInv, OwnInv, Evidence, Wiped, NoEntry, Terminal

THEOREM EvidenceInvariance == Spec => [](TypeOK /\ EvidenceInv)
<1>1. Init => TypeOK /\ EvidenceInv
  BY TypeInit, EvidenceInit
<1>2. TypeOK /\ EvidenceInv /\ [Next]_vars => (TypeOK /\ EvidenceInv)'
  BY TypeStep, EvidenceGrows, OwnStep, CopiesStep DEF EvidenceInv
<1>3. QED
  BY <1>1, <1>2, PTL DEF Spec

(* No stale save, merge, wipe or restart makes up an outcome: completed    *)
(* and failed in the registry come from the tracker, from the text of the  *)
(* issue or from a failed dispatch.                                        *)
THEOREM OutcomesAreReal == Spec => []OutcomeHasEvidence
<1>1. EvidenceInv => OutcomeHasEvidence
  BY DEF EvidenceInv, CopiesInv, Evidence, OutcomeHasEvidence
<1>2. QED
  BY <1>1, EvidenceInvariance, PTL

(* A client is told running only of a workstream whose agent was started.  *)
THEOREM RunningIsReal == Spec => []RunningIsStarted
<1>1. EvidenceInv => RunningIsStarted
  BY DEF EvidenceInv, CopiesInv, OwnInv, Evidence, RunningIsStarted
<1>2. QED
  BY <1>1, EvidenceInvariance, PTL
-----------------------------------------------------------------------------
(***************************************************************************)
(* Durability: while no save has written an out-of-date copy and nothing   *)
(* has failed, the bridge loses no workstream and leaves no terminal       *)
(* state.  The invariant follows an entry through its handler: until the   *)
(* handler's last save the entry is the one of its first save, without a   *)
(* bead, so the poller has no business with it; and a fresh copy is the    *)
(* registry, but for the outcomes the poller has found and not saved yet.  *)
(***************************************************************************)
(* What a handler knows for itself, with or without faults.                *)
LocalInv ==
  \A w \in WS :
    /\ pc[w] \in {"load", "insert"} => ws[w] = NewEntry
    /\ pc[w] # "none" => ws[w].state \in {"queued", "running"}
    /\ reply[w] # "none" => pc[w] = "done" /\ reply[w] = ws[w].state

(* What the registry says of a workstream, by the phase of its handler.    *)
EntryInv ==
  \A w \in WS :
    /\ pc[w] \in {"none", "load", "insert"} => reg[w] = NoEntry
    /\ pc[w] \in {"create", "sling", "reload", "merge"} => reg[w] = NewEntry
    /\ pc[w] \in {"reply", "done"} =>
         /\ reg[w].state \in {"queued", "running"} \cup Terminal
         /\ ws[w].state = "running" => reg[w].state # "queued"
    /\ pc[w] \notin {"reloadX", "mergeX", "dropped", "killed"}

(* What a handler's copy says.                                             *)
HandlerCopyInv ==
  \A w \in WS :
    /\ pc[w] \in {"insert", "merge"} /\ fresh[w] => snap[w] = reg
    /\ pc[w] = "merge" => snap[w][w] = NewEntry

(* What the poller's copy says.                                            *)
Unsettled(e) == HasBead(e) /\ e.state \in {"queued", "running"}

PollerCopyInv ==
  ppc = "show" /\ fresh[Poller] =>
    /\ \A w \in WS :
         \/ snap[Poller][w] = reg[w]
         \/ Unsettled(reg[w]) /\ snap[Poller][w].state \in Terminal
    /\ \A w \in todo : Unsettled(reg[w]) /\ snap[Poller][w] = reg[w]

CleanInv == Clean => EntryInv /\ HandlerCopyInv /\ PollerCopyInv

LEMMA InStateSame == \A e \in Entry : InState(e, e.state) = e
BY DEF InState, Entry

-----------------------------------------------------------------------------
LEMMA LocalInit == Init => LocalInv
BY DEF Init, LocalInv

LEMMA LocalStep == TypeOK /\ LocalInv /\ [Next]_vars => LocalInv'
<1> SUFFICES ASSUME TypeOK, LocalInv, [Next]_vars PROVE LocalInv'
  OBVIOUS
<1> USE DEF TypeOK, LocalInv, Goto
<1>1. ASSUME NEW w \in WS, Post(w) PROVE LocalInv'
  BY <1>1 DEF Post, NewEntry
<1>2. ASSUME NEW w \in WS, LoadFirst(w) PROVE LocalInv'
  BY <1>2 DEF LoadFirst
<1>3. ASSUME NEW w \in WS, SaveFirst(w) PROVE LocalInv'
  BY <1>3 DEF SaveFirst, NewEntry
<1>4. ASSUME NEW w \in WS, NoGt(w) PROVE LocalInv'
  BY <1>4 DEF NoGt
<1>5. ASSUME NEW w \in WS, CreateBead(w) PROVE LocalInv'
  BY <1>5 DEF CreateBead, WithKey
<1>6. ASSUME NEW w \in WS, CreateFails(w) PROVE LocalInv'
  BY <1>6 DEF CreateFails, WithKey
<1>7. ASSUME NEW w \in WS, Sling(w) PROVE LocalInv'
  BY <1>7 DEF Sling, InState
<1>8. ASSUME NEW w \in WS, SlingFails(w) PROVE LocalInv'
  BY <1>8 DEF SlingFails, WithKey
<1>9. ASSUME NEW w \in WS, DispatchRaises(w) PROVE LocalInv'
  BY <1>9 DEF DispatchRaises
<1>10. ASSUME NEW w \in WS, LoadAgain(w) PROVE LocalInv'
  BY <1>10 DEF LoadAgain
<1>11. ASSUME NEW w \in WS, SaveMerged(w) PROVE LocalInv'
  BY <1>11 DEF SaveMerged
<1>12. ASSUME NEW w \in WS, MergeMissing(w) PROVE LocalInv'
  BY <1>12 DEF MergeMissing
<1>13. ASSUME NEW w \in WS, LoadForError(w) PROVE LocalInv'
  BY <1>13 DEF LoadForError
<1>14. ASSUME NEW w \in WS, SaveError(w) PROVE LocalInv'
  BY <1>14 DEF SaveError
<1>15. ASSUME NEW w \in WS, ErrorMissing(w) PROVE LocalInv'
  BY <1>15 DEF ErrorMissing
<1>16. ASSUME NEW w \in WS, Reply(w) PROVE LocalInv'
  BY <1>16 DEF Reply
<1>17. ASSUME NEW w \in WS, HandlerSaveRaises(w) PROVE LocalInv'
  BY <1>17 DEF HandlerSaveRaises
<1>18. CASE UNCHANGED handler
  BY <1>18 DEF handler
<1>19. CASE Crash
  BY <1>19 DEF Crash, Ended
<1>20. ASSUME NEW w \in WS, HandlerReadFails(w) \/ HandlerLoadRaises(w)
      PROVE  LocalInv'
  BY <1>20 DEF HandlerReadFails, HandlerLoadRaises
<1>21. QED
  BY <1>1, <1>2, <1>3, <1>4, <1>5, <1>6, <1>7, <1>8, <1>9, <1>10, <1>11,
     <1>12, <1>13, <1>14, <1>15, <1>16, <1>17, <1>18, <1>19, <1>20
  DEF Next, HandlerStep, PollFinish, vars, PollShow, PollShowFails, PollEntry,
      PollLoad, PollReadFails, PollSave, PollSkip, PollRaises, PollSaveRaises, BeadEnds, Restart

-----------------------------------------------------------------------------
(* What is clean after a step was clean before it, and no fault happened.  *)
LEMMA CleanBefore ==
  ASSUME TypeOK, [Next]_vars, Clean'
  PROVE  Clean /\ UNCHANGED faults
<1> USE DEF Clean, TypeOK
<1>1. ASSUME NEW w \in WS, HandlerStep(w) PROVE Clean /\ UNCHANGED faults
  BY <1>1 DEF HandlerStep, LoadFirst, SaveFirst, NoGt, CreateBead, CreateFails,
    Sling, SlingFails, LoadAgain, SaveMerged, MergeMissing, LoadForError,
    SaveError, ErrorMissing, Reply, Load, Save, history
<1>2. CASE UNCHANGED <<stale, faults>>
  BY <1>2
<1>3. CASE faults' = faults + 1
  BY <1>3
<1>4. CASE PollLoad \/ PollSave \/ PollSkip
  BY <1>4 DEF PollLoad, Load, PollSave, Save, PollSkip
<1>5. QED
  BY <1>1, <1>2, <1>3, <1>4
  DEF Next, PollFinish, vars, history, Post, DispatchRaises, HandlerSaveRaises,
      SaveRaises, PollShow, PollShowFails, PollEntry, BeadEnds, PollRaises,
      PollSaveRaises, HandlerReadFails, HandlerLoadRaises, PollReadFails,
      ReadFails, Crash, Restart

LEMMA CleanInit == Init => CleanInv
BY EntryFacts DEF Init, CleanInv, EntryInv, HandlerCopyInv, PollerCopyInv,
   Wiped, Ended

CopyInv == HandlerCopyInv /\ PollerCopyInv

(* What the saves then write: one entry's next phase, or outcomes.         *)
LEMMA CleanSave ==
  ASSUME TypeOK, LocalInv, EntryInv, CopyInv, Clean'
  PROVE  /\ \A w \in WS : SaveFirst(w) =>
              reg[w] = NoEntry /\ reg' = [reg EXCEPT ![w] = NewEntry]
         /\ \A w \in WS : SaveMerged(w) =>
              reg[w] = NewEntry /\ reg' = [reg EXCEPT ![w] = Merged(NewEntry, ws[w])]
         /\ PollSave => \A w \in WS :
              reg'[w] = reg[w] \/ (Unsettled(reg[w]) /\ reg'[w].state \in Terminal)
<1> USE ThreadFacts DEF TypeOK, Goto
<1>1. ASSUME NEW t \in Threads, NEW r, Save(t, r) PROVE fresh[t]
  BY <1>1 DEF Save, Clean
<1>2. ASSUME NEW w \in WS, SaveFirst(w)
      PROVE  reg[w] = NoEntry /\ reg' = [reg EXCEPT ![w] = NewEntry]
  <2>1. snap[w] = reg
    BY <1>1, <1>2 DEF SaveFirst, CopyInv, HandlerCopyInv
  <2>2. ws[w] = NewEntry /\ reg[w] = NoEntry
    BY <1>2 DEF SaveFirst, LocalInv, EntryInv
  <2>3. QED
    BY <1>2, <2>1, <2>2 DEF SaveFirst, Save
<1>3. ASSUME NEW w \in WS, SaveMerged(w)
      PROVE  /\ reg[w] = NewEntry
             /\ reg' = [reg EXCEPT ![w] = Merged(NewEntry, ws[w])]
  <2>1. snap[w] = reg
    BY <1>1, <1>3 DEF SaveMerged, CopyInv, HandlerCopyInv
  <2>2. reg[w] = NewEntry
    BY <1>3 DEF SaveMerged, EntryInv
  <2>3. QED
    BY <1>3, <2>1, <2>2 DEF SaveMerged, Save
<1>4. ASSUME PollSave, NEW w \in WS
      PROVE  reg'[w] = reg[w] \/ (Unsettled(reg[w]) /\ reg'[w].state \in Terminal)
  <2>1. fresh[Poller] /\ reg' = snap[Poller] /\ ppc = "show"
    BY <1>1, <1>4 DEF PollSave, Save
  <2>2. QED
    BY <2>1 DEF CopyInv, PollerCopyInv
<1>5. QED
  BY <1>2, <1>3, <1>4

LEMMA CleanStep == TypeOK /\ LocalInv /\ CleanInv /\ [Next]_vars => CleanInv'
<1> SUFFICES ASSUME TypeOK, LocalInv, CleanInv, [Next]_vars, Clean'
             PROVE  EntryInv' /\ CopyInv'
  BY DEF CleanInv, CopyInv
<1>0. Clean /\ UNCHANGED faults /\ EntryInv /\ CopyInv /\ faults \in Nat
  BY CleanBefore, GastownAssumption DEF CleanInv, CopyInv, TypeOK
<1> USE <1>0, EntryFacts, ThreadFacts, GastownAssumption
    DEF TypeOK, Goto, CopyInv, HandlerCopyInv, PollerCopyInv
<1>1. ASSUME NEW w \in WS, Post(w) PROVE EntryInv' /\ CopyInv'
  <2>1. EntryInv'
    BY <1>1 DEF Post, poller, outside, history, EntryInv
  <2>2. HandlerCopyInv'
    BY <1>1 DEF Post, poller, outside, history
  <2>3. PollerCopyInv'
    BY <1>1 DEF Post, poller, outside, history
  <2>4. QED
    BY <2>1, <2>2, <2>3
<1>2. ASSUME NEW w \in WS, LoadFirst(w) PROVE EntryInv' /\ CopyInv'
  <2>1. EntryInv'
    BY <1>2 DEF LoadFirst, Load, poller, outside, EntryInv
  <2>2. HandlerCopyInv'
    BY <1>2 DEF LoadFirst, Load, poller, outside
  <2>3. PollerCopyInv'
    BY <1>2 DEF LoadFirst, Load, poller, outside
  <2>4. QED
    BY <2>1, <2>2, <2>3
<1>3. ASSUME NEW w \in WS, SaveFirst(w) PROVE EntryInv' /\ CopyInv'
  <2>1. EntryInv'
    <3>1. reg' = [reg EXCEPT ![w] = NewEntry] /\ UNCHANGED ws
      BY <1>3, CleanSave DEF SaveFirst
    <3>2. pc' = [pc EXCEPT ![w] = "create"]
      BY <1>3 DEF SaveFirst
    <3>3. QED
      BY <3>1, <3>2 DEF EntryInv
  <2>2. HandlerCopyInv'
    BY <1>3 DEF SaveFirst, Save, poller, outside, EntryInv
  <2>3. PollerCopyInv'
    BY <1>3 DEF SaveFirst, Save, poller, outside, EntryInv
  <2>4. QED
    BY <2>1, <2>2, <2>3
<1>4. ASSUME NEW w \in WS, NoGt(w) PROVE EntryInv' /\ CopyInv'
  <2>1. EntryInv'
    BY <1>4 DEF NoGt, poller, outside, history, EntryInv, LocalInv
  <2>2. HandlerCopyInv'
    BY <1>4 DEF NoGt, poller, outside, history
  <2>3. PollerCopyInv'
    BY <1>4 DEF NoGt, poller, outside, history
  <2>4. QED
    BY <2>1, <2>2, <2>3
<1>5. ASSUME NEW w \in WS, CreateBead(w) PROVE EntryInv' /\ CopyInv'
  <2>1. EntryInv'
    BY <1>5 DEF CreateBead, poller, outside, history, EntryInv
  <2>2. HandlerCopyInv'
    BY <1>5 DEF CreateBead, poller, outside, history
  <2>3. PollerCopyInv'
    BY <1>5 DEF CreateBead, poller, outside, history
  <2>4. QED
    BY <2>1, <2>2, <2>3
<1>6. ASSUME NEW w \in WS, CreateFails(w) PROVE EntryInv' /\ CopyInv'
  <2>1. EntryInv'
    BY <1>6 DEF CreateFails, poller, outside, history, EntryInv
  <2>2. HandlerCopyInv'
    BY <1>6 DEF CreateFails, poller, outside, history
  <2>3. PollerCopyInv'
    BY <1>6 DEF CreateFails, poller, outside, history
  <2>4. QED
    BY <2>1, <2>2, <2>3
<1>7. ASSUME NEW w \in WS, Sling(w) PROVE EntryInv' /\ CopyInv'
  <2>1. EntryInv'
    BY <1>7 DEF Sling, poller, outside, history, EntryInv
  <2>2. HandlerCopyInv'
    BY <1>7 DEF Sling, poller, outside, history
  <2>3. PollerCopyInv'
    BY <1>7 DEF Sling, poller, outside, history
  <2>4. QED
    BY <2>1, <2>2, <2>3
<1>8. ASSUME NEW w \in WS, SlingFails(w) PROVE EntryInv' /\ CopyInv'
  <2>1. EntryInv'
    BY <1>8 DEF SlingFails, poller, outside, history, EntryInv
  <2>2. HandlerCopyInv'
    BY <1>8 DEF SlingFails, poller, outside, history
  <2>3. PollerCopyInv'
    BY <1>8 DEF SlingFails, poller, outside, history
  <2>4. QED
    BY <2>1, <2>2, <2>3
<1>9. ASSUME NEW w \in WS, LoadAgain(w) PROVE EntryInv' /\ CopyInv'
  <2>1. EntryInv'
    BY <1>9 DEF LoadAgain, Load, poller, outside, EntryInv
  <2>2. HandlerCopyInv'
    BY <1>9 DEF LoadAgain, Load, poller, outside, EntryInv
  <2>3. PollerCopyInv'
    BY <1>9 DEF LoadAgain, Load, poller, outside, EntryInv
  <2>4. QED
    BY <2>1, <2>2, <2>3
<1>10. ASSUME NEW w \in WS, SaveMerged(w) PROVE EntryInv' /\ CopyInv'
  <2>1. EntryInv'
    <3>1. reg' = [reg EXCEPT ![w] = Merged(NewEntry, ws[w])]
      BY <1>10, CleanSave
    <3>2. Merged(NewEntry, ws[w]).state = ws[w].state
      BY DEF Merged
    <3>3. ws[w].state \in {"queued", "running"}
      BY <1>10 DEF SaveMerged, LocalInv
    <3>4. QED
      BY <1>10, <3>1, <3>2, <3>3 DEF SaveMerged, EntryInv
  <2>2. HandlerCopyInv'
    BY <1>10 DEF SaveMerged, Save, poller, outside, EntryInv
  <2>3. PollerCopyInv'
    BY <1>10 DEF SaveMerged, Save, poller, outside, EntryInv
  <2>4. QED
    BY <2>1, <2>2, <2>3
<1>11. ASSUME NEW w \in WS, MergeMissing(w) PROVE FALSE
  BY <1>11 DEF MergeMissing, Present, NewEntry
<1>12. ASSUME NEW w \in WS, LoadForError(w) \/ SaveError(w) \/ ErrorMissing(w)
      PROVE  FALSE
  BY <1>12 DEF LoadForError, SaveError, ErrorMissing, EntryInv
<1>13. ASSUME NEW w \in WS, Reply(w) PROVE EntryInv' /\ CopyInv'
  <2>1. EntryInv'
    BY <1>13 DEF Reply, Ended, poller, outside, history, EntryInv, LocalInv
  <2>2. HandlerCopyInv'
    BY <1>13 DEF Reply, Ended, poller, outside, history
  <2>3. PollerCopyInv'
    BY <1>13 DEF Reply, Ended, poller, outside, history
  <2>4. QED
    BY <2>1, <2>2, <2>3
<1>14. ASSUME NEW w \in WS, NEW s \in Terminal,
             PollEntry(w, s) \/ PollEntry(w, snap[Poller][w].state)
      PROVE  EntryInv' /\ CopyInv'
  <2>0. /\ UNCHANGED <<reg, pc, ws, fresh>>
        /\ \A v \in WS : snap'[v] = snap[v]
    BY <1>14 DEF PollEntry, handler, history
  <2>1. EntryInv'
    BY <2>0 DEF EntryInv
  <2>2. HandlerCopyInv'
    BY <2>0
  <2>3. PollerCopyInv'
    <3> SUFFICES ASSUME fresh[Poller] PROVE PollerCopyInv'
      BY <1>14 DEF PollEntry, history
    <3>1. snap[Poller][w] = reg[w] /\ Unsettled(reg[w]) /\ reg[w] \in Entry
      BY <1>14 DEF PollEntry
    <3>2. \/ snap'[Poller][w] = reg[w]
          \/ snap'[Poller][w].state \in Terminal
      BY <1>14, <3>1, InStateSame DEF PollEntry, InState
    <3>3. \A v \in WS \ {w} : snap'[Poller][v] = snap[Poller][v]
      BY <1>14 DEF PollEntry
    <3>4. UNCHANGED <<reg, ppc, fresh>> /\ todo' = todo \ {w}
      BY <1>14 DEF PollEntry, history
    <3>5. ppc = "show"
      BY <1>14 DEF PollEntry
    <3>6. \A v \in WS :
            \/ snap'[Poller][v] = reg'[v]
            \/ Unsettled(reg'[v]) /\ snap'[Poller][v].state \in Terminal
      <4>1. ASSUME NEW v \in WS \ {w} PROVE
              \/ snap'[Poller][v] = reg'[v]
              \/ Unsettled(reg'[v]) /\ snap'[Poller][v].state \in Terminal
        BY <3>3, <3>4, <3>5, <4>1
      <4>2. QED
        BY <3>1, <3>2, <3>4, <4>1
    <3>7. \A v \in todo' : Unsettled(reg'[v]) /\ snap'[Poller][v] = reg'[v]
      BY <3>3, <3>4, <3>5
    <3>8. QED
      BY <3>6, <3>7 DEF Unsettled, HasBead
  <2>4. QED
    BY <2>1, <2>2, <2>3
<1>15. ASSUME NEW w \in WS, PollShow(w) \/ PollShowFails(w)
      PROVE  EntryInv' /\ CopyInv'
  <2>1. \E s \in Terminal : PollEntry(w, s) \/ PollEntry(w, snap[Poller][w].state)
    BY <1>15 DEF PollShow, PollShowFails, Shown, Terminal
  <2>2. QED
    BY <2>1, <1>14
<1>16. ASSUME NEW w \in WS, BeadEnds(w) PROVE EntryInv' /\ CopyInv'
  <2>1. EntryInv'
    BY <1>16 DEF BeadEnds, handler, poller, history, EntryInv
  <2>2. HandlerCopyInv'
    BY <1>16 DEF BeadEnds, handler, poller, history
  <2>3. PollerCopyInv'
    BY <1>16 DEF BeadEnds, handler, poller, history
  <2>4. QED
    BY <2>1, <2>2, <2>3
<1>17. CASE PollLoad
  <2>1. EntryInv'
    BY <1>17 DEF PollLoad, Polled, Load, handler, outside, EntryInv
  <2>2. HandlerCopyInv'
    BY <1>17 DEF PollLoad, Polled, Load, handler, outside, Unsettled, Present, States
  <2>3. PollerCopyInv'
    BY <1>17 DEF PollLoad, Polled, Load, handler, outside, Unsettled, Present, States
  <2>4. QED
    BY <2>1, <2>2, <2>3
<1>18. CASE PollSave
  <2>1. EntryInv'
    <3>1. ~Unsettled(NoEntry) /\ ~Unsettled(NewEntry)
      BY DEF Unsettled, HasBead, NoEntry, NewEntry
    <3>2. \A w \in WS : reg'[w] = reg[w] \/ (Unsettled(reg[w]) /\ reg'[w].state \in Terminal)
      BY <1>18, CleanSave
    <3>3. UNCHANGED <<pc, ws>>
      BY <1>18 DEF PollSave, handler
    <3>4. QED
      BY <3>1, <3>2, <3>3 DEF EntryInv, Terminal
  <2>2. HandlerCopyInv'
    BY <1>18 DEF PollSave, Save, handler, outside, EntryInv
  <2>3. PollerCopyInv'
    BY <1>18 DEF PollSave, Save, handler, outside, EntryInv
  <2>4. QED
    BY <2>1, <2>2, <2>3
<1>19. CASE PollSkip
  <2>1. EntryInv'
    BY <1>19 DEF PollSkip, EndRound, handler, outside, EntryInv
  <2>2. HandlerCopyInv'
    BY <1>19 DEF PollSkip, EndRound, handler, outside
  <2>3. PollerCopyInv'
    BY <1>19 DEF PollSkip, EndRound, handler, outside
  <2>4. QED
    BY <2>1, <2>2, <2>3
<1>20. CASE Restart
  <2>1. EntryInv'
    BY <1>20 DEF Restart, handler, poller, outside, history, EntryInv
  <2>2. HandlerCopyInv'
    BY <1>20 DEF Restart, handler, poller, outside, history
  <2>3. PollerCopyInv'
    BY <1>20 DEF Restart, handler, poller, outside, history
  <2>4. QED
    BY <2>1, <2>2, <2>3
<1>21. CASE UNCHANGED vars
  <2>1. EntryInv'
    BY <1>21 DEF vars, handler, poller, outside, history, EntryInv
  <2>2. HandlerCopyInv'
    BY <1>21 DEF vars, handler, poller, outside, history
  <2>3. PollerCopyInv'
    BY <1>21 DEF vars, handler, poller, outside, history
  <2>4. QED
    BY <2>1, <2>2, <2>3
<1>22. ASSUME faults' = faults + 1 PROVE FALSE
  BY <1>22
<1>23. QED
  BY <1>1, <1>2, <1>3, <1>4, <1>5, <1>6, <1>7, <1>8, <1>9, <1>10, <1>11,
     <1>12, <1>13, <1>15, <1>16, <1>17, <1>18, <1>19, <1>20, <1>21, <1>22
  DEF Next, HandlerStep, PollFinish, DispatchRaises, HandlerSaveRaises,
      SaveRaises, PollRaises, PollSaveRaises, HandlerReadFails,
      HandlerLoadRaises, PollReadFails, ReadFails, Crash

THEOREM CleanInvariance == Spec => [](TypeOK /\ LocalInv /\ CleanInv)
<1>1. Init => TypeOK /\ LocalInv /\ CleanInv
  BY TypeInit, LocalInit, CleanInit
<1>2. TypeOK /\ LocalInv /\ CleanInv /\ [Next]_vars
        => (TypeOK /\ LocalInv /\ CleanInv)'
  BY TypeStep, LocalStep, CleanStep
<1>3. QED
  BY <1>1, <1>2, PTL DEF Spec

(* Without an out-of-date save, a crash or an exception, every answered    *)
(* workstream has its entry, running is not taken back, and every POST is  *)
(* answered: the race of load and save is the only way to lose one.        *)
THEOREM DurableWhenClean == Spec => []CleanIsDurable
<1>1. TypeOK /\ LocalInv /\ CleanInv => CleanIsDurable
  BY DEF LocalInv, CleanInv, EntryInv, CleanIsDurable, Present, Terminal
<1>2. QED
  BY <1>1, CleanInvariance, PTL

(* Nor does any step then change an entry that is completed or failed.     *)
THEOREM FinalWhenClean == Spec => CleanIsFinal
<1> DEFINE Final == Clean' => \A w \in WS : reg[w].state \in Terminal => reg'[w] = reg[w]
<1>1. TypeOK /\ LocalInv /\ CleanInv /\ [Next]_vars => [Final]_reg
  <2> SUFFICES ASSUME TypeOK, LocalInv, CleanInv, [Next]_vars, Clean',
                      NEW v \in WS, reg[v].state \in Terminal
               PROVE  reg'[v] = reg[v]
    OBVIOUS
  <2>0. Clean /\ UNCHANGED faults /\ EntryInv /\ CopyInv /\ faults \in Nat
    BY CleanBefore, GastownAssumption DEF CleanInv, CopyInv, TypeOK
  <2> USE <2>0, ThreadFacts DEF TypeOK, Goto, Terminal, NoEntry, NewEntry
  <2>1. CASE UNCHANGED reg
    BY <2>1
  <2>2. ASSUME NEW w \in WS, SaveFirst(w) PROVE reg'[v] = reg[v]
    BY <2>2, CleanSave
  <2>3. ASSUME NEW w \in WS, SaveMerged(w) PROVE reg'[v] = reg[v]
    BY <2>3, CleanSave
  <2>4. ASSUME NEW w \in WS, SaveError(w) PROVE FALSE
    BY <2>4 DEF SaveError, EntryInv
  <2>5. CASE PollSave
    BY <2>5, CleanSave DEF Unsettled
  <2>6. ASSUME faults' = faults + 1 PROVE FALSE
    BY <2>6
  <2>7. QED
    BY <2>1, <2>2, <2>3, <2>4, <2>5, <2>6
    DEF Next, HandlerStep, PollFinish, vars, Load, Post, LoadFirst, NoGt,
        CreateBead, CreateFails, Sling, SlingFails, DispatchRaises, LoadAgain,
        MergeMissing, LoadForError, ErrorMissing, Reply, HandlerSaveRaises,
        SaveRaises, PollShow, PollShowFails, PollEntry, PollLoad, PollSkip,
        PollRaises, PollSaveRaises, HandlerReadFails, HandlerLoadRaises,
        PollReadFails, ReadFails, BeadEnds, Crash, Restart
<1>2. QED
  BY <1>1, CleanInvariance, PTL DEF Spec, CleanIsFinal
=============================================================================

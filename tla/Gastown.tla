------------------------------ MODULE Gastown ------------------------------
(***************************************************************************)
(* The Gas Town bridge, clients/gastown/serve.py: one handler thread per   *)
(* POST /api/workstreams and one poller thread, which share the registry   *)
(* file .workstreams.json.  Each of them loads the whole registry, changes *)
(* an entry of its copy and saves the whole copy later; the lock of the    *)
(* code covers the load and the save, not the time between them.  Loads    *)
(* and saves are single steps here: module RegistryFile shows that they    *)
(* are atomic, that a save cut short loses the content, and that a load    *)
(* may fail and return {}, with which the next save loses it as well.      *)
(*                                                                         *)
(* A request that fails authentication or validation, and every GET, only  *)
(* reads; what a GET of w returns is reg[w].  A POST that a client repeats *)
(* gets an id of its own, so it is another member of WS.                   *)
(***************************************************************************)
EXTENDS Naturals

CONSTANTS
  WS,          \* workstream ids, one per accepted POST and its handler thread
  Poller,      \* the poller thread
  DoneWord,    \* workstreams whose text holds "done", "closed" or "completed"
  ErrWord,     \* workstreams whose text holds "failed" or "error"
  MaxFaults    \* bound: crashes, I/O errors and exceptions in one behaviour

ASSUME GastownAssumption ==
  /\ Poller \notin WS
  /\ DoneWord \subseteq WS
  /\ ErrWord \subseteq WS
  /\ MaxFaults \in Nat

VARIABLES
  up,        \* the process is running (launchd restarts it)
  reg,       \* the registry file: the entry of each workstream
  pc,        \* where the handler of each POST is
  ws,        \* each handler's local dict ws
  snap,      \* each thread's local dict data, between its load and its save
  ppc,       \* where the poller is
  todo,      \* the entries the poller's round has still to show
  changed,   \* the poller's local flag of that name
  bead,      \* external: the bd issue of each workstream
  slung,     \* external: gt sling has started an agent on it
  reply,     \* the state in the 201 each POST was answered with
  fresh,     \* history: the thread's last load read the file, and nobody saved since
  stale,     \* history: some save wrote a copy that was not fresh
  faults

handler == <<pc, ws, reply>>
poller  == <<ppc, todo, changed>>
outside == <<bead, slung>>
history == <<fresh, stale>>
vars == <<up, reg, handler, snap, poller, outside, history, faults>>

Threads  == WS \cup {Poller}
Terminal == {"completed", "failed"}

(* A registry entry: its state, and which of the optional keys that the    *)
(* code reads again it has.                                                *)
States == {"absent", "queued", "running"} \cup Terminal
Keys   == {"bead_id", "dispatch_error"}
Entry  == [state : States, keys : SUBSET Keys]

NoEntry  == [state |-> "absent", keys |-> {}]
NewEntry == [state |-> "queued", keys |-> {}]
Wiped    == [w \in WS |-> NoEntry]

Present(r, w) == r[w].state # "absent"
HasBead(e)    == "bead_id" \in e.keys
HasError(e)   == "dispatch_error" \in e.keys

InState(e, s)     == [state |-> s, keys |-> e.keys]
WithKey(e, k)     == [state |-> e.state, keys |-> e.keys \cup {k}]

(* Mutant: the new entry updated with the old one.                         *)
MergedBackwards(old, new) ==
  [state |-> old.state, keys |-> old.keys \cup new.keys]

Merged(old, new)  == [state |-> new.state, keys |-> old.keys \cup new.keys]

(* Where a handler thread can be, and how it can have ended.               *)
Ended  == {"done", "dropped", "killed"}
Phases == {"none", "load", "insert", "create", "sling", "reload", "merge",
           "reloadX", "mergeX", "reply"} \cup Ended

TypeOK ==
  /\ up \in BOOLEAN
  /\ reg \in [WS -> Entry]
  /\ pc \in [WS -> Phases]
  /\ ws \in [WS -> Entry]
  /\ snap \in [Threads -> [WS -> Entry]]
  /\ ppc \in {"sleep", "show", "save"}
  /\ todo \in SUBSET WS
  /\ changed \in BOOLEAN
  /\ bead \in [WS -> {"none", "open", "closed", "failed"}]
  /\ slung \in [WS -> BOOLEAN]
  /\ reply \in [WS -> {"none"} \cup States]
  /\ fresh \in [Threads -> BOOLEAN]
  /\ stale \in BOOLEAN
  /\ faults \in 0 .. MaxFaults

Init ==
  /\ up = TRUE
  /\ reg = Wiped
  /\ pc = [w \in WS |-> "none"]
  /\ ws = Wiped
  /\ snap = [t \in Threads |-> Wiped]
  /\ ppc = "sleep" /\ todo = {} /\ changed = FALSE
  /\ bead = [w \in WS |-> "none"]
  /\ slung = [w \in WS |-> FALSE]
  /\ reply = [w \in WS |-> "none"]
  /\ fresh = [t \in Threads |-> FALSE]
  /\ stale = FALSE
  /\ faults = 0

Goto(w, from, to) == pc[w] = from /\ pc' = [pc EXCEPT ![w] = to]

(* data = _load_registry()                                                 *)
Load(t) ==
  /\ snap' = [snap EXCEPT ![t] = reg]
  /\ fresh' = [fresh EXCEPT ![t] = TRUE]
  /\ UNCHANGED <<reg, stale>>

(* read_text raises: data = {}, whatever the file holds.                   *)
ReadFails(t) ==
  /\ faults < MaxFaults
  /\ faults' = faults + 1
  /\ snap' = [snap EXCEPT ![t] = Wiped]
  /\ fresh' = [fresh EXCEPT ![t] = FALSE]
  /\ UNCHANGED <<reg, stale>>

(* _save_registry(r), after which t's copy is not used again.              *)
Save(t, r) ==
  /\ reg' = r
  /\ snap' = [snap EXCEPT ![t] = Wiped]
  /\ fresh' = [u \in Threads |-> FALSE]
  /\ stale' = (stale \/ ~fresh[t])

(* _save_registry raises: the file is as it was, or truncated.             *)
SaveRaises(t) ==
  /\ faults < MaxFaults
  /\ faults' = faults + 1
  /\ reg' \in {reg, Wiped}
  /\ snap' = [snap EXCEPT ![t] = Wiped]
  /\ UNCHANGED history

-----------------------------------------------------------------------------
(* do_POST, lines 217-239: the new entry is queued and saved.              *)
Post(w) ==
  /\ up
  /\ Goto(w, "none", "load")
  /\ ws' = [ws EXCEPT ![w] = NewEntry]
  /\ UNCHANGED <<up, reg, snap, reply, poller, outside, history, faults>>

LoadFirst(w) ==
  /\ Goto(w, "load", "insert")
  /\ Load(w)
  /\ UNCHANGED <<up, ws, reply, poller, outside, faults>>

SaveFirst(w) ==
  /\ Goto(w, "insert", "create")
  /\ Save(w, [snap[w] EXCEPT ![w] = ws[w]])
  /\ UNCHANGED <<up, ws, reply, poller, outside, faults>>

(* _try_dispatch: gt is not installed.                                     *)
NoGt(w) ==
  /\ Goto(w, "create", "reload")
  /\ UNCHANGED <<up, reg, ws, snap, reply, poller, outside, history, faults>>

(* bd create exits with 0.                                                 *)
CreateBead(w) ==
  /\ Goto(w, "create", "sling")
  /\ ws' = [ws EXCEPT ![w] = WithKey(ws[w], "bead_id")]
  /\ bead' = [bead EXCEPT ![w] = "open"]
  /\ UNCHANGED <<up, reg, snap, slung, reply, poller, history, faults>>

(* It fails or times out, having made the issue or not.  An error without  *)
(* any output leaves dispatch_error empty, which the code reads as unset.  *)
CreateFails(w) ==
  /\ Goto(w, "create", "reload")
  /\ \E e \in {ws[w], WithKey(ws[w], "dispatch_error")} : ws' = [ws EXCEPT ![w] = e]
  /\ \E b \in {"none", "open"} : bead' = [bead EXCEPT ![w] = b]
  /\ UNCHANGED <<up, reg, snap, slung, reply, poller, history, faults>>

(* gt convoy create, whose result only a GET shows, and gt sling.          *)
Sling(w) ==
  /\ Goto(w, "sling", "reload")
  /\ ws' = [ws EXCEPT ![w] = InState(ws[w], "running")]
  /\ slung' = [slung EXCEPT ![w] = TRUE]
  /\ UNCHANGED <<up, reg, snap, bead, reply, poller, history, faults>>

(* Mutant: the exit status of gt sling is not looked at.                   *)
SlingUnchecked(w) ==
  /\ Goto(w, "sling", "reload")
  /\ ws' = [ws EXCEPT ![w] = InState(ws[w], "running")]
  /\ \E b \in BOOLEAN : slung' = [slung EXCEPT ![w] = b]
  /\ UNCHANGED <<up, reg, snap, bead, reply, poller, history, faults>>

SlingFails(w) ==
  /\ Goto(w, "sling", "reload")
  /\ \E e \in {ws[w], WithKey(ws[w], "dispatch_error")} : ws' = [ws EXCEPT ![w] = e]
  /\ \E b \in BOOLEAN : slung' = [slung EXCEPT ![w] = b]
  /\ UNCHANGED <<up, reg, snap, bead, reply, poller, history, faults>>

(* A command cannot be started, or its output cannot be decoded: the       *)
(* exception leaves _try_dispatch with the command carried out or not.     *)
DispatchRaises(w) ==
  /\ faults < MaxFaults
  /\ faults' = faults + 1
  /\ pc[w] \in {"create", "sling"}
  /\ pc' = [pc EXCEPT ![w] = "reloadX"]
  /\ \/ /\ pc[w] = "create"
        /\ bead' = [bead EXCEPT ![w] = "open"]
        /\ UNCHANGED slung
     \/ /\ pc[w] = "sling"
        /\ slung' = [slung EXCEPT ![w] = TRUE]
        /\ UNCHANGED bead
     \/ UNCHANGED outside
  /\ UNCHANGED <<up, reg, ws, snap, reply, poller, history>>

(* Lines 242-244: the outcome of the dispatch is merged into the entry.    *)
LoadAgain(w) ==
  /\ Goto(w, "reload", "merge")
  /\ Load(w)
  /\ UNCHANGED <<up, ws, reply, poller, outside, faults>>

SaveMerged(w) ==
  /\ Goto(w, "merge", "reply")
  /\ Present(snap[w], w)
  /\ Save(w, [snap[w] EXCEPT ![w] = Merged(snap[w][w], ws[w])])
  /\ UNCHANGED <<up, ws, reply, poller, outside, faults>>

(* The entry is gone: data["workstreams"][ws_id] raises KeyError.          *)
MergeMissing(w) ==
  /\ Goto(w, "merge", "reloadX")
  /\ ~Present(snap[w], w)
  /\ snap' = [snap EXCEPT ![w] = Wiped]
  /\ fresh' = [fresh EXCEPT ![w] = FALSE]
  /\ UNCHANGED <<up, reg, ws, reply, poller, outside, stale, faults>>

(* Lines 245-248: the except clause records the exception in the entry.    *)
LoadForError(w) ==
  /\ Goto(w, "reloadX", "mergeX")
  /\ Load(w)
  /\ UNCHANGED <<up, ws, reply, poller, outside, faults>>

SaveError(w) ==
  /\ Goto(w, "mergeX", "reply")
  /\ Present(snap[w], w)
  /\ Save(w, [snap[w] EXCEPT ![w] = WithKey(snap[w][w], "dispatch_error")])
  /\ UNCHANGED <<up, ws, reply, poller, outside, faults>>

(* Mutant: the except clause tries until the entry is there.               *)
RetryMissing(w) ==
  /\ Goto(w, "mergeX", "reloadX")
  /\ ~Present(snap[w], w)
  /\ UNCHANGED <<up, reg, ws, snap, reply, poller, outside, history, faults>>

(* KeyError again, in the except clause: the thread ends, the connection   *)
(* closes without an answer.                                               *)
ErrorMissing(w) ==
  /\ Goto(w, "mergeX", "dropped")
  /\ ~Present(snap[w], w)
  /\ snap' = [snap EXCEPT ![w] = Wiped]
  /\ fresh' = [fresh EXCEPT ![w] = FALSE]
  /\ UNCHANGED <<up, reg, ws, reply, poller, outside, stale, faults>>

Reply(w) ==
  /\ Goto(w, "reply", "done")
  /\ reply' = [reply EXCEPT ![w] = ws[w].state]
  /\ UNCHANGED <<up, reg, ws, snap, poller, outside, history, faults>>

(* A save of the handler raises OSError: only the second one is in a try.  *)
HandlerSaveRaises(w) ==
  /\ SaveRaises(w)
  /\ \/ Goto(w, "insert", "dropped")
     \/ Goto(w, "merge", "reloadX") /\ Present(snap[w], w)
     \/ Goto(w, "mergeX", "dropped") /\ Present(snap[w], w)
  /\ UNCHANGED <<up, ws, reply, poller, outside>>

(* A load of the handler fails and returns {}.                             *)
HandlerReadFails(w) ==
  /\ ReadFails(w)
  /\ \/ Goto(w, "load", "insert")
     \/ Goto(w, "reload", "merge")
     \/ Goto(w, "reloadX", "mergeX")
  /\ UNCHANGED <<up, ws, reply, poller, outside>>

(* It raises, in exists(): only the second one is in a try.                *)
HandlerLoadRaises(w) ==
  /\ faults < MaxFaults
  /\ faults' = faults + 1
  /\ \/ Goto(w, "load", "dropped")
     \/ Goto(w, "reload", "reloadX")
     \/ Goto(w, "reloadX", "dropped")
  /\ UNCHANGED <<up, reg, ws, snap, reply, poller, outside, history>>

HandlerStep(w) ==
  \/ LoadFirst(w) \/ SaveFirst(w)
  \/ NoGt(w) \/ CreateBead(w) \/ CreateFails(w) \/ Sling(w) \/ SlingFails(w)
  \/ LoadAgain(w) \/ SaveMerged(w) \/ MergeMissing(w)
  \/ LoadForError(w) \/ SaveError(w) \/ ErrorMissing(w)
  \/ Reply(w)

-----------------------------------------------------------------------------
(* Mutants: terminal entries are shown too; only the queued ones are.      *)
PolledAll(r)    == {w \in WS : Present(r, w) /\ HasBead(r[w])}
PolledQueued(r) == {w \in WS : HasBead(r[w]) /\ r[w].state = "queued"}

(* _poll_states: a round loads the registry and shows each entry that has  *)
(* a bead and is not terminal.                                             *)
Polled(r) ==
  {w \in WS : Present(r, w) /\ HasBead(r[w]) /\ r[w].state \notin Terminal}

PollLoad ==
  /\ up
  /\ ppc = "sleep"
  /\ ppc' = "show"
  /\ Load(Poller)
  /\ todo' = Polled(reg)
  /\ changed' = FALSE
  /\ UNCHANGED <<up, handler, outside, faults>>

(* A failed load finds no workstream; one that raises begins no round.     *)
PollReadFails ==
  /\ up
  /\ ppc = "sleep"
  /\ ppc' = "show"
  /\ ReadFails(Poller)
  /\ todo' = {} /\ changed' = FALSE
  /\ UNCHANGED <<up, handler, outside>>

(* Mutants: the status of the issue for a state; any end for success.      *)
ShownStatus(w, state) == IF bead[w] = "open" THEN state ELSE bead[w]
ShownEnded(w, state)  == IF bead[w] = "open" THEN state ELSE "completed"

(* What the words in the output of bd show, which prints the text of the   *)
(* issue and its status, make of the workstream's state.                   *)
Shown(w, state) ==
  IF bead[w] = "closed" \/ w \in DoneWord THEN "completed"
  ELSE IF bead[w] = "failed" \/ w \in ErrWord THEN "failed"
  ELSE state

PollEntry(w, state) ==
  /\ ppc = "show"
  /\ w \in todo
  /\ todo' = todo \ {w}
  /\ changed' = (changed \/ state # snap[Poller][w].state)
  /\ snap' = [snap EXCEPT ![Poller] =
               [snap[Poller] EXCEPT ![w] = InState(snap[Poller][w], state)]]
  /\ UNCHANGED <<up, reg, handler, ppc, outside, history, faults>>

PollShow(w) == PollEntry(w, Shown(w, snap[Poller][w].state))

(* bd show exits with an error or times out.                               *)
PollShowFails(w) ==
  LET e == snap[Poller][w] IN
  PollEntry(w, IF HasError(e) /\ e.state = "queued" THEN "failed" ELSE e.state)

PollSave ==
  /\ ppc = "show" /\ todo = {} /\ changed
  /\ Save(Poller, snap[Poller])
  /\ ppc' = "sleep" /\ changed' = FALSE
  /\ UNCHANGED <<up, handler, todo, outside, faults>>

EndRound ==
  /\ ppc' = "sleep" /\ todo' = {} /\ changed' = FALSE
  /\ snap' = [snap EXCEPT ![Poller] = Wiped]
  /\ fresh' = [fresh EXCEPT ![Poller] = FALSE]

PollSkip ==
  /\ ppc = "show" /\ todo = {} /\ ~changed
  /\ EndRound
  /\ UNCHANGED <<up, reg, handler, outside, stale, faults>>

(* An exception anywhere in a round ends it with nothing saved.            *)
PollRaises ==
  /\ faults < MaxFaults
  /\ faults' = faults + 1
  /\ ppc = "show" /\ todo # {}
  /\ EndRound
  /\ UNCHANGED <<up, reg, handler, outside, stale>>

PollSaveRaises ==
  /\ ppc = "show" /\ todo = {} /\ changed
  /\ SaveRaises(Poller)
  /\ ppc' = "sleep" /\ changed' = FALSE
  /\ UNCHANGED <<up, handler, todo, outside>>

PollFinish == PollSave \/ PollSkip

-----------------------------------------------------------------------------
(* The process dies, in the middle of a save or not, and main starts again *)
(* with what the file holds.                                               *)
Saving == \/ \E w \in WS : pc[w] \in {"insert", "merge", "mergeX"}
          \/ ppc = "show" /\ todo = {} /\ changed

Crash ==
  /\ up
  /\ faults < MaxFaults
  /\ faults' = faults + 1
  /\ up' = FALSE
  /\ reg' \in {reg} \cup (IF Saving THEN {Wiped} ELSE {})
  /\ pc' = [w \in WS |->
              IF pc[w] \in Ended \cup {"none"} THEN pc[w] ELSE "killed"]
  /\ snap' = [t \in Threads |-> Wiped]
  /\ ppc' = "sleep" /\ todo' = {} /\ changed' = FALSE
  /\ UNCHANGED <<ws, reply, outside, history>>

Restart ==
  /\ ~up
  /\ up' = TRUE
  /\ UNCHANGED <<reg, handler, snap, poller, outside, history, faults>>

(* The agent, or a person, ends the work on an issue.                      *)
BeadEnds(w) ==
  /\ bead[w] = "open"
  /\ \E b \in {"closed", "failed"} : bead' = [bead EXCEPT ![w] = b]
  /\ UNCHANGED <<up, reg, handler, snap, poller, slung, history, faults>>

Next ==
  \/ \E w \in WS :
       \/ Post(w) \/ HandlerStep(w)
       \/ DispatchRaises(w) \/ HandlerSaveRaises(w)
       \/ HandlerReadFails(w) \/ HandlerLoadRaises(w)
       \/ PollShow(w) \/ PollShowFails(w)
       \/ BeadEnds(w)
  \/ PollLoad \/ PollReadFails \/ PollFinish \/ PollRaises \/ PollSaveRaises
  \/ Crash \/ Restart

Spec == Init /\ [][Next]_vars

(* Threads are scheduled, commands end within their 30 seconds, launchd    *)
(* restarts the process (KeepAlive), and bd show of an issue is answered   *)
(* again and again, though not every time.                                 *)
Fairness ==
  /\ \A w \in WS : WF_vars(HandlerStep(w)) /\ SF_vars(PollShow(w))
  /\ WF_vars(PollLoad) /\ WF_vars(PollFinish)
  /\ WF_vars(Restart)

FairSpec == Spec /\ Fairness

-----------------------------------------------------------------------------
(* The registry says completed or failed only with evidence: the issue was *)
(* closed or failed, its own text holds one of the words looked for (lines *)
(* 163-168), or its dispatch failed (lines 176-178).  No stale save, merge *)
(* or restart makes up an outcome.                                         *)
OutcomeHasEvidence ==
  \A w \in WS :
    /\ reg[w].state = "completed" => bead[w] = "closed" \/ w \in DoneWord
    /\ reg[w].state = "failed" =>
         bead[w] = "failed" \/ w \in ErrWord \/ HasError(reg[w])

(* A client is told running, by the 201 or by a GET, only of a workstream  *)
(* whose agent was started.                                                *)
RunningIsStarted ==
  \A w \in WS : reg[w].state = "running" \/ reply[w] = "running" => slung[w]

(* No crash, no exception, and no save has written a copy of the registry  *)
(* that another save had made out of date.                                 *)
Clean == ~stale /\ faults = 0

(* The out-of-date save is the only way to lose a workstream: without it,  *)
(* every POST that was answered has its entry, with a state no earlier     *)
(* than the answer's, and every POST is answered.                          *)
CleanIsDurable ==
  Clean => \A w \in WS :
    /\ reply[w] # "none" => Present(reg, w)
    /\ reply[w] = "running" => reg[w].state \in {"running"} \cup Terminal
    /\ pc[w] # "dropped"

(* Nor is a terminal state left without it: the poller sets one only on an *)
(* entry with a bead, which the handler's last save has put there.         *)
CleanIsFinal ==
  [][Clean' => \A w \in WS : reg[w].state \in Terminal => reg'[w] = reg[w]]_reg

(* Every POST that is made ends: with an answer, a closed connection, or   *)
(* the process.                                                            *)
PostsEnd == \A w \in WS : <>[](pc[w] \in Ended \cup {"none"})

(* In the end the registry reports the outcome of every workstream whose   *)
(* bead it still knows, whatever saves of out-of-date copies, of handlers  *)
(* and of the poller, wrote over in between.                               *)
OutcomesSurface ==
  \A w \in WS :
    <>[](HasBead(reg[w]) /\ bead[w] \in {"closed", "failed"}
           => reg[w].state \in Terminal)

=============================================================================

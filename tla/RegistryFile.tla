---------------------------- MODULE RegistryFile ----------------------------
(***************************************************************************)
(* _load_registry and _save_registry of clients/gastown/serve.py, at the   *)
(* grain of the file system: a process-wide threading.Lock around reading  *)
(* the file, and around Path.write_text, which truncates the file and then *)
(* writes it.  The threads call them in any order with any data; module    *)
(* Gastown models what they call them for.                                 *)
(***************************************************************************)
EXTENDS Naturals

CONSTANTS
  Threads,    \* request-handler threads and the poller
  Content,    \* what a whole registry file can say
  Empty,      \* {}: what a load makes of an absent or unparsable file
  Torn,       \* a file truncated or written in part: not JSON
  NoThread,   \* the value of a free lock
  MaxFaults   \* bound: I/O errors and process deaths in one behaviour

ASSUME ConstAssumption ==
  /\ Empty \in Content
  /\ Torn \notin Content
  /\ NoThread \notin Threads
  /\ MaxFaults \in Nat

VARIABLES
  file,       \* .workstreams.json: a Content or Torn; absent is Empty
  lock,       \* _lock: the thread that holds it, or NoThread
  pc,         \* where each thread is in a load or a save
  arg,        \* the data a thread is saving
  out,        \* what a thread's last load returned
  before,     \* history: the content when the save under way truncated it
  cut,        \* history: a save was cut short, and none was written since
  faults

history == <<before, cut>>
vars == <<file, lock, pc, arg, out, history, faults>>

TypeOK ==
  /\ file \in Content \cup {Torn}
  /\ lock \in Threads \cup {NoThread}
  /\ pc \in [Threads -> {"idle", "load", "reading", "loaded",
                         "save", "opening", "writing", "saved"}]
  /\ arg \in [Threads -> Content]
  /\ out \in [Threads -> Content]
  /\ before \in Content
  /\ cut \in BOOLEAN
  /\ faults \in 0 .. MaxFaults

(* Mutant: the text of the file is returned as it is.                      *)
UnparsedText(f) == f

(* json.loads of the file, or {} when that raises.                         *)
Parsed(f) == IF f = Torn THEN Empty ELSE f

Init ==
  /\ file = Empty
  /\ lock = NoThread
  /\ pc = [t \in Threads |-> "idle"]
  /\ arg = [t \in Threads |-> Empty]
  /\ out = [t \in Threads |-> Empty]
  /\ before = Empty /\ cut = FALSE
  /\ faults = 0

Goto(t, from, to) == pc[t] = from /\ pc' = [pc EXCEPT ![t] = to]

(* Mutant: the lock is taken whoever holds it.                             *)
Seize(t) == lock' = t

Acquire(t) == lock = NoThread /\ lock' = t
Release    == lock' = NoThread

-----------------------------------------------------------------------------
(* _load_registry                                                          *)
StartLoad(t) ==
  /\ Goto(t, "idle", "load")
  /\ UNCHANGED <<file, lock, arg, out, history, faults>>

LockForLoad(t) ==
  /\ Goto(t, "load", "reading")
  /\ Acquire(t)
  /\ UNCHANGED <<file, arg, out, history, faults>>

ReadFile(t) ==
  /\ Goto(t, "reading", "loaded")
  /\ out' = [out EXCEPT ![t] = Parsed(file)]
  /\ UNCHANGED <<file, lock, arg, history, faults>>

(* read_text raises OSError, which is caught like an unparsable text: the  *)
(* load returns {} whatever the file holds.                                *)
ReadFails(t) ==
  /\ faults < MaxFaults
  /\ faults' = faults + 1
  /\ Goto(t, "reading", "loaded")
  /\ out' = [out EXCEPT ![t] = Empty]
  /\ UNCHANGED <<file, lock, arg, history>>

(* exists() raises OSError, outside of the try: the with statement         *)
(* releases the lock and the load returns nothing.                         *)
LoadRaises(t) ==
  /\ faults < MaxFaults
  /\ faults' = faults + 1
  /\ Goto(t, "reading", "idle")
  /\ Release
  /\ UNCHANGED <<file, arg, out, history>>

EndLoad(t) ==
  /\ Goto(t, "loaded", "idle")
  /\ Release
  /\ UNCHANGED <<file, arg, out, history, faults>>

-----------------------------------------------------------------------------
(* _save_registry                                                          *)
StartSave(t, d) ==
  /\ Goto(t, "idle", "save")
  /\ arg' = [arg EXCEPT ![t] = d]
  /\ UNCHANGED <<file, lock, out, history, faults>>

(* Mutant: a save without the lock.                                        *)
SaveUnlocked(t) ==
  /\ Goto(t, "save", "opening")
  /\ UNCHANGED <<file, lock, arg, out, history, faults>>

LockForSave(t) ==
  /\ Goto(t, "save", "opening")
  /\ Acquire(t)
  /\ UNCHANGED <<file, arg, out, history, faults>>

(* open(..., "w") truncates.                                               *)
Truncate(t) ==
  /\ Goto(t, "opening", "writing")
  /\ file' = Torn
  /\ before' = Parsed(file)
  /\ UNCHANGED <<lock, arg, out, cut, faults>>

Write(t) ==
  /\ Goto(t, "writing", "saved")
  /\ file' = arg[t]
  /\ cut' = FALSE
  /\ UNCHANGED <<lock, arg, out, before, faults>>

EndSave(t) ==
  /\ Goto(t, "saved", "idle")
  /\ Release
  /\ UNCHANGED <<file, arg, out, history, faults>>

(* mkdir, open or write raises OSError: the with statement releases the    *)
(* lock and the file stays as it is.                                       *)
SaveRaises(t) ==
  /\ faults < MaxFaults
  /\ pc[t] \in {"opening", "writing"}
  /\ pc' = [pc EXCEPT ![t] = "idle"]
  /\ Release
  /\ faults' = faults + 1
  /\ cut' = (cut \/ pc[t] = "writing")
  /\ UNCHANGED <<file, arg, out, before>>

MidWrite == \E t \in Threads : pc[t] = "writing"

(* The process dies and is started again: the lock and the threads are     *)
(* gone, the file stays as it is.                                          *)
Crash ==
  /\ faults < MaxFaults
  /\ faults' = faults + 1
  /\ cut' = (cut \/ MidWrite)
  /\ lock' = NoThread
  /\ pc' = [t \in Threads |-> "idle"]
  /\ out' = [t \in Threads |-> Empty]
  /\ UNCHANGED <<file, arg, before>>

Next ==
  \/ \E t \in Threads :
       \/ StartLoad(t) \/ LockForLoad(t) \/ ReadFile(t) \/ EndLoad(t)
       \/ \E d \in Content : StartSave(t, d)
       \/ LockForSave(t) \/ Truncate(t) \/ Write(t) \/ EndSave(t)
       \/ ReadFails(t) \/ LoadRaises(t) \/ SaveRaises(t)
  \/ Crash

Spec == Init /\ [][Next]_vars

-----------------------------------------------------------------------------
(* A load and a save never overlap: only the holder of the lock is inside  *)
(* either.                                                                 *)
Inside == {"reading", "loaded", "opening", "writing", "saved"}

LockOK ==
  /\ \A t \in Threads : pc[t] \in Inside => lock = t
  /\ \A t \in Threads : lock = t => pc[t] \in Inside

(* A load sees a half-written file only if the last write was cut short by *)
(* an I/O error or the death of the process: a thread about to read never  *)
(* finds the file torn by a save that is still going on.                   *)
NoTornRead ==
  \A t \in Threads : pc[t] = "reading" /\ file = Torn => cut

(* The refinement mapping.  A save takes effect when its write ends; while *)
(* it is under way the registry still has the content it had before.       *)
val == IF MidWrite THEN before ELSE Parsed(file)

req == [t \in Threads |->
          IF pc[t] \in {"load", "reading"}
            THEN [op |-> "load", data |-> Empty]
          ELSE IF pc[t] \in {"save", "opening", "writing"}
            THEN [op |-> "save", data |-> arg[t]]
          ELSE [op |-> "none", data |-> Empty]]

Atomic == INSTANCE AtomicRegistry

(* Loads and saves of the file behave as those of an atomic registry.      *)
ImplementsAtomic == Atomic!ASpec
=============================================================================

--------------------------- MODULE AtomicRegistry ---------------------------
(***************************************************************************)
(* What the bridge's threads may assume of the workstream registry: a save *)
(* replaces the content in one step, at some moment between its call and   *)
(* its return, and a load that succeeds returns the whole of it.  Of its   *)
(* own the registry loses its content only when a save is cut short, by an *)
(* I/O error in the middle of it or the death of the process.  But a load  *)
(* may fail and say Empty while the content is there: its caller cannot    *)
(* tell, and loses the content with its next save.                         *)
(***************************************************************************)
CONSTANTS
  Threads,   \* request-handler threads and the poller
  Content,   \* what a registry file can say
  Empty      \* the content of a registry that is absent or unreadable

VARIABLES
  val,       \* the content a load would return now
  out,       \* what each thread's last load returned
  req        \* the operation each thread has called and not seen take effect

aVars == <<val, out, req>>

NoReq      == [op |-> "none", data |-> Empty]
LoadReq    == [op |-> "load", data |-> Empty]
SaveReq(d) == [op |-> "save", data |-> d]

Request == [op : {"none", "load", "save"}, data : Content]

AInit ==
  /\ val = Empty
  /\ out = [t \in Threads |-> Empty]
  /\ req = [t \in Threads |-> NoReq]

CallLoad(t) ==
  /\ req[t] = NoReq
  /\ req' = [req EXCEPT ![t] = LoadReq]
  /\ UNCHANGED <<val, out>>

CallSave(t, d) ==
  /\ req[t] = NoReq
  /\ req' = [req EXCEPT ![t] = SaveReq(d)]
  /\ UNCHANGED <<val, out>>

DoLoad(t) ==
  /\ req[t] = LoadReq
  /\ out' = [out EXCEPT ![t] = val]
  /\ req' = [req EXCEPT ![t] = NoReq]
  /\ UNCHANGED val

(* A load that fails returns Empty, or raises; the content stays.          *)
FailLoad(t) ==
  /\ req[t] = LoadReq
  /\ out' \in {out, [out EXCEPT ![t] = Empty]}
  /\ req' = [req EXCEPT ![t] = NoReq]
  /\ UNCHANGED val

DoSave(t) ==
  /\ req[t].op = "save"
  /\ val' = req[t].data
  /\ req' = [req EXCEPT ![t] = NoReq]
  /\ UNCHANGED out

(* A save that raises leaves the old content or none at all.               *)
FailSave(t) ==
  /\ req[t].op = "save"
  /\ val' \in {val, Empty}
  /\ req' = [req EXCEPT ![t] = NoReq]
  /\ UNCHANGED out

(* The process dies.  Content is lost only if a save was under way.        *)
Die ==
  /\ \/ UNCHANGED val
     \/ /\ \E t \in Threads : req[t].op = "save"
        /\ val' = Empty
  /\ req' = [t \in Threads |-> NoReq]
  /\ out' = [t \in Threads |-> Empty]

ANext ==
  \/ \E t \in Threads :
       \/ CallLoad(t) \/ DoLoad(t) \/ FailLoad(t) \/ DoSave(t) \/ FailSave(t)
       \/ \E d \in Content : CallSave(t, d)
  \/ Die

ASpec == AInit /\ [][ANext]_aVars
=============================================================================

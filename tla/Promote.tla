------------------------------ MODULE Promote ------------------------------
(***************************************************************************)
(* Promotion of checkpoints, train/promote.py: processes that run promote  *)
(* on one link, ~/models/current.  A promote looks its checkpoint up,      *)
(* remembers what the link names, flips the link, restarts vLLM, and runs  *)
(* the smoke test; only a failure of the smoke test puts the link back.    *)
(* Nothing keeps two promotes apart.                                       *)
(***************************************************************************)
CONSTANTS
  Promotes,   \* calls of promote, each made once at some time
  Dirs,       \* directories of registered checkpoints
  NoDir       \* no directory: the link does not exist

ASSUME PromoteAssumption == NoDir \notin Dirs

VARIABLES
  link,        \* the directory ~/models/current names, or NoDir
  present,     \* external: the directories that exist
  pc,          \* where each promote is
  target,      \* the directory it promotes
  prior,       \* what the link named when it looked, or NoDir
  release,     \* history: what the link named first, or the target of the
               \* promote that returned last
  overlapped,  \* history: a promote began while another was under way
  stranded     \* history: a promote ended after its flip, neither having
               \* returned nor put the link back

locals  == <<target, prior>>
history == <<release, overlapped, stranded>>
vars == <<link, present, pc, locals, history>>

(* Where a promote has looked at the link and may still change it.         *)
Unflipped == {"read", "flip"}
Flipped   == {"restart", "smoke", "rollback"}
Active == {p \in Promotes : pc[p] \in Unflipped \cup Flipped}

TypeOK ==
  /\ link \in Dirs \cup {NoDir}
  /\ present \in SUBSET Dirs
  /\ pc \in [Promotes -> {"look", "link", "done", "raised", "failed", "killed"}
                           \cup Unflipped \cup Flipped]
  /\ target \in [Promotes -> Dirs \cup {NoDir}]
  /\ prior \in [Promotes -> Dirs \cup {NoDir}]
  /\ release \in Dirs \cup {NoDir}
  /\ overlapped \in BOOLEAN
  /\ stranded \in BOOLEAN

Init ==
  /\ link \in Dirs \cup {NoDir}
  /\ present = Dirs
  /\ pc = [p \in Promotes |-> "look"]
  /\ target = [p \in Promotes |-> NoDir]
  /\ prior = [p \in Promotes |-> NoDir]
  /\ release = link
  /\ overlapped = FALSE
  /\ stranded = FALSE

Goto(p, from, to) == pc[p] = from /\ pc' = [pc EXCEPT ![p] = to]

-----------------------------------------------------------------------------
(* reg.get_path: the path registered for the id,                           *)
Lookup(p) ==
  /\ Goto(p, "look", "link")
  /\ \E d \in Dirs : target' = [target EXCEPT ![p] = d]
  /\ UNCHANGED <<link, present, prior, history>>

(* or None, a ValueError.                                                  *)
NotFound(p) ==
  /\ Goto(p, "look", "raised")
  /\ UNCHANGED <<link, present, locals, history>>

(* link.is_symlink(), the prior release when there is none being None,     *)
IsSymlink(p) ==
  /\ Goto(p, "link", IF link = NoDir THEN "flip" ELSE "read")
  /\ overlapped' = (overlapped \/ Active # {})
  /\ UNCHANGED <<link, present, locals, release, stranded>>

(* and then os.readlink, which raises when the link has gone in between.   *)
ReadLink(p) ==
  /\ Goto(p, "read", IF link = NoDir THEN "raised" ELSE "flip")
  /\ prior' = [prior EXCEPT ![p] = link]
  /\ UNCHANGED <<link, present, target, history>>

(* _flip_symlink: a link under a name of its own, put in place at once.    *)
Flip(p) ==
  /\ Goto(p, "flip", "restart")
  /\ link' = target[p]
  /\ UNCHANGED <<present, locals, history>>

FlipFails(p) ==
  /\ Goto(p, "flip", "raised")
  /\ UNCHANGED <<link, present, locals, history>>

(* systemctl restart, for the model that vLLM's own unit names.            *)
Restart(p) ==
  /\ Goto(p, "restart", "smoke")
  /\ UNCHANGED <<link, present, locals, history>>

(* It fails (check=True), outside of the try: the link stays flipped.      *)
RestartFails(p) ==
  /\ Goto(p, "restart", "raised")
  /\ stranded' = TRUE
  /\ UNCHANGED <<link, present, locals, release, overlapped>>

(* _run_smoke: the directory exists.                                       *)
SmokePasses(p) ==
  /\ Goto(p, "smoke", "done")
  /\ target[p] \in present
  /\ release' = target[p]
  /\ UNCHANGED <<link, present, locals, overlapped, stranded>>

SmokeFails(p) ==
  /\ Goto(p, "smoke", "rollback")
  /\ target[p] \notin present
  /\ UNCHANGED <<link, present, locals, history>>

(* Mutant: the link is flipped to a prior release that is None.            *)
FlipToNone(p) ==
  /\ Goto(p, "rollback", "failed")
  /\ link' = IF prior[p] = NoDir THEN "None" ELSE prior[p]
  /\ UNCHANGED <<present, locals, history>>

(* Mutant: with no prior release the link is left.                         *)
KeepLink(p) ==
  /\ Goto(p, "rollback", "failed")
  /\ link' = IF prior[p] = NoDir THEN link ELSE prior[p]
  /\ UNCHANGED <<present, locals, history>>

(* The link goes back to the prior release, or is removed if there was     *)
(* none; vLLM is not restarted.                                            *)
Rollback(p) ==
  /\ Goto(p, "rollback", "failed")
  /\ link' = prior[p]
  /\ UNCHANGED <<present, locals, history>>

RollbackFails(p) ==
  /\ Goto(p, "rollback", "failed")
  /\ stranded' = TRUE
  /\ UNCHANGED <<link, present, locals, release, overlapped>>

(* The process is killed: the promote unit's TimeoutStartSec, a terminal   *)
(* that goes away.                                                         *)
Killed(p) ==
  /\ pc[p] \in {"look", "link"} \cup Unflipped \cup Flipped
  /\ pc' = [pc EXCEPT ![p] = "killed"]
  /\ stranded' = (stranded \/ pc[p] \in Flipped)
  /\ UNCHANGED <<link, present, locals, release, overlapped>>

(* Checkpoints are discarded by hand, and merged again by a cycle.         *)
Discard(d) ==
  /\ d \in present
  /\ present' = present \ {d}
  /\ UNCHANGED <<link, pc, locals, history>>

Remake(d) ==
  /\ d \in Dirs \ present
  /\ present' = present \cup {d}
  /\ UNCHANGED <<link, pc, locals, history>>

Step(p) ==
  \/ Lookup(p) \/ NotFound(p) \/ IsSymlink(p) \/ ReadLink(p)
  \/ Flip(p) \/ FlipFails(p) \/ Restart(p) \/ RestartFails(p)
  \/ SmokePasses(p) \/ SmokeFails(p) \/ Rollback(p) \/ RollbackFails(p)

Next ==
  \/ \E p \in Promotes : Step(p) \/ Killed(p)
  \/ \E d \in Dirs : Discard(d) \/ Remake(d)

Spec == Init /\ [][Next]_vars

-----------------------------------------------------------------------------
(* When promotes do not overlap, and each returns or puts the link back,   *)
(* the link names the checkpoint promoted last, whatever was deleted and   *)
(* however many smoke tests failed in between; while one is under way, it  *)
(* names that one or the one before.                                       *)
LinkIsRelease ==
  ~overlapped /\ ~stranded =>
    \/ link = release
    \/ \E p \in Active : link = target[p] /\ pc[p] \in Flipped

=============================================================================

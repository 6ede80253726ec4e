----------------------------- MODULE TrainCycle -----------------------------
(***************************************************************************)
(* Training cycles, train/cycle.py: processes that run run_cycle in one    *)
(* output directory out_dir.  They share its lock file, its directory      *)
(* merged and its registry, and the goals and proposals of the xnch        *)
(* server.  The lock file is modelled down to the inode, as flock locks an *)
(* open file and unlink removes a name.  A run creates at most one lock    *)
(* file, so the files are named by the run that created them.              *)
(***************************************************************************)
EXTENDS CheckpointRegistry

CONSTANTS
  Runs,         \* runs of the cycle, each started once at some time
  Autonomous,   \* those started with --autonomous, which claim no goal
  Ids,          \* checkpoint ids: ckpt-<date>-<goal id or "manual">
  Nobody        \* no run

ASSUME CycleAssumption ==
  /\ Nobody \notin Runs
  /\ Autonomous \subseteq Runs

VARIABLES
  lockfile,   \* the file .cycle.lock names, or Nobody
  fd,         \* the lock file each run has open, or Nobody
  owner,      \* the run that holds the flock of each lock file, or Nobody
  pc,         \* where each run is
  ckpt,       \* the checkpoint id of each run
  result,     \* what run_cycle returned
  merged,     \* the run that wrote out_dir/merged last, or Nobody
  rows,       \* the registry, out_dir/registry.sqlite
  goal,       \* external: the goal each run has created
  lease,      \* external: the goal each run was given by its claim
  proposals,  \* external: the promotion proposals the server has received
  unlinked    \* history: a run has removed .cycle.lock

locking == <<lockfile, fd, owner, unlinked>>
server  == <<goal, lease, proposals>>
vars == <<locking, pc, ckpt, result, merged, rows, server>>

(* date.today(): the runs of a behaviour are on one day, and differ in the *)
(* --goal-id they were given, or do not.                                   *)
Today == 1

(* run_cycle always merges into out_dir/merged.                            *)
MergedPath == "merged"

Row == [id : Ids, path : {MergedPath}, date : {Today}, rowid : Nat]

Outside == {"start", "flock", "unlink", "end"}
Inside  == {"goal", "claim", "train", "merge", "register", "propose", "retain",
            "unlock"}

TypeOK ==
  /\ lockfile \in Runs \cup {Nobody}
  /\ fd \in [Runs -> Runs \cup {Nobody}]
  /\ owner \in [Runs -> Runs \cup {Nobody}]
  /\ pc \in [Runs -> Outside \cup Inside]
  /\ ckpt \in [Runs -> Ids]
  /\ result \in [Runs -> {"none", "refused", "None", "ckpt"}]
  /\ merged \in Runs \cup {Nobody}
  /\ rows \in SUBSET Row
  /\ goal \in [Runs -> {"none", "open", "claimed"}]
  /\ lease \in [Runs -> Runs \cup {Nobody}]
  /\ proposals \in SUBSET [run : Runs, id : Ids]
  /\ unlinked \in BOOLEAN

Init ==
  /\ lockfile = Nobody
  /\ fd = [r \in Runs |-> Nobody]
  /\ owner = [r \in Runs |-> Nobody]
  /\ pc = [r \in Runs |-> "start"]
  /\ ckpt \in [Runs -> Ids]
  /\ result = [r \in Runs |-> "none"]
  /\ merged = Nobody
  /\ rows = {}
  /\ goal = [r \in Runs |-> "none"]
  /\ lease = [r \in Runs |-> Nobody]
  /\ proposals = {}
  /\ unlinked = FALSE

Goto(r, from, to) == pc[r] = from /\ pc' = [pc EXCEPT ![r] = to]

(* run_cycle returns x; the finally clause is still to come.               *)
Returns(r, x) == result' = [result EXCEPT ![r] = x]

-----------------------------------------------------------------------------
(* _acquire_lock: os.open with O_CREAT, then flock without waiting.        *)
Open(r) ==
  LET file == IF lockfile = Nobody THEN r ELSE lockfile IN
  /\ Goto(r, "start", "flock")
  /\ lockfile' = file
  /\ fd' = [fd EXCEPT ![r] = file]
  /\ UNCHANGED <<owner, unlinked, ckpt, result, merged, rows, server>>

(* Mutant: the error of flock is ignored.                                  *)
FlockIgnored(r) ==
  /\ Goto(r, "flock", IF r \in Autonomous THEN "train" ELSE "goal")
  /\ owner' = [owner EXCEPT ![fd[r]] = r]
  /\ UNCHANGED <<lockfile, fd, unlinked, ckpt, result, merged, rows, server>>

Flock(r) ==
  /\ Goto(r, "flock", IF r \in Autonomous THEN "train" ELSE "goal")
  /\ owner[fd[r]] = Nobody
  /\ owner' = [owner EXCEPT ![fd[r]] = r]
  /\ UNCHANGED <<lockfile, fd, unlinked, ckpt, result, merged, rows, server>>

(* The file is locked: the exception leaves run_cycle, nothing is undone.  *)
Refused(r) ==
  /\ Goto(r, "flock", "end")
  /\ owner[fd[r]] # Nobody
  /\ fd' = [fd EXCEPT ![r] = Nobody]
  /\ Returns(r, "refused")
  /\ UNCHANGED <<lockfile, owner, unlinked, ckpt, merged, rows, server>>

(* claim_goal: POST /goals makes a goal and answers its id,                *)
CreateGoal(r) ==
  /\ Goto(r, "goal", "claim")
  /\ goal' = [goal EXCEPT ![r] = "open"]
  /\ UNCHANGED <<locking, ckpt, result, merged, rows, lease, proposals>>

(* or fails, before or after making it, or answers no id.                  *)
CreateGoalFails(r) ==
  /\ Goto(r, "goal", "unlock")
  /\ \E g \in {"none", "open"} : goal' = [goal EXCEPT ![r] = g]
  /\ Returns(r, "None")
  /\ UNCHANGED <<locking, ckpt, merged, rows, lease, proposals>>

(* POST /goals/claim names no goal: the server gives one that is open.     *)
Claim(r) ==
  /\ Goto(r, "claim", "train")
  /\ \E g \in Runs :
       /\ goal[g] = "open"
       /\ goal' = [goal EXCEPT ![g] = "claimed"]
       /\ lease' = [lease EXCEPT ![r] = g]
  /\ UNCHANGED <<locking, ckpt, result, merged, rows, proposals>>

ClaimFails(r) ==
  /\ Goto(r, "claim", "unlock")
  /\ \/ UNCHANGED goal
     \/ \E g \in Runs : goal[g] = "open" /\ goal' = [goal EXCEPT ![g] = "claimed"]
  /\ Returns(r, "None")
  /\ UNCHANGED <<locking, ckpt, merged, rows, lease, proposals>>

(* run_sft writes out_dir/adapter, which no other step here reads.         *)
Train(r) ==
  /\ Goto(r, "train", "merge")
  /\ UNCHANGED <<locking, ckpt, result, merged, rows, server>>

TrainFails(r) ==
  /\ Goto(r, "train", "unlock")
  /\ Returns(r, "None")
  /\ UNCHANGED <<locking, ckpt, merged, rows, server>>

(* merge_and_requant writes into out_dir/merged, whatever it holds.        *)
Merge(r) ==
  /\ Goto(r, "merge", "register")
  /\ merged' = r
  /\ UNCHANGED <<locking, ckpt, result, rows, server>>

MergeFails(r) ==
  /\ Goto(r, "merge", "unlock")
  /\ merged' \in {merged, r}
  /\ Returns(r, "None")
  /\ UNCHANGED <<locking, ckpt, rows, server>>

Register(r) ==
  /\ Goto(r, "register", "propose")
  /\ CanRegister(rows, ckpt[r], MergedPath)
  /\ rows' = Registered(rows, ckpt[r], MergedPath, Today)
  /\ UNCHANGED <<locking, ckpt, result, merged, server>>

(* IntegrityError, when it cannot be registered, or another sqlite error.  *)
RegisterFails(r) ==
  /\ Goto(r, "register", "retain")
  /\ UNCHANGED <<locking, ckpt, result, merged, rows, server>>

(* Mutant: the proposal names the path.                                    *)
PathProposal(r) == [run |-> r, id |-> MergedPath]

Proposal(r) == [run |-> r, id |-> ckpt[r]]

Propose(r) ==
  /\ Goto(r, "propose", "unlock")
  /\ proposals' = proposals \cup {Proposal(r)}
  /\ Returns(r, "ckpt")
  /\ UNCHANGED <<locking, ckpt, merged, rows, goal, lease>>

(* Mutant: no raise_for_status.                                            *)
ProposeUnchecked(r) ==
  /\ Goto(r, "propose", "unlock")
  /\ proposals' \in {proposals, proposals \cup {Proposal(r)}}
  /\ Returns(r, "ckpt")
  /\ UNCHANGED <<locking, ckpt, merged, rows, goal, lease>>

(* The POST fails; the server may have received it.                        *)
ProposeFails(r) ==
  /\ Goto(r, "propose", "retain")
  /\ proposals' \in {proposals, proposals \cup {Proposal(r)}}
  /\ UNCHANGED <<locking, ckpt, result, merged, rows, goal, lease>>

(* Mutant: the except clause takes the checkpoint out again.               *)
Unregister(r) ==
  /\ Goto(r, "retain", "unlock")
  /\ rows' = {row \in rows : row.id # ckpt[r]}
  /\ Returns(r, "None")
  /\ UNCHANGED <<locking, ckpt, merged, server>>

(* The except clause, once ckpt_id is set: retain(), whose errors pass.    *)
Retain(r) ==
  /\ Goto(r, "retain", "unlock")
  /\ rows' \in {rows, Retained(rows, 2)}
  /\ Returns(r, "None")
  /\ UNCHANGED <<locking, ckpt, merged, server>>

(* Mutant: the file is removed, and stays open and locked.                 *)
KeepLock(r) ==
  /\ Goto(r, "unlock", "unlink")
  /\ UNCHANGED <<locking, ckpt, result, merged, rows, server>>

(* _release_lock: LOCK_UN and close, and then unlink, by name.             *)
Unlock(r) ==
  /\ Goto(r, "unlock", "unlink")
  /\ owner' = [owner EXCEPT ![fd[r]] = Nobody]
  /\ fd' = [fd EXCEPT ![r] = Nobody]
  /\ UNCHANGED <<lockfile, unlinked, ckpt, result, merged, rows, server>>

Unlink(r) ==
  /\ Goto(r, "unlink", "end")
  /\ lockfile' = Nobody
  /\ unlinked' = TRUE
  /\ UNCHANGED <<fd, owner, ckpt, result, merged, rows, server>>

(* The process is killed, by systemd's TimeoutStartSec or otherwise: its   *)
(* file is closed, which drops the lock; the name stays.                   *)
Crash(r) ==
  /\ pc[r] \in (Inside \cup Outside) \ {"start", "end"}
  /\ pc' = [pc EXCEPT ![r] = "end"]
  /\ owner' = [f \in Runs |-> IF owner[f] = r THEN Nobody ELSE owner[f]]
  /\ fd' = [fd EXCEPT ![r] = Nobody]
  /\ merged' \in {merged} \cup (IF pc[r] = "merge" THEN {r} ELSE {})
  /\ UNCHANGED <<lockfile, unlinked, ckpt, result, rows, server>>

(* The steps of a run once it has started.                                 *)
Step(r) ==
  \/ Flock(r) \/ Refused(r)
  \/ CreateGoal(r) \/ CreateGoalFails(r) \/ Claim(r) \/ ClaimFails(r)
  \/ Train(r) \/ TrainFails(r) \/ Merge(r) \/ MergeFails(r)
  \/ Register(r) \/ RegisterFails(r) \/ Propose(r) \/ ProposeFails(r)
  \/ Retain(r) \/ Unlock(r) \/ Unlink(r)

Next == \E r \in Runs : Open(r) \/ Step(r) \/ Crash(r)

Spec == Init /\ [][Next]_vars

(* A run that has started is scheduled; its calls return or time out.      *)
FairSpec == Spec /\ \A r \in Runs : WF_vars(Step(r))

-----------------------------------------------------------------------------
(* The lock excludes until some run has released it: a crash, which leaves *)
(* the file behind, neither lets two runs in nor keeps the next one out.   *)
ExclusiveUntilUnlink ==
  ~unlinked => \A p, q \in Runs : pc[p] \in Inside /\ pc[q] \in Inside => p = q

(* However the runs interleave, lock or no lock, the server is sent only   *)
(* proposals of checkpoints that are in the registry, and no retain of a   *)
(* run that failed takes them out again.                                   *)
ProposedIsRegistered == \A p \in proposals : \E row \in rows : row.id = p.id

(* No two runs propose one checkpoint id, though the id names only the day *)
(* and the goal, and the lock may have let both in.                        *)
ProposedOnce == \A p, q \in proposals : p.id = q.id => p = q

(* What run_cycle returns is the id of a checkpoint that it has proposed.  *)
ReturnedIsProposed == \A r \in Runs : result[r] = "ckpt" => Proposal(r) \in proposals

(* A run that has started ends and holds no lock then, so the next one is  *)
(* not refused because of it.                                              *)
RunsEnd ==
  \A r \in Runs :
    pc[r] # "start" ~> pc[r] = "end" /\ \A f \in Runs : owner[f] # r

=============================================================================

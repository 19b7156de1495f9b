-------------------------- MODULE ResourceControl --------------------------
(***************************************************************************)
(* The cgroup v2 backend of the resource_control skill: the transaction    *)
(* that writes a profile's control files, its undo, and the rollback that  *)
(* the skill manager runs on stop (agent/src/executors.cpp and             *)
(* agent/src/builtin_skills/resource_control.cpp).                         *)
(*                                                                         *)
(* The agent is one thread, but a control file is shared with everybody    *)
(* else on the machine: the policy engine's thread, operators, container   *)
(* runtimes.  Each system call is a step of its own, and the environment   *)
(* may act between two of them.                                            *)
(***************************************************************************)
EXTENDS Integers, Sequences

CONSTANTS
  Groups,        \* the cgroups a profile may target
  Controls,      \* the control files, in the order a transaction writes them
  Irreversible,  \* controls the transaction refuses (memory.reclaim)
  Values,        \* abstract contents of a control file
  Skip,          \* a plan leaves this control alone (controller not enabled)
  Initial,       \* contents of the files of a fresh cgroup
  EnvValues,     \* contents that others write
  Readback,      \* what a file reads after the kernel accepted a write
  Accepted,      \* value -> contents that control_value_matches takes for it
  Plans,         \* the settings that profiles select
  PlanGroup,     \* the cgroup of a plan
  PlanValue,     \* plan -> control -> value to write, or Skip
  ExplicitPlans, \* plans with a target_ref: their processes are not moved
  Pids,          \* managed processes
  Outside,       \* a process that no plan has moved
  MaxInode,      \* bound: how often a cgroup may be re-created
  NoSnapshot,
  Disturbances   \* what the environment of a run may do

Files  == {Controls[i] : i \in 1..Len(Controls)}
Keys   == Groups \X Files
Inodes == 0..MaxInode

\* "agent" wrote the value, or somebody else did ("env"), or the agent did
\* and then dropped its only record of it ("orphan").  A history variable:
\* the code keeps no such thing.
Authors == {"env", "agent", "orphan"}

Snapshots == [restore : Values, desired : Values, inode : Inodes, by : Authors]

ASSUME ControlsAssumption ==
  /\ Controls \in Seq(Files)
  /\ Irreversible \subseteq Files
  /\ MaxInode \in Nat

ASSUME ValuesAssumption ==
  /\ Initial \in Values
  /\ EnvValues \subseteq Values
  /\ Readback \in [Values -> Values]
  /\ Accepted \in [Values -> SUBSET Values]
  /\ \A v \in Values : v \in Accepted[v]
  /\ Skip \notin Values
  /\ NoSnapshot \notin Snapshots

ASSUME PlansAssumption ==
  /\ PlanGroup \in [Plans -> Groups]
  /\ PlanValue \in [Plans -> [Files -> Values \cup {Skip}]]
  /\ ExplicitPlans \subseteq Plans
  /\ Plans # {} /\ Pids # {} /\ Keys # {}

VARIABLES
  files,     \* key -> contents of the control file
  author,    \* key -> who wrote those contents (history)
  inode,     \* group -> identity (st_dev, st_ino) of the directory
  present,   \* group -> the directory exists
  procs,     \* pid -> the group it was moved into, or Outside
  snapshots, \* resource_control_snapshots(): key -> snapshot or NoSnapshot
  pc,        \* where the agent's thread is
  plan,      \* the plan of the current assignment ...
  pid,       \* ... and the process it is for
  step,      \* index in Controls of the control being written
  seen,      \* old_value as read, with its author, until the snapshot is taken
  transactionKeys, \* transaction_keys of the current (or last) assignment
  result,    \* outcome of the last assignment
  todo,      \* snapshots still to be restored
  current,   \* the snapshot being restored
  return,    \* where the restore loop returns to: "idle" or "stopped"
  ok         \* what the restore loop will report

world    == <<files, author, inode, present, procs>>
assign   == <<plan, pid, step, seen, transactionKeys>>
restore  == <<todo, current, return, ok>>
vars     == <<world, snapshots, pc, assign, result, restore>>

NothingSeen == [value |-> Initial, by |-> "env"]

Group   == PlanGroup[plan]
Key     == <<Group, Controls[step]>>
Desired == PlanValue[plan][Controls[step]]
May(d)  == d \in Disturbances

Init ==
  /\ files = [k \in Keys |-> Initial]
  /\ author = [k \in Keys |-> "env"]
  /\ inode = [g \in Groups |-> 0]
  /\ present = [g \in Groups |-> TRUE]
  /\ procs = [p \in Pids |-> Outside]
  /\ snapshots = [k \in Keys |-> NoSnapshot]
  /\ pc = "idle"
  /\ plan \in Plans /\ pid \in Pids
  /\ step = 1
  /\ seen = NothingSeen
  /\ transactionKeys = {}
  /\ result = "none"
  /\ todo = {}
  /\ current \in Keys
  /\ return = "idle"
  /\ ok = TRUE
-----------------------------------------------------------------------------
(* The transaction: apply_cgroup_assignment.  A definition whose name ends  *)
(* in "_wrong", "_noundo" or the like is a plausible bug of the one that   *)
(* follows it; no run uses it, the mutation list of PROJECT.json does.     *)

\* A managed sample arrives with a profile that names a group.
BeginAssign(p, q) ==
  /\ pc = "idle"
  /\ pc' = "read"
  /\ plan' = p /\ pid' = q
  /\ step' = 1
  /\ transactionKeys' = {}
  /\ result' = "none"
  /\ UNCHANGED <<world, snapshots, seen, restore>>

UndoKeys(keys) ==
  /\ pc' = "restore"
  /\ todo' = keys
  /\ return' = "idle"
  /\ ok' = TRUE
  /\ result' = "failed"
  /\ UNCHANGED <<world, snapshots, assign, current>>

FailAssign_noundo == UndoKeys({})
FailAssign_undoall == UndoKeys({k \in Keys : snapshots[k] # NoSnapshot})

\* fail_after_partial_apply: undo the keys of this transaction.
FailAssign == UndoKeys(transactionKeys)

AtControl == pc = "read" /\ step <= Len(Controls)

NextControl ==
  /\ step' = step + 1
  /\ pc' = "read"
  /\ UNCHANGED <<world, snapshots, plan, pid, seen, result, restore>>

SkipControl ==
  /\ AtControl /\ Desired = Skip
  /\ NextControl
  /\ UNCHANGED transactionKeys

RefuseIrreversible ==
  /\ AtControl /\ Desired # Skip
  /\ Controls[step] \in Irreversible
  /\ FailAssign

\* Snapshots anew at every write.
ReadControl_wrong ==
  /\ AtControl /\ Desired # Skip
  /\ Controls[step] \notin Irreversible
  /\ present[Group] /\ files[Key] \notin Accepted[Desired]
  /\ seen' = [value |-> files[Key], by |-> author[Key]]
  /\ pc' = "snapshot"
  /\ UNCHANGED <<world, snapshots, plan, pid, step, transactionKeys, result, restore>>

\* The old value is read; a file that already holds such a value is left alone
\* and is not a key of the transaction.
ReadControl ==
  /\ AtControl /\ Desired # Skip
  /\ Controls[step] \notin Irreversible
  /\ \/ /\ ~present[Group] \/ May("open")
        /\ FailAssign
     \/ /\ present[Group] /\ files[Key] \in Accepted[Desired]
        /\ NextControl
        /\ UNCHANGED transactionKeys
     \/ /\ present[Group] /\ files[Key] \notin Accepted[Desired]
        /\ \/ /\ snapshots[Key] = NoSnapshot
              /\ seen' = [value |-> files[Key], by |-> author[Key]]
              /\ pc' = "snapshot"
           \/ /\ snapshots[Key] # NoSnapshot
              /\ pc' = "write"
              /\ UNCHANGED seen
        /\ UNCHANGED <<world, snapshots, plan, pid, step, transactionKeys,
                       result, restore>>

\* Taken before the first write of the key, and never changed afterwards.
TakeSnapshot ==
  /\ pc = "snapshot"
  /\ \/ /\ ~present[Group] \/ May("open")
        /\ FailAssign
     \/ /\ present[Group]
        /\ snapshots' = [snapshots EXCEPT ![Key] =
                           [restore |-> seen.value, desired |-> Desired,
                            inode |-> inode[Group], by |-> seen.by]]
        /\ pc' = "write"
        /\ seen' = NothingSeen
        /\ UNCHANGED <<world, plan, pid, step, transactionKeys, result, restore>>

\* write_file_value tests the stream before it is flushed: it sees that the
\* file cannot be opened, never that the kernel rejects the value.
WriteControl ==
  /\ pc = "write"
  /\ \/ /\ ~present[Group] \/ May("open")
        /\ FailAssign
     \/ /\ present[Group]
        /\ pc' = "verify"
        /\ \/ /\ files' = [files EXCEPT ![Key] = Readback[Desired]]
              /\ author' = [author EXCEPT ![Key] = "agent"]
           \/ May("reject") /\ UNCHANGED <<files, author>>
        /\ UNCHANGED <<inode, present, procs, snapshots, assign, result, restore>>

VerifyControl ==
  /\ pc = "verify"
  /\ \/ /\ present[Group] /\ files[Key] \in Accepted[Desired]
        /\ transactionKeys' = transactionKeys \cup {Key}
        /\ NextControl
     \/ /\ ~present[Group] \/ files[Key] \notin Accepted[Desired] \/ May("open")
        /\ FailAssign

\* write_pid_to_group, for the default groups only.  As with the control
\* files, a rejected write (the process has exited) is not noticed.
MoveProcess ==
  /\ pc = "read" /\ step > Len(Controls)
  /\ \/ /\ plan \notin ExplicitPlans
        /\ ~present[Group] \/ May("open")
        /\ FailAssign
     \/ /\ \/ plan \in ExplicitPlans /\ UNCHANGED procs
           \/ /\ plan \notin ExplicitPlans /\ present[Group]
              /\ \/ procs' = [procs EXCEPT ![pid] = Group]
                 \/ May("reject") /\ UNCHANGED procs
        /\ pc' = "idle"
        /\ result' = "applied"
        /\ UNCHANGED <<files, author, inode, present, snapshots, assign, restore>>
-----------------------------------------------------------------------------
(* Restoring: rollback_resource_control_keys after a failed transaction,   *)
(* rollback_resource_control_state on rollback() and stop().               *)

Matches(k) ==
  /\ present[k[1]]
  /\ inode[k[1]] = snapshots[k].inode
  /\ files[k] \in Accepted[snapshots[k].desired]

\* The skill manager calls rollback() and then stop(), or stop() alone,
\* between two cycles; each runs the whole loop.
Rollback ==
  /\ pc \in {"idle", "stopped"}
  /\ pc' = "restore"
  /\ todo' = {k \in Keys : snapshots[k] # NoSnapshot}
  /\ return' = "stopped"
  /\ ok' = TRUE
  /\ UNCHANGED <<world, snapshots, assign, result, current>>

\* The mismatch is not reported ...
CompareBeforeRestore_silent(k) ==
  /\ pc = "restore" /\ k \in todo
  /\ ~Matches(k)
  /\ todo' = todo \ {k}
  /\ UNCHANGED <<world, assign, result, return, snapshots, ok, pc, current>>

\* ... or is tried again until it matches.
CompareBeforeRestore_retry(k) ==
  /\ pc = "restore" /\ k \in todo
  /\ Matches(k)
  /\ pc' = "overwrite" /\ current' = k
  /\ UNCHANGED <<world, assign, result, return, snapshots, todo, ok>>

\* restore_resource_snapshot up to its write: identity, then compare.
CompareBeforeRestore(k) ==
  /\ pc = "restore" /\ k \in todo
  /\ UNCHANGED <<world, assign, result, return, snapshots>>
  /\ \/ /\ snapshots[k] # NoSnapshot /\ Matches(k)
        /\ pc' = "overwrite"
        /\ current' = k
        /\ UNCHANGED <<todo, ok>>
     \/ /\ snapshots[k] # NoSnapshot /\ (~Matches(k) \/ May("open"))
        /\ todo' = todo \ {k}
        /\ ok' = FALSE
        /\ UNCHANGED <<pc, current>>

\* Drops the snapshot whether or not the write succeeds.
RestoreControl_wrong ==
  /\ pc = "overwrite"
  /\ pc' = "restore"
  /\ todo' = todo \ {current}
  /\ ok' = FALSE
  /\ snapshots' = [snapshots EXCEPT ![current] = NoSnapshot]
  /\ UNCHANGED <<world, assign, result, current, return>>

\* The write of the old value, and the end of the snapshot if it succeeds.
\* There is no verification here: a value the kernel rejects counts as
\* restored.
RestoreControl ==
  /\ pc = "overwrite"
  /\ pc' = "restore"
  /\ todo' = todo \ {current}
  /\ UNCHANGED <<inode, present, procs, assign, result, current, return>>
  /\ \/ /\ ~present[current[1]] \/ May("open")
        /\ ok' = FALSE
        /\ UNCHANGED <<files, author, snapshots>>
     \/ /\ present[current[1]]
        /\ snapshots' = [snapshots EXCEPT ![current] = NoSnapshot]
        /\ UNCHANGED ok
        /\ \/ /\ files' = [files EXCEPT ![current] =
                             Readback[snapshots[current].restore]]
              /\ author' = [author EXCEPT ![current] = "env"]
           \/ /\ May("reject")
              /\ author' = [author EXCEPT ![current] =
                              IF @ = "agent" THEN "orphan" ELSE @]
              /\ UNCHANGED files

FinishRestore ==
  /\ pc = "restore" /\ todo = {}
  /\ pc' = return
  /\ UNCHANGED <<world, snapshots, assign, result, restore>>
-----------------------------------------------------------------------------
(* The environment.                                                        *)

EnvWrite(k, v) ==
  /\ May("env") /\ present[k[1]]
  /\ files' = [files EXCEPT ![k] = v]
  /\ author' = [author EXCEPT ![k] = "env"]
  /\ UNCHANGED <<inode, present, procs, snapshots, pc, assign, result, restore>>

\* rmdir of an empty cgroup, and mkdir of the same path later: another inode.
RemoveGroup(g) ==
  /\ May("recreate") /\ present[g]
  /\ \A p \in Pids : procs[p] # g
  /\ present' = [present EXCEPT ![g] = FALSE]
  /\ files' = [k \in Keys |-> IF k[1] = g THEN Initial ELSE files[k]]
  /\ author' = [k \in Keys |-> IF k[1] = g THEN "env" ELSE author[k]]
  /\ UNCHANGED <<inode, procs, snapshots, pc, assign, result, restore>>

CreateGroup(g) ==
  /\ ~present[g] /\ inode[g] < MaxInode
  /\ present' = [present EXCEPT ![g] = TRUE]
  /\ inode' = [inode EXCEPT ![g] = @ + 1]
  /\ UNCHANGED <<files, author, procs, snapshots, pc, assign, result, restore>>

\* The snapshots live in memory only; the action journal is never read back.
\* A new agent starts with none and takes what it finds for the old values.
CrashAndRestart ==
  /\ May("crash") /\ pc # "stopped"
  /\ snapshots' = [k \in Keys |-> NoSnapshot]
  /\ author' = [k \in Keys |-> IF author[k] = "agent" THEN "orphan" ELSE author[k]]
  /\ pc' = "idle"
  /\ transactionKeys' = {} /\ result' = "none"
  /\ todo' = {} /\ ok' = TRUE
  /\ UNCHANGED <<files, inode, present, procs, plan, pid, step, seen, current,
                 return>>

Agent ==
  \/ SkipControl \/ RefuseIrreversible \/ ReadControl \/ TakeSnapshot
  \/ WriteControl \/ VerifyControl \/ MoveProcess
  \/ \E k \in Keys : CompareBeforeRestore(k)
  \/ RestoreControl \/ FinishRestore

Environment ==
  \/ \E k \in Keys, v \in EnvValues : EnvWrite(k, v)
  \/ \E g \in Groups : RemoveGroup(g) \/ CreateGroup(g)
  \/ CrashAndRestart

Next ==
  \/ \E p \in Plans, q \in Pids : BeginAssign(p, q)
  \/ Rollback
  \/ Agent
  \/ Environment

Spec == Init /\ [][Next]_vars

\* The agent's thread runs: what it has begun it goes on with.
FairSpec == Spec /\ WF_vars(Agent)
-----------------------------------------------------------------------------
TypeOK ==
  /\ files \in [Keys -> Values]
  /\ author \in [Keys -> Authors]
  /\ inode \in [Groups -> Inodes]
  /\ present \in [Groups -> BOOLEAN]
  /\ procs \in [Pids -> Groups \cup {Outside}]
  /\ snapshots \in [Keys -> Snapshots \cup {NoSnapshot}]
  /\ pc \in {"idle", "read", "snapshot", "write", "verify", "restore",
             "overwrite", "stopped"}
  /\ plan \in Plans /\ pid \in Pids
  /\ step \in 1..Len(Controls) + 1
  /\ seen \in [value : Values, by : Authors]
  /\ transactionKeys \subseteq Keys
  /\ result \in {"none", "applied", "failed"}
  /\ todo \subseteq Keys
  /\ current \in Keys
  /\ return \in {"idle", "stopped"}
  /\ ok \in BOOLEAN
  /\ pc \in {"snapshot", "write", "verify"} => step <= Len(Controls) /\ Desired \in Values

(* Whatever the agent wrote and nobody changed since is still covered by a *)
(* snapshot: no path through failures, undo, repeated rollbacks and        *)
(* re-created cgroups forgets a value it wrote.  (The two ways to lose one *)
(* are a restore the kernel rejects and a crash; both are "orphan".)       *)
AgentValuesAccounted ==
  \A k \in Keys : author[k] = "agent" => snapshots[k] # NoSnapshot

(* A rollback never "restores" a value the agent itself wrote: the old     *)
(* value of every snapshot was somebody else's (or an orphan's).           *)
RestoreValueForeign ==
  \A k \in Keys : snapshots[k] # NoSnapshot => snapshots[k].by # "agent"

(* A rollback or stop that reports success (state "rolled-back"/"stopped") *)
(* leaves no value of the agent behind, whatever failed before it.         *)
SuccessfulStopLeavesNothing ==
  pc = "stopped" /\ ok => \A k \in Keys : author[k] # "agent"

(* fail_after_partial_apply: when the undo of a failed transaction         *)
(* restored everything, no control that the transaction had applied still  *)
(* holds the agent's value.                                                *)
FailedAssignUndone ==
  pc = "idle" /\ result = "failed" /\ ok =>
    \A k \in transactionKeys : author[k] # "agent"

(* The undo of a failed transaction touches nothing but the keys of that   *)
(* transaction: neither other groups nor what earlier transactions of the  *)
(* same group applied and this one found unchanged.                        *)
UndoStep == pc \in {"restore", "overwrite"} /\ return = "idle" /\ pc' # "idle"
UndoIsLocal ==
  [][UndoStep => \A k \in Keys \ transactionKeys : snapshots'[k] = snapshots[k]
    ]_vars

(* Every stop, and every undo, comes to an end.                            *)
RestoreTerminates == pc = "restore" ~> pc \in {"idle", "stopped"}
-----------------------------------------------------------------------------
(* What the repository's documents say, and the code does not do.          *)

(* agent/skills/cgroup_control/README.md: stop and rollback restore the    *)
(* old values changed during the life of the process.                      *)
StopRestoresOldValues ==
  pc = "stopped" => \A k \in Keys : files[k] = Initial
=============================================================================

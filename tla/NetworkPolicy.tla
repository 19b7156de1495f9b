---------------------------- MODULE NetworkPolicy ----------------------------
(***************************************************************************)
(* The network_policy skill (agent/src/builtin_skills/network_policy.cpp)  *)
(* and the lease on the cgroup it works in (common.hpp:1093-1280): the     *)
(* directory is created, its identity recorded, a program attached to it   *)
(* and pinned; the undo removes the directory only if it was created here  *)
(* and is still the same.  The parent directory stays what it is.          *)
(***************************************************************************)
EXTENDS SkillManager

VARIABLES
  group,       \* the cgroup at the path: [inode, owner] (the kernel's)
  occupied,    \* there are tasks in it (the kernel's)
  inodes,      \* how many directories there were at the path
  pin,         \* whose link is pinned under link_pin_path (the kernel's)
  lease,       \* cgroup_lease_: [created, inode]
  hasLease,    \* has_cgroup_lease_
  linked,      \* link_ is set
  polRunning,  \* running_
  polMode,     \* mode_
  polAt        \* the next step of the call that is active

polKernel == <<group, occupied, inodes, pin>>
polFlags  == <<lease, hasLease, linked>>
polVars   == <<polKernel, polFlags, polRunning, polMode, polAt>>

NoGroup == [inode |-> 0, owner |-> "none"]
NoLease == [created |-> FALSE, inode |-> 0]
Exists  == group # NoGroup

PolInit ==
  /\ group \in {NoGroup, [inode |-> 1, owner |-> "other"]}
  /\ occupied = FALSE /\ inodes = group.inode /\ pin = "none"
  /\ lease = NoLease /\ hasLease = FALSE /\ linked = FALSE
  /\ polRunning = FALSE /\ polMode \in Modes /\ polAt = "idle"

\* The cgroup and a pinned link stay when their agent dies, an unpinned does not.
PolReset ==
  /\ group' = IF group.owner = "own" THEN [group EXCEPT !.owner = "old"] ELSE group
  /\ pin' = IF pin = "own" THEN "old" ELSE pin
  /\ lease' = NoLease /\ hasLease' = FALSE /\ linked' = FALSE
  /\ polRunning' = FALSE /\ polAt' = "idle"
  /\ UNCHANGED <<occupied, inodes, polMode>>
-----------------------------------------------------------------------------
PolIn(function, step) == InCall("network_policy", function) /\ polAt = step

PolGo(step) == polAt' = step /\ UNCHANGED managerVars

PolDone(result) == polAt' = "idle" /\ Return(result)

\* probe, init and start up to create_owned_cgroup.  Audit needs the cgroup to
\* exist; what the probe creates for itself it removes.
PolStart ==
  /\ PolIn("start", "idle")
  /\ \/ PolDone("failed") /\ UNCHANGED polRunning
     \/ polMode = "audit" /\ Exists /\ polRunning' = TRUE /\ PolDone("ok")
     \/ polMode = "enforce" /\ PolGo("mkdir") /\ UNCHANGED polRunning
  /\ UNCHANGED <<polKernel, polFlags, polMode>>

Create(owner) ==
  /\ inodes' = inodes + 1
  /\ group' = [inode |-> inodes + 1, owner |-> owner]
  /\ occupied' = FALSE

\* create_owned_cgroup: mkdirat, whose EEXIST means that it is not ours.
PolMkdir ==
  /\ PolIn("start", "mkdir")
  /\ IF Exists THEN UNCHANGED <<group, occupied, inodes>> ELSE Create("own")
  /\ lease' = [NoLease EXCEPT !.created = ~Exists]
  /\ PolGo("stat")
  /\ UNCHANGED <<pin, hasLease, linked, polRunning, polMode>>

\* openat and fstat: the identity of what is there by now.  If one of them fails,
\* there is no lease, whatever mkdirat created.
PolStat ==
  /\ PolIn("start", "stat")
  /\ \/ /\ Exists
        /\ lease' = [lease EXCEPT !.inode = group.inode] /\ hasLease' = TRUE
        /\ PolGo("lease")
     \/ /\ ~Exists \/ "open" \in Faults
        /\ PolDone("failed") /\ UNCHANGED <<lease, hasLease>>
  /\ UNCHANGED <<polKernel, linked, polRunning, polMode>>

\* The failure drops the lease.
PolLease_forgets ==
  /\ PolIn("start", "lease")
  /\ \/ PolGo("cleanup_journal") /\ UNCHANGED hasLease
     \/ PolGo("cleanup_open") /\ UNCHANGED hasLease
     \/ PolGo("attach") /\ UNCHANGED hasLease
     \/ PolDone("failed") /\ hasLease' = FALSE
  /\ UNCHANGED <<polKernel, lease, linked, polRunning, polMode>>

\* Recording the lease, resolving the target, opening the cgroup.  What fails
\* in between leaves the lease to the manager's rollback_all.
PolLease ==
  /\ PolIn("start", "lease")
  /\ \/ PolGo("cleanup_journal") \/ PolGo("cleanup_open") \/ PolGo("attach")
     \/ PolDone("failed")
  /\ UNCHANGED <<polKernel, polFlags, polRunning, polMode>>

\* Open, load, configure and attach; a failure goes to rollback.
PolAttach ==
  /\ PolIn("start", "attach")
  /\ \/ PolGo("undo") /\ UNCHANGED linked
     \/ linked' = TRUE /\ PolGo("pin")
  /\ UNCHANGED <<polKernel, lease, hasLease, polRunning, polMode>>

\* The pin of an earlier agent is removed, if that works, and with it its link.
PolPin ==
  /\ PolIn("start", "pin")
  /\ \/ pin' \in {"none", pin} /\ PolGo("undo") /\ UNCHANGED polRunning
     \/ pin' = "own" /\ polRunning' = TRUE /\ PolDone("ok")
  /\ UNCHANGED <<group, occupied, inodes, polFlags, polMode>>

\* rollback up to the cgroup: unpin, whose result is ignored, and destroy the link.
PolUndo ==
  /\ PolIn("start", "undo") \/ PolIn("rollback", "idle") \/ PolIn("stop", "idle")
  /\ \/ pin' = IF linked /\ pin = "own" THEN "none" ELSE pin
     \/ "unpin" \in Faults /\ UNCHANGED pin
  /\ linked' = FALSE
  /\ IF hasLease THEN PolGo("cleanup") /\ UNCHANGED polRunning
     ELSE /\ polRunning' = FALSE
          /\ PolDone(IF call = "start" THEN "failed" ELSE "ok")
  /\ UNCHANGED <<group, occupied, inodes, lease, hasLease, polMode>>

Cleaning == {"cleanup", "cleanup_journal", "cleanup_open"}

\* The end of cleanup_owned_cgroup: except after a failed open, the lease is
\* given up whatever became of the cgroup.
CleanupDone ==
  /\ hasLease' = (hasLease /\ polAt \in {"cleanup_open", "remove_open"})
  /\ polRunning' = FALSE
  /\ PolDone(IF call = "start" THEN "failed" ELSE "ok")

\* cleanup_owned_cgroup: only what this transaction created, if it is the same
\* directory and empty, and can be opened to find that out.
Removable == lease.created /\ Exists /\ group.inode = lease.inode /\ ~occupied

PolCleanup ==
  /\ polAt \in Cleaning
  /\ \/ /\ Removable
        /\ PolGo(IF polAt = "cleanup_open" THEN "remove_open" ELSE "remove")
        /\ UNCHANGED <<hasLease, polRunning>>
     \/ /\ ~Removable \/ "open" \in Faults
        /\ CleanupDone
  /\ UNCHANGED <<polKernel, lease, linked, polMode>>

\* unlinkat by name; the kernel refuses when there are tasks.
PolRemove ==
  /\ polAt \in {"remove", "remove_open"}
  /\ group' = IF occupied THEN group ELSE NoGroup
  /\ CleanupDone
  /\ UNCHANGED <<occupied, inodes, pin, lease, linked, polMode>>

PolNext == \/ PolStart \/ PolMkdir \/ PolStat \/ PolLease \/ PolAttach \/ PolPin
           \/ PolUndo \/ PolCleanup \/ PolRemove
-----------------------------------------------------------------------------
\* Somebody else moves tasks into the cgroup or out of it, removes it, or
\* creates one of the same name.
PolOther ==
  /\ \/ Exists /\ occupied' = ~occupied /\ UNCHANGED <<group, inodes>>
     \/ Exists /\ ~occupied /\ group' = NoGroup /\ UNCHANGED <<occupied, inodes>>
     \/ ~Exists /\ Create("other")
  /\ UNCHANGED <<pin, polFlags, polRunning, polMode, polAt>>
=============================================================================

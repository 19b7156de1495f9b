----------------------------- MODULE JobManager -----------------------------
(***************************************************************************)
(* The jobs of the web console (web_console/backend/src/jobs.js): one      *)
(* event loop starts detached processes, and output, timers, requests and  *)
(* the ends of processes reach it as callbacks in any order.  Jobs of the  *)
(* mutating kinds share one slot, which is not a variable but a question   *)
(* asked of the table of jobs; the table is pruned at every start.         *)
(*                                                                         *)
(* Jobs are numbered in the order of their start (started_at).  Windows,   *)
(* logs and the events sent to browsers are left out.                      *)
(***************************************************************************)
EXTENDS Integers, FiniteSets

CONSTANTS
  MaxJobs,      \* bound: jobs ever started
  RecentLimit,  \* RECENT_LIMIT
  Actions,      \* job -> the actions that may be asked for, as [mutating, cleanup]
  Disturbances  \* of {"escape", "throw"}: see Escape and SpawnThrows

\* Only mutating actions have a cleanup (web_console/config/actions.yaml).
ASSUME JobsAssumption ==
  /\ MaxJobs \in Nat /\ RecentLimit \in Nat
  /\ \A j \in 1..MaxJobs : \A a \in Actions[j] :
       a \in [mutating : BOOLEAN, cleanup : BOOLEAN] /\ (a.cleanup => a.mutating)

VARIABLES
  started,    \* how many jobs were started
  kept,       \* this.jobs
  mutating,   \* job.mutating
  cleanup,    \* jobs whose action names a cleanup_action
  status,     \* job.status
  exited,     \* job.process_exited
  limited,    \* job.killed_for_limit
  timer,      \* jobs whose timeout is armed
  killTimer,  \* job.kill_timer
  cleaning,   \* jobs whose runCleanupAction has not returned
  proc        \* job -> its process group

jobVars == <<mutating, cleanup>>
timers  == <<timer, killTimer>>
vars    == <<started, kept, jobVars, status, exited, limited, timers, cleaning, proc>>

Ids        == 1..MaxJobs
Active     == {"queued", "running"}
Statuses   == Active \cup {"none", "timeout", "canceled", "failed", "succeeded"}
Processes  == {"none", "alive", "dying", "escaped", "dead"}
KillTimers == {"none", "armed", "fired"}
InGroup    == {"alive", "dying"}  \* a signal to the group reaches something

Init ==
  /\ started = 0
  /\ kept = {} /\ mutating = {} /\ cleanup = {}
  /\ status = [j \in Ids |-> "none"]
  /\ exited = {} /\ limited = {} /\ timer = {} /\ cleaning = {}
  /\ killTimer = [j \in Ids |-> "none"]
  /\ proc = [j \in Ids |-> "none"]

\* spawnSync keeps the event loop from running any other callback.
LoopFree == cleaning = {}
-----------------------------------------------------------------------------
\* A cancelled job gives the slot away.
HasRunningMutatingJob_canceled ==
  \E j \in kept \cap mutating :
    \/ j \notin exited /\ status[j] \in Active \cup {"timeout"}
    \/ j \in cleaning

HasRunningMutatingJob ==
  \E j \in kept \cap mutating :
    \/ j \notin exited /\ status[j] \in Active \cup {"timeout", "canceled"}
    \/ j \in cleaning

\* The RecentLimit youngest jobs stay, and of the others those that are active.
Pruned(jobs, st) ==
  {j \in jobs : Cardinality({k \in jobs : k >= j}) <= RecentLimit \/ st[j] \in Active}

\* start up to spawnJob.
Admit(j, a) ==
  /\ LoopFree
  /\ started < MaxJobs /\ j = started + 1
  /\ a \in Actions[j]
  /\ a.mutating => ~HasRunningMutatingJob
  /\ started' = j
  /\ mutating' = IF a.mutating THEN mutating \cup {j} ELSE mutating
  /\ cleanup' = IF a.cleanup THEN cleanup \cup {j} ELSE cleanup
  /\ kept' = Pruned(kept \cup {j}, [status EXCEPT ![j] = "queued"])
  /\ UNCHANGED <<exited, limited, killTimer, cleaning>>

\* spawnJob.  A command that is not found is a process that ends at once.
Start(j, a) ==
  /\ Admit(j, a)
  /\ status' = [status EXCEPT ![j] = "running"]
  /\ timer' = timer \cup {j}
  /\ proc' = [proc EXCEPT ![j] = "alive"]

\* spawn throws (or returns no pipes): start throws, and the job stays in the table.
SpawnThrows(j, a) ==
  /\ "throw" \in Disturbances
  /\ Admit(j, a)
  /\ \E s \in Active : status' = [status EXCEPT ![j] = s]
  /\ UNCHANGED <<timer, proc>>

\* Nothing follows a SIGTERM.
Terminate_once(j) ==
  IF j \notin exited /\ proc[j] \in InGroup
  THEN killTimer' = [killTimer EXCEPT ![j] = IF @ = "none" THEN "fired" ELSE @]
  ELSE UNCHANGED killTimer

\* terminate(job, 'SIGTERM').  Without a group kill throws, before the timer is set.
Terminate(j) ==
  IF j \notin exited /\ proc[j] \in InGroup
  THEN killTimer' = [killTimer EXCEPT ![j] = IF @ = "none" THEN "armed" ELSE @]
  ELSE UNCHANGED killTimer

\* append: the output of a job passes max_output_bytes.
OutputLimit(j) ==
  /\ LoopFree
  /\ j \notin exited /\ j \notin limited
  /\ proc[j] \in {"alive", "dying", "escaped"}
  /\ limited' = limited \cup {j}
  /\ Terminate(j)
  /\ UNCHANGED <<started, kept, jobVars, status, exited, timer, cleaning, proc>>

\* The timeout is not cleared by cancel, and takes over its status.
Timeout(j) ==
  /\ LoopFree
  /\ j \in timer
  /\ timer' = timer \ {j}
  /\ status' = [status EXCEPT ![j] = "timeout"]
  /\ Terminate(j)
  /\ UNCHANGED <<started, kept, jobVars, exited, limited, cleaning, proc>>

Cancel(j) ==
  /\ LoopFree
  /\ j \in kept /\ status[j] \in Active
  /\ status' = [status EXCEPT ![j] = "canceled"]
  /\ Terminate(j)
  /\ UNCHANGED <<started, kept, jobVars, exited, limited, timer, cleaning, proc>>

\* Three seconds later: SIGKILL, unless the job has ended.
KillTimer(j) ==
  /\ LoopFree
  /\ killTimer[j] = "armed"
  /\ killTimer' = [killTimer EXCEPT ![j] = "fired"]
  /\ proc' = [proc EXCEPT ![j] = IF j \notin exited /\ @ = "alive" THEN "dying" ELSE @]
  /\ UNCHANGED <<started, kept, jobVars, status, exited, limited, timer, cleaning>>

\* The exit code alone decides.
Verdict_code(j, code) ==
  IF status[j] \in {"timeout", "canceled"} THEN status[j]
  ELSE IF code # 0 THEN "failed" ELSE "succeeded"

Verdict(j, code) ==
  IF status[j] \in {"timeout", "canceled"} THEN status[j]
  ELSE IF j \in limited \/ code # 0 THEN "failed" ELSE "succeeded"

\* 'close': the process has ended and its output too.
Close(j, code) ==
  /\ LoopFree
  /\ proc[j] = "dead" /\ j \notin exited
  /\ exited' = exited \cup {j}
  /\ timer' = timer \ {j}
  /\ killTimer' = [killTimer EXCEPT ![j] = IF @ = "armed" THEN "fired" ELSE @]
  /\ status' = [status EXCEPT ![j] = Verdict(j, code)]
  /\ cleaning' = IF status'[j] # "succeeded" /\ j \in cleanup THEN {j} ELSE {}
  /\ UNCHANGED <<started, kept, jobVars, limited, proc>>

\* runCleanupAction returns; its outcome changes only what is reported.
CleanupEnds(j) ==
  /\ j \in cleaning
  /\ cleaning' = cleaning \ {j}
  /\ UNCHANGED <<started, kept, jobVars, status, exited, limited, timers, proc>>
-----------------------------------------------------------------------------
\* The processes.  SIGTERM is a request; a killed process does end.
Exit(j) ==
  /\ proc[j] \in {"alive", "escaped"}
  /\ proc' = [proc EXCEPT ![j] = "dead"]
  /\ UNCHANGED <<started, kept, jobVars, status, exited, limited, timers, cleaning>>

Die(j) ==
  /\ proc[j] = "dying"
  /\ proc' = [proc EXCEPT ![j] = "dead"]
  /\ UNCHANGED <<started, kept, jobVars, status, exited, limited, timers, cleaning>>

\* The group ends, but a descendant outside of it (setsid) keeps the pipes open.
Escape(j) ==
  /\ "escape" \in Disturbances
  /\ proc[j] \in InGroup
  /\ proc' = [proc EXCEPT ![j] = "escaped"]
  /\ UNCHANGED <<started, kept, jobVars, status, exited, limited, timers, cleaning>>

Next ==
  \/ \E j \in Ids : \E a \in Actions[j] : Start(j, a) \/ SpawnThrows(j, a)
  \/ \E j \in Ids :
       \/ OutputLimit(j) \/ Timeout(j) \/ Cancel(j) \/ KillTimer(j)
       \/ \E code \in {0, 1} : Close(j, code)
       \/ CleanupEnds(j) \/ Exit(j) \/ Die(j) \/ Escape(j)

Spec == Init /\ [][Next]_vars

\* Timers expire, killed processes end, 'close' is delivered, and spawnSync has a
\* timeout of its own; no process has to end because it is asked to.
FairSpec ==
  /\ Spec
  /\ \A j \in Ids :
       /\ WF_vars(Timeout(j)) /\ WF_vars(KillTimer(j)) /\ WF_vars(Die(j))
       /\ WF_vars(\E code \in {0, 1} : Close(j, code)) /\ WF_vars(CleanupEnds(j))
-----------------------------------------------------------------------------
TypeOK ==
  /\ started \in 0..MaxJobs
  /\ kept \subseteq 1..started /\ mutating \subseteq 1..started /\ cleanup \subseteq mutating
  /\ status \in [Ids -> Statuses]
  /\ exited \subseteq 1..started /\ limited \subseteq 1..started
  /\ timer \subseteq 1..started /\ cleaning \subseteq exited
  /\ killTimer \in [Ids -> KillTimers]
  /\ proc \in [Ids -> Processes]

\* Processes and cleanups that may be changing the system.
AtWork == {j \in mutating : proc[j] \in {"alive", "dying", "escaped"} \/ j \in cleaning}

(* Mutating jobs never overlap: through timeout, cancel, kill and the      *)
(* callbacks in any order, no mutating job begins to work, and no cleanup  *)
(* runs, while another one works, unless the table has forgotten one of    *)
(* the two (pruneJobs drops jobs that are timed out or cancelled and still *)
(* run).                                                                   *)
OneMutatingJob ==
  [][\A j \in (AtWork' \ AtWork) \cap kept' : AtWork \cap kept = {}]_vars

(* A job that the manager stopped, for its output, its time or on request, *)
(* never ends as a success, whatever the exit code of the process that was *)
(* asked to end, and whichever callback comes first.                       *)
StoppedNeverSucceeds ==
  \A j \in Ids : killTimer[j] # "none" => status[j] # "succeeded"

(* Every job ends and gives its slot back, even when the process ignores   *)
(* SIGTERM, unless a descendant that escaped the group holds the pipes.    *)
JobsEnd ==
  \A j \in Ids :
    (proc[j] = "alive") ~> (j \in exited \ cleaning \/ proc[j] = "escaped")

=============================================================================

-------------------------- MODULE JobManagerProofs --------------------------
(***************************************************************************)
(* Type correctness and the two safety properties of JobManager, for any   *)
(* number of jobs and any size of the table.                               *)
(*                                                                         *)
(* The slot has an owner: a mutating job whose 'close' has not been seen   *)
(* or whose cleanup runs (Holders).  At most one owner is in the table,    *)
(* since a start asks the table for one; and whatever works is an owner.   *)
(***************************************************************************)
EXTENDS JobManager, TLAPS

Open == Active \cup {"timeout", "canceled"}  \* what counts for the slot

Holders == {j \in mutating : j \notin exited \/ j \in cleaning}

\* A job is open until 'close' and has a verdict and no timers afterwards.
Settled ==
  /\ \A j \in Ids : j > started => status[j] = "none" /\ proc[j] = "none"
  /\ \A j \in 1..started : j \notin exited => status[j] \in Open
  /\ \A j \in exited : /\ status[j] \in {"timeout", "canceled", "failed", "succeeded"}
                       /\ j \notin timer /\ killTimer[j] # "armed" /\ proc[j] = "dead"

OneHolder == \A i, j \in Holders \cap kept : i = j

\* Whoever was signalled carries a mark that 'close' respects.
Marked ==
  \A j \in Ids :
    killTimer[j] # "none" \/ j \in limited =>
      \/ j \in limited /\ j \notin exited
      \/ status[j] \in {"timeout", "canceled", "failed"}

Inv == TypeOK /\ Settled /\ OneHolder /\ Marked

LEMMA Bound == MaxJobs \in Nat
  BY JobsAssumption

LEMMA PrunedKeeps == ASSUME NEW jobs, NEW st PROVE Pruned(jobs, st) \subseteq jobs
  BY DEF Pruned

LEMMA InitInv == Init => Inv
  BY Bound, SMT DEF Init, Inv, TypeOK, Settled, OneHolder, Marked, Holders, Ids,
     Statuses, Active, KillTimers, Processes

\* What a signal changes.
LEMMA TerminateChanges ==
  ASSUME TypeOK, NEW j \in Ids, Terminate(j)
  PROVE /\ killTimer' \in [Ids -> KillTimers]
        /\ \A k \in Ids : k # j => killTimer'[k] = killTimer[k]
        /\ killTimer'[j] # killTimer[j] => j \notin exited /\ proc[j] \in InGroup
  BY Bound, SMT DEF Terminate, TypeOK, KillTimers

\* What the question asked of the table means.
LEMMA FreeSlot ==
  ASSUME Inv, ~HasRunningMutatingJob
  PROVE Holders \cap kept = {}
<1> SUFFICES ASSUME NEW h \in Holders, h \in kept PROVE FALSE
  OBVIOUS
<1>1. h \in mutating /\ (h \notin exited \/ h \in cleaning) /\ h \in 1..started
  BY DEF Holders, Inv, TypeOK
<1>2. h \notin exited => status[h] \in Active \cup {"timeout", "canceled"}
  BY <1>1 DEF Inv, Settled, Open
<1> QED BY <1>1, <1>2 DEF HasRunningMutatingJob

-----------------------------------------------------------------------------
\* Start and SpawnThrows: nothing is in the slot when a mutating job is admitted.
LEMMA AdmitInv ==
  ASSUME Inv, NEW j \in Ids, NEW a \in Actions[j], Admit(j, a),
         status' \in [Ids -> Statuses], status'[j] \in Active,
         \A k \in Ids : k # j => status'[k] = status[k],
         timer' \subseteq timer \cup {j},
         proc' \in [Ids -> Processes],
         \A k \in Ids : k # j => proc'[k] = proc[k]
  PROVE Inv'
<1> DEFINE after == [status EXCEPT ![j] = "queued"]
<1>c. /\ j = started + 1 /\ started' = j /\ j \in 1..MaxJobs /\ started \in 0..MaxJobs
      /\ cleaning = {} /\ cleaning' = {}
      /\ mutating \subseteq 1..started /\ cleanup \subseteq mutating
      /\ kept' = Pruned(kept \cup {j}, after)
      /\ exited' = exited /\ limited' = limited /\ killTimer' = killTimer
  BY Bound, SMT DEF Admit, LoopFree, Inv, TypeOK, Ids
<1>d. a.cleanup => a.mutating
  BY JobsAssumption DEF Ids
<1>e. /\ mutating' = IF a.mutating THEN mutating \cup {j} ELSE mutating
      /\ cleanup' = IF a.cleanup THEN cleanup \cup {j} ELSE cleanup
  BY DEF Admit
<1>f. mutating' \subseteq mutating \cup {j} /\ cleanup' \subseteq mutating'
  BY <1>c, <1>d, <1>e
<1>a. /\ j = started + 1 /\ started' = j /\ j \in 1..MaxJobs /\ started \in 0..MaxJobs
      /\ cleaning = {} /\ cleaning' = {}
      /\ mutating' \subseteq mutating \cup {j} /\ mutating \subseteq 1..started
      /\ cleanup' \subseteq mutating'
      /\ exited' = exited /\ limited' = limited /\ killTimer' = killTimer
  BY <1>c, <1>f
<1>b. kept' \subseteq kept \cup {j}
  BY <1>c, PrunedKeeps
<1>1. TypeOK'
  <2>1. 1..started \subseteq 1..started' /\ j \in 1..started'
    BY <1>a, Bound, SMT
  <2>2. started' \in 0..MaxJobs
    BY <1>a, Bound, SMT
  <2> QED BY <1>a, <1>b, <2>1, <2>2 DEF Inv, TypeOK
<1>2. Settled'
  BY <1>a, Bound, SMT DEF Inv, TypeOK, Settled, Ids, Open
<1>3. OneHolder'
  <2>1. CASE a.mutating
    <3>1. Holders \cap kept = {}
      BY <2>1, FreeSlot DEF Admit
    <3>2. Holders' \subseteq Holders \cup {j}
      BY <1>a DEF Holders
    <3> QED BY <3>1, <3>2, <1>b DEF OneHolder
  <2>2. CASE ~a.mutating
    <3>1. mutating' = mutating
      BY <2>2 DEF Admit
    <3>2. Holders' = Holders /\ j \notin Holders
      BY <3>1, <1>a, SMT DEF Holders
    <3> QED BY <3>2, <1>b DEF OneHolder, Inv
  <2> QED BY <2>1, <2>2
<1>4. Marked'
  BY <1>a, Bound, SMT DEF Inv, TypeOK, Settled, Marked, Ids, Active
<1> QED BY <1>1, <1>2, <1>3, <1>4 DEF Inv

LEMMA StartInv ==
  ASSUME Inv, NEW j \in Ids, NEW a \in Actions[j], Start(j, a) \/ SpawnThrows(j, a)
  PROVE Inv'
<1> USE DEF Inv, TypeOK
<1>1. CASE Start(j, a)
  <2>1. /\ status' = [status EXCEPT ![j] = "running"] /\ timer' = timer \cup {j}
        /\ proc' = [proc EXCEPT ![j] = "alive"] /\ Admit(j, a)
    BY <1>1 DEF Start
  <2> QED BY <2>1, AdmitInv, SMT DEF Statuses, Active, Processes
<1>2. CASE SpawnThrows(j, a)
  <2>1. PICK s \in Active : status' = [status EXCEPT ![j] = s]
    BY <1>2 DEF SpawnThrows
  <2>2. timer' = timer /\ proc' = proc /\ Admit(j, a)
    BY <1>2 DEF SpawnThrows
  <2> QED BY <2>1, <2>2, AdmitInv, SMT DEF Statuses, Active, Processes
<1> QED BY <1>1, <1>2

LEMMA OutputLimitInv ==
  ASSUME Inv, NEW j \in Ids, OutputLimit(j)
  PROVE Inv'
<1>a. /\ j \notin exited /\ limited' = limited \cup {j} /\ proc[j] # "none"
      /\ UNCHANGED <<started, kept, mutating, cleanup, status, exited, timer, cleaning, proc>>
  BY SMT DEF OutputLimit, jobVars
<1>b. /\ killTimer' \in [Ids -> KillTimers]
      /\ \A k \in Ids : k # j => killTimer'[k] = killTimer[k]
  BY TerminateChanges DEF Inv, OutputLimit
<1>c. j \in 1..started
  BY <1>a, Bound, SMT DEF Inv, TypeOK, Settled, Ids
<1>1. TypeOK'
  BY <1>a, <1>b, <1>c DEF Inv, TypeOK
<1>2. Settled'
  BY <1>a, <1>b, Bound, SMT DEF Inv, TypeOK, Settled, Ids
<1>3. OneHolder'
  BY <1>a DEF Inv, OneHolder, Holders
<1>4. Marked'
  BY <1>a, <1>b, Bound, SMT DEF Inv, TypeOK, Marked, Ids
<1> QED BY <1>1, <1>2, <1>3, <1>4 DEF Inv

\* The timeout and the request to cancel.
LEMMA StopInv ==
  ASSUME Inv, NEW j \in Ids, Timeout(j) \/ Cancel(j)
  PROVE Inv'
<1>a. /\ j \notin exited /\ j \in 1..started
      /\ \E s \in {"timeout", "canceled"} : status' = [status EXCEPT ![j] = s]
      /\ timer' \subseteq timer
      /\ UNCHANGED <<started, kept, mutating, cleanup, exited, limited, cleaning, proc>>
  BY Bound, SMT DEF Timeout, Cancel, jobVars, Inv, TypeOK, Settled, Ids, Active
<1>b. /\ killTimer' \in [Ids -> KillTimers]
      /\ \A k \in Ids : k # j => killTimer'[k] = killTimer[k]
  BY TerminateChanges DEF Inv, Timeout, Cancel
<1>c. PICK s \in {"timeout", "canceled"} : status' = [status EXCEPT ![j] = s]
  BY <1>a
<1>d. status' \in [Ids -> Statuses]
  BY <1>c DEF Inv, TypeOK, Statuses
<1>1. TypeOK'
  BY <1>a, <1>b, <1>d DEF Inv, TypeOK
<1>2. Settled'
  BY <1>a, <1>b, Bound, SMT DEF Inv, TypeOK, Settled, Ids, Open
<1>3. OneHolder'
  BY <1>a DEF Inv, OneHolder, Holders
<1>4. Marked'
  BY <1>a, <1>b, Bound, SMT DEF Inv, TypeOK, Marked, Ids
<1> QED BY <1>1, <1>2, <1>3, <1>4 DEF Inv

LEMMA KillTimerInv ==
  ASSUME Inv, NEW j \in Ids, KillTimer(j)
  PROVE Inv'
<1>a. /\ killTimer[j] = "armed" /\ killTimer' = [killTimer EXCEPT ![j] = "fired"]
      /\ proc' \in [Ids -> Processes]
      /\ \A k \in Ids : k # j => proc'[k] = proc[k]
      /\ proc'[j] = proc[j] \/ proc[j] = "alive"
      /\ UNCHANGED <<started, kept, mutating, cleanup, status, exited, limited, timer, cleaning>>
  BY Bound, SMT DEF KillTimer, jobVars, Inv, TypeOK, Processes
<1>1. TypeOK'
  BY <1>a, Bound, SMT DEF Inv, TypeOK, KillTimers
<1>2. Settled'
  BY <1>a, Bound, SMT DEF Inv, TypeOK, Settled, Ids
<1>3. OneHolder'
  BY <1>a DEF Inv, OneHolder, Holders
<1>4. Marked'
  BY <1>a, Bound, SMT DEF Inv, TypeOK, Marked, Ids
<1> QED BY <1>1, <1>2, <1>3, <1>4 DEF Inv

\* 'close' settles the job; the slot is free or stays with it for the cleanup.
LEMMA CloseInv ==
  ASSUME Inv, NEW j \in Ids, NEW code \in {0, 1}, Close(j, code)
  PROVE Inv'
<1>a. /\ proc[j] = "dead" /\ j \notin exited /\ j \in 1..started /\ cleaning = {}
      /\ exited' = exited \cup {j} /\ timer' = timer \ {j}
      /\ status' = [status EXCEPT ![j] = Verdict(j, code)]
      /\ cleaning' \subseteq {j}
      /\ UNCHANGED <<started, kept, mutating, cleanup, limited, proc>>
  BY Bound, SMT DEF Close, LoopFree, jobVars, Inv, TypeOK, Settled, Ids
<1>b. killTimer' = [killTimer EXCEPT ![j] = IF killTimer[j] = "armed" THEN "fired" ELSE killTimer[j]]
  BY Bound, SMT DEF Close, Inv, TypeOK
<1>c. /\ Verdict(j, code) \in {"timeout", "canceled", "failed", "succeeded"}
      /\ j \in limited \/ status[j] \in {"timeout", "canceled", "failed"}
           => Verdict(j, code) # "succeeded"
  BY <1>a, SMT DEF Verdict, Inv, Settled, Open, Active
<1>1. TypeOK'
  BY <1>a, <1>b, <1>c, Bound, SMT DEF Inv, TypeOK, KillTimers, Statuses
<1>2. Settled'
  BY <1>a, <1>b, <1>c, Bound, SMT DEF Inv, TypeOK, Settled, Ids, Open
<1>3. OneHolder'
  <2>1. Holders' \subseteq Holders
    BY <1>a DEF Holders
  <2> QED BY <2>1, <1>a DEF Inv, OneHolder
<1>4. Marked'
  BY <1>a, <1>b, <1>c, Bound, SMT DEF Inv, TypeOK, Settled, Marked, Ids
<1> QED BY <1>1, <1>2, <1>3, <1>4 DEF Inv

LEMMA CleanupEndsInv ==
  ASSUME Inv, NEW j \in Ids, CleanupEnds(j)
  PROVE Inv'
<1>a. /\ cleaning' \subseteq cleaning
      /\ UNCHANGED <<started, kept, mutating, cleanup, status, exited, limited, timer, killTimer, proc>>
  BY DEF CleanupEnds, jobVars, timers
<1>1. TypeOK'
  BY <1>a DEF Inv, TypeOK
<1>2. Settled'
  BY <1>a DEF Inv, Settled
<1>3. OneHolder'
  <2>1. Holders' \subseteq Holders
    BY <1>a DEF Holders
  <2> QED BY <2>1, <1>a DEF Inv, OneHolder
<1>4. Marked'
  BY <1>a DEF Inv, Marked
<1> QED BY <1>1, <1>2, <1>3, <1>4 DEF Inv

LEMMA ProcessInv ==
  ASSUME Inv, NEW j \in Ids, Exit(j) \/ Die(j) \/ Escape(j)
  PROVE Inv'
<1>a. /\ proc[j] \in {"alive", "dying", "escaped"}
      /\ \E p \in {"escaped", "dead"} : proc' = [proc EXCEPT ![j] = p]
      /\ UNCHANGED <<started, kept, mutating, cleanup, status, exited, limited, timer, killTimer, cleaning>>
  BY SMT DEF Exit, Die, Escape, jobVars, timers, InGroup
<1>1. TypeOK'
  BY <1>a, Bound, SMT DEF Inv, TypeOK, Processes
<1>2. Settled'
  BY <1>a, Bound, SMT DEF Inv, TypeOK, Settled, Ids
<1>3. OneHolder'
  BY <1>a DEF Inv, OneHolder, Holders
<1>4. Marked'
  BY <1>a DEF Inv, Marked
<1> QED BY <1>1, <1>2, <1>3, <1>4 DEF Inv

LEMMA StepInv == Inv /\ [Next]_vars => Inv'
<1> SUFFICES ASSUME Inv, [Next]_vars PROVE Inv'
  OBVIOUS
<1>1. CASE Next
  BY <1>1, StartInv, OutputLimitInv, StopInv, KillTimerInv, CloseInv, CleanupEndsInv, ProcessInv
     DEF Next
<1>2. CASE UNCHANGED vars
  BY <1>2 DEF vars, jobVars, timers, Inv, TypeOK, Settled, OneHolder, Marked, Holders
<1> QED BY <1>1, <1>2

(* For any number of jobs and any size of the table every variable keeps   *)
(* its type: timers, verdicts and cleanups belong to jobs that were started.*)
THEOREM TypeCorrect == Spec => []TypeOK
<1>1. Inv => TypeOK
  BY DEF Inv
<1> QED BY <1>1, InitInv, StepInv, PTL DEF Spec

(* For any number of jobs, a job the manager sent a signal to never ends   *)
(* as a success, whichever of close, timeout, cancel and limit comes first.*)
THEOREM NoFalseSuccess == Spec => []StoppedNeverSucceeds
<1>1. Inv => StoppedNeverSucceeds
  BY DEF Inv, TypeOK, Settled, Marked, StoppedNeverSucceeds, Open, Active
<1> QED BY <1>1, InitInv, StepInv, PTL DEF Spec
-----------------------------------------------------------------------------
\* Whatever works is an owner of the slot.
LEMMA WorkersHold == ASSUME Inv PROVE AtWork \subseteq Holders
<1> SUFFICES ASSUME NEW j \in AtWork PROVE j \in Holders
  OBVIOUS
<1>1. j \in mutating /\ (proc[j] # "dead" \/ j \in cleaning)
  BY DEF AtWork
<1>2. j \in exited => proc[j] = "dead"
  BY DEF Inv, Settled
<1> QED BY <1>1, <1>2 DEF Holders

\* A step in which a job that the table knows begins to work, or its cleanup does.
LEMMA BeginsAlone ==
  ASSUME Inv, Next, NEW j \in (AtWork' \ AtWork) \cap kept'
  PROVE AtWork \cap kept = {}
<1>1. Inv'
  BY StepInv
<1>2. j \in Holders' /\ j \in mutating'
  BY <1>1, Bound, SMT DEF Inv, TypeOK, Settled, AtWork, Holders, Ids
<1>3. CASE \E k \in Ids : \E a \in Actions[k] : Admit(k, a) /\ (Start(k, a) \/ SpawnThrows(k, a))
  <2>0. PICK k \in Ids : \E a \in Actions[k] : Admit(k, a) /\ (Start(k, a) \/ SpawnThrows(k, a))
    BY <1>3
  <2>1. PICK a \in Actions[k] : Admit(k, a) /\ (Start(k, a) \/ SpawnThrows(k, a))
    BY <2>0
  <2>2. j = k
    <3> SUFFICES ASSUME j # k PROVE FALSE
      OBVIOUS
    <3>1. /\ k = started + 1 /\ cleaning' = cleaning
          /\ mutating' = mutating \/ mutating' = mutating \cup {k}
          /\ proc' = proc \/ proc' = [proc EXCEPT ![k] = "alive"]
      BY <2>1 DEF Start, SpawnThrows, Admit
    <3>a. j \in mutating
      BY <1>2, <3>1
    <3>b. mutating \subseteq 1..started /\ started \in 0..MaxJobs
      BY DEF Inv, TypeOK
    <3>c. 1..started \subseteq Ids
      BY <3>b, Bound, SMT DEF Ids
    <3>2. j \in mutating /\ j \in Ids
      BY <3>a, <3>b, <3>c
    <3>3. proc'[j] = proc[j]
      BY <3>1, <3>2 DEF Inv, TypeOK
    <3>4. j \in AtWork
      BY <3>1, <3>2, <3>3 DEF AtWork
    <3> QED BY <3>4
  <2>3. a.mutating
    BY <1>2, <2>1, <2>2, Bound, SMT DEF Admit, Inv, TypeOK
  <2>4. Holders \cap kept = {}
    BY <2>1, <2>3, FreeSlot DEF Admit
  <2> QED BY <2>4, WorkersHold
<1>4. CASE \E k \in Ids : \E code \in {0, 1} : Close(k, code)
  <2>1. PICK k \in Ids, code \in {0, 1} : Close(k, code)
    BY <1>4
  <2>2. j = k
    BY <2>1, SMT DEF Close, AtWork, jobVars, LoopFree
  <2>3. j \in Holders \cap kept /\ j \notin AtWork
    BY <2>1, <2>2, <1>2, SMT DEF Close, Holders, jobVars
  <2> QED BY <2>3, WorkersHold DEF Inv, OneHolder
<1>5. CASE \E k \in Ids : OutputLimit(k) \/ Timeout(k) \/ Cancel(k) \/ KillTimer(k)
                          \/ CleanupEnds(k) \/ Exit(k) \/ Die(k) \/ Escape(k)
  <2>1. PICK k \in Ids : OutputLimit(k) \/ Timeout(k) \/ Cancel(k) \/ KillTimer(k)
                         \/ CleanupEnds(k) \/ Exit(k) \/ Die(k) \/ Escape(k)
    BY <1>5
  <2>2. mutating' = mutating /\ cleaning' \subseteq cleaning
    BY <2>1 DEF OutputLimit, Timeout, Cancel, KillTimer, CleanupEnds, Exit, Die, Escape, jobVars
  <2>3. \A i \in Ids : proc'[i] \in {"alive", "dying", "escaped"} => proc[i] \in {"alive", "dying", "escaped"}
    BY <2>1, Bound, SMT DEF OutputLimit, Timeout, Cancel, KillTimer, CleanupEnds, Exit, Die, Escape, InGroup,
       Inv, TypeOK
  <2>4. mutating \subseteq Ids
    BY Bound, SMT DEF Inv, TypeOK, Ids
  <2> QED BY <2>2, <2>3, <2>4 DEF AtWork
<1> QED BY <1>3, <1>4, <1>5 DEF Next, Start, SpawnThrows

(* For any number of jobs and any size of the table, no mutating job and   *)
(* no cleanup begins while another mutating job that the table still knows *)
(* works: the question hasRunningMutatingJob asks of the table is a lock.  *)
THEOREM SlotIsExclusive == Spec => OneMutatingJob
<1> DEFINE Alone == \A j \in (AtWork' \ AtWork) \cap kept' : AtWork \cap kept = {}
<1>1. Inv /\ [Next]_vars => [Alone]_vars
  BY BeginsAlone
<1> QED BY <1>1, InitInv, StepInv, PTL DEF Spec, OneMutatingJob
=============================================================================

--------------------------- MODULE SchedExtProofs ---------------------------
(***************************************************************************)
(* Theorems about both sides of sched_ext: the agent's session             *)
(* (ScxSession), for any number of starts, loads and polls, and then the   *)
(* queues of the scheduler (ScxDispatch), for any number of tasks and      *)
(* CPUs.                                                                   *)
(***************************************************************************)
EXTENDS ScxSession, ScxDispatch, WellFoundedInduction, TLAPS

\* What TypeOK needs beside itself: the polls that are left, and a session where
\* the code uses its PID without a test.
Steps ==
  /\ pc \in {"stop", "terminating"} => polls < Polls
  /\ pc \in {"wait", "judge", "terminating", "kill", "reap"} => session \in Starts

TypeInv == TypeOK /\ Steps

\* What the assumption on Maps says of its indices and elements.
LEMMA MapsFacts == /\ 1 \in DOMAIN Maps /\ Len(Maps) \in Nat /\ DOMAIN Maps = 1..Len(Maps)
                   /\ \A i \in DOMAIN Maps : Maps[i] \in MapIds
                   /\ "gate_state_map" \in MapIds
  BY SessionAssumption DEF MapIds

\* The end of a process keeps the types of the scheduler's variables.
LEMMA ExitTyped == ASSUME NEW n \in Starts, TypeScheduler, Exit(n) PROVE TypeScheduler'
  <1> USE SessionAssumption, MapsFacts DEF TypeScheduler, Exit
  <1>1. proc' \in [Starts -> {"none", "zombie", "reaped"} \cup Live]
    OBVIOUS
  <1>2. loaded' \in [Starts -> MapNumbers]
    BY DEF MapNumbers
  <1>3. pinned' \in [Starts -> 0..Len(Maps)]
    OBVIOUS
  <1>4. term' \subseteq Starts /\ ejected' \subseteq Starts
    OBVIOUS
  <1>5. QED
    BY <1>1, <1>2, <1>3, <1>4

\* The map that a process pins next is one of them.
LEMMA PinnedNext == ASSUME NEW n \in Starts, TypeScheduler, pinned[n] < Len(Maps),
                           pinned' = [pinned EXCEPT ![n] = @ + 1]
                    PROVE  pinned'[n] \in DOMAIN Maps
  <1>1. pinned[n] \in 0..Len(Maps) /\ Len(Maps) \in Nat /\ DOMAIN Maps = 1..Len(Maps)
    BY MapsFacts DEF TypeScheduler
  <1>2. pinned'[n] = pinned[n] + 1
    BY DEF TypeScheduler
  <1>3. QED
    BY <1>1, <1>2

LEMMA InitTyped == Init => TypeInv
  <1> SUFFICES ASSUME Init PROVE TypeInv
    OBVIOUS
  <1> USE SessionAssumption, MapsFacts DEF Init
  <1>1. TypeScheduler
    BY DEF TypeScheduler, Starts, MapNumbers
  <1>2. TypeKernel
    BY DEF TypeKernel, NoMaps, MapNumbers, NoOne
  <1>3. TypeAgent
    BY DEF TypeAgent, NoMaps, MapNumbers
  <1>4. Steps
    BY DEF Steps
  <1>5. TypeFlags
    BY DEF TypeFlags
  <1>6. QED
    BY <1>1, <1>2, <1>3, <1>4, <1>5 DEF TypeInv, TypeOK

LEMMA StepTyped == TypeInv /\ [Next]_vars => TypeInv'
  <1> SUFFICES ASSUME TypeInv, [Next]_vars PROVE TypeInv'
    OBVIOUS
  <1> USE SessionAssumption, MapsFacts
  <1> USE DEF TypeInv, TypeOK, Steps, MapNumbers, Starts, scheduler, kernel, agent, maps, history
  <1>1. CASE Reconcile
    <2> USE <1>1 DEF Reconcile
    <2>1. TypeScheduler' /\ TypeKernel'
      BY DEF TypeScheduler, TypeKernel
    <2>2. TypeAgent'
      BY DEF TypeAgent, NoMaps
    <2>3. Steps'
      BY DEF TypeAgent
    <2>4. TypeFlags'
      BY DEF TypeFlags, Enabled
    <2>5. QED
      BY <2>1, <2>2, <2>3, <2>4
  <1>2. CASE Fork
    <2> USE <1>2 DEF Fork
    <2>1. TypeScheduler'
      BY DEF TypeScheduler, Live, Running
    <2>2. TypeKernel'
      BY DEF TypeKernel, NoOne, External
    <2>3. TypeAgent'
      BY DEF TypeAgent, NoMaps
    <2>4. Steps'
      BY DEF TypeAgent
    <2>5. TypeFlags'
      BY DEF TypeFlags, Enabled
    <2>6. QED
      BY <2>1, <2>2, <2>3, <2>4, <2>5
  <1>3. CASE PollChild
    <2> USE <1>3 DEF Reap, Return, PollChild
    <2>1. TypeScheduler'
      BY DEF TypeScheduler, Live, Running
    <2>2. TypeKernel'
      BY DEF TypeKernel, NoOne, External
    <2>3. TypeAgent'
      BY DEF TypeAgent, NoMaps
    <2>4. Steps'
      BY DEF TypeAgent
    <2>5. TypeFlags'
      BY DEF TypeFlags, Enabled
    <2>6. QED
      BY <2>1, <2>2, <2>3, <2>4, <2>5
  <1>4. CASE JudgeChild
    <2> USE <1>4 DEF Stop, NextPoll, JudgeChild
    <2>1. TypeScheduler' /\ TypeKernel'
      BY DEF TypeScheduler, TypeKernel
    <2>2. TypeAgent'
      BY DEF TypeAgent, NoMaps
    <2>3. Steps'
      BY DEF TypeAgent
    <2>4. TypeFlags'
      BY DEF TypeFlags, Enabled
    <2>5. QED
      BY <2>1, <2>2, <2>3, <2>4
  <1>5. CASE Probe
    <2> USE <1>5 DEF Probe
    <2>1. TypeScheduler' /\ TypeKernel'
      BY DEF TypeScheduler, TypeKernel
    <2>2. TypeAgent'
      BY DEF TypeAgent, NoMaps
    <2>3. Steps'
      BY DEF TypeAgent
    <2>4. TypeFlags'
      BY DEF TypeFlags, Enabled
    <2>5. QED
      BY <2>1, <2>2, <2>3, <2>4
  <1>6. CASE OpenMap
    <2> USE <1>6 DEF OpenMap
    <2>1. TypeScheduler' /\ TypeKernel'
      BY DEF TypeScheduler, TypeKernel
    <2>2. TypeAgent'
      <3>1. Maps[opening] \in MapIds
        BY DEF TypeAgent
      <3>2. fd' \in [MapIds -> MapNumbers]
        BY <3>1 DEF TypeAgent, TypeKernel
      <3>3. opening' \in DOMAIN Maps
        BY DEF TypeAgent
      <3>4. QED
        BY <3>2, <3>3 DEF TypeAgent
    <2>3. Steps'
      BY DEF TypeAgent
    <2>4. TypeFlags'
      BY DEF TypeFlags, Enabled
    <2>5. QED
      BY <2>1, <2>2, <2>3, <2>4
  <1>7. CASE Opened
    <2> USE <1>7 DEF Return, NextPoll, Stop, AllOpen, Opened
    <2>1. TypeScheduler' /\ TypeKernel'
      BY DEF TypeScheduler, TypeKernel
    <2>2. TypeAgent'
      BY DEF TypeAgent, NoMaps
    <2>3. Steps'
      BY DEF TypeAgent
    <2>4. TypeFlags'
      BY DEF TypeFlags, Enabled
    <2>5. QED
      BY <2>1, <2>2, <2>3, <2>4
  <1>8. CASE Publish
    <2> USE <1>8 DEF Return, Publish
    <2>1. TypeScheduler'
      BY DEF TypeScheduler, Live, Running
    <2>2. TypeKernel'
      <3>1. fd["gate_state_map"] \in MapNumbers
        BY DEF TypeAgent
      <3>2. QED
        BY <3>1 DEF TypeKernel
    <2>3. TypeAgent'
      BY DEF TypeAgent, NoMaps
    <2>4. Steps'
      BY DEF TypeAgent
    <2>5. TypeFlags'
      BY DEF TypeFlags, Enabled
    <2>6. QED
      BY <2>1, <2>2, <2>3, <2>4, <2>5
  <1>9. CASE StopSkill
    <2> USE <1>9 DEF Stop, StopSkill
    <2>1. TypeScheduler' /\ TypeKernel'
      BY DEF TypeScheduler, TypeKernel
    <2>2. TypeAgent'
      BY DEF TypeAgent, NoMaps
    <2>3. Steps'
      BY DEF TypeAgent
    <2>4. TypeFlags'
      BY DEF TypeFlags, Enabled
    <2>5. QED
      BY <2>1, <2>2, <2>3, <2>4
  <1>10. CASE Terminate
    <2> USE <1>10 DEF StopReturns, Terminate
    <2>0. IdentityMatches => session \in Starts
      BY DEF IdentityMatches, TypeAgent
    <2>1. TypeScheduler'
      BY <2>0 DEF TypeScheduler
    <2>2. TypeKernel'
      BY DEF TypeKernel, NoOne, External
    <2>3. TypeAgent'
      <3>1. CASE IdentityMatches
        BY <3>1 DEF TypeAgent
      <3>2. CASE ~IdentityMatches
        <4>1. fd' \in [MapIds -> MapNumbers]
          BY <3>2 DEF NoMaps, TypeAgent
        <4>2. early' \subseteq Starts
          BY <3>2 DEF TypeAgent
        <4>3. /\ pc' \in {"idle", "down"} /\ after' = "-" /\ polls' = 0
              /\ UNCHANGED <<session, opening, forgotten>>
          BY <3>2
        <4>4. QED
          BY <4>1, <4>2, <4>3 DEF TypeAgent
      <3>3. QED
        BY <3>1, <3>2
    <2>4. Steps'
      <3>1. CASE IdentityMatches
        BY <2>0, <3>1
      <3>2. CASE ~IdentityMatches
        <4>1. pc' \in {"idle", "down"}
          BY <3>2
        <4>2. QED
          BY <4>1
      <3>3. QED
        BY <3>1, <3>2
    <2>5. TypeFlags'
      BY DEF TypeFlags, Enabled
    <2>6. QED
      BY <2>1, <2>2, <2>3, <2>4, <2>5
  <1>11. CASE AwaitExit
    <2> USE <1>11 DEF Reap, StopReturns, AwaitExit
    <2>1. TypeScheduler'
      BY DEF TypeScheduler, Live, Running
    <2>2. TypeKernel'
      BY DEF TypeKernel, NoOne, External
    <2>3. TypeAgent'
      BY DEF TypeAgent, NoMaps
    <2>4. Steps'
      BY DEF TypeAgent
    <2>5. TypeFlags'
      BY DEF TypeFlags, Enabled
    <2>6. QED
      BY <2>1, <2>2, <2>3, <2>4, <2>5
  <1>12. CASE Kill
    <2> USE <1>12 DEF Exit, StopReturns, Kill
    <2>1. TypeScheduler'
      <3>1. CASE IdentityMatches
        BY <3>1, ExitTyped DEF IdentityMatches, TypeAgent
      <3>2. CASE ~IdentityMatches
        BY <3>2 DEF TypeScheduler
      <3>3. QED
        BY <3>1, <3>2
    <2>2. TypeKernel'
      BY DEF TypeKernel, NoOne, External
    <2>3. TypeAgent'
      BY DEF TypeAgent, NoMaps
    <2>4. Steps'
      BY DEF TypeAgent
    <2>5. TypeFlags'
      BY DEF TypeFlags, Enabled
    <2>6. QED
      BY <2>1, <2>2, <2>3, <2>4, <2>5
  <1>13. CASE ReapKilled
    <2> USE <1>13 DEF Reap, StopReturns, ReapKilled
    <2>1. TypeScheduler'
      BY DEF TypeScheduler, Live, Running
    <2>2. TypeKernel'
      BY DEF TypeKernel, NoOne, External
    <2>3. TypeAgent'
      BY DEF TypeAgent, NoMaps
    <2>4. Steps'
      BY DEF TypeAgent
    <2>5. TypeFlags'
      BY DEF TypeFlags, Enabled
    <2>6. QED
      BY <2>1, <2>2, <2>3, <2>4, <2>5
  <1>14. ASSUME NEW n \in Starts, Exec(n) PROVE TypeInv'
    <2> USE <1>14 DEF Exec
    <2>1. TypeScheduler'
      BY DEF TypeScheduler, Live, Running
    <2>2. TypeKernel'
      BY DEF TypeKernel, NoOne, External
    <2>3. TypeAgent' /\ Steps'
      BY DEF TypeAgent
    <2>4. TypeFlags'
      BY DEF TypeFlags
    <2>5. QED
      BY <2>1, <2>2, <2>3, <2>4
  <1>15. ASSUME NEW n \in Starts, Load(n) PROVE TypeInv'
    <2> USE <1>15 DEF Load
    <2>0. loads' \in MapNumbers
      BY DEF TypeKernel
    <2>1. TypeScheduler'
      BY <2>0 DEF TypeScheduler, Live, Running
    <2>2. TypeKernel'
      BY DEF TypeKernel, NoOne, External
    <2>3. TypeAgent' /\ Steps'
      BY DEF TypeAgent
    <2>4. TypeFlags'
      BY DEF TypeFlags
    <2>5. QED
      BY <2>1, <2>2, <2>3, <2>4
  <1>16. ASSUME NEW n \in Starts, Attach(n) PROVE TypeInv'
    <2> USE <1>16 DEF Enable, Exit, Attach
    <2>1. TypeScheduler'
      <3>1. CASE owner = NoOne
        BY <3>1 DEF TypeScheduler, Live, Running
      <3>2. CASE owner # NoOne
        BY <3>2, ExitTyped
      <3>3. QED
        BY <3>1, <3>2
    <2>2. TypeKernel'
      BY DEF TypeKernel, NoOne, External
    <2>3. TypeAgent'
      BY DEF TypeAgent, NoMaps
    <2>4. Steps'
      BY DEF TypeAgent
    <2>5. TypeFlags'
      BY DEF TypeFlags, Enabled
    <2>6. QED
      BY <2>1, <2>2, <2>3, <2>4, <2>5
  <1>17. ASSUME NEW n \in Starts, PinMap(n) PROVE TypeInv'
    <2> USE <1>17 DEF PinMap
    <2>1. TypeScheduler'
      BY DEF TypeScheduler, Live, Running
    <2>2. TypeKernel'
      <3>1. pinned'[n] \in DOMAIN Maps
        BY PinnedNext
      <3>2. Maps[pinned'[n]] \in MapIds /\ loaded[n] \in MapNumbers
        BY <3>1 DEF TypeScheduler
      <3>3. QED
        BY <3>2 DEF TypeKernel
    <2>3. TypeAgent' /\ Steps'
      BY DEF TypeAgent
    <2>4. TypeFlags'
      BY DEF TypeFlags
    <2>5. QED
      BY <2>1, <2>2, <2>3, <2>4
  <1>18. ASSUME NEW n \in Starts, InitGateState(n) PROVE TypeInv'
    <2> USE <1>18 DEF InitGateState
    <2>1. TypeScheduler'
      BY DEF TypeScheduler, Live, Running
    <2>2. TypeKernel'
      BY DEF TypeKernel, NoOne, External
    <2>3. TypeAgent' /\ Steps'
      BY DEF TypeAgent
    <2>4. TypeFlags'
      BY DEF TypeFlags
    <2>5. QED
      BY <2>1, <2>2, <2>3, <2>4
  <1>19. ASSUME NEW n \in Starts, LeaveLoop(n) PROVE TypeInv'
    <2> USE <1>19 DEF Exit, LeaveLoop
    <2>1. TypeScheduler'
      <3>1. CASE Exit(n)
        BY <3>1, ExitTyped
      <3>2. CASE ~Exit(n)
        <4>1. /\ proc' = [proc EXCEPT ![n] = "loading"]
              /\ loaded' = [loaded EXCEPT ![n] = 0] /\ pinned' = [pinned EXCEPT ![n] = 0]
              /\ ejected' = ejected \ {n} /\ UNCHANGED term
          BY <3>2
        <4>2. QED
          BY <4>1 DEF TypeScheduler, Live, Running
      <3>3. QED
        BY <3>1, <3>2
    <2>2. TypeKernel'
      BY DEF TypeKernel, NoOne, External
    <2>3. TypeAgent' /\ Steps'
      BY DEF TypeAgent
    <2>4. TypeFlags'
      BY DEF TypeFlags
    <2>5. QED
      BY <2>1, <2>2, <2>3, <2>4
  <1>20. ASSUME NEW n \in Starts, Eject(n) PROVE TypeInv'
    <2> USE <1>20 DEF Eject
    <2>1. TypeScheduler'
      BY DEF TypeScheduler, Live, Running
    <2>2. TypeKernel'
      BY DEF TypeKernel, NoOne, External
    <2>3. TypeAgent' /\ Steps'
      BY DEF TypeAgent
    <2>4. TypeFlags'
      BY DEF TypeFlags
    <2>5. QED
      BY <2>1, <2>2, <2>3, <2>4
  <1>21. ASSUME NEW n \in Starts, Die(n) PROVE TypeInv'
    <2> USE <1>21 DEF Exit, Die
    <2>1. TypeScheduler'
      BY DEF TypeScheduler, Live, Running
    <2>2. TypeKernel'
      BY DEF TypeKernel, NoOne, External
    <2>3. TypeAgent' /\ Steps'
      BY DEF TypeAgent
    <2>4. TypeFlags'
      BY DEF TypeFlags
    <2>5. QED
      BY <2>1, <2>2, <2>3, <2>4
  <1>22. CASE ExternalAttach
    <2> USE <1>22 DEF Enable, ExternalAttach
    <2>1. TypeScheduler'
      BY DEF TypeScheduler, Live, Running
    <2>2. TypeKernel'
      BY DEF TypeKernel, NoOne, External
    <2>3. TypeAgent'
      BY DEF TypeAgent, NoMaps
    <2>4. Steps'
      BY DEF TypeAgent
    <2>5. TypeFlags'
      BY DEF TypeFlags, Enabled
    <2>6. QED
      BY <2>1, <2>2, <2>3, <2>4, <2>5
  <1>23. CASE ExternalDetach
    <2> USE <1>23 DEF ExternalDetach
    <2>1. TypeScheduler'
      BY DEF TypeScheduler, Live, Running
    <2>2. TypeKernel'
      BY DEF TypeKernel, NoOne, External
    <2>3. TypeAgent'
      BY DEF TypeAgent, NoMaps
    <2>4. Steps'
      BY DEF TypeAgent
    <2>5. TypeFlags'
      BY DEF TypeFlags, Enabled
    <2>6. QED
      BY <2>1, <2>2, <2>3, <2>4, <2>5
  <1>24. CASE UNCHANGED vars
    <2> USE <1>24 DEF vars
    <2>1. TypeScheduler' /\ TypeKernel'
      BY DEF TypeScheduler, TypeKernel
    <2>2. TypeAgent' /\ Steps'
      BY DEF TypeAgent
    <2>3. TypeFlags'
      BY DEF TypeFlags
    <2>4. QED
      BY <2>1, <2>2, <2>3
  <1>25. QED
    BY <1>1, <1>2, <1>3, <1>4, <1>5, <1>6, <1>7, <1>8, <1>9, <1>10, <1>11, <1>12, <1>13,
       <1>14, <1>15, <1>16, <1>17, <1>18, <1>19, <1>20, <1>21, <1>22, <1>23, <1>24 DEF Next,
       AgentStep, SchedulerStep, Environment

\* Every variable of the session, of the kernel and of the scheduler processes
\* keeps its type, for any number of starts, loads and polls.
THEOREM TypeCorrect == Spec => []TypeOK
  <1>1. Spec => []TypeInv
    BY InitTyped, StepTyped, PTL DEF Spec
  <1>2. TypeInv => TypeOK
    BY DEF TypeInv
  <1>3. QED
    BY <1>1, <1>2, PTL
-----------------------------------------------------------------------------
(***************************************************************************)
(* The inductive invariant behind the three safety properties.             *)
(***************************************************************************)

\* A living process is the one in the session or was replaced there.
Known == \A n \in Starts : proc[n] \in Live => n = session \/ n \in forgotten

\* A scheduler is enabled only while its process is between attach and the end
\* of its loop; a process the kernel ejected does not own it.
Owning ==
  \A n \in Starts :
    /\ owner = n => proc[n] \in {"attached", "running"}
    /\ n \in ejected => owner # n /\ proc[n] \in {"attached", "running"}

\* What a stop has established of the process it ends.
Stopping ==
  /\ pc \in {"terminating", "kill"} => proc[session] # "forked"
  /\ pc = "reap" => proc[session] = "zombie"
  /\ pc = "down" /\ session # 0 /\ proc[session] \in Live => session \in early

SafeInv == RecordedUnreaped /\ Known /\ Owning /\ Stopping

LEMMA InitSafe == Init => SafeInv
  BY DEF Init, SafeInv, RecordedUnreaped, Known, Owning, Stopping, Live, Running, NoOne,
     Starts

LEMMA StepSafe == TypeInv /\ SafeInv /\ [Next]_vars => SafeInv'
  <1> SUFFICES ASSUME TypeInv, SafeInv, [Next]_vars PROVE SafeInv'
    OBVIOUS
  <1> DEFINE Types == TypeScheduler /\ (session \in Starts \cup {0}) /\ Steps
  <1>0. Types /\ (owner \in Starts \cup {NoOne, External})
    BY DEF TypeInv, TypeOK, TypeAgent, TypeKernel
  <1> USE DEF SafeInv, Starts, scheduler, kernel, agent, maps, history, Live, Running
  <1>1. CASE Reconcile
    BY <1>0, <1>1 DEF Reconcile, RecordedUnreaped, Known, Owning, Stopping
  <1>2. CASE Fork
    <2> USE <1>0, <1>2 DEF Fork, TypeScheduler, Steps
    <2>1. RecordedUnreaped'
      BY DEF RecordedUnreaped
    <2>2. Known'
      <3>1. CASE pc' = "idle"
        BY <3>1 DEF Known
      <3>2. CASE pc' # "idle"
        <4>1. PICK n \in Starts :
                /\ proc' = [proc EXCEPT ![n] = "forked"] /\ session' = n
                /\ forgotten' = IF session # 0 /\ proc[session] \in Live
                                THEN forgotten \cup {session} ELSE forgotten
          BY <3>2
        <4>2. ASSUME NEW k \in Starts, proc'[k] \in Live, k # n PROVE k \in forgotten'
          <5>1. proc[k] \in Live
            BY <4>1, <4>2
          <5>2. k = session \/ k \in forgotten
            BY <5>1 DEF Known
          <5>3. QED
            BY <4>1, <5>1, <5>2
        <4>3. QED
          BY <4>1, <4>2 DEF Known
      <3>3. QED
        BY <3>1, <3>2
    <2>3. Owning'
      BY DEF Owning, NoOne, External
    <2>4. Stopping'
      BY DEF Stopping, RecordedUnreaped
    <2>5. QED
      BY <2>1, <2>2, <2>3, <2>4
  <1>3. CASE PollChild
    <2> USE <1>0, <1>3 DEF Reap, Return, PollChild, TypeScheduler, Steps
    <2>1. RecordedUnreaped'
      BY DEF RecordedUnreaped
    <2>2. Known'
      <3>1. CASE proc[session] = "zombie"
        <4>1. /\ session' = 0 /\ UNCHANGED forgotten
              /\ \A k \in Starts : proc'[k] = IF k = session THEN "reaped" ELSE proc[k]
          BY <3>1
        <4>2. QED
          BY <4>1 DEF Known
      <3>2. CASE proc[session] # "zombie"
        BY <3>2 DEF Known
      <3>3. QED
        BY <3>1, <3>2
    <2>3. Owning'
      BY DEF Owning, NoOne, External
    <2>4. Stopping'
      BY DEF Stopping, RecordedUnreaped
    <2>5. QED
      BY <2>1, <2>2, <2>3, <2>4
  <1>4. CASE JudgeChild
    BY <1>0, <1>4 DEF Stop, NextPoll, JudgeChild, RecordedUnreaped, Known, Owning, Stopping
  <1>5. CASE Probe
    BY <1>0, <1>5 DEF Probe, RecordedUnreaped, Known, Owning, Stopping
  <1>6. CASE OpenMap
    BY <1>0, <1>6 DEF OpenMap, RecordedUnreaped, Known, Owning, Stopping
  <1>7. CASE Opened
    BY <1>0, <1>7 DEF Return, NextPoll, Stop, AllOpen, Opened, RecordedUnreaped, Known,
       Owning, Stopping
  <1>8. CASE Publish
    BY <1>0, <1>8 DEF Return, Publish, RecordedUnreaped, Known, Owning, Stopping
  <1>9. CASE StopSkill
    BY <1>0, <1>9 DEF Stop, StopSkill, RecordedUnreaped, Known, Owning, Stopping
  <1>10. CASE Terminate
    <2> USE <1>0, <1>10 DEF StopReturns, IdentityMatches, Terminate, TypeScheduler, Steps
    <2>1. RecordedUnreaped'
      BY DEF RecordedUnreaped
    <2>2. Known'
      BY DEF Known
    <2>3. Owning'
      BY DEF Owning, NoOne, External
    <2>4. Stopping'
      BY DEF Stopping, RecordedUnreaped
    <2>5. QED
      BY <2>1, <2>2, <2>3, <2>4
  <1>11. CASE AwaitExit
    <2> USE <1>0, <1>11 DEF Reap, StopReturns, AwaitExit, TypeScheduler, Steps
    <2>1. RecordedUnreaped'
      BY DEF RecordedUnreaped
    <2>2. Known'
      <3>1. CASE proc[session] = "zombie"
        <4>1. /\ session' = 0 /\ UNCHANGED forgotten
              /\ \A k \in Starts : proc'[k] = IF k = session THEN "reaped" ELSE proc[k]
          BY <3>1
        <4>2. QED
          BY <4>1 DEF Known
      <3>2. CASE proc[session] # "zombie"
        BY <3>2 DEF Known
      <3>3. QED
        BY <3>1, <3>2
    <2>3. Owning'
      BY DEF Owning, NoOne, External
    <2>4. Stopping'
      BY DEF Stopping, RecordedUnreaped
    <2>5. QED
      BY <2>1, <2>2, <2>3, <2>4
  <1>12. CASE Kill
    <2> USE <1>0, <1>12 DEF Exit, StopReturns, IdentityMatches, Kill, TypeScheduler, Steps
    <2>1. RecordedUnreaped'
      BY DEF RecordedUnreaped
    <2>2. Known'
      BY DEF Known
    <2>3. Owning'
      <3>1. CASE IdentityMatches
        <4>1. \A k \in Starts : proc'[k] = IF k = session THEN "zombie" ELSE proc[k]
          BY <3>1
        <4>2. ejected' = ejected \ {session} /\ owner' = IF owner = session THEN NoOne ELSE owner
          BY <3>1
        <4>3. QED
          BY <4>1, <4>2 DEF Owning, NoOne, External
      <3>2. CASE ~IdentityMatches
        BY <3>2 DEF Owning
      <3>3. QED
        BY <3>1, <3>2
    <2>4. Stopping'
      BY DEF Stopping, RecordedUnreaped
    <2>5. QED
      BY <2>1, <2>2, <2>3, <2>4
  <1>13. CASE ReapKilled
    <2> USE <1>0, <1>13 DEF Reap, StopReturns, ReapKilled, TypeScheduler, Steps
    <2>1. RecordedUnreaped'
      BY DEF RecordedUnreaped
    <2>2. Known'
      BY DEF Known
    <2>3. Owning'
      BY DEF Owning, NoOne, External
    <2>4. Stopping'
      BY DEF Stopping, RecordedUnreaped
    <2>5. QED
      BY <2>1, <2>2, <2>3, <2>4
  <1>14. ASSUME NEW n \in Starts, Exec(n) PROVE SafeInv'
    <2> USE <1>0, <1>14 DEF Exec, TypeScheduler, Steps
    <2>1. RecordedUnreaped'
      BY DEF RecordedUnreaped
    <2>2. Known'
      BY DEF Known
    <2>3. Owning'
      BY DEF Owning, NoOne, External
    <2>4. Stopping'
      BY DEF Stopping, RecordedUnreaped
    <2>5. QED
      BY <2>1, <2>2, <2>3, <2>4
  <1>15. ASSUME NEW n \in Starts, Load(n) PROVE SafeInv'
    <2> USE <1>0, <1>15 DEF Load, TypeScheduler, Steps
    <2>1. RecordedUnreaped'
      BY DEF RecordedUnreaped
    <2>2. Known'
      BY DEF Known
    <2>3. Owning'
      BY DEF Owning, NoOne, External
    <2>4. Stopping'
      BY DEF Stopping, RecordedUnreaped
    <2>5. QED
      BY <2>1, <2>2, <2>3, <2>4
  <1>16. ASSUME NEW n \in Starts, Attach(n) PROVE SafeInv'
    <2> USE <1>0, <1>16 DEF Enable, Exit, Attach, TypeScheduler, Steps
    <2>1. RecordedUnreaped'
      BY DEF RecordedUnreaped
    <2>2. Known'
      BY DEF Known
    <2>3. Owning'
      BY DEF Owning, NoOne, External
    <2>4. Stopping'
      BY DEF Stopping, RecordedUnreaped
    <2>5. QED
      BY <2>1, <2>2, <2>3, <2>4
  <1>17. ASSUME NEW n \in Starts, PinMap(n) PROVE SafeInv'
    <2> USE <1>0, <1>17 DEF PinMap, TypeScheduler, Steps
    <2>1. RecordedUnreaped'
      BY DEF RecordedUnreaped
    <2>2. Known'
      BY DEF Known
    <2>3. Owning'
      BY DEF Owning, NoOne, External
    <2>4. Stopping'
      BY DEF Stopping, RecordedUnreaped
    <2>5. QED
      BY <2>1, <2>2, <2>3, <2>4
  <1>18. ASSUME NEW n \in Starts, InitGateState(n) PROVE SafeInv'
    <2> USE <1>0, <1>18 DEF InitGateState, TypeScheduler, Steps
    <2>1. RecordedUnreaped'
      BY DEF RecordedUnreaped
    <2>2. Known'
      BY DEF Known
    <2>3. Owning'
      BY DEF Owning, NoOne, External
    <2>4. Stopping'
      BY DEF Stopping, RecordedUnreaped
    <2>5. QED
      BY <2>1, <2>2, <2>3, <2>4
  <1>19. ASSUME NEW n \in Starts, LeaveLoop(n) PROVE SafeInv'
    <2> USE <1>0, <1>19 DEF Exit, LeaveLoop, TypeScheduler, Steps
    <2>1. RecordedUnreaped'
      BY DEF RecordedUnreaped
    <2>2. Known'
      BY DEF Known
    <2>3. Owning'
      <3>1. CASE Exit(n)
        <4>1. \A k \in Starts : proc'[k] = IF k = n THEN "zombie" ELSE proc[k]
          BY <3>1
        <4>2. ejected' = ejected \ {n} /\ owner' = IF owner = n THEN NoOne ELSE owner
          BY <3>1
        <4>3. QED
          BY <4>1, <4>2 DEF Owning, NoOne, External
      <3>2. CASE ~Exit(n)
        <4>1. /\ n \in ejected /\ ejected' = ejected \ {n} /\ UNCHANGED owner
              /\ \A k \in Starts : proc'[k] = IF k = n THEN "loading" ELSE proc[k]
          BY <3>2
        <4>2. QED
          BY <4>1 DEF Owning
      <3>3. QED
        BY <3>1, <3>2
    <2>4. Stopping'
      BY DEF Stopping, RecordedUnreaped
    <2>5. QED
      BY <2>1, <2>2, <2>3, <2>4
  <1>20. ASSUME NEW n \in Starts, Eject(n) PROVE SafeInv'
    <2> USE <1>0, <1>20 DEF Eject, TypeScheduler, Steps
    <2>1. RecordedUnreaped'
      BY DEF RecordedUnreaped
    <2>2. Known'
      BY DEF Known
    <2>3. Owning'
      BY DEF Owning, NoOne, External
    <2>4. Stopping'
      BY DEF Stopping, RecordedUnreaped
    <2>5. QED
      BY <2>1, <2>2, <2>3, <2>4
  <1>21. ASSUME NEW n \in Starts, Die(n) PROVE SafeInv'
    <2> USE <1>0, <1>21 DEF Exit, Die, TypeScheduler, Steps
    <2>1. RecordedUnreaped'
      BY DEF RecordedUnreaped
    <2>2. Known'
      BY DEF Known
    <2>3. Owning'
      BY DEF Owning, NoOne, External
    <2>4. Stopping'
      BY DEF Stopping, RecordedUnreaped
    <2>5. QED
      BY <2>1, <2>2, <2>3, <2>4
  <1>22. CASE ExternalAttach
    <2> USE <1>0, <1>22 DEF Enable, ExternalAttach, TypeScheduler, Steps
    <2>1. RecordedUnreaped'
      BY DEF RecordedUnreaped
    <2>2. Known'
      BY DEF Known
    <2>3. Owning'
      BY DEF Owning, NoOne, External
    <2>4. Stopping'
      BY DEF Stopping, RecordedUnreaped
    <2>5. QED
      BY <2>1, <2>2, <2>3, <2>4
  <1>23. CASE ExternalDetach
    <2> USE <1>0, <1>23 DEF ExternalDetach, TypeScheduler, Steps
    <2>1. RecordedUnreaped'
      BY DEF RecordedUnreaped
    <2>2. Known'
      BY DEF Known
    <2>3. Owning'
      BY DEF Owning, NoOne, External
    <2>4. Stopping'
      BY DEF Stopping, RecordedUnreaped
    <2>5. QED
      BY <2>1, <2>2, <2>3, <2>4
  <1>24. CASE UNCHANGED vars
    BY <1>24 DEF vars, RecordedUnreaped, Known, Owning, Stopping
  <1>25. QED
    BY <1>1, <1>2, <1>3, <1>4, <1>5, <1>6, <1>7, <1>8, <1>9, <1>10, <1>11, <1>12, <1>13,
       <1>14, <1>15, <1>16, <1>17, <1>18, <1>19, <1>20, <1>21, <1>22, <1>23, <1>24 DEF Next,
       AgentStep, SchedulerStep, Environment

\* Both invariants hold in every reachable state.
LEMMA Safe == Spec => [](TypeInv /\ SafeInv)
  BY InitTyped, StepTyped, InitSafe, StepSafe, PTL DEF Spec

\* The PID that start_scx_session and stop_scx_session wait for and signal is
\* always that of an unreaped child, so that it cannot have been reused.
THEOREM SessionIsOwn == Spec => []RecordedUnreaped
  <1>1. SafeInv => RecordedUnreaped
    BY DEF SafeInv
  <1>2. QED
    BY <1>1, Safe, PTL

\* A scheduler of the agent that is enabled belongs to the process in the
\* session, or to one that a later start of reconcile_scx_session replaced.
THEOREM SchedulerIsRecorded == Spec => []EnabledIsRecorded
  <1>1. SafeInv => EnabledIsRecorded
    BY DEF SafeInv, Known, Owning, EnabledIsRecorded, Live, Running
  <1>2. QED
    BY <1>1, Safe, PTL

\* After rollback() or stop() no scheduler process of the agent is alive, except
\* one that was replaced alive or that had not exec'ed when it was to be stopped.
THEOREM StopIsComplete == Spec => []StopLeavesNoScheduler
  <1>1. TypeInv /\ SafeInv => StopLeavesNoScheduler
    BY DEF TypeInv, TypeOK, TypeAgent, SafeInv, Known, Stopping, StopLeavesNoScheduler, Starts
  <1>2. QED
    BY <1>1, Safe, PTL
-----------------------------------------------------------------------------
(* A family of queues holds a task, and none holds one twice.              *)
Held(Q, X, t) == \E x \in X : \E i \in 1..Len(Q[x]) : Q[x][i] = t

Distinct(Q, X) ==
  \A x, y \in X : \A i \in 1..Len(Q[x]), j \in 1..Len(Q[y]) :
    Q[x][i] = Q[y][j] => x = y /\ i = j

OnCpu(t) == \E c \in Cpus : running[c] = t

Alone ==
  /\ Distinct(dsq, Queues) /\ Distinct(local, Cpus)
  /\ \A c, d \in Cpus : running[c] = running[d] /\ running[c] # Nobody => c = d

(* Every task is in the queues of the scheduler, in a local one, on a CPU, *)
(* or asleep, and in one of these only.                                    *)
Somewhere(t) ==
  \/ Held(dsq, Queues, t) /\ ~Held(local, Cpus, t) /\ ~OnCpu(t) /\ t \notin asleep
  \/ ~Held(dsq, Queues, t) /\ Held(local, Cpus, t) /\ ~OnCpu(t) /\ t \notin asleep
  \/ ~Held(dsq, Queues, t) /\ ~Held(local, Cpus, t) /\ OnCpu(t) /\ t \notin asleep
  \/ ~Held(dsq, Queues, t) /\ ~Held(local, Cpus, t) /\ ~OnCpu(t) /\ t \in asleep

PlaceInv == DspTypeOK /\ Alone /\ \A t \in Tasks : Somewhere(t)
-----------------------------------------------------------------------------
(* What taking from a queue and putting into one do to a family of queues. *)
Without(Q, X, R, h) ==
  /\ R \in [X -> Seq(Tasks)] /\ Distinct(R, X)
  /\ h \in Tasks /\ Held(Q, X, h)
  /\ \A t : Held(R, X, t) <=> Held(Q, X, t) /\ t # h

With(Q, X, R, h) ==
  /\ R \in [X -> Seq(Tasks)] /\ Distinct(R, X)
  /\ \A u : Held(R, X, u) <=> Held(Q, X, u) \/ u = h

LEMMA TailTakes ==
  ASSUME NEW X, NEW Q \in [X -> Seq(Tasks)], Distinct(Q, X), NEW q \in X, Q[q] # <<>>,
         NEW R, R = [Q EXCEPT ![q] = Tail(Q[q])]
  PROVE  Without(Q, X, R, Head(Q[q]))
<1>1. /\ Q[q] \in Seq(Tasks) /\ Len(Q[q]) \in Nat \ {0} /\ Head(Q[q]) = Q[q][1]
      /\ Head(Q[q]) \in Tasks
  OBVIOUS
<1>2. /\ R[q] = Tail(Q[q]) /\ R[q] \in Seq(Tasks) /\ Len(R[q]) = Len(Q[q]) - 1
      /\ \A i \in 1..Len(R[q]) : i + 1 \in 1..Len(Q[q]) /\ R[q][i] = Q[q][i + 1]
  BY <1>1
<1>3. \A x \in X \ {q} : R[x] = Q[x]
  OBVIOUS
<1>4. R \in [X -> Seq(Tasks)]
  BY <1>2
<1>5. \A x \in X : Len(Q[x]) \in Nat
  OBVIOUS
<1> DEFINE shift(x) == IF x = q THEN 1 ELSE 0
<1>6. \A x \in X, i \in Nat : i \in 1..Len(R[x]) =>
        i + shift(x) \in 1..Len(Q[x]) /\ R[x][i] = Q[x][i + shift(x)]
  BY <1>2, <1>3, <1>5
<1>7. \A x \in X : 1..Len(R[x]) \subseteq Nat
  BY <1>2, <1>3, <1>5
<1>8. Distinct(R, X)
  <2> SUFFICES ASSUME NEW x \in X, NEW y \in X, NEW i \in 1..Len(R[x]), NEW j \in 1..Len(R[y]),
                      R[x][i] = R[y][j]
               PROVE  x = y /\ i = j
    BY DEF Distinct
  <2>1. i \in Nat /\ j \in Nat
    BY <1>7
  <2>2. x = y /\ i + shift(x) = j + shift(y)
    BY <1>6, <2>1 DEF Distinct
  <2> QED
    BY <2>1, <2>2
<1>9. Held(Q, X, Head(Q[q]))
  <2>1. 1 \in 1..Len(Q[q])
    BY <1>1
  <2> QED
    BY <1>1, <2>1 DEF Held
<1>10. ASSUME NEW t, Held(R, X, t) PROVE Held(Q, X, t) /\ t # Head(Q[q])
  <2>1. PICK x \in X : \E i \in 1..Len(R[x]) : R[x][i] = t
    BY <1>10 DEF Held
  <2>2. PICK i \in 1..Len(R[x]) : R[x][i] = t
    BY <2>1
  <2>3. i + shift(x) \in 1..Len(Q[x]) /\ Q[x][i + shift(x)] = t /\ i \in Nat \ {0}
    BY <1>6, <1>7, <2>2
  <2>4. t # Head(Q[q])
    <3> SUFFICES ASSUME t = Q[q][1] PROVE FALSE
      BY <1>1
    <3>1. 1 \in 1..Len(Q[q])
      BY <1>1
    <3>2. x = q /\ i + shift(x) = 1
      BY <2>3, <3>1 DEF Distinct
    <3> QED
      BY <2>3, <3>2
  <2> QED
    BY <2>3, <2>4 DEF Held
<1>11. ASSUME NEW t, Held(Q, X, t), t # Head(Q[q]) PROVE Held(R, X, t)
  <2>1. PICK x \in X : \E i \in 1..Len(Q[x]) : Q[x][i] = t
    BY <1>11 DEF Held
  <2>2. PICK i \in 1..Len(Q[x]) : Q[x][i] = t
    BY <2>1
  <2>3. CASE x = q
    <3>1. i # 1 /\ i - 1 \in 1..Len(R[q])
      BY <1>1, <1>2, <1>11, <2>2, <2>3
    <3>2. R[q][i - 1] = Q[q][i]
      BY <1>2, <3>1
    <3> QED
      BY <2>2, <2>3, <3>1, <3>2 DEF Held
  <2>4. CASE x # q
    BY <1>3, <2>2, <2>4 DEF Held
  <2> QED
    BY <2>3, <2>4
<1> QED
  BY <1>1, <1>4, <1>8, <1>9, <1>10, <1>11 DEF Without

(* A sequence s is w with t put in at position p.                          *)
Widened(s, w, p, t) ==
  /\ s \in Seq(Tasks) /\ Len(s) = Len(w) + 1 /\ p \in 1..Len(s) /\ s[p] = t
  /\ \A k \in 1..Len(w) : s[IF k < p THEN k ELSE k + 1] = w[k]

LEMMA AppendWidens ==
  ASSUME NEW w \in Seq(Tasks), NEW t \in Tasks
  PROVE  Widened(Append(w, t), w, Len(w) + 1, t)
BY DEF Widened

LEMMA InsertWidens ==
  ASSUME NEW w \in Seq(Tasks), NEW t \in Tasks, NEW p \in 1..Len(w) + 1
  PROVE  Widened(InsertAt(w, p, t), w, p, t)
<1> DEFINE a == SubSeq(w, 1, p - 1)
           b == SubSeq(w, p, Len(w))
<1>1. /\ a \in Seq(Tasks) /\ Len(a) = p - 1
      /\ \A k \in 1..p - 1 : a[k] = w[k]
  OBVIOUS
<1>2. /\ b \in Seq(Tasks) /\ Len(b) = Len(w) - p + 1
      /\ \A k \in 1..Len(w) - p + 1 : b[k] = w[p + k - 1]
  OBVIOUS
<1>3. InsertAt(w, p, t) = a \o <<t>> \o b
  BY DEF InsertAt
<1> HIDE DEF a, b
<1>4. /\ a \o <<t>> \in Seq(Tasks) /\ Len(a \o <<t>>) = p /\ (a \o <<t>>)[p] = t
      /\ \A k \in 1..p - 1 : (a \o <<t>>)[k] = w[k]
  BY <1>1
<1> DEFINE h == a \o <<t>>
           s == h \o b
<1>5. /\ s \in Seq(Tasks) /\ Len(s) = Len(w) + 1
      /\ \A k \in 1..p : s[k] = h[k]
      /\ \A k \in 1..Len(b) : s[p + k] = b[k]
  <2>1. h \in Seq(Tasks) /\ Len(h) = p
    BY <1>4
  <2> HIDE DEF h
  <2>2. s \in Seq(Tasks) /\ Len(s) = Len(h) + Len(b)
    BY <1>2, <2>1
  <2>3. \A k \in 1..Len(h) : s[k] = h[k]
    BY <1>2, <2>1
  <2>4. \A k \in 1..Len(b) : s[Len(h) + k] = b[k]
    BY <1>2, <2>1
  <2> HIDE DEF s
  <2>5. Len(s) = Len(w) + 1
    BY <1>2, <2>1, <2>2
  <2>6. \A k \in 1..p : s[k] = h[k]
    BY <2>1, <2>3
  <2>7. \A k \in 1..Len(b) : s[p + k] = b[k]
    BY <2>1, <2>4
  <2> HIDE DEF h
  <2> QED
    BY <2>2, <2>5, <2>6, <2>7
<1>6. ASSUME NEW k \in 1..Len(w), k < p PROVE s[k] = w[k]
  <2>1. k \in 1..p - 1 /\ k \in 1..p
    BY <1>6
  <2>2. h[k] = w[k]
    BY <1>4, <2>1
  <2> HIDE DEF h, s
  <2>3. s[k] = h[k]
    BY <1>5, <2>1
  <2> QED
    BY <2>2, <2>3
<1>7. ASSUME NEW k \in 1..Len(w), ~(k < p) PROVE s[k + 1] = w[k]
  <2>1. k - p + 1 \in 1..Len(b) /\ p + (k - p + 1) = k + 1 /\ p + (k - p + 1) - 1 = k
    BY <1>2, <1>7
  <2>2. s[p + (k - p + 1)] = b[k - p + 1] /\ b[k - p + 1] = w[p + (k - p + 1) - 1]
    BY <1>2, <1>5, <2>1
  <2> HIDE DEF s
  <2> QED
    BY <2>1, <2>2
<1>8. s[p] = t /\ p \in 1..Len(s)
  <2>1. h[p] = t
    BY <1>4
  <2>2. p \in 1..p /\ p \in 1..Len(w) + 1
    OBVIOUS
  <2> HIDE DEF h, s
  <2> QED
    BY <1>5, <2>1, <2>2
<1> HIDE DEF h, s
<1>9. InsertAt(w, p, t) = s
  BY <1>3 DEF s, h
<1> QED
  BY <1>5, <1>6, <1>7, <1>8, <1>9 DEF Widened

LEMMA WideningPuts ==
  ASSUME NEW X, NEW Q \in [X -> Seq(Tasks)], Distinct(Q, X), NEW q \in X,
         NEW t \in Tasks, ~Held(Q, X, t),
         NEW s, NEW p, Widened(s, Q[q], p, t), NEW R, R = [Q EXCEPT ![q] = s]
  PROVE  With(Q, X, R, t)
<1>1. /\ R[q] = s /\ s \in Seq(Tasks) /\ Len(s) = Len(Q[q]) + 1 /\ p \in 1..Len(s) /\ s[p] = t
      /\ \A k \in 1..Len(Q[q]) : s[IF k < p THEN k ELSE k + 1] = Q[q][k]
      /\ Len(Q[q]) \in Nat
  BY DEF Widened
<1>2. \A x \in X \ {q} : R[x] = Q[x]
  OBVIOUS
<1>3. \A x \in X : Len(Q[x]) \in Nat
  OBVIOUS
<1>4. R \in [X -> Seq(Tasks)]
  BY <1>1
<1> DEFINE from(x, i) == IF x = q /\ i > p THEN i - 1 ELSE i
<1>5. ASSUME NEW x \in X, NEW i \in 1..Len(R[x]), ~(x = q /\ i = p)
      PROVE  from(x, i) \in 1..Len(Q[x]) /\ R[x][i] = Q[x][from(x, i)]
  <2>1. CASE x = q
    <3>1. i \in 1..Len(s) /\ i # p
      BY <1>1, <1>5, <2>1
    <3>2. CASE i < p
      BY <1>1, <2>1, <3>1, <3>2
    <3>3. CASE i > p
      <4>1. i - 1 \in 1..Len(Q[q]) /\ ~(i - 1 < p) /\ (i - 1) + 1 = i
        BY <1>1, <3>1, <3>3
      <4>2. s[i] = Q[q][i - 1]
        BY <1>1, <4>1
      <4> QED
        BY <1>1, <2>1, <3>3, <4>1, <4>2
    <3> QED
      BY <1>1, <3>1, <3>2, <3>3
  <2>2. CASE x # q
    BY <1>2, <2>2
  <2> QED
    BY <2>1, <2>2
<1>6. ASSUME NEW x \in X, NEW i \in 1..Len(R[x])
      PROVE  R[x][i] = t <=> x = q /\ i = p
  BY <1>1, <1>5 DEF Held
<1>7. \A x \in X : \A i \in 1..Len(R[x]) : i \in Nat
  BY <1>1, <1>2, <1>3
<1>8. Distinct(R, X)
  <2> SUFFICES ASSUME NEW x \in X, NEW y \in X, NEW i \in 1..Len(R[x]), NEW j \in 1..Len(R[y]),
                      R[x][i] = R[y][j]
               PROVE  x = y /\ i = j
    BY DEF Distinct
  <2>1. CASE R[x][i] = t
    BY <1>6, <2>1
  <2>2. CASE R[x][i] # t
    <3>1. ~(x = q /\ i = p) /\ ~(y = q /\ j = p)
      BY <1>6, <2>2
    <3>2. x = y /\ from(x, i) = from(y, j)
      BY <1>5, <3>1 DEF Distinct
    <3>3. i \in Nat /\ j \in Nat /\ p \in Nat
      BY <1>1, <1>7
    <3> QED
      BY <3>1, <3>2, <3>3
  <2> QED
    BY <2>1, <2>2
<1>9. ASSUME NEW u, Held(R, X, u) PROVE Held(Q, X, u) \/ u = t
  <2>1. PICK x \in X : \E i \in 1..Len(R[x]) : R[x][i] = u
    BY <1>9 DEF Held
  <2>2. PICK i \in 1..Len(R[x]) : R[x][i] = u
    BY <2>1
  <2> HIDE DEF from
  <2> QED
    BY <1>5, <1>6, <2>2 DEF Held
<1>10. Held(R, X, t)
  BY <1>1 DEF Held
<1>11. ASSUME NEW u, Held(Q, X, u) PROVE Held(R, X, u)
  <2>1. PICK x \in X : \E i \in 1..Len(Q[x]) : Q[x][i] = u
    BY <1>11 DEF Held
  <2>2. PICK i \in 1..Len(Q[x]) : Q[x][i] = u
    BY <2>1
  <2>3. CASE x = q
    <3> DEFINE k == IF i < p THEN i ELSE i + 1
    <3>1. k \in 1..Len(s) /\ s[k] = u
      BY <1>1, <2>2, <2>3
    <3> HIDE DEF k
    <3> QED
      BY <1>1, <2>3, <3>1 DEF Held
  <2>4. CASE x # q
    BY <1>2, <2>2, <2>4 DEF Held
  <2> QED
    BY <2>3, <2>4
<1> QED
  BY <1>4, <1>8, <1>9, <1>10, <1>11 DEF With
-----------------------------------------------------------------------------
(* The queue that dispatch looks into has a task.                          *)
LEMMA Least ==
  ASSUME NEW T, T \subseteq Nat, T # {}
  PROVE  \E n \in T : \A m \in T : n <= m
<1>1. \E n \in T : \A m \in T : ~(<<m, n>> \in OpToRel(<, Nat))
  BY NatLessThanWellFounded, WFMin, Zenon
<1>2. \A m, n \in T : <<m, n>> \in OpToRel(<, Nat) <=> m < n
  BY Zenon DEF OpToRel
<1>3. \E n \in T : \A m \in T : ~(m < n)
  BY <1>1, <1>2, Zenon
<1> QED
  BY <1>3

LEMMA SelectedIsFilled ==
  ASSUME NEW c \in Cpus, NEW q \in Selected(c)
  PROVE  q \in Queues /\ dsq[q] # <<>>
<1> DEFINE Order == <<"latency">> \o (IF c \in starved THEN <<"background">> ELSE <<>>)
                    \o <<"batch", "background", "shared">>
           Filled == {i \in DOMAIN Order : dsq[Order[i]] # <<>>}
           first == CHOOSE i \in Filled : \A j \in Filled : i <= j
<1>1. Order \in Seq(Queues)
  <2>1. <<"latency">> \in Seq(Queues) /\ <<"background">> \in Seq(Queues)
        /\ <<"batch", "background", "shared">> \in Seq(Queues)
    BY DEF Queues
  <2>2. (IF c \in starved THEN <<"background">> ELSE <<>>) \in Seq(Queues)
    BY <2>1
  <2> QED
    BY <2>1, <2>2
<1>2. Selected(c) = IF Filled = {} THEN {} ELSE {Order[first]}
  BY DEF Selected
<1> HIDE DEF Order
<1>3. Filled # {} /\ q = Order[first]
  BY <1>2
<1>4. Filled \subseteq Nat
  BY <1>1
<1>5. first \in Filled
  <2>1. \E i \in Filled : \A j \in Filled : i <= j
    BY <1>3, <1>4, Least
  <2> HIDE DEF Filled
  <2> QED
    BY <2>1, Zenon
<1>6. first \in DOMAIN Order /\ dsq[Order[first]] # <<>>
  <2> HIDE DEF first
  <2> QED
    BY <1>5
<1> HIDE DEF first
<1>7. Order[first] \in Queues
  BY <1>1, <1>6
<1> QED
  BY <1>3, <1>6, <1>7

LEMMA EnqueuePuts ==
  ASSUME DspTypeOK, NEW Q \in [Queues -> Seq(Tasks)], Distinct(Q, Queues),
         NEW t \in Tasks, ~Held(Q, Queues, t), Enqueue(Q, t)
  PROVE  With(Q, Queues, dsq', t)
<1> DEFINE q == SelectDsq(t)
<1>1. q \in Queues
  BY DEF DspTypeOK, SelectDsq, Classes, Queues
<1>2. \/ dsq' = [Q EXCEPT ![q] = Append(Q[q], t)]
      \/ \E i \in 1..(Len(Q[q]) + 1) : dsq' = [Q EXCEPT ![q] = InsertAt(Q[q], i, t)]
  BY <1>1 DEF Enqueue
<1> HIDE DEF q
<1>3. Q[q] \in Seq(Tasks)
  BY <1>1
<1>4. PICK s, p : Widened(s, Q[q], p, t) /\ dsq' = [Q EXCEPT ![q] = s]
  <2>1. CASE dsq' = [Q EXCEPT ![q] = Append(Q[q], t)]
    BY <1>3, <2>1, AppendWidens
  <2>2. CASE \E i \in 1..(Len(Q[q]) + 1) : dsq' = [Q EXCEPT ![q] = InsertAt(Q[q], i, t)]
    BY <1>3, <2>2, InsertWidens
  <2> QED
    BY <1>2, <2>1, <2>2
<1> QED
  BY <1>1, <1>4, WideningPuts

(* A CPU changes from the task it runs to h, or to none.                   *)
LEMMA CpuChanges ==
  ASSUME DspTypeOK, Alone, NEW c \in Cpus, NEW h \in Tasks \cup {Nobody}, ~OnCpu(h) \/ h = Nobody,
         running' = [running EXCEPT ![c] = h]
  PROVE  /\ running' \in [Cpus -> Tasks \cup {Nobody}]
         /\ \A d, e \in Cpus : running'[d] = running'[e] /\ running'[d] # Nobody => d = e
         /\ \A u \in Tasks : OnCpu(u)' <=> (OnCpu(u) /\ u # running[c]) \/ u = h
<1>1. running \in [Cpus -> Tasks \cup {Nobody}] /\ Nobody \notin Tasks
  BY DispatchAssumption DEF DspTypeOK
<1>2. running'[c] = h /\ \A d \in Cpus \ {c} : running'[d] = running[d]
  BY <1>1
<1>3. \A d, e \in Cpus : running[d] = running[e] /\ running[d] # Nobody => d = e
  BY DEF Alone, With, Without
<1>4. \A d, e \in Cpus : running'[d] = running'[e] /\ running'[d] # Nobody => d = e
  BY <1>2, <1>3 DEF OnCpu
<1>5. ASSUME NEW u \in Tasks PROVE OnCpu(u)' <=> (OnCpu(u) /\ u # running[c]) \/ u = h
  BY <1>1, <1>2, <1>3 DEF OnCpu
<1> QED
  BY <1>1, <1>4, <1>5

(* What is in no queue any more is the task that runs now.                 *)
Moves(h) ==
  /\ h \in Tasks /\ ~OnCpu(h) /\ h \notin asleep
  /\ dsq' \in [Queues -> Seq(Tasks)] /\ local' \in [Cpus -> Seq(Tasks)]
  /\ starved' \subseteq Cpus
  /\ Distinct(dsq', Queues) /\ Distinct(local', Cpus)
  /\ \A u : Held(dsq', Queues, u) <=> Held(dsq, Queues, u) /\ u # h
  /\ \A u : Held(local', Cpus, u) <=> Held(local, Cpus, u) /\ u # h

LEMMA RunNextMoves ==
  ASSUME PlaceInv, NEW c \in Cpus, RunNext(c)
  PROVE  \E h : Moves(h) /\ running' = [running EXCEPT ![c] = h]
<1>1. /\ dsq \in [Queues -> Seq(Tasks)] /\ local \in [Cpus -> Seq(Tasks)] /\ starved \subseteq Cpus
      /\ Distinct(dsq, Queues) /\ Distinct(local, Cpus) /\ \A t \in Tasks : Somewhere(t)
  BY DEF PlaceInv, DspTypeOK, Alone, With, Without
<1>2. CASE /\ local[c] # <<>> /\ running' = [running EXCEPT ![c] = Head(local[c])]
           /\ local' = [local EXCEPT ![c] = Tail(@)] /\ UNCHANGED <<dsq, starved>>
  <2> DEFINE h == Head(local[c])
  <2>1. local' = [local EXCEPT ![c] = Tail(local[c])]
    BY <1>2
  <2>2. Without(local, Cpus, local', h)
    BY <1>1, <1>2, <2>1, TailTakes
  <2> HIDE DEF h
  <2>3. ~OnCpu(h) /\ h \notin asleep /\ ~Held(dsq, Queues, h)
    BY <1>1, <2>2 DEF Somewhere, With, Without
  <2>4. Moves(h)
    BY <1>1, <1>2, <2>2, <2>3 DEF Moves, With, Without
  <2> QED
    BY <1>2, <2>4 DEF h
<1>3. ASSUME local[c] = <<>>, NEW q \in Selected(c), Take(c, q),
             dsq' = [dsq EXCEPT ![q] = Tail(@)], UNCHANGED local
      PROVE  \E h : Moves(h) /\ running' = [running EXCEPT ![c] = h]
  <2> DEFINE h == Head(dsq[q])
  <2>1. q \in Queues /\ dsq[q] # <<>> /\ dsq' = [dsq EXCEPT ![q] = Tail(dsq[q])]
    BY <1>3, SelectedIsFilled
  <2>2. Without(dsq, Queues, dsq', h)
    BY <1>1, <2>1, TailTakes
  <2>3. running' = [running EXCEPT ![c] = h] /\ starved' \subseteq Cpus
    BY <1>1, <1>3 DEF Take
  <2> HIDE DEF h
  <2>4. ~OnCpu(h) /\ h \notin asleep /\ ~Held(local, Cpus, h)
    BY <1>1, <2>2 DEF Somewhere, With, Without
  <2>5. Moves(h)
    BY <1>1, <1>3, <2>2, <2>3, <2>4 DEF Moves, With, Without
  <2> QED
    BY <2>3, <2>5
<1> QED
  BY <1>2, <1>3 DEF RunNext

LEMMA WakeKeeps ==
  ASSUME PlaceInv, NEW t \in Tasks, Wake(t)
  PROVE  PlaceInv'
<1>1. /\ dsq \in [Queues -> Seq(Tasks)] /\ local \in [Cpus -> Seq(Tasks)] /\ starved \subseteq Cpus
      /\ Distinct(dsq, Queues) /\ Distinct(local, Cpus) /\ \A u \in Tasks : Somewhere(u)
      /\ DspTypeOK
  BY DEF PlaceInv, DspTypeOK, Alone, With, Without
<1>2. /\ t \in asleep /\ asleep' = asleep \ {t} /\ UNCHANGED <<gate, class, running, starved>>
  BY DEF Wake
<1>3. ~Held(dsq, Queues, t) /\ ~Held(local, Cpus, t) /\ ~OnCpu(t)
  BY <1>1, <1>2 DEF Somewhere, With, Without
<1>4. \A u : OnCpu(u)' <=> OnCpu(u)
  BY <1>2 DEF OnCpu
<1>5. CASE (\E c \in Cpus : local' = [local EXCEPT ![c] = Append(@, t)]) /\ UNCHANGED dsq
  <2>1. PICK c \in Cpus : local' = [local EXCEPT ![c] = Append(local[c], t)]
    BY <1>5
  <2>2. Widened(Append(local[c], t), local[c], Len(local[c]) + 1, t)
    BY <1>1, AppendWidens
  <2>3. With(local, Cpus, local', t)
    BY <1>1, <1>3, <2>1, <2>2, WideningPuts
  <2>4. DspTypeOK' /\ Alone'
    BY <1>1, <1>2, <1>5, <2>3 DEF PlaceInv, DspTypeOK, Alone, With, Without
  <2>5. ASSUME NEW u \in Tasks PROVE Somewhere(u)'
    BY <1>1, <1>2, <1>3, <1>4, <1>5, <2>3 DEF Somewhere, With, Without
  <2> QED
    BY <2>4, <2>5 DEF PlaceInv
<1>6. CASE Enqueue(dsq, t) /\ UNCHANGED local
  <2>1. With(dsq, Queues, dsq', t)
    BY <1>1, <1>3, <1>6, EnqueuePuts
  <2>2. DspTypeOK' /\ Alone'
    BY <1>1, <1>2, <1>6, <2>1 DEF PlaceInv, DspTypeOK, Alone, With, Without
  <2>3. ASSUME NEW u \in Tasks PROVE Somewhere(u)'
    BY <1>1, <1>2, <1>3, <1>4, <1>6, <2>1 DEF Somewhere, With, Without
  <2> QED
    BY <2>2, <2>3 DEF PlaceInv
<1> QED
  BY <1>5, <1>6 DEF Wake

LEMMA PickKeeps ==
  ASSUME PlaceInv, NEW c \in Cpus, Pick(c)
  PROVE  PlaceInv'
<1>1. running[c] = Nobody /\ RunNext(c) /\ UNCHANGED <<gate, class, asleep>>
  BY DEF Pick
<1>2. PICK h : Moves(h) /\ running' = [running EXCEPT ![c] = h]
  BY <1>1, RunNextMoves
<1>3. DspTypeOK /\ Alone /\ h \in Tasks /\ ~OnCpu(h) /\ Nobody \notin Tasks
  BY <1>2, DispatchAssumption DEF PlaceInv, Moves, With, Without
<1>4. /\ running' \in [Cpus -> Tasks \cup {Nobody}]
      /\ \A d, e \in Cpus : running'[d] = running'[e] /\ running'[d] # Nobody => d = e
      /\ \A u \in Tasks : OnCpu(u)' <=> (OnCpu(u) /\ u # running[c]) \/ u = h
  BY <1>2, <1>3, CpuChanges
<1>5. DspTypeOK' /\ Alone'
  BY <1>1, <1>2, <1>3, <1>4 DEF DspTypeOK, Alone, Moves, With, Without
<1>6. ASSUME NEW u \in Tasks PROVE Somewhere(u)'
  <2>1. Somewhere(u) /\ u # Nobody
    BY <1>3 DEF PlaceInv
  <2>2. OnCpu(u)' <=> OnCpu(u) \/ u = h
    BY <1>1, <1>4, <2>1
  <2> QED
    BY <1>1, <1>2, <2>1, <2>2 DEF Somewhere, Moves, With, Without
<1> QED
  BY <1>5, <1>6 DEF PlaceInv

LEMMA SliceEndKeeps ==
  ASSUME PlaceInv, NEW c \in Cpus, SliceEnd(c)
  PROVE  PlaceInv'
<1>1. PICK q \in Selected(c) : Take(c, q) /\ Enqueue([dsq EXCEPT ![q] = Tail(@)], running[c])
  BY DEF SliceEnd
<1>2. running[c] # Nobody /\ UNCHANGED <<gate, class, local, asleep>>
  BY DEF SliceEnd
<1>3. /\ dsq \in [Queues -> Seq(Tasks)] /\ local \in [Cpus -> Seq(Tasks)] /\ starved \subseteq Cpus
      /\ Distinct(dsq, Queues) /\ Distinct(local, Cpus) /\ \A u \in Tasks : Somewhere(u)
      /\ DspTypeOK /\ Alone /\ running[c] \in Tasks
  BY <1>2 DEF PlaceInv, DspTypeOK, Alone, With, Without
<1> DEFINE h == Head(dsq[q])
           t == running[c]
           Q == [dsq EXCEPT ![q] = Tail(dsq[q])]
<1>4. q \in Queues /\ dsq[q] # <<>>
  BY SelectedIsFilled
<1>5. Without(dsq, Queues, Q, h)
  BY <1>3, <1>4, TailTakes
<1>6. Enqueue(Q, t) /\ running' = [running EXCEPT ![c] = h] /\ starved' \subseteq Cpus
  BY <1>1, <1>3 DEF Take
<1> HIDE DEF Q, h
<1>7. OnCpu(t) /\ ~Held(dsq, Queues, t)
  BY <1>3 DEF Somewhere, OnCpu, With, Without
<1>8. ~OnCpu(h) /\ ~Held(local, Cpus, h) /\ h \notin asleep
  BY <1>3, <1>5 DEF Somewhere, With, Without
<1>9. With(Q, Queues, dsq', t)
  BY <1>3, <1>5, <1>6, <1>7, EnqueuePuts DEF Without
<1>10. /\ running' \in [Cpus -> Tasks \cup {Nobody}]
       /\ \A d, e \in Cpus : running'[d] = running'[e] /\ running'[d] # Nobody => d = e
       /\ \A u \in Tasks : OnCpu(u)' <=> (OnCpu(u) /\ u # running[c]) \/ u = h
  BY <1>3, <1>5, <1>6, <1>8, CpuChanges DEF Without
<1>11. DspTypeOK' /\ Alone'
  BY <1>2, <1>3, <1>6, <1>9, <1>10 DEF DspTypeOK, Alone, With, Without
<1>12. ASSUME NEW u \in Tasks PROVE Somewhere(u)'
  <2>1. Held(local', Cpus, u) <=> Held(local, Cpus, u)
    BY <1>2
  <2>2. Held(dsq', Queues, u) <=> (Held(dsq, Queues, u) /\ u # h) \/ u = t
    BY <1>5, <1>9 DEF With, Without
  <2>3. OnCpu(u)' <=> (OnCpu(u) /\ u # t) \/ u = h
    BY <1>10
  <2>4. Somewhere(u) /\ Somewhere(t)
    BY <1>3
  <2> HIDE DEF t
  <2> QED
    BY <1>2, <1>5, <1>7, <1>8, <2>1, <2>2, <2>3, <2>4 DEF Somewhere, With, Without
<1> QED
  BY <1>11, <1>12 DEF PlaceInv

LEMMA BlockKeeps ==
  ASSUME PlaceInv, NEW c \in Cpus, Block(c)
  PROVE  PlaceInv'
<1> DEFINE t == running[c]
<1>1. t # Nobody /\ asleep' = asleep \cup {t} /\ UNCHANGED <<gate, class>>
  BY DEF Block
<1>2. /\ DspTypeOK /\ Alone /\ t \in Tasks /\ Nobody \notin Tasks /\ \A u \in Tasks : Somewhere(u)
  BY <1>1, DispatchAssumption DEF PlaceInv, DspTypeOK
<1>3. OnCpu(t) /\ ~Held(dsq, Queues, t) /\ ~Held(local, Cpus, t)
  BY <1>2 DEF Somewhere, OnCpu, With, Without
<1>4. CASE RunNext(c)
  <2>1. PICK h : Moves(h) /\ running' = [running EXCEPT ![c] = h]
    BY <1>4, RunNextMoves
  <2>2. /\ running' \in [Cpus -> Tasks \cup {Nobody}]
        /\ \A d, e \in Cpus : running'[d] = running'[e] /\ running'[d] # Nobody => d = e
        /\ \A u \in Tasks : OnCpu(u)' <=> (OnCpu(u) /\ u # t) \/ u = h
    BY <1>2, <2>1, CpuChanges DEF Moves, With, Without
  <2> HIDE DEF t
  <2>3. DspTypeOK' /\ Alone'
    BY <1>1, <1>2, <2>1, <2>2 DEF DspTypeOK, Alone, Moves, With, Without
  <2>4. ASSUME NEW u \in Tasks PROVE Somewhere(u)'
    BY <1>1, <1>2, <1>3, <2>1, <2>2 DEF Somewhere, Moves, With, Without
  <2> QED
    BY <2>3, <2>4 DEF PlaceInv
<1>5. CASE running' = [running EXCEPT ![c] = Nobody] /\ UNCHANGED <<dsq, local, starved>>
  <2>1. /\ running' \in [Cpus -> Tasks \cup {Nobody}]
        /\ \A d, e \in Cpus : running'[d] = running'[e] /\ running'[d] # Nobody => d = e
        /\ \A u \in Tasks : OnCpu(u)' <=> (OnCpu(u) /\ u # t) \/ u = Nobody
    BY <1>2, <1>5, CpuChanges
  <2> HIDE DEF t
  <2>2. DspTypeOK' /\ Alone'
    BY <1>1, <1>2, <1>5, <2>1 DEF DspTypeOK, Alone, With, Without
  <2>3. ASSUME NEW u \in Tasks PROVE Somewhere(u)'
    BY <1>1, <1>2, <1>3, <1>5, <2>1 DEF Somewhere, With, Without
  <2> QED
    BY <2>2, <2>3 DEF PlaceInv
<1> QED
  BY <1>4, <1>5 DEF Block

LEMMA PlaceInvariant == DspSpec => []PlaceInv
<1>1. DspInit => PlaceInv
  <2> SUFFICES ASSUME DspInit PROVE PlaceInv
    OBVIOUS
  <2>1. DspTypeOK
    BY DEF DspInit, DspTypeOK, Classes
  <2>2. /\ \A q \in Queues : 1..Len(dsq[q]) = {}
        /\ \A c \in Cpus : 1..Len(local[c]) = {}
        /\ \A c \in Cpus : running[c] = Nobody
    <3>1. 1..Len(<<>>) = {}
      OBVIOUS
    <3>2. (\A q \in Queues : dsq[q] = <<>>) /\ (\A c \in Cpus : local[c] = <<>>)
      BY DEF DspInit
    <3> QED
      BY <3>1, <3>2 DEF DspInit
  <2>3. \A t : ~Held(dsq, Queues, t) /\ ~Held(local, Cpus, t)
    BY <2>2 DEF Held
  <2>4. Alone
    BY <2>2 DEF Alone, Distinct
  <2>5. \A t \in Tasks : ~OnCpu(t) /\ t \in asleep
    BY <2>2, DispatchAssumption DEF OnCpu, DspInit
  <2> QED
    BY <2>1, <2>3, <2>4, <2>5 DEF PlaceInv, Somewhere
<1>2. PlaceInv /\ [DspNext]_dspVars => PlaceInv'
  <2> SUFFICES ASSUME PlaceInv, [DspNext]_dspVars PROVE PlaceInv'
    OBVIOUS
  <2>1. CASE UNCHANGED <<dsq, local, running, asleep>> /\ DspTypeOK'
    <3>1. Alone'
      BY <2>1 DEF PlaceInv, Alone
    <3>2. ASSUME NEW t \in Tasks PROVE Somewhere(t)'
      BY <2>1 DEF PlaceInv, Somewhere, OnCpu
    <3> QED
      BY <2>1, <3>1, <3>2 DEF PlaceInv
  <2>2. CASE \E t \in Tasks : SetClass(t)
    <3>1. PICK t \in Tasks : SetClass(t)
      BY <2>2
    <3>2. PICK k \in MayBe[t] \cup {"normal"} : class' = [class EXCEPT ![t] = k]
      BY <3>1 DEF SetClass
    <3>3. k \in Classes
      BY <3>2, DispatchAssumption DEF Classes
    <3>4. DspTypeOK'
      BY <3>1, <3>2, <3>3 DEF SetClass, PlaceInv, DspTypeOK
    <3> QED
      BY <2>1, <3>1, <3>4 DEF SetClass
  <2>3. CASE \E c \in Cpus : Age(c)
    <3>1. DspTypeOK'
      BY <2>3 DEF Age, PlaceInv, DspTypeOK
    <3> QED
      BY <2>1, <2>3, <3>1 DEF Age
  <2>4. CASE \E g \in GateStates : SetGate(g)
    <3>1. DspTypeOK'
      BY <2>4 DEF SetGate, PlaceInv, DspTypeOK
    <3> QED
      BY <2>1, <2>4, <3>1 DEF SetGate
  <2>5. CASE UNCHANGED dspVars
    <3>1. DspTypeOK'
      BY <2>5 DEF dspVars, PlaceInv, DspTypeOK
    <3> QED
      BY <2>1, <2>5, <3>1 DEF dspVars
  <2>6. CASE \E t \in Tasks : Wake(t)
    BY <2>6, WakeKeeps
  <2>7. CASE \E c \in Cpus : Pick(c) \/ SliceEnd(c) \/ Block(c)
    BY <2>7, PickKeeps, SliceEndKeeps, BlockKeeps
  <2> QED
    BY <2>2, <2>3, <2>4, <2>5, <2>6, <2>7 DEF DspNext
<1> QED
  BY <1>1, <1>2, PTL DEF DspSpec

(* Gate, classes and queues keep their types; what is queued is a task.    *)
THEOREM DspTypeCorrect == DspSpec => []DspTypeOK
<1>1. PlaceInv => DspTypeOK
  BY DEF PlaceInv
<1> QED
  BY <1>1, PlaceInvariant, PTL

(* No interleaving of wake-ups, slices, sleeps and changes of the gate or  *)
(* of the classes loses a task or has it in two places, for any number of  *)
(* tasks and CPUs.                                                         *)
THEOREM NoTaskLost == DspSpec => []OnePlace
<1>1. PlaceInv => OnePlace
  <2> SUFFICES ASSUME PlaceInv, NEW t \in Tasks
               PROVE  \E p \in Places(t) : Places(t) = {p}
    BY DEF OnePlace
  <2> DEFINE Q == UNION {{<<q, i>> : i \in Copies(dsq[q], t)} : q \in Queues}
             L == UNION {{<<c, i>> : i \in Copies(local[c], t)} : c \in Cpus}
             R == {<<c, 0>> : c \in {d \in Cpus : running[d] = t}}
             A == IF t \in asleep THEN {<<"asleep", 0>>} ELSE {}
  <2>1. Places(t) = Q \cup L \cup R \cup A
    BY Zenon DEF Places
  <2>2. /\ Somewhere(t) /\ Alone /\ t # Nobody
        /\ \A q \in Queues : dsq[q] \in Seq(Tasks)
        /\ \A c \in Cpus : local[c] \in Seq(Tasks)
    BY DispatchAssumption DEF PlaceInv, DspTypeOK
  <2>3. /\ \A p : p \in Q <=> \E q \in Queues : \E i \in 1..Len(dsq[q]) : dsq[q][i] = t /\ p = <<q, i>>
        /\ \A p : p \in L <=> \E c \in Cpus : \E i \in 1..Len(local[c]) : local[c][i] = t /\ p = <<c, i>>
        /\ \A p : p \in R <=> \E c \in Cpus : running[c] = t /\ p = <<c, 0>>
        /\ A = IF t \in asleep THEN {<<"asleep", 0>>} ELSE {}
    BY <2>2 DEF Copies
  <2> HIDE DEF Q, L, R, A
  <2>4. /\ Held(dsq, Queues, t) => \E p : Q = {p}
        /\ ~Held(dsq, Queues, t) => Q = {}
    <3>1. ASSUME Held(dsq, Queues, t) PROVE \E p : Q = {p}
      <4>0. PICK x \in Queues : \E i \in 1..Len(dsq[x]) : dsq[x][i] = t
        BY <3>1 DEF Held
      <4>1. PICK i \in 1..Len(dsq[x]) : dsq[x][i] = t
        BY <4>0
      <4>2. \A y \in Queues : \A j \in 1..Len(dsq[y]) : dsq[y][j] = t => y = x /\ j = i
        BY <2>2, <4>1 DEF Alone, Distinct
      <4>3. \A p : p \in Q <=> p = <<x, i>>
        BY <2>3, <4>1, <4>2
      <4>4. Q = {<<x, i>>}
        BY <4>3
      <4> QED
        BY <4>4
    <3>2. ASSUME ~Held(dsq, Queues, t) PROVE Q = {}
      <4>1. \A p : p \notin Q
        BY <2>3, <3>2 DEF Held
      <4> QED
        BY <4>1
    <3> QED
      BY <3>1, <3>2
  <2>5. /\ Held(local, Cpus, t) => \E p : L = {p}
        /\ ~Held(local, Cpus, t) => L = {}
    <3>1. ASSUME Held(local, Cpus, t) PROVE \E p : L = {p}
      <4>0. PICK x \in Cpus : \E i \in 1..Len(local[x]) : local[x][i] = t
        BY <3>1 DEF Held
      <4>1. PICK i \in 1..Len(local[x]) : local[x][i] = t
        BY <4>0
      <4>2. \A y \in Cpus : \A j \in 1..Len(local[y]) : local[y][j] = t => y = x /\ j = i
        BY <2>2, <4>1 DEF Alone, Distinct
      <4>3. \A p : p \in L <=> p = <<x, i>>
        BY <2>3, <4>1, <4>2
      <4>4. L = {<<x, i>>}
        BY <4>3
      <4> QED
        BY <4>4
    <3>2. ASSUME ~Held(local, Cpus, t) PROVE L = {}
      <4>1. \A p : p \notin L
        BY <2>3, <3>2 DEF Held
      <4> QED
        BY <4>1
    <3> QED
      BY <3>1, <3>2
  <2>6. /\ OnCpu(t) => \E p : R = {p}
        /\ ~OnCpu(t) => R = {}
    <3>1. ASSUME OnCpu(t) PROVE \E p : R = {p}
      <4>1. PICK c \in Cpus : running[c] = t
        BY <3>1 DEF OnCpu
      <4>2. \A p : p \in R <=> p = <<c, 0>>
        BY <2>2, <2>3, <4>1 DEF Alone
      <4>3. R = {<<c, 0>>}
        BY <4>2
      <4> QED
        BY <4>3
    <3>2. ASSUME ~OnCpu(t) PROVE R = {}
      <4>1. \A p : p \notin R
        BY <2>3, <3>2 DEF OnCpu
      <4> QED
        BY <4>1
    <3> QED
      BY <3>1, <3>2
  <2>7. /\ t \in asleep => \E p : A = {p}
        /\ t \notin asleep => A = {}
    BY <2>3
  <2> QED
    BY <2>1, <2>2, <2>4, <2>5, <2>6, <2>7 DEF Somewhere
<1> QED
  BY <1>1, PlaceInvariant, PTL
=============================================================================

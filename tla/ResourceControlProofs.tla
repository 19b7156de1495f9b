----------------------- MODULE ResourceControlProofs -----------------------
(***************************************************************************)
(* What the checks of ResourceControl show on small instances, proved for  *)
(* every set of groups, controls, values and plans, and for an environment *)
(* that does anything ResourceControl allows, any number of times.         *)
(***************************************************************************)
EXTENDS ResourceControl, TLAPS

Restoring == pc \in {"restore", "overwrite"}

(* The old value just read is not the agent's, and no snapshot holds it.   *)
SeenForeign ==
  pc = "snapshot" => snapshots[Key] = NoSnapshot /\ seen.by # "agent"

(* A key is written only under a snapshot.                                 *)
WriteCovered == pc \in {"write", "verify"} => snapshots[Key] # NoSnapshot

TodoHeld == Restoring => \A k \in todo : snapshots[k] # NoSnapshot

CurrentPending == pc = "overwrite" => current \in todo

(* While a stop has met no failure, every snapshot is restored or pending. *)
StopCovers ==
  Restoring /\ return = "stopped" /\ ok =>
    \A k \in Keys : snapshots[k] # NoSnapshot => k \in todo

StoppedClean == pc = "stopped" /\ ok => \A k \in Keys : snapshots[k] = NoSnapshot

UndoCovers ==
  Restoring /\ return = "idle" /\ ok =>
    \A k \in transactionKeys : k \in todo \/ snapshots[k] = NoSnapshot

(* During a transaction every key it has applied is under a snapshot.      *)
AppliedCovered ==
  pc \in {"read", "snapshot", "write", "verify"} =>
    \A k \in transactionKeys : snapshots[k] # NoSnapshot

UndoneClean ==
  pc = "idle" /\ result = "failed" /\ ok =>
    \A k \in transactionKeys : snapshots[k] = NoSnapshot

UndoBounded == Restoring /\ return = "idle" => todo \subseteq transactionKeys

IInv ==
  /\ TypeOK
  /\ AgentValuesAccounted /\ RestoreValueForeign
  /\ SeenForeign /\ WriteCovered /\ AppliedCovered
  /\ TodoHeld /\ CurrentPending
  /\ StopCovers /\ StoppedClean
  /\ UndoCovers /\ UndoneClean /\ UndoBounded
-----------------------------------------------------------------------------
(* The key at hand while a control is being written.                       *)
LEMMA KeyInKeys ==
  ASSUME TypeOK, step <= Len(Controls)
  PROVE  Key \in Keys /\ Group \in Groups /\ Key[1] = Group
<1>1. Len(Controls) \in Nat
  BY ControlsAssumption
<1>2. Controls[step] \in Files
  BY <1>1 DEF TypeOK, Files
<1>3. Group \in Groups
  BY PlansAssumption DEF TypeOK, Group
<1> QED
  BY <1>2, <1>3 DEF Key, Keys

LEMMA DesiredType ==
  ASSUME TypeOK, step <= Len(Controls), Desired # Skip
  PROVE  Desired \in Values
<1>1. Controls[step] \in Files
  BY ControlsAssumption DEF TypeOK, Files
<1> QED
  BY <1>1, PlansAssumption DEF TypeOK, Desired

LEMMA FailAssignType ==
  ASSUME TypeOK, FailAssign
  PROVE  TypeOK'
BY DEF TypeOK, FailAssign, UndoKeys, world, assign, Desired

LEMMA NextControlType ==
  ASSUME TypeOK, NextControl, step <= Len(Controls), transactionKeys' \subseteq Keys
  PROVE  TypeOK'
BY ControlsAssumption DEF TypeOK, NextControl, world, restore

(* Every step of the specification keeps the types.                        *)
LEMMA TypeStep ==
  ASSUME TypeOK, TodoHeld, CurrentPending, [Next]_vars
  PROVE  TypeOK'
<1>1. ASSUME NEW p \in Plans, NEW q \in Pids, BeginAssign(p, q)
      PROVE  TypeOK'
  BY <1>1, ControlsAssumption DEF TypeOK, BeginAssign, world, restore
<1>2. CASE SkipControl
  BY <1>2, NextControlType DEF SkipControl, AtControl, TypeOK
<1>3. CASE RefuseIrreversible
  BY <1>3, FailAssignType DEF RefuseIrreversible
<1>4. CASE ReadControl
  <2>1. CASE FailAssign
    BY <2>1, FailAssignType
  <2>2. CASE NextControl /\ UNCHANGED transactionKeys
    BY <2>2, <1>4, NextControlType DEF ReadControl, AtControl, TypeOK
  <2>3. ASSUME seen' = [value |-> files[Key], by |-> author[Key]] \/ UNCHANGED seen,
               pc' \in {"snapshot", "write"}, Desired # Skip, step <= Len(Controls),
               UNCHANGED <<world, snapshots, plan, pid, step, transactionKeys,
                           result, restore>>
        PROVE  TypeOK'
    <3>1. Key \in Keys /\ Desired \in Values
      BY <2>3, KeyInKeys, DesiredType
    <3>2. seen' \in [value : Values, by : Authors]
      BY <2>3, <3>1 DEF TypeOK
    <3>3. Desired' = Desired
      BY <2>3 DEF Desired
    <3> QED
      BY <2>3, <3>1, <3>2, <3>3 DEF TypeOK, world, restore
  <2> QED
    BY <1>4, <2>1, <2>2, <2>3 DEF ReadControl, AtControl
<1>5. CASE TakeSnapshot
  <2>1. CASE FailAssign
    BY <2>1, FailAssignType
  <2>2. CASE ~FailAssign
    <3>1. Key \in Keys /\ Group \in Groups /\ Desired \in Values
      BY <1>5, KeyInKeys DEF TakeSnapshot, TypeOK
    <3>2. [restore |-> seen.value, desired |-> Desired,
           inode |-> inode[Group], by |-> seen.by] \in Snapshots
      BY <3>1 DEF TypeOK, Snapshots
    <3>3. Desired' = Desired /\ NothingSeen \in [value : Values, by : Authors]
      BY <1>5, <2>2, ValuesAssumption DEF TakeSnapshot, Desired, NothingSeen, Authors
    <3>4. snapshots' \in [Keys -> Snapshots \cup {NoSnapshot}]
      BY <1>5, <2>2, <3>1, <3>2 DEF TakeSnapshot, TypeOK
    <3> QED
      BY <1>5, <2>2, <3>3, <3>4 DEF TakeSnapshot, TypeOK, world, restore
  <2> QED
    BY <2>1, <2>2
<1>6. CASE WriteControl
  <2>1. CASE FailAssign
    BY <2>1, FailAssignType
  <2>2. CASE ~FailAssign
    <3>1. Key \in Keys /\ Desired \in Values
      BY <1>6, KeyInKeys DEF WriteControl, TypeOK
    <3>2. files' \in [Keys -> Values] /\ author' \in [Keys -> Authors]
      BY <1>6, <2>2, <3>1, ValuesAssumption DEF WriteControl, TypeOK, Authors
    <3>3. Desired' = Desired
      BY <1>6, <2>2 DEF WriteControl, Desired, assign
    <3> QED
      BY <1>6, <2>2, <3>2, <3>3 DEF WriteControl, TypeOK, assign, restore
  <2> QED
    BY <2>1, <2>2
<1>7. CASE VerifyControl
  <2>1. CASE FailAssign
    BY <2>1, FailAssignType
  <2>2. CASE NextControl /\ transactionKeys' = transactionKeys \cup {Key}
    BY <1>7, <2>2, NextControlType, KeyInKeys DEF VerifyControl, TypeOK
  <2> QED
    BY <1>7, <2>1, <2>2 DEF VerifyControl
<1>8. CASE MoveProcess
  <2>1. CASE FailAssign
    BY <2>1, FailAssignType
  <2>2. CASE ~FailAssign
    BY <1>8, <2>2, PlansAssumption DEF MoveProcess, TypeOK, assign, restore, Group
  <2> QED
    BY <2>1, <2>2
<1>9. CASE Rollback
  BY <1>9 DEF Rollback, TypeOK, world, assign
<1>10. ASSUME NEW k \in Keys, CompareBeforeRestore(k)
       PROVE  TypeOK'
  BY <1>10 DEF CompareBeforeRestore, TypeOK, world, assign
<1>11. CASE RestoreControl
  <2>1. /\ files' \in [Keys -> Values]
        /\ author' \in [Keys -> Authors]
        /\ snapshots' \in [Keys -> Snapshots \cup {NoSnapshot}]
    <3>1. snapshots[current] \in Snapshots
      BY <1>11 DEF RestoreControl, TodoHeld, CurrentPending, Restoring, TypeOK
    <3>2. Readback[snapshots[current].restore] \in Values
      BY <3>1, ValuesAssumption DEF Snapshots
    <3> QED
      BY <1>11, <3>2 DEF RestoreControl, TypeOK, Authors
  <2> QED
    BY <1>11, <2>1 DEF RestoreControl, TypeOK, assign
<1>12. CASE FinishRestore
  BY <1>12 DEF FinishRestore, TypeOK, world, assign, restore
<1>13. ASSUME NEW k \in Keys, NEW v \in EnvValues, EnvWrite(k, v)
       PROVE  TypeOK'
  BY <1>13, ValuesAssumption DEF EnvWrite, TypeOK, assign, restore, Authors, Desired
<1>14. ASSUME NEW g \in Groups, RemoveGroup(g)
       PROVE  TypeOK'
  BY <1>14, ValuesAssumption DEF RemoveGroup, TypeOK, assign, restore, Authors, Desired
<1>15. ASSUME NEW g \in Groups, CreateGroup(g)
       PROVE  TypeOK'
  BY <1>15, ControlsAssumption DEF CreateGroup, TypeOK, assign, restore, Inodes, Desired
<1>16. CASE CrashAndRestart
  BY <1>16 DEF CrashAndRestart, TypeOK, Authors
<1>17. CASE UNCHANGED vars
  BY <1>17 DEF vars, world, assign, restore, TypeOK, Desired
<1> QED
  BY <1>1, <1>2, <1>3, <1>4, <1>5, <1>6, <1>7, <1>8, <1>9, <1>10, <1>11, <1>12,
     <1>13, <1>14, <1>15, <1>16, <1>17 DEF Next, Agent, Environment
-----------------------------------------------------------------------------
(* The undo of a failed transaction starts with everything pending that    *)
(* the transaction applied.                                                *)
LEMMA FailAssignInv ==
  ASSUME IInv, FailAssign, pc \in {"read", "snapshot", "write", "verify"}
  PROVE  IInv'
<1>1. TypeOK'
  BY FailAssignType DEF IInv
<1> QED
  BY <1>1 DEF IInv, FailAssign, UndoKeys, world, assign, AgentValuesAccounted,
       RestoreValueForeign, SeenForeign, WriteCovered, AppliedCovered, TodoHeld,
       CurrentPending, StopCovers, StoppedClean, UndoCovers, UndoneClean, UndoBounded,
       Restoring

LEMMA InvStep ==
  ASSUME IInv, [Next]_vars
  PROVE  IInv'
<1>0. TypeOK'
  BY TypeStep DEF IInv
<1>1. ASSUME NEW p \in Plans, NEW q \in Pids, BeginAssign(p, q)
      PROVE  IInv'
  BY <1>0, <1>1 DEF IInv, AgentValuesAccounted, RestoreValueForeign,
       SeenForeign, WriteCovered, AppliedCovered, TodoHeld, CurrentPending,
       StopCovers, StoppedClean, UndoCovers, UndoneClean, UndoBounded,
       Restoring, BeginAssign, world, restore
<1>2. CASE SkipControl
  BY <1>0, <1>2 DEF IInv, AgentValuesAccounted, RestoreValueForeign,
       SeenForeign, WriteCovered, AppliedCovered, TodoHeld, CurrentPending,
       StopCovers, StoppedClean, UndoCovers, UndoneClean, UndoBounded,
       Restoring, SkipControl, AtControl, NextControl, world, restore
<1>3. CASE RefuseIrreversible
  BY <1>3, FailAssignInv DEF RefuseIrreversible, AtControl
<1>4. CASE ReadControl
  <2>1. CASE FailAssign
    BY <1>4, <2>1, FailAssignInv DEF ReadControl, AtControl
  <2>2. CASE ~FailAssign /\ NextControl
    BY <1>0, <1>4, <2>2 DEF IInv, AgentValuesAccounted, RestoreValueForeign,
       SeenForeign, WriteCovered, AppliedCovered, TodoHeld, CurrentPending,
       StopCovers, StoppedClean, UndoCovers, UndoneClean, UndoBounded,
       Restoring, ReadControl, AtControl, NextControl, world, restore
  <2>3. CASE ~FailAssign /\ ~NextControl
    <3>1. Key \in Keys /\ Key' = Key
      BY <1>4, <2>3, KeyInKeys DEF ReadControl, AtControl, IInv, Key, Group
    <3> QED
      BY <1>0, <1>4, <2>3, <3>1 DEF IInv, AgentValuesAccounted, RestoreValueForeign,
       SeenForeign, WriteCovered, AppliedCovered, TodoHeld, CurrentPending,
       StopCovers, StoppedClean, UndoCovers, UndoneClean, UndoBounded,
       Restoring, ReadControl, AtControl, world, restore
  <2> QED
    BY <2>1, <2>2, <2>3
<1>5. CASE TakeSnapshot
  <2>1. CASE FailAssign
    BY <1>5, <2>1, FailAssignInv DEF TakeSnapshot
  <2>2. CASE ~FailAssign
    <3>1. Key \in Keys /\ Key' = Key
      BY <1>5, <2>2, KeyInKeys DEF TakeSnapshot, IInv, TypeOK, Key, Group
    <3>2. snapshots'[Key] # NoSnapshot /\ snapshots'[Key].by = seen.by
      <4>1. snapshots'[Key] = [restore |-> seen.value, desired |-> Desired,
                               inode |-> inode[Group], by |-> seen.by]
        BY <1>5, <2>2, <3>1 DEF TakeSnapshot, IInv, TypeOK
      <4>2. /\ seen \in [value : Values, by : Authors]
            /\ Desired \in Values
            /\ inode[Group] \in Inodes
        BY <1>5, <2>2, <3>1, KeyInKeys DEF TakeSnapshot, IInv, TypeOK
      <4>3. snapshots'[Key] \in Snapshots
        BY <4>1, <4>2 DEF Snapshots
      <4> QED
        BY <4>1, <4>3, ValuesAssumption
    <3> QED
      BY <1>0, <1>5, <2>2, <3>1, <3>2 DEF IInv, AgentValuesAccounted, RestoreValueForeign,
       SeenForeign, WriteCovered, AppliedCovered, TodoHeld, CurrentPending,
       StopCovers, StoppedClean, UndoCovers, UndoneClean, UndoBounded,
       Restoring, TakeSnapshot, TypeOK, world, restore
  <2> QED
    BY <2>1, <2>2
<1>6. CASE WriteControl
  <2>1. CASE FailAssign
    BY <1>6, <2>1, FailAssignInv DEF WriteControl
  <2>2. CASE ~FailAssign
    <3>1. Key \in Keys /\ Key' = Key
      BY <1>6, <2>2, KeyInKeys DEF WriteControl, IInv, TypeOK, Key, Group, assign
    <3> QED
      BY <1>0, <1>6, <2>2, <3>1 DEF IInv, AgentValuesAccounted, RestoreValueForeign,
       SeenForeign, WriteCovered, AppliedCovered, TodoHeld, CurrentPending,
       StopCovers, StoppedClean, UndoCovers, UndoneClean, UndoBounded,
       Restoring, WriteControl, TypeOK, assign, restore
  <2> QED
    BY <2>1, <2>2
<1>7. CASE VerifyControl
  <2>1. CASE FailAssign
    BY <1>7, <2>1, FailAssignInv DEF VerifyControl
  <2>2. CASE ~FailAssign
    BY <1>0, <1>7, <2>2 DEF IInv, AgentValuesAccounted, RestoreValueForeign,
       SeenForeign, WriteCovered, AppliedCovered, TodoHeld, CurrentPending,
       StopCovers, StoppedClean, UndoCovers, UndoneClean, UndoBounded,
       Restoring, VerifyControl, NextControl, world, restore
  <2> QED
    BY <2>1, <2>2
<1>8. CASE MoveProcess
  <2>1. CASE FailAssign
    BY <1>8, <2>1, FailAssignInv DEF MoveProcess
  <2>2. CASE ~FailAssign
    BY <1>0, <1>8, <2>2 DEF IInv, AgentValuesAccounted, RestoreValueForeign,
       SeenForeign, WriteCovered, AppliedCovered, TodoHeld, CurrentPending,
       StopCovers, StoppedClean, UndoCovers, UndoneClean, UndoBounded,
       Restoring, MoveProcess, assign, restore
  <2> QED
    BY <2>1, <2>2
<1>9. CASE Rollback
  BY <1>0, <1>9 DEF IInv, AgentValuesAccounted, RestoreValueForeign,
       SeenForeign, WriteCovered, AppliedCovered, TodoHeld, CurrentPending,
       StopCovers, StoppedClean, UndoCovers, UndoneClean, UndoBounded,
       Restoring, Rollback, world, assign
<1>10. ASSUME NEW k \in Keys, CompareBeforeRestore(k)
       PROVE  IInv'
  BY <1>0, <1>10 DEF IInv, AgentValuesAccounted, RestoreValueForeign,
       SeenForeign, WriteCovered, AppliedCovered, TodoHeld, CurrentPending,
       StopCovers, StoppedClean, UndoCovers, UndoneClean, UndoBounded,
       Restoring, CompareBeforeRestore, Matches, world, assign
<1>11. CASE RestoreControl
  BY <1>0, <1>11 DEF IInv, AgentValuesAccounted, RestoreValueForeign,
       SeenForeign, WriteCovered, AppliedCovered, TodoHeld, CurrentPending,
       StopCovers, StoppedClean, UndoCovers, UndoneClean, UndoBounded,
       Restoring, RestoreControl, TypeOK, assign
<1>12. CASE FinishRestore
  BY <1>0, <1>12 DEF IInv, AgentValuesAccounted, RestoreValueForeign,
       SeenForeign, WriteCovered, AppliedCovered, TodoHeld, CurrentPending,
       StopCovers, StoppedClean, UndoCovers, UndoneClean, UndoBounded,
       Restoring, FinishRestore, TypeOK, world, assign, restore
<1>13. ASSUME NEW k \in Keys, NEW v \in EnvValues, EnvWrite(k, v)
       PROVE  IInv'
  BY <1>0, <1>13 DEF IInv, AgentValuesAccounted, RestoreValueForeign,
       SeenForeign, WriteCovered, AppliedCovered, TodoHeld, CurrentPending,
       StopCovers, StoppedClean, UndoCovers, UndoneClean, UndoBounded,
       Restoring, EnvWrite, TypeOK, assign, restore, Key, Group
<1>14. ASSUME NEW g \in Groups, RemoveGroup(g)
       PROVE  IInv'
  BY <1>0, <1>14 DEF IInv, AgentValuesAccounted, RestoreValueForeign,
       SeenForeign, WriteCovered, AppliedCovered, TodoHeld, CurrentPending,
       StopCovers, StoppedClean, UndoCovers, UndoneClean, UndoBounded,
       Restoring, RemoveGroup, TypeOK, assign, restore, Key, Group
<1>15. ASSUME NEW g \in Groups, CreateGroup(g)
       PROVE  IInv'
  BY <1>0, <1>15 DEF IInv, AgentValuesAccounted, RestoreValueForeign,
       SeenForeign, WriteCovered, AppliedCovered, TodoHeld, CurrentPending,
       StopCovers, StoppedClean, UndoCovers, UndoneClean, UndoBounded,
       Restoring, CreateGroup, TypeOK, assign, restore, Key, Group
<1>16. CASE CrashAndRestart
  BY <1>0, <1>16 DEF IInv, AgentValuesAccounted, RestoreValueForeign,
       SeenForeign, WriteCovered, AppliedCovered, TodoHeld, CurrentPending,
       StopCovers, StoppedClean, UndoCovers, UndoneClean, UndoBounded,
       Restoring, CrashAndRestart, TypeOK
<1>17. CASE UNCHANGED vars
  BY <1>0, <1>17 DEF IInv, AgentValuesAccounted, RestoreValueForeign,
       SeenForeign, WriteCovered, AppliedCovered, TodoHeld, CurrentPending,
       StopCovers, StoppedClean, UndoCovers, UndoneClean, UndoBounded,
       Restoring, vars, world, assign, restore, Key, Group
<1> QED
  BY <1>1, <1>2, <1>3, <1>4, <1>5, <1>6, <1>7, <1>8, <1>9, <1>10, <1>11, <1>12,
     <1>13, <1>14, <1>15, <1>16, <1>17 DEF Next, Agent, Environment
-----------------------------------------------------------------------------
LEMMA InitInv ==
  ASSUME Init
  PROVE  IInv
<1>1. Len(Controls) \in Nat /\ 0 \in Inodes
  BY ControlsAssumption DEF Inodes
<1>2. NothingSeen \in [value : Values, by : Authors]
  BY ValuesAssumption DEF NothingSeen, Authors
<1>3. files \in [Keys -> Values] /\ author \in [Keys -> Authors]
  BY ValuesAssumption DEF Init, Authors
<1>4. inode \in [Groups -> Inodes] /\ present \in [Groups -> BOOLEAN]
  BY <1>1 DEF Init
<1>5. /\ procs \in [Pids -> Groups \cup {Outside}]
      /\ snapshots \in [Keys -> Snapshots \cup {NoSnapshot}]
  BY DEF Init
<1>6. step \in 1..Len(Controls) + 1
  BY <1>1 DEF Init
<1>7. TypeOK
  BY <1>2, <1>3, <1>4, <1>5, <1>6 DEF Init, TypeOK
<1> QED
  BY <1>7 DEF Init, IInv, AgentValuesAccounted, RestoreValueForeign,
     SeenForeign, WriteCovered, AppliedCovered, TodoHeld, CurrentPending,
     StopCovers, StoppedClean, UndoCovers, UndoneClean, UndoBounded,
     Restoring

THEOREM Invariance == Spec => []IInv
<1>1. Init => IInv
  BY InitInv
<1>2. IInv /\ [Next]_vars => IInv'
  BY InvStep
<1> QED
  BY <1>1, <1>2, PTL DEF Spec

(* Every variable keeps its type.                                          *)
THEOREM TypeCorrect == Spec => []TypeOK
BY Invariance, PTL DEF IInv

(* No value the agent wrote is ever without a snapshot to undo it.         *)
THEOREM NothingForgotten == Spec => []AgentValuesAccounted
BY Invariance, PTL DEF IInv

(* No snapshot restores a value that the agent itself wrote.               *)
THEOREM RestoresForeign == Spec => []RestoreValueForeign
BY Invariance, PTL DEF IInv

(* A stop that reports success leaves no value of the agent.               *)
THEOREM StopClean == Spec => []SuccessfulStopLeavesNothing
<1>1. IInv => SuccessfulStopLeavesNothing
  BY DEF IInv, StoppedClean, AgentValuesAccounted, SuccessfulStopLeavesNothing
<1> QED
  BY <1>1, Invariance, PTL

(* A failed transaction whose undo succeeds leaves nothing it had applied. *)
THEOREM UndoComplete == Spec => []FailedAssignUndone
<1>1. IInv => FailedAssignUndone
  BY DEF IInv, TypeOK, UndoneClean, AgentValuesAccounted, FailedAssignUndone
<1> QED
  BY <1>1, Invariance, PTL

(* The undo of one transaction leaves all other snapshots alone.           *)
THEOREM UndoLocality == Spec => UndoIsLocal
<1>1. ASSUME IInv, [Next]_vars, UndoStep,
             NEW k \in Keys \ transactionKeys
      PROVE  snapshots'[k] = snapshots[k]
  <2>1. CASE RestoreControl
    BY <1>1, <2>1 DEF RestoreControl, IInv, TypeOK, UndoBounded, CurrentPending,
       UndoStep, Restoring
  <2>2. CASE ~RestoreControl
    BY <1>1, <2>2 DEF Next, Agent, Environment, UndoStep, BeginAssign,
       SkipControl, RefuseIrreversible, ReadControl, TakeSnapshot, WriteControl,
       VerifyControl, MoveProcess, AtControl, Rollback, CompareBeforeRestore,
       FinishRestore, EnvWrite, RemoveGroup, CreateGroup, CrashAndRestart, vars
  <2> QED
    BY <2>1, <2>2
<1>2. IInv /\ [Next]_vars =>
        [UndoStep => \A k \in Keys \ transactionKeys :
                       snapshots'[k] = snapshots[k]]_vars
  BY <1>1
<1> QED
  BY <1>2, Invariance, PTL DEF Spec, UndoIsLocal
=============================================================================

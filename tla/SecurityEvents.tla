--------------------------- MODULE SecurityEvents ---------------------------
(***************************************************************************)
(* From a call of a task to a transaction of the policy engine:            *)
(* security_policy's threads write the audit file that policy_engine's     *)
(* thread reads.  Main starts and stops the writer while the reader runs.  *)
(***************************************************************************)
EXTENDS SecurityPolicy, PolicyEventLoop

allVars == <<secVars, vars>>

\* A line more than this cannot be written, so that the bound of the file is
\* never what stops a thread.
ASSUME EnoughLines ==
  /\ {"hit", "anomaly", "life"} \subseteq Kinds
  /\ MaxEvents >= 3 + MaxCalls * (1 + Len(RateRules))

AllInit == SecInit /\ Init

MainStep ==
  \/ MainQuiet /\ UNCHANGED vars
  \/ (SecStarted \/ SecRollback) /\ AppendLine("life")

ReaderStep ==
  \/ ReaderQuiet /\ UNCHANGED vars
  \/ HandleEvent /\ AppendLine("hit")
  \/ WriteAlert /\ AppendLine("anomaly")

\* The tasks, the clock and whoever truncates the file.
OutsideStep ==
  \/ (Tasks \/ Tick) /\ UNCHANGED vars
  \/ Truncate /\ UNCHANGED secVars

\* The policy engine's own thread and its stop.
EngineStep == (EventThread \/ RaiseStop) /\ UNCHANGED secVars

AllNext == MainStep \/ ReaderStep \/ OutsideStep \/ EngineStep

AllSpec == AllInit /\ [][AllNext]_allVars

\* As in the two parts: the threads are scheduled.
AllFairSpec ==
  /\ AllSpec
  /\ WF_allVars(MainStep /\ main # "up") /\ WF_allVars(ReaderStep)
  /\ WF_allVars(EventThread /\ UNCHANGED secVars)
=============================================================================

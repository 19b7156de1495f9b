---------------------------- MODULE SkillContract ----------------------------
(***************************************************************************)
(* What the skill manager (agent/src/skill_manager.cpp, skill.hpp) and the *)
(* skills together promise: a skill runs only on top of the skills it      *)
(* depends on, none is taken away under one that needs it, and once the    *)
(* agent is on its way down no skill starts and at last none runs.         *)
(***************************************************************************)
EXTENDS Integers, Sequences

CONSTANTS
  Skills,   \* the skills the registry knows
  Configs   \* configurations: [list: Seq(Skills), enabled: SUBSET Skills,
            \*                  deps: [Skills -> SUBSET Skills]]

VARIABLES
  config,   \* the configuration of this agent
  running,  \* the skills that run
  ending    \* the agent starts no more skills

contractVars == <<config, running, ending>>

Init ==
  /\ config \in Configs
  /\ running = {} /\ ending = FALSE

Start(s) ==
  /\ ~ending
  /\ s \in config.enabled \ running
  /\ config.deps[s] \subseteq running
  /\ running' = running \cup {s}
  /\ UNCHANGED <<config, ending>>

Stop(s) ==
  /\ ending
  /\ s \in running
  /\ \A t \in running : s \notin config.deps[t]
  /\ running' = running \ {s}
  /\ UNCHANGED <<config, ending>>

\* A start failed, the configuration is no good, or the agent is done.
BeginEnd == ~ending /\ ending' = TRUE /\ UNCHANGED <<config, running>>

\* The process is gone and another one begins.
Renew == running' = {} /\ ending' = FALSE /\ UNCHANGED config

Next ==
  \/ \E s \in Skills : Start(s) \/ Stop(s)
  \/ BeginEnd
  \/ Renew

Spec == Init /\ [][Next]_contractVars

=============================================================================

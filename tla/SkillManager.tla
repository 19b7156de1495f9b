---------------------------- MODULE SkillManager ----------------------------
(***************************************************************************)
(* The skill manager (agent/src/skill_manager.cpp) and the life of the     *)
(* agent around it (main.cpp:529-589): it sorts the enabled skills, starts *)
(* them one after the other, and takes them down in reverse order, after a *)
(* failed start three times over.  Calls of a skill's functions are open   *)
(* intervals: a skill ends its call with Return.  Listing, doctor mode and *)
(* snapshots change nothing and are left out.                              *)
(***************************************************************************)
EXTENDS Integers, Sequences

CONSTANTS
  Skills, Configs,  \* as in SkillContract
  Modes,            \* of {"audit", "enforce"}: the modes of the network skills
  Faults,           \* what may fail beyond a start: of {"open", "query", "show", "tc", "unpin", "throw"}
  MaxLives          \* bound: agents started one after the other

VARIABLES
  config,  \* config_, the same for every agent
  order,   \* start_order_
  phase,   \* where main is
  at,      \* the position in order that is being called
  call,    \* the function of the skill at this position that is active
  lives    \* how many agents were started

managerVars == <<config, order, phase, at, call, lives>>

Phases  == {"load", "starting", "running", "rolling_back", "stopping", "ending",
            "handler", "exited"}
Returns == {"ok", "failed", "thrown"}

ManagerInit ==
  /\ config \in Configs
  /\ order = <<>> /\ phase = "load" /\ at = 0 /\ call = "none"
  /\ lives = 1
-----------------------------------------------------------------------------
\* The skills of config_.skills that are in S, in their order.
Listed(S) ==
  LET L[n \in 0..Len(config.list)] ==
        IF n = 0 THEN <<>>
        ELSE IF config.list[n] \in S THEN Append(L[n - 1], config.list[n])
        ELSE L[n - 1]
  IN  L[Len(config.list)]

\* enabled_indices_ (validate_and_prepare).
EnabledList == Listed(config.enabled)

MissingDependency == \E s \in config.enabled : ~(config.deps[s] \subseteq config.enabled)

\* The skills whose last dependency is the one just placed: indegree is 0.
Freed(skill, placed) ==
  Listed({s \in config.enabled : skill \in config.deps[s] /\ config.deps[s] \subseteq placed})

\* One pop of the queue of topo_sort_enabled_skills (ready, and out so far), and
\* its state after k of them.
SortState == [ready : Seq(Skills), done : Seq(Skills)]
Pop[last \in SortState] ==
  LET skill == Head(last.ready)
      done  == Append(last.done, skill)
  IN  IF last.ready = <<>> THEN last
      ELSE [ready |-> Tail(last.ready) \o Freed(skill, {done[i] : i \in DOMAIN done}),
            done |-> done]

Sorted[k \in 0..Len(config.list)] ==
  IF k = 0
    THEN [ready |-> Listed({s \in config.enabled : config.deps[s] = {}}), done |-> <<>>]
    ELSE Pop[Sorted[k - 1]]

\* In the order of the configuration.
StartOrder_listed == IF MissingDependency THEN <<>> ELSE EnabledList

StartOrder == IF MissingDependency THEN <<>> ELSE Sorted[Len(config.list)].done

\* load_from_yaml.  When the sort fails, start_order_ keeps what it got to and
\* the handler of main stops these skills, which were never started.
Load ==
  /\ phase = "load"
  /\ order' = StartOrder
  /\ IF MissingDependency \/ Len(StartOrder) # Len(EnabledList)
       THEN phase' = "handler" /\ at' = Len(StartOrder)
       ELSE phase' = "starting" /\ at' = 1
  /\ UNCHANGED <<config, call, lives>>

InCall(s, function) == call = function /\ s = order[at]

\* The function the loops of this phase call.
FunctionOf == CASE phase = "starting" -> "start"
                [] phase = "rolling_back" -> "rollback"
                [] phase \in {"stopping", "ending", "handler"} -> "stop"
                [] OTHER -> "none"

Call ==
  /\ call = "none" /\ FunctionOf # "none"
  /\ at \in 1..Len(order)
  /\ call' = FunctionOf
  /\ UNCHANGED <<config, order, phase, at, lives>>

\* The next phase when a loop is through, or when its skill has thrown.
After == CASE phase = "starting" -> "running"
           [] phase = "rolling_back" -> "stopping"
           [] phase = "stopping" -> "handler"
           [] phase = "ending" -> "exited"
           [] phase = "handler" -> "exited"
\* The handler tries again.
Thrown_again == "handler"

Thrown == IF phase = "handler" THEN "exited" ELSE "handler"

Enter(p) ==
  /\ phase' = p
  /\ at' = IF p \in {"running", "exited"} THEN 0 ELSE Len(order)

Advance ==
  /\ call = "none" /\ FunctionOf # "none"
  /\ at \notin 1..Len(order)
  /\ Enter(After)
  /\ UNCHANGED <<config, order, call, lives>>

\* The skill's function returns.  rollback and stop are called for their effect
\* only; a failed start (or probe) ends in rollback_all and stop_all.
Return(result) ==
  /\ call' = "none"
  /\ CASE result = "thrown" -> Enter(Thrown)
       [] result = "failed" /\ call = "start" -> Enter("rolling_back")
       [] OTHER -> /\ at' = IF call = "start" THEN at + 1 ELSE at - 1
                   /\ UNCHANGED phase
  /\ UNCHANGED <<config, order, lives>>

\* run_cycles returns or throws.
RunEnds ==
  /\ phase = "running"
  /\ \E p \in {"ending", "handler"} : Enter(p)
  /\ UNCHANGED <<config, order, call, lives>>

ManagerNext == Load \/ Call \/ Advance \/ RunEnds

\* The process is gone, killed or at its end, and a new agent begins.
Renew ==
  /\ lives < MaxLives
  /\ lives' = lives + 1
  /\ order' = <<>> /\ phase' = "load" /\ at' = 0 /\ call' = "none"
  /\ UNCHANGED config
=============================================================================

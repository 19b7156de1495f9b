----------------------------- MODULE AgentSkills -----------------------------
(***************************************************************************)
(* The agent as a whole around its three network skills: the manager calls *)
(* the skills one after the other, each works on its own piece of the      *)
(* kernel, and other managers of the same device and of the same cgroup    *)
(* act between any two system calls.  An agent may die at any moment, and  *)
(* the next one finds what it left.  The other skills, which have modules  *)
(* of their own, start, fail, throw and stop in one step.                  *)
(***************************************************************************)
EXTENDS NetworkQos, NetworkPolicy, NetworkXdp

CONSTANT MaxDisturbed  \* bound: actions of other managers

VARIABLES
  plainRunning,  \* running_ of the other skills
  disturbed,     \* how often others have acted
  unseen,        \* history: what others have changed since the agent looked at it
  excused        \* history: a command of the undo failed, or others have acted

kernelVars == <<qosVars, polVars, xdpVars>>
vars == <<managerVars, kernelVars, plainRunning, disturbed, unseen, excused>>

Network == {"network_qos", "network_policy", "network_xdp"}
Plain   == Skills \ Network

ASSUME SkillsAssumption ==
  /\ MaxLives \in Nat /\ MaxDisturbed \in Nat
  /\ Faults \subseteq {"open", "query", "show", "tc", "unpin", "throw"}
  /\ Modes \subseteq {"audit", "enforce"} /\ HooksFound \subseteq {"none", "other"}
  /\ \A c \in Configs : /\ c.list \in Seq(Skills)  \* a name occurs once
                        /\ \A i, j \in 1..Len(c.list) : c.list[i] = c.list[j] => i = j
                        /\ c.enabled \subseteq Skills
                        /\ \A s \in Skills : c.deps[s] \subseteq Skills
                        /\ \A s \in Skills \cap Network : c.deps[s] = {}

Init ==
  /\ ManagerInit /\ QosInit /\ PolInit /\ XdpInit
  /\ plainRunning = {}
  /\ disturbed = 0 /\ unseen = {} /\ excused = FALSE
-----------------------------------------------------------------------------
\* A skill that is not modelled here returns.  The stop functions of the
\* network skills catch what they throw, others do not.
PlainCall(s) ==
  /\ call # "none" /\ s \in Plain /\ s = order[at]
  /\ \/ call = "start" /\ plainRunning' = plainRunning \cup {s} /\ Return("ok")
     \/ call = "start" /\ UNCHANGED plainRunning /\ Return("failed")
     \/ call # "start" /\ plainRunning' = plainRunning \ {s} /\ Return("ok")
     \/ /\ "throw" \in Faults /\ Return("thrown")
        /\ IF call = "start" THEN UNCHANGED plainRunning
                             ELSE plainRunning' \in {plainRunning, plainRunning \ {s}}

\* A command of the undo or of a verification failed although nothing was
\* wrong, the directory that was just created could not be opened, or a stop threw
\* in main's handler, which then stops no more skills.
UndoFault ==
  \/ xdpAt = "verify" /\ xdp = "own" /\ xdpAt' = "look"
  \/ xdpAt = "detach" /\ xdp' = "own"
  \/ qosAt = "verify" /\ root = "own" /\ qosAt' = "look"
  \/ QosRollback /\ tbfAttached /\ Output = qdiscAfter /\ qosAt' = "detach"
  \/ qosAt = "delete" /\ root' # "none"
  \/ qosAt = "detach" /\ "own" \in filters'
  \/ linked /\ ~linked' /\ pin' = "own"
  \/ PolIn("start", "stat") /\ Exists /\ polAt' = "idle"
  \/ polAt \in Cleaning /\ Removable /\ polAt' = "idle"
  \/ phase = "handler" /\ phase' = "exited" /\ at > 0

\* What this step of the agent looks at, and what of it it fails to see: it goes
\* on as if nobody else's program or qdisc were there.
Looked == {o \in {"root", "xdp", "group"} :
             \/ o = "root" /\ (QosIn("start", "idle") \/ QosRollback)
             \/ o = "xdp" /\ XdpRollback
             \/ o = "group" /\ (PolIn("start", "mkdir") \/ polAt \in Cleaning)}

Missed == {o \in Looked :
             \/ o = "root" /\ root # "none" /\ qosAt' = "hook"
             \/ o = "xdp" /\ xdp \in {"old", "other"} /\ xdpAt' = "detach"}

AgentStep ==
  /\ \/ ManagerNext /\ UNCHANGED <<kernelVars, plainRunning>>
     \/ (\E s \in Plain : PlainCall(s)) /\ UNCHANGED kernelVars
     \/ QosNext /\ UNCHANGED <<polVars, xdpVars, plainRunning>>
     \/ PolNext /\ UNCHANGED <<qosVars, xdpVars, plainRunning>>
     \/ XdpNext /\ UNCHANGED <<qosVars, polVars, plainRunning>>
  /\ unseen' = (unseen \ Looked) \cup Missed
  /\ excused' = (excused \/ UndoFault)
  /\ UNCHANGED disturbed

Disturb ==
  /\ disturbed < MaxDisturbed /\ disturbed' = disturbed + 1
  /\ \/ QosOther /\ UNCHANGED <<polVars, xdpVars>> /\ unseen' = unseen \cup {"root"}
     \/ /\ PolOther /\ UNCHANGED <<qosVars, xdpVars>>
        /\ unseen' = unseen \cup {IF polAt = "stat" THEN "lease" ELSE "group"}
     \/ XdpOther /\ UNCHANGED <<qosVars, polVars>> /\ unseen' = unseen \cup {"xdp"}
  /\ excused' = TRUE
  /\ UNCHANGED <<managerVars, plainRunning>>

\* The agent has exited or is killed, and another one is started.
NewAgent ==
  /\ Renew /\ QosReset /\ PolReset /\ XdpReset
  /\ plainRunning' = {} /\ excused' = FALSE
  /\ UNCHANGED <<disturbed, unseen>>

Next == AgentStep \/ Disturb \/ NewAgent

Spec     == Init /\ [][Next]_vars
FairSpec == Spec /\ WF_vars(AgentStep)
-----------------------------------------------------------------------------
RunningSkills ==
  plainRunning \cup {s \in Network : \/ s = "network_qos" /\ qosRunning
                                     \/ s = "network_policy" /\ polRunning
                                     \/ s = "network_xdp" /\ xdpRunning}

Contract == INSTANCE SkillContract WITH
  running <- RunningSkills,
  ending  <- phase \notin {"load", "starting", "running"}

\* The manager and the skills keep the contract, through failed starts, refused
\* undos, exceptions and crashes (skill_manager.cpp:126-213).
KeepsContract == Contract!Spec

\* The agent that has ended leaves nothing of its own in the kernel but an empty
\* clsact hook: not after a start that failed at any of its steps, nor when it
\* found what an earlier agent had left.  Only if others acted, or a command of
\* the undo itself failed, may more than that stay (network_qos.cpp:244-280,
\* network_policy.cpp:295-332, network_xdp.cpp:270-301, main.cpp:582-588).
EndLeavesNothing ==
  phase = "exited" /\ ~excused =>
    /\ xdp # "own" /\ root # "own" /\ "own" \notin filters
    /\ ~linked /\ pin # "own"
    /\ group.owner = "own" => occupied

\* Another manager's tbf, which the agent found when it listed its own.
Adopted == qdiscAfter # NoOutput /\ qdiscAfter[1] = "rival"

\* The agent takes nothing away that is not its own, unless others put it there
\* after the agent looked, or the look failed: a query that fails is no mismatch.
\* A directory counts as the agent's own when it was exchanged between mkdirat
\* and fstat ("lease"), so does another manager's tbf that the agent listed right
\* after it had put its own (Adopted), and a filter of others on a hook the agent
\* created goes with its own (network_qos.cpp:244-280 and 328-338,
\* network_xdp.cpp:270-290, common.hpp:1207-1280).
ForeignKept ==
  [][AgentStep =>
       /\ xdp \in {"old", "other"} => xdp' = xdp \/ "xdp" \in unseen
       /\ root \in {"old", "other", "rival"} =>
            root' = root \/ "root" \in unseen \/ (root = "rival" /\ Adopted)
       /\ group.owner \in {"old", "other"} =>
            group' = group \/ unseen \cap {"group", "lease"} # {}
       /\ hook # "none" => hook' = hook
       /\ ~hookCreated => filters \ {"own"} \subseteq filters']_vars

\* Whatever fails, the agent gets to its end.
AgentEnds == []<>(phase = "exited")
=============================================================================

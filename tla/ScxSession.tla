----------------------------- MODULE ScxSession -----------------------------
(***************************************************************************)
(* The sched_ext session of the agent (agent/src/executors.cpp) and the    *)
(* scheduler process it starts (sched/scx_eulerpilot.c).                   *)
(*                                                                         *)
(* The agent forks the scheduler, waits until the kernel reports sched_ext *)
(* enabled, opens the maps the scheduler pinned, and writes the gate's     *)
(* state into them every cycle.  The scheduler attaches first and pins     *)
(* afterwards, map by map; the kernel may eject it, it may load itself     *)
(* again, die or hang, and others may attach a scheduler of their own.     *)
(*                                                                         *)
(* A process is identified by the fork it came from: start time and inode  *)
(* of the executable tell it from any other (scx_session_identity_matches).*)
(* A PID cannot be reused while the child is not reaped; RecordedUnreaped  *)
(* says that the agent remembers no other PIDs.                            *)
(***************************************************************************)
EXTENDS Integers, Sequences, FiniteSets

CONSTANTS
  Maps,          \* the maps the scheduler pins and the agent opens, in this order
  MaxStarts,     \* bound: forks of the agent
  MaxLoads,      \* bound: how often maps are created; maps are numbered
  Polls,         \* polls of every waiting loop (20 in the code)
  Disturbances   \* what may happen: "die", "eject", "external", "pinfail", and
                 \* "noseq", that enable_seq cannot be read

ASSUME SessionAssumption ==
  /\ Maps \in Seq(STRING) /\ \E i \in DOMAIN Maps : Maps[i] = "gate_state_map"
  /\ MaxStarts \in Nat /\ MaxLoads \in Nat /\ Polls \in Nat \ {0}

VARIABLES
  proc,       \* phase of each started process
  loaded,     \* the maps each process has loaded, 0 if none
  pinned,     \* how many of them it has pinned
  term,       \* processes with a pending SIGTERM (exit_req)
  ejected,    \* processes whose scheduler the kernel has ejected (uei)
  owner,      \* whose scheduler is enabled: a process, NoOne or External
  pin,        \* /sys/fs/bpf/eulerpilot/...: the maps each path leads to, 0 if none
  loads,      \* how often maps were created
  inAgentState, \* the gate_state_maps that hold what the agent last wrote
  pc,         \* where the agent is in reconcile, start, stop or publish
  session,    \* ScxSession: pid, as the process it belongs to, 0 for -1
  fd,         \* ScxSession: the maps its descriptors refer to, 0 for -1
  opening,    \* index of the map that is opened next
  fresh,      \* enable_seq differs from enable_seq_before
  saw,        \* sched_ext was enabled when the current poll looked
  polls,      \* iterations of the current loop
  after,      \* the function the current probe or stop returns to
  forgotten,  \* history: processes replaced in the session while alive
  early       \* history: processes that stop refused because they had not exec'ed yet

scheduler == <<proc, loaded, pinned, term, ejected>>
kernel    == <<owner, pin, loads, inAgentState>>
maps      == <<fd, opening>>
history   == <<forgotten, early>>
agent     == <<pc, session, maps, fresh, saw, polls, after, history>>
vars      == <<scheduler, kernel, agent>>

Starts == 1..MaxStarts
MapIds == {Maps[i] : i \in DOMAIN Maps}

NoOne    == 0
External == -1

Running == {"loading", "loaded", "attached", "running"}   \* after exec
Live    == Running \cup {"forked"}

NoMaps == [m \in MapIds |-> 0]

Init ==
  /\ proc = [n \in Starts |-> "none"]
  /\ loaded = [n \in Starts |-> 0]
  /\ pinned = [n \in Starts |-> 0]
  /\ term = {} /\ ejected = {}
  /\ owner = NoOne
  /\ pin = NoMaps
  /\ loads = 0
  /\ inAgentState = {}
  /\ pc = "idle"
  /\ session = 0
  /\ fd = NoMaps
  /\ opening = 1
  /\ fresh = FALSE /\ saw = FALSE
  /\ polls = 0
  /\ after = "-"
  /\ forgotten = {} /\ early = {}
-----------------------------------------------------------------------------
(***************************************************************************)
(* The agent.                                                              *)
(***************************************************************************)
Enabled == owner # NoOne

\* kill(pid, 0), the start time and the inode of /proc/pid/exe: before exec the
\* executable is the agent's own, that of a zombie cannot be read.
IdentityMatches == session # 0 /\ proc[session] \in Running

\* start, the handshake and reconcile return: what they held in locals is gone.
Return ==
  /\ pc' = "idle" /\ after' = "-"
  /\ fresh' = FALSE /\ saw' = FALSE /\ polls' = 0

\* The branches of reconcile_scx_session.  A session whose scheduler is gone or
\* not enabled is not stopped before the next one is started.
Reconcile ==
  /\ pc = "idle"
  /\ \/ /\ Enabled /\ IdentityMatches
        /\ pc' = "open" /\ after' = "running"
     \/ /\ ~Enabled
        /\ pc' = "fork" /\ UNCHANGED after
     \/ /\ ~(Enabled /\ IdentityMatches)     \* external instance, no binary
        /\ UNCHANGED <<pc, after>>
  /\ UNCHANGED <<scheduler, kernel, session, maps, fresh, saw, polls, history>>

\* enable_seq is read and the child forked; or one of the two, or opening the
\* log, fails.
Fork ==
  /\ pc = "fork"
  /\ \/ \E n \in Starts :
          /\ proc[n] = "none" /\ \A k \in 1..(n - 1) : proc[k] # "none"
          /\ proc' = [proc EXCEPT ![n] = "forked"]
          /\ session' = n
          /\ forgotten' = IF session # 0 /\ proc[session] \in Live
                          THEN forgotten \cup {session} ELSE forgotten
          /\ pc' = "wait"
     \/ /\ pc' = "idle"
        /\ UNCHANGED <<proc, session, forgotten>>
  /\ UNCHANGED <<loaded, pinned, term, ejected, kernel, maps, fresh, saw, polls, after, early>>

\* The session keeps the PID of a child it has reaped.
Reap_keep == proc' = [proc EXCEPT ![session] = "reaped"] /\ UNCHANGED session

\* waitpid succeeded: clear_scx_session_identity.
Reap == proc' = [proc EXCEPT ![session] = "reaped"] /\ session' = 0

\* A poll of start_scx_session, first half: has the child exited, is sched_ext
\* enabled?
PollChild ==
  /\ pc = "wait"
  /\ IF proc[session] = "zombie"
     THEN Reap /\ Return
     ELSE /\ saw' = Enabled
          /\ pc' = "judge"
          /\ UNCHANGED <<proc, session, fresh, polls, after>>
  /\ UNCHANGED <<loaded, pinned, term, ejected, kernel, maps, history>>

\* stop_scx_session is called.
Stop(caller) ==
  /\ pc' = "stop" /\ after' = caller
  /\ fresh' = FALSE /\ saw' = FALSE /\ polls' = 0

\* A loop goes on with its next poll, or gives up.
NextPoll(again, caller) ==
  IF polls + 1 < Polls
  THEN pc' = again /\ polls' = polls + 1 /\ UNCHANGED <<fresh, saw, after>>
  ELSE Stop(caller)

\* Second half: is the child still the one that was started?  An enable_seq that
\* cannot be read counts as one that has changed.
JudgeChild ==
  /\ pc = "judge"
  /\ \/ /\ saw /\ IdentityMatches /\ (fresh \/ "noseq" \in Disturbances)
        /\ pc' = "probe" /\ after' = "handshake"
        /\ fresh' = FALSE /\ saw' = FALSE /\ polls' = 0
     \/ /\ saw /\ ~IdentityMatches
        /\ Stop("start")
     \/ /\ ~saw \/ (IdentityMatches /\ ~fresh)
        /\ NextPoll("wait", "start")
  /\ UNCHANGED <<scheduler, kernel, session, maps, history>>

\* An iteration of the handshake begins: is sched_ext enabled?
Probe ==
  /\ pc = "probe"
  /\ saw' = Enabled
  /\ pc' = "open"
  /\ UNCHANGED <<scheduler, kernel, session, maps, fresh, polls, after, history>>

\* ensure_scx_class_map, ensure_scx_gate_state_map, ensure_scx_stats_map: a
\* descriptor that is open is kept, whatever the path leads to by now.
OpenMap ==
  /\ pc = "open"
  /\ fd' = [fd EXCEPT ![Maps[opening]] = IF @ # 0 THEN @ ELSE pin[Maps[opening]]]
  /\ IF opening < Len(Maps)
     THEN opening' = opening + 1 /\ UNCHANGED pc
     ELSE opening' = 1 /\ pc' = "opened"
  /\ UNCHANGED <<scheduler, kernel, session, fresh, saw, polls, after, history>>

AllOpen == \A m \in MapIds : fd[m] # 0

\* The result of reconcile while running, or of an iteration of the handshake.
Opened ==
  /\ pc = "opened"
  /\ \/ /\ AllOpen /\ (after = "running" \/ saw)
        /\ pc' = "publish"
        /\ UNCHANGED <<fresh, saw, polls, after>>
     \/ /\ after = "running" /\ ~AllOpen
        /\ Return
     \/ /\ after = "handshake" /\ ~(AllOpen /\ saw)
        /\ NextPoll("probe", "handshake")
  /\ UNCHANGED <<scheduler, kernel, session, maps, history>>

\* The gate's state is written once per session only.
Publish_once ==
  /\ pc = "publish"
  /\ inAgentState' = IF after = "handshake" THEN inAgentState \cup {fd["gate_state_map"]}
                     ELSE inAgentState
  /\ Return
  /\ UNCHANGED <<scheduler, owner, pin, loads, session, maps, history>>

\* update_scx_gate_state; update_scx_class_map writes to the map beside it.
Publish ==
  /\ pc = "publish"
  /\ inAgentState' = inAgentState \cup {fd["gate_state_map"]}
  /\ Return
  /\ UNCHANGED <<scheduler, owner, pin, loads, session, maps, history>>

\* rollback() and stop() of the skill.
StopSkill ==
  /\ pc \in {"idle", "down"}
  /\ Stop("skill")
  /\ UNCHANGED <<scheduler, kernel, session, maps, history>>

\* stop_scx_session returns: to start, to the handshake, which closes the maps,
\* or to the skill, which closes them and ends.
StopReturns ==
  /\ fd' = IF after = "start" THEN fd ELSE NoMaps
  /\ pc' = IF after = "skill" THEN "down" ELSE "idle"
  /\ after' = "-" /\ polls' = 0

\* A stop that is refused clears the session.
Terminate_forget ==
  /\ pc = "stop"
  /\ \/ /\ IdentityMatches
        /\ term' = term \cup {session}
        /\ pc' = "terminating"
        /\ UNCHANGED <<session, fd, polls, after>>
     \/ /\ ~IdentityMatches
        /\ session' = 0
        /\ StopReturns
        /\ UNCHANGED term
  /\ UNCHANGED <<opening, proc, loaded, pinned, ejected, kernel, fresh, saw, history>>

\* No SIGTERM to what is not the process that was started.
Terminate ==
  /\ pc = "stop"
  /\ \/ /\ IdentityMatches
        /\ term' = term \cup {session}
        /\ pc' = "terminating"
        /\ UNCHANGED <<fd, polls, after, early>>
     \/ /\ ~IdentityMatches
        /\ early' = early \cup {n \in {session} \cap Starts : proc[n] = "forked"}
        /\ StopReturns
        /\ UNCHANGED term
  /\ UNCHANGED <<opening, proc, loaded, pinned, ejected, kernel, session, fresh, saw, forgotten>>

\* waitpid with WNOHANG, at most Polls times.
AwaitExit ==
  /\ pc = "terminating"
  /\ IF proc[session] = "zombie"
     THEN Reap /\ StopReturns
     ELSE /\ polls' = polls + 1
          /\ pc' = IF polls' < Polls THEN pc ELSE "kill"
          /\ UNCHANGED <<proc, session, fd, after>>
  /\ UNCHANGED <<opening, loaded, pinned, term, ejected, kernel, fresh, saw, history>>

\* A process ends, and with it its scheduler and all that is known of it.
Exit(n) ==
  /\ proc' = [proc EXCEPT ![n] = "zombie"]
  /\ loaded' = [loaded EXCEPT ![n] = 0] /\ pinned' = [pinned EXCEPT ![n] = 0]
  /\ term' = term \ {n} /\ ejected' = ejected \ {n}
  /\ owner' = IF owner = n THEN NoOne ELSE owner

\* A hung process is left alone.
Kill_never ==
  /\ pc = "kill"
  /\ StopReturns
  /\ UNCHANGED <<opening, scheduler, kernel, session, fresh, saw, history>>

\* The last resort is a second SIGTERM.
Kill_term ==
  /\ pc = "kill"
  /\ \/ /\ IdentityMatches
        /\ pc' = "reap"
        /\ UNCHANGED <<fd, polls, after>>
     \/ /\ ~IdentityMatches
        /\ StopReturns
  /\ UNCHANGED <<opening, scheduler, kernel, session, fresh, saw, history>>

\* The identity is checked once more before SIGKILL.  A process that exited
\* since the last poll is not recognised: it is left, unreaped, in the session.
Kill ==
  /\ pc = "kill"
  /\ \/ /\ IdentityMatches
        /\ Exit(session)
        /\ pc' = "reap"
        /\ UNCHANGED <<fd, polls, after>>
     \/ /\ ~IdentityMatches
        /\ StopReturns
        /\ UNCHANGED <<scheduler, owner>>
  /\ UNCHANGED <<opening, pin, loads, inAgentState, session, fresh, saw, history>>

\* waitpid without WNOHANG: it blocks.
ReapKilled ==
  /\ pc = "reap" /\ proc[session] = "zombie"
  /\ Reap
  /\ StopReturns
  /\ UNCHANGED <<opening, loaded, pinned, term, ejected, kernel, fresh, saw, history>>
-----------------------------------------------------------------------------
(***************************************************************************)
(* The scheduler process.                                                  *)
(***************************************************************************)
Exec(n) ==
  /\ proc[n] = "forked"
  /\ \E phase \in {"loading", "zombie"} : proc' = [proc EXCEPT ![n] = phase]
  /\ UNCHANGED <<loaded, pinned, term, ejected, kernel, agent>>

\* SCX_OPS_OPEN and SCX_OPS_LOAD: new maps every time.
Load(n) ==
  /\ proc[n] = "loading" /\ loads < MaxLoads
  /\ loads' = loads + 1
  /\ loaded' = [loaded EXCEPT ![n] = loads']
  /\ proc' = [proc EXCEPT ![n] = "loaded"]
  /\ UNCHANGED <<pinned, term, ejected, owner, pin, inAgentState, agent>>

\* enable_seq counts; the agent compares it in start_scx_session only.
Enable(who) ==
  /\ owner' = who
  /\ fresh' = (fresh \/ pc \in {"wait", "judge"})

\* SCX_OPS_ATTACH: fails, and ends the process, while another scheduler is enabled.
Attach(n) ==
  /\ proc[n] = "loaded"
  /\ \/ /\ owner = NoOne
        /\ Enable(n)
        /\ proc' = [proc EXCEPT ![n] = "attached"]
        /\ UNCHANGED <<loaded, pinned, term, ejected>>
     \/ /\ owner # NoOne
        /\ Exit(n)
        /\ UNCHANGED fresh
  /\ UNCHANGED <<pin, loads, inAgentState, pc, session, maps, saw, polls, after, history>>

\* pin_map_alias: the old pin is removed first; a failure is only reported.
PinMap(n) ==
  /\ proc[n] = "attached" /\ pinned[n] < Len(Maps)
  /\ pinned' = [pinned EXCEPT ![n] = @ + 1]
  /\ \/ pin' = [pin EXCEPT ![Maps[pinned'[n]]] = loaded[n]]
     \/ "pinfail" \in Disturbances /\ pin' = [pin EXCEPT ![Maps[pinned'[n]]] = 0]
     \/ "pinfail" \in Disturbances /\ UNCHANGED pin
  /\ UNCHANGED <<proc, loaded, term, ejected, owner, loads, inAgentState, agent>>

\* init_gate_state_defaults overwrites the gate state behind the path, which
\* the agent may already have written.
InitGateState(n) ==
  /\ proc[n] = "attached" /\ pinned[n] = Len(Maps)
  /\ inAgentState' = inAgentState \ {pin["gate_state_map"]}
  /\ proc' = [proc EXCEPT ![n] = "running"]
  /\ UNCHANGED <<loaded, pinned, term, ejected, owner, pin, loads, agent>>

\* The loop ends on a signal or because the kernel ejected the scheduler, which
\* may ask for a restart; the process then loads everything again.
LeaveLoop(n) ==
  /\ proc[n] = "running" /\ n \in term \cup ejected
  /\ \/ Exit(n)
     \/ /\ n \in ejected
        /\ proc' = [proc EXCEPT ![n] = "loading"]
        /\ loaded' = [loaded EXCEPT ![n] = 0] /\ pinned' = [pinned EXCEPT ![n] = 0]
        /\ ejected' = ejected \ {n}
        /\ UNCHANGED <<term, owner>>
  /\ UNCHANGED <<pin, loads, inAgentState, agent>>

\* The kernel disables the scheduler: a stalled task, an error, a CPU hotplug.
Eject(n) ==
  /\ "eject" \in Disturbances /\ owner = n
  /\ owner' = NoOne
  /\ ejected' = ejected \cup {n}
  /\ UNCHANGED <<proc, loaded, pinned, term, pin, loads, inAgentState, agent>>

\* SIGTERM before the handler is installed, an error in loading, an OOM kill.
Die(n) ==
  /\ "die" \in Disturbances /\ proc[n] \in Running
  /\ Exit(n)
  /\ UNCHANGED <<pin, loads, inAgentState, agent>>

\* Somebody else's scheduler comes and goes.
ExternalAttach ==
  /\ "external" \in Disturbances /\ owner = NoOne
  /\ Enable(External)
  /\ UNCHANGED <<scheduler, pin, loads, inAgentState, pc, session, maps, saw, polls, after, history>>

ExternalDetach ==
  /\ owner = External
  /\ owner' = NoOne
  /\ UNCHANGED <<scheduler, pin, loads, inAgentState, agent>>
-----------------------------------------------------------------------------
AgentStep ==
  \/ Fork \/ PollChild \/ JudgeChild \/ Probe \/ OpenMap \/ Opened \/ Publish
  \/ Terminate \/ AwaitExit \/ Kill \/ ReapKilled

SchedulerStep ==
  \E n \in Starts :
    Exec(n) \/ Load(n) \/ Attach(n) \/ PinMap(n) \/ InitGateState(n) \/ LeaveLoop(n)

Environment == ExternalAttach \/ ExternalDetach \/ \E n \in Starts : Eject(n) \/ Die(n)

Next == Reconcile \/ AgentStep \/ StopSkill \/ SchedulerStep \/ Environment

Spec == Init /\ [][Next]_vars

\* The agent's own steps go on, cycle by cycle; nothing is assumed of the
\* scheduler process, which may be slow or hang.
FairSpec == Spec /\ WF_vars(AgentStep) /\ WF_vars(Reconcile)
-----------------------------------------------------------------------------
MapNumbers == 0..MaxLoads

TypeScheduler ==
  /\ proc \in [Starts -> {"none", "zombie", "reaped"} \cup Live]
  /\ loaded \in [Starts -> MapNumbers]
  /\ pinned \in [Starts -> 0..Len(Maps)]
  /\ term \subseteq Starts /\ ejected \subseteq Starts

TypeKernel ==
  /\ owner \in Starts \cup {NoOne, External}
  /\ pin \in [MapIds -> MapNumbers]
  /\ loads \in MapNumbers
  /\ inAgentState \subseteq MapNumbers

TypeAgent ==
  /\ pc \in {"idle", "fork", "wait", "judge", "probe", "open", "opened", "publish",
             "stop", "terminating", "kill", "reap", "down"}
  /\ session \in Starts \cup {0}
  /\ fd \in [MapIds -> MapNumbers]
  /\ opening \in DOMAIN Maps
  /\ polls \in 0..Polls
  /\ after \in {"-", "running", "handshake", "start", "skill"}
  /\ forgotten \subseteq Starts /\ early \subseteq Starts

TypeFlags == fresh \in BOOLEAN /\ saw \in BOOLEAN

TypeOK == TypeScheduler /\ TypeKernel /\ TypeAgent /\ TypeFlags

\* The PID in the session belongs to a child that has not been reaped, so that
\* no other process can have it: what start_scx_session and stop_scx_session
\* signal or wait for is a process the agent started.
RecordedUnreaped == session # 0 => proc[session] \in Live \cup {"zombie"}

\* After rollback() or stop() a scheduler process of the agent is left only if
\* a later start replaced it in the session while it was alive, or if stop came
\* between its fork and its exec.
StopLeavesNoScheduler ==
  pc = "down" => \A n \in Starts : proc[n] \in Live => n \in forgotten \cup early

\* A scheduler that is enabled was started for a session that still holds its
\* PID, unless the session was given away to a later start: the agent never
\* loses a scheduler it could stop (stop, handshake and start keep or reap it).
EnabledIsRecorded == owner \in Starts => owner = session \/ owner \in forgotten

\* Every start, handshake and stop ends, whatever the scheduler process does:
\* it may hang in any phase, and the blocking waitpid must still return.
CyclesEnd == (pc \notin {"idle", "down"}) ~> (pc \in {"idle", "down"})

\* While the descriptors refer to the maps of the running scheduler, the gate
\* state gets there, also when init_gate_state_defaults overwrites it.
GateStateArrives ==
  \A n \in Starts :
    LET Connected == /\ session = n /\ owner = n /\ proc[n] = "running"
                     /\ \A m \in MapIds : fd[m] = loaded[n]
    IN  Connected ~> (~Connected \/ loaded[n] \in inAgentState)

=============================================================================

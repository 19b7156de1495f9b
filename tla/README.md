# A verification project for EulerPilot

EulerPilot is a user-space agent for openEuler that classifies workloads,
watches CPU pressure, and controls cgroups, a sched_ext scheduler, network
devices and security rules through *skills*. This directory holds TLA+ modules
that model its core logic, TLC configurations that check them on small
instances, and TLAPS proofs of theorems about them for every instance.

Paths below are relative to the repository. All commands run in this directory:

    tlc -workers 2 -config ResourceControl_env.cfg MCResourceControl.tla
    tlapm ResourceControlProofs.tla

`PROJECT.json` lists the components, the runs, the lines of source each
definition stands for, the hazards, the findings and the theorems.

## 1. Inventory

### The agent and its threads

`agent/src/main.cpp` starts the skills in dependency order
(`skill_manager.cpp`) and runs `run_cycles` (`runtime.cpp`) on the main thread:
sleep, collect samples, classify, tick the gate, choose the control mode, assign
profiles, execute. The `policy_engine` skill has a thread of its own that tails
the audit file; `security_policy` has a ring-buffer thread that writes it.
Everything the agent changes lives outside it: cgroup files, tc state, pinned
BPF maps, a child scheduler process. None of these can be changed atomically,
and anybody else may change them too. What the agent must not lose is the
knowledge of what it changed.

| Component | State it keeps | Operations | Talks to | Hard behaviour | What makes it correct |
| --- | --- | --- | --- | --- | --- |
| Resource control (`executors.cpp`, `builtin_skills/resource_control.cpp`) | `resource_control_snapshots`: old value, expected value and cgroup identity per control file; keys of the running transaction | apply a profile, undo a failed transaction, rollback, stop | control loop (profiles), kernel (cgroup v2), other writers | several files per transaction, each step may fail; others write the same files; cgroups disappear and come back; crash | nothing written is forgotten; an undo is complete and local; a restore overwrites only what the agent put there |
| Control loop (`psi_gate.cpp`, `runtime.cpp`) | gate state, streaks, cooldown clock, mode and its three streaks | one tick per window | PSI, samples, all skills | three filters with memory in series | limits only after confirmed pressure, release only after confirmed quiet, no lasting oscillation |
| Policy engine (`builtin_skills/policy_engine.cpp`) | `active_actions_`, `successful_request_ids_`, `effective_desired_states_`, offset in the audit file | apply actions on an event, restore in reverse order, stop | audit file, cgroup files, tc, stop from the main thread | partial failure, stale beliefs, reading a file that grows and shrinks | all or nothing; belief equals fact; no event handled twice |
| sched_ext session (`executors.cpp`) | owned PID with start time and inode, map descriptors | start and handshake, publish gate state and classes, stop, restart | scheduler process, bpffs | PID reuse, old pins, deadlines racing the process | never signal or write to somebody else's scheduler |
| sched_ext scheduler (`sched/scx_eulerpilot.bpf.c`) | dispatch queues, starvation counters | enqueue, dispatch | kernel, pinned maps | gate changes while tasks are queued, strict priority | no task is stranded or starved |
| Observer and sample deltas (`bpf/workload_observer.bpf.c`, `runtime.cpp`) | counters per task, previous sample | sched hooks, delta of two samples | control loop | PID reuse, full map, counter reset, a walk that starts over | a delta belongs to one task, and the deltas add up |
| Skill manager (`skill_manager.cpp`, `main.cpp`) | states of the skills, start order | start all, rollback all, stop all | every skill | a start that fails halfway; both handlers run; exceptions; crash | a skill runs only on top of what it depends on; started skills are stopped, in reverse order |
| Network QoS, policy, XDP (`builtin_skills/network_*.cpp`) | attached hook, filter, qdisc, program, leased cgroup by inode | attach, verify, detach | tc, bpffs, cgroup fs | failure after each step, others change the device and the cgroup, leftovers of a dead agent | rollback removes exactly what it attached |
| Security policy (`builtin_skills/security_policy.cpp`, `bpf/security_policy.bpf.c`) | attached programs, ring, event thread, windows of the rate rules | attach and detach, decide and report a call, count hits, raise alerts | LSM and tracepoints, audit file | two threads over one ring, start and stop under load, edges of the window | the reader's ring outlives it; no alert below, none missed above the threshold |
| Web console jobs (`web_console/backend/src/jobs.js`) | map of jobs, their processes and timers | start, cancel, time out, kill, clean up, prune | child processes, HTTP | all of these race | at most one mutating job at a time; a stopped job is no success; every job ends |
| Audit bus, journal (`audit_bus.cpp`, `action_journal.cpp`) | two append-only files | append | all skills | readers while appending | a line is read whole and once |

`PROJECT.json` lists these and the parts that hold no logic of this kind (target
resolver, capability detector, console pages, scripts, benchmarks), each with the
reason it is left out.

## 2. The modules

| Module | Models | A step is |
| --- | --- | --- |
| `ResourceControl` | the transaction, undo and rollback of the cgroup backend | one system call of the agent, or one act of the environment |
| `ControlLoop` | gate, hysteresis, profile assignment, settings written | one cycle of `run_cycles` |
| `PolicyEngine` | `apply_actions` and `restore_actions` | one system call of the engine, or a write by others |
| `PolicyEventLoop` | the thread that tails the audit file, its writer, truncation | one poll, one line, one look at the size, one append |
| `ScxSession` | the agent's session with the scheduler, and the scheduler process | one system call or poll of the agent, one phase of the process, one act of the kernel or of others |
| `ScxDispatch` | the queues of the BPF scheduler | one callback with what the kernel does around it, one change of a map |
| `SecurityPolicy` | start and stop of the security skill, the programs' decision, the ring, the event thread and the rate rules | one program attached, one call of a task, one poll, one event, one alert |
| `SecurityEvents` | `SecurityPolicy` composed with `PolicyEventLoop`: from a call to the policy engine | a step of either; where the writer writes a line, a step of both |
| `SkillContract` | the abstract specification: which skills may run when | one skill started or stopped |
| `SkillManager` | sorting, start, `rollback_all`, `stop_all`, main and its handler | one call or return of a skill's function |
| `NetworkQos`, `NetworkPolicy`, `NetworkXdp` | one network skill each, with the piece of the kernel it works on | one command to tc, one system call, one libbpf call |
| `AgentSkills` | the manager composed with the three, others on the same device and cgroup, crash and restart | a step of any |
| `JobManager` | the jobs of the web console and their processes | one callback of the event loop, or the end of a process |
| `WorkloadObserver` | counters in the BPF map, the walk of the keys, the deltas | one scheduler event, one key, one lookup |
| `MC*` | constants for TLC | |
| `*Proofs` | inductive invariants and theorems of the module of that name; `SchedExtProofs` of `ScxSession` and `ScxDispatch`, `SecurityEventsProofs` of `PolicyEventLoop`, `SecurityPolicy` and their composition | |

How they are composed:

    AgentSkills    EXTENDS NetworkQos, NetworkPolicy, NetworkXdp, which EXTEND SkillManager
                   INSTANCE SkillContract WITH running <- ..., ending <- ...   (refinement)
    SecurityEvents EXTENDS SecurityPolicy, PolicyEventLoop

A definition whose name has a suffix after an underscore (`ReadControl_wrong`,
`Reap_keep`) is a plausible bug of the definition that has the name
without it. No specification uses one. They are the mutations listed in
`PROJECT.json`: put in place of the correct definition, each must break the
property named with it, which shows that the property sees that code.

### ResourceControl

`pc` is the place of the agent's thread in `apply_cgroup_assignment`
(`executors.cpp:1522-1677`): `read` and `snapshot` (the reads before the write),
`write`, `verify`, then the next control, and at the end `MoveProcess`. A failure
in any step is `FailAssign`, that is `fail_after_partial_apply`: it hands
`transactionKeys` to the restore loop (`restore`, `overwrite`), which
`Rollback` - `rollback()` and `stop()` of the skill - enters with all snapshots.
Comparison and overwriting are two steps because another writer fits between
them: what others write there is overwritten.

Three facts of the code shape the model:

- A snapshot is taken at the *first* write of a key and keeps the value that was
  wanted then (`executors.cpp:543`).
- `write_file_value` (`executors.cpp:254-261`) tests the stream before it is
  flushed. It notices a file that cannot be opened, never a value the kernel
  rejects. `WriteControl` and `RestoreControl` therefore have a disjunct in which
  nothing is written and everything goes on.
- A restore is not read back; a write is.

`author` is history: who put the value there. `"orphan"` is a value of the agent
whose only record went away in one of the two ways the code has: a crash, or a
restore that was rejected and not noticed. The properties speak about `"agent"`
and so exclude exactly these two.

Abstracted: which cgroup and which value a profile selects
(`PlanGroup`, `PlanValue`), journal and audit lines. Dry runs and audit mode return before
the first write and are left out. `Accepted` is `control_value_matches`: which contents
count as a value. Identity check and read before a restore (`executors.cpp:596`, `605`) are one step;
what others do between the two has the outcomes of what they do after both. The writes of the cpuset
files (`executors.cpp:1608-1620`) are left out: every profile has an empty cpuset,
so the branch is never taken. An empty old value occurs with `io.max` only and is
mapped by the code to an unlimited value before it is written.

### ControlLoop

One `Cycle` is: the gate's `Tick` (one operator per state, a disjunct per branch
of `PsiGateSkill::tick`), the desired mode of the new gate state,
`SwitchMode` (`update_mode_with_hysteresis`), and `ApplyProfiles`
(what `apply_cgroup_assignment` leaves in each group). A window is the trigger
context the code computes (`build_trigger_context`); `TriggerContext` is the set
of those that can occur, given how the predicates depend on one another. Adaptive
thresholds change only which windows count as high, so they are inside that choice.
Time is the time elapsed per cycle. `evidenceRun`, `confirmed` and `sincePressing`
are history.

### PolicyEngine

`apply_actions` as a loop over `index` with its four exits; `restore_actions` as a
loop backwards. Control files and network devices share the actions, and differ
where the code does: a device is refused if it has a root qdisc, is marked as
applied only once it was read back, and is restored by deletion. `before` and
`touched` are history: the contents when the transaction began and the files others
changed since. `lost` is history too: the files of which the engine loses track in one of the ways that
`GiveUp` names, each a `continue` or a failed call in `restore_actions` (`policy_engine.cpp:757-806`), or a device
that could not be shown after its qdisc was put there. `Readback` is what a file reads after the kernel took a value,
`Accepted` what `control_value_matches` takes for a value.

Deduplication by `successful_request_ids_` is the guard of `BeginTransaction`;
convergence by `effective_desired_states_` is `Converge`. `StopThread` starts the
restore only in `watch`: the flag is not looked at inside a transaction, and the
main thread joins before it restores.

### PolicyEventLoop

`Poll`, `ReadLine`, `ReadEnd` and `TakeOffset` are the steps of `event_loop`
(`policy_engine.cpp:470-492`). The code reads to the end of the stream and then
asks for the size of the file *again*; the two are separate steps here, so lines
can arrive, and the file can shrink, in between. `missed` is history and names the
three ways in which the code loses a line (comment at `AppendLine`). Offsets
count lines, not bytes: writers append whole lines. What a stream still holds in
its buffer after a truncation is abstracted. A line that matches is only recorded
in `handled`; what it triggers is `PolicyEngine`.

### ScxSession

`pc` is the place of the agent's thread in `reconcile_scx_session` and what it calls
(`executors.cpp:1116-1514`): `fork`, `wait` and `judge` are the polls of
`start_scx_session`, `probe` and `open` those of the handshake, `publish` the
two `update_*` functions, `stop` to `reap` the steps of `stop_scx_session`, which
three callers reach (`after`). What a poll looks at in two places of the file
system is two steps. The scheduler process (`scx_eulerpilot.c:263-363`) goes through
`proc`: it is forked, executes the binary, loads new maps, attaches, pins map by map,
writes the gate's default, and runs until a signal or until the kernel has ejected it, when
it may load itself again (`goto restart`).

A process is the fork it came from. Start time and inode of the executable serve to tell
it from any other process; what is left of PID reuse is whether the agent can
remember a PID after it has reaped its child, and `RecordedUnreaped` says it cannot. A map is the
load it came from: `pin` says which load a path leads to, `fd` which
one a descriptor refers to. Of the contents only `inAgentState` is kept: the maps that hold
what the agent wrote last. `class_map` and `stats` are opened alike, so the
instance has one of them. Removing an old pin and pinning the new map (`scx_eulerpilot.c:71-72`) are one step: an
agent that looks in between finds no pin, as it does before the first one. `forgotten` and `early` are history and name the two
ways in which the code lets go of a live process.

Left out: dry runs, which before the first cycle only close a session that is empty;
and a crash of the agent, which leaves its scheduler to a successor that takes it
for an external one (`executors.cpp:1130`).

### ScxDispatch

`SelectDsq`, `Enqueue`, `Wake` and `Selected` are `select_dsq`, `enqueue`, `select_cpu` and
`dispatch`. The kernel's part is external: when a task's slice ends, or it blocks,
the CPU calls `dispatch` at once, and is idle only if that finds nothing. The time since
the last background dispatch is a flag per CPU, `starved`. The shared queue is ordered
by virtual time, which is left open: `Enqueue` inserts anywhere. So nothing is said of
the order or the progress of the shared queue.

### SecurityPolicy and SecurityEvents

Three actors. The main thread (`main`) goes through `start` and `rollback`
(`security_policy.cpp:489-588`): load, `start_event_reader`, the programs one by one,
and back: raise the flag, join, free the ring, destroy the links one by one. Each
step of the start may fail and leads to the same rollback. Tasks (`Call`) run into a
program whenever one is attached: the first rule that names the object and whose scope fits
decides, and an event goes into the ring if there is room. The event thread looks at the
flag between two polls only, takes what the ring holds, and appends to the hits of every
rate rule the event concerns.

The code drops hits from the front of a deque and clears it at an alert. `seen` and
`alerted` are history, and `AlertsAsSpecified` compares what the deque does with the
definition of a rate over all events handled so far. The clock is that of the handling,
as in the code.

`SecurityEvents` puts the writer of the audit file next to its reader: the steps that
write a line are joint steps with `AppendLine`, everything else interleaves. The
properties of the reader are checked here, with the real writer in place of an
arbitrary one.

Abstracted: paths, addresses and capabilities are objects; process, comm and credential
fields are left out; the `bprm` program tries the path of the file and then the name it was called by
(`security_policy.bpf.c:409-427`), here a file has one name. Self-protection of the agent's own tasks is part of which calls reach a
program.

### SkillManager, the network skills, AgentSkills

`phase` is where `main` is: loading, in one of the loops of the manager, running
the cycles, or in its exception handler. `Call` opens a call of the function the loop calls
for the skill at position `at`, and the skill ends it with `Return`: ok, failed, or an
exception. Between the two the skill takes its own steps. `Sorted` is the queue of
`topo_sort_enabled_skills` as a recursive function.

Each network skill has its flags (what it believes), its piece of the kernel (what is), and
the place in its function (`qosAt`, `polAt`, `xdpAt`). The owner of a kernel object
is `own`, `old` (an agent that died), `other`, or `none`; the program does not
see owners, it sees what the code looks at: a listing of qdiscs, a program id, an
inode. `Faults` names what may fail beyond a start, whose every step may fail: a
listing (`show`), a query or detach of an XDP program (`query`), a tc command or libbpf
call of the undo (`tc`), taking down the pin of a link (`unpin`), an open (`open`), or an exception out of
another skill (`throw`). A root qdisc may also be a `rival`, a tbf that another manager set: the code takes any
listing with a tbf in it for its own (`network_qos.cpp:335-337`). Checking a leased directory's identity and that
it is empty is one step, removing it by path another. The other skills start and stop in one step here.

`unseen` and `excused` are history: what others changed since the agent last looked, and
whether an undo had its own failure. They name the exceptions of the properties; a
property without them is false of this code and the observations below say why.

`SkillContract` promises: a skill starts only on top of running skills it depends on, none is
taken away under one that needs it, after the first failure or the end nothing starts
any more, and the next agent begins with none. `KeepsContract` is its specification under
the mapping in `AgentSkills`.

### JobManager

One event loop: a callback is one step, except that `spawnSync` in `runCleanupAction` holds the
loop (`LoopFree`). The slot of mutating jobs is no variable in the code either but the
question `hasRunningMutatingJob` asks of the table. A process group is alive, dying (killed), dead, or
has escaped: the group has gone, a descendant outside of it keeps the pipes open, so
`close` does not come and a signal to the group throws.

### WorkloadObserver

A thread is its start time; ids are reused as soon as the thread is reaped, which may be before its
last `sched_switch`. The five counters are one, since all are kept, read and subtracted
alike. `bpf_map_get_next_key` starts over when its key is gone. `should_ignore_sample` looks at the name in the
sample, which any thread may change, so `LookUp` may drop a sample. `reported` (the sum of all
deltas) and `counted` (what was really counted) are history.

## 3. The runs

Passing runs:

| Run | Instance | Shows |
| --- | --- | --- |
| `rc_env` | 1 group, 3 controls, plans with a value the kernel rounds and one it completes, a skipped control, and one the transaction refuses, one re-creation, every disturbance and crash | the books of the backend: nothing forgotten, nothing of its own taken for an old value, a clean stop leaves nothing, a successful undo is complete and touches only its own keys; every restore loop ends |
| `loop_filters` | all 3 gate modes, all trigger contexts, thresholds 2/3/2/2/5, 3 warm-up cycles | limits only after confirmed evidence, no early and no late release; pressure that goes away relaxes everything, pressure that stays keeps the gate active |
| `pe_undo` | 3 actions, two of them on the same file, both modes, every failure, other writers | a failed transaction leaves the files as they were; audit mode changes nothing; the engine knows what it set unless it gave the file up; an old value of its own is one that another action in effect has set |
| `pe_books` | 3 actions on 3 files, 2 requests that may succeed and any number of failures, other writers on 2 of the files | the engine believes only what is true; transactions and stops end |
| `security` | 3 hooks, one of them conditional, a rule that denies in a cgroup and one that audits everywhere, 2 rate rules, a ring for 2, 4 calls, 4 instants | the reader's ring outlives it, alerts are exactly those the rules define, events in the ring are recorded unless a stop comes, a stop ends |
| `sec_events` | 1 tracepoint, 2 calls with an alert each, 1 truncation, both threads, start and stop of both | over the whole chain: no event twice or out of order; lost only for the three reasons; the engine catches up with the file |
| `ssn_lifecycle` | 2 starts, 2 loads, 2 polls per loop, every disturbance | the agent knows every live process it started and has let go of only for the two named reasons, remembers no PID it reaped, ends every start, handshake and stop, and its gate state survives the scheduler's default |
| `dsp_queues` | 1 CPU, 1 latency, 2 batch and 1 background task, 3 gate states, classes and gate changing at any moment | no task lost, doubled, or stranded when the gate leaves `ACTIVE`; background tasks get their turn although the batch queue never runs empty |
| `jobs_slot` | 3 jobs (mutating with cleanup, either kind, mutating), a table of 1, every disturbance | jobs the table knows never overlap, a stopped job is no success, every job ends |
| `skills_life` | 4 skills with a dependency, once one that is disabled, 2 agents, one act of others (a tbf of theirs among them), audit and enforce, every fault, no clsact hook on the device at first | the manager and its skills implement `SkillContract`; an agent that ends leaves nothing but the clsact hook and takes nothing foreign but in the named cases; it ends |
| `observer` | 3 threads, 3 ids, room for 2 entries, 3 counted events | the deltas of a thread never exceed what was counted and are exact while its entry stays, unless a cycle read it twice or ignored it after counting it |

One run is expected to find a violation, `rc_profile` (a finding in `PROJECT.json`): the group's
profile changes from one setting to another. The snapshot still expects the first value, so
stop refuses to restore although nobody interfered.

Further observations made while modelling have no run of their own. Of the control loop,
the policy engine, the cgroup backend and the scheduler:

- Windows that all ask for control but alternate between Mixed and Latency reset each other's
  streak (`runtime.cpp:650`), and the mode stays Normal for ever;
  `docs/psi_reuse_design.md:207` says any clear evidence of pressure is enough for light control.
- `active_actions_` is replaced by every transaction with a side effect
  (`policy_engine.cpp:745`). An action that an earlier transaction applied is converged,
  not applied, in the later one, and stop does not restore it, while
  `agent/skills/policy_engine/README.md:13` says stop restores the old values.
- When the kernel ejects the scheduler and its process loads itself again
  (`scx_eulerpilot.c:360`), the agent keeps the descriptors of the old maps
  (`executors.cpp:1241`) and its states and classes do not reach the new instance;
  `docs/architecture.md:88` says the pinned maps pass them on.
- A restore the kernel rejects is not noticed: the snapshot is dropped and success is
  reported (`executors.cpp:611`).
- A return to `normal_profile` writes nothing (`executors.cpp:1553`), so the limits of
  the background group stay until stop. A control whose verification fails is
  not a key of its transaction (`executors.cpp:567`) and stays, with its snapshot, until stop.
- The gate arms on the mere existence of both workloads, while
  `docs/final_report_submission.md:146` says one window of pressure evidence; in `COOLDOWN` one
  window of evidence re-activates it whether or not a latency service exists.
  `derive_desired_mode`, which `docs/psi_reuse_design.md:191` and the unit test
  describe, is not called by the loop.
- `io.max` reads empty before its first limit and reads back with more fields than were
  written. Verification fails, and the old value, empty, is not written back
  (`policy_engine.cpp:776`): what the engine set stays, and the next transaction takes it for an old value. The
  instances of `PolicyEngine` have no such file, the theorems allow for it (`lost`).
- With two actions on one file the old value of the later one is what the earlier one has set. When the first restore is
  refused because others wrote the file, the engine keeps an entry whose old value is its own (`GiveUp`).
- What others write to a control file or a device between the comparison and the restore is overwritten
  (`executors.cpp:605-611`, `policy_engine.cpp:766-788`).
- A scheduler that is alive but was ejected is replaced in the session without
  being stopped (`executors.cpp:1418`); it may load itself again (`forgotten`).
- A stop that comes between fork and exec refuses, as the executable is still the
  agent's own, and nobody signals the child later (`early`).
- A zombie has no readable executable, so a stop refuses it and does not reap it.
- Another scheduler that is enabled between the check and the child's attach passes for
  the child's (`executors.cpp:1204`).
- Dispatch looks at the starvation guard after the latency queue: with two latency
  tasks that take turns, background tasks wait for ever, while
  `docs/design_proposal.md:206` promises them a minimum. `BackgroundDespiteBatch` has
  that exception as its hypothesis.
- `select_cpu` inserts a task into the local queue of an idle CPU whatever its class and
  the gate.

Of the skills and their manager:

- A failed query is no mismatch: when `bpf_xdp_query_id` fails, rollback detaches whatever
  program is on the device (`network_xdp.cpp:272-288`), while `设计文档.md:210` says a
  rollback that cannot confirm ownership cleans up nothing. A failed listing of qdiscs counts as "no
  root qdisc" in the same way, and `tc qdisc replace` then takes over somebody else's.
- The clsact qdisc outlives every run in enforce mode. `bpf_tc_hook_destroy` is called with
  `attach_point = BPF_TC_EGRESS` (`network_qos.cpp:181`, `266-268`), for which libbpf takes all filters on that side
  of the hook along, others' included, and leaves the qdisc; it removes the qdisc only for both sides at once.
  `tests/integration/test_network_qos_tc.sh:135-136` counts a clsact qdisc as residue, and line 208 says "rollback
  leaves no TC qdisc residue". libbpf is not part of this repository and no run can decide the matter, so
  `QosDetach` follows its documented behaviour and `EndLeavesNothing` does not promise the hook. The next agent finds
  the hook, does not take it for its own (`hookCreated`), and attaches to it.
- Any tbf passes for the agent's (`network_qos.cpp:335-337`): one that another manager puts there between `tc qdisc
  replace` and `tc qdisc show` becomes what the rollback compares with, and is deleted by it, while `设计文档.md:210`
  says a rollback that cannot confirm ownership cleans up nothing. `ForeignKept` names the case (`Adopted`).
- The result of `bpf_link__unpin` is ignored (`network_policy.cpp:304`); a pin that stays keeps the program attached.
- The comparison before the qdisc is deleted is one of whole listings: a filter hook that comes or
  goes makes rollback refuse, and no later attempt can match again.
- What is applied but fails its verification is not marked and stays: the tbf qdisc
  (`network_qos.cpp:204`) and the XDP program (`network_xdp.cpp:229`). Results of detach are ignored.
- After a crash, program, qdisc, hook and filter stay; the next start refuses or fails at each of
  them, and nothing removes them.
- A directory exchanged between `mkdirat` and `fstat` is taken for the agent's own; if `openat`
  or `fstat` fails after `mkdirat`, the directory stays (`common.hpp:1151-1172`). The lease is given up
  after a failed cleanup (`network_policy.cpp:324`).
- `stop_all` runs after `rollback_all` and once more from main's handler. A sort that ends
  in a cycle leaves a partial `start_order_`, whose skills the handler stops. A stop that throws in the
  handler leaves the remaining skills as they are.

Of the security policy:

- Reader and ring go before the links (`security_policy.cpp:571-575`): denials in between are
  enforced and not recorded.
- One open or connect gives two events where both the tracepoint and the LSM program are attached
  and a rule matches; a rate rule without `target_ref` counts both. Windows count the time of handling, not
  that of the event.
- A poll goes on as long as there are events, so under a steady load a stop waits; `StopEnds` holds
  because calls are finite.
- An audit rule for all tasks that comes first shadows a rule to enforce behind it.
- `lsm/file_open` does not skip the agent: a rule that covers the audit file feeds itself.

Of the jobs of the console:

- Pruning keeps only `queued` and `running` jobs beyond the limit; a job that is timed out or cancelled and
  still runs is dropped, and the slot with it. `jobs.test.js:33` says demo, lab and cleanup actions share
  a single slot. `OneMutatingJob` speaks of jobs the table still knows.
- If `spawn` throws, the job stays `queued` for ever and holds the slot. A descendant that left
  the group and keeps the pipes holds it as well.
- A timeout that fires after a cancel turns `canceled` into `timeout`.

Of the observer:

- The last `sched_switch` of a thread comes after `sched_process_exit` and makes its
  entry again, so entries of dead threads fill the 16384 places of the map, and threads
  that find no room are not counted at all.
- When the key the walk stands at is deleted, the walk starts over and counts threads twice
  in their process's sums.
- A thread that takes on a name like `kworker` is dropped before the deltas (`runtime.cpp:724-728`), and with it what
  the agent last saw of it. When it gives the name up its whole counter counts again. `DeltasAddUp` exempts the threads of
  this and of the case before (`exempt`).

### Bounds, and why they are enough

- *Groups, controls, values.* The restore logic treats keys one by one; two keys
  of one group show partial failure, and a second transaction on the same group what an undo
  must leave alone. The theorems lift the bound altogether.
- *One re-creation of a cgroup* (`MaxInode`): the code compares two identities.
- *Agents and acts of others* (`MaxLives`, `MaxDisturbed`): leftovers need one agent before this one;
  one act of others at every possible place is what the code's checks are for. The network skills share
  nothing with each other.
- *Calls, ring, time* (`MaxCalls`, `RingSize`, `MaxTime`): four calls overfill a ring for two, reach
  both thresholds, and let one rule alert twice; windows of 1 and 2 have an event inside, at, and outside the
  edge. In `sec_events`, `EnoughLines` makes sure that the bound of the file stops no thread.
- *Jobs* (`MaxJobs`, `RecentLimit`): three jobs and a table of one are the smallest instance in which
  pruning drops a job that runs. The theorems lift both bounds.
- *Threads and ids*: three threads on three ids with room for two show reuse of an id, an entry without
  room, and a walk that starts over. A thread that is exempt is not ignored a second time, as every time adds its
  counter to the sums again.
- *A device without a hook* (`HooksFound`): the first agent creates one, the second finds it; a hook of others can come
  and go at any time. The theorems allow for one that is there before.
- *Streaks* (`StreakBound`) saturate above every threshold. They are compared
  with `>=` only, so larger values behave alike. Overflow of a 32-bit counter would
  need some centuries of windows.
- *Time* is in seconds; `Elapsed` of 1 and 2 against a cooldown of 2 gives every
  order of the clock and the windows.
- *Requests*: an id is spent only when it succeeds; failed transactions repeat
  without bound.
- *Lines and truncations* (`MaxEvents`, `MaxTruncations`): seven lines and one truncation let the file
  shrink and grow back past the offset. The theorems hold for every bound.

- *Starts and loads* (`MaxStarts`, `MaxLoads`): two processes show one replaced by
  another, two loads a process that loads itself again and a descriptor that
  outlives its maps. Two polls per loop give an early and a last one. The
  theorems hold for every bound.
- *CPUs and tasks*: two batch tasks on one CPU keep their queue from running
  empty. More CPUs only empty the queues sooner; the guard is kept per CPU.

`CHECK_DEADLOCK FALSE` is in the configurations of systems that really stop: the last agent has
exited, the skill is down and its processes are gone, all jobs are done, or (`observer`) every
thread is gone and the counters are at their bound.

### Fairness

Every fair specification has weak fairness of *one thread*, the one the code
runs without waiting for anybody: `WF(Agent)` (a transaction or restore in
progress goes on), `WF(Next)` of the control loop (sleep, then the next cycle),
`WF(Engine)`, `WF(EventThread)` (wakes up every `poll_interval_ms`), and for
`ScxSession` `WF(AgentStep)` with `WF(Reconcile)` (cycle after cycle; every
wait is a sleep of 100 ms). In `AgentSkills` it is
`WF(AgentStep)`: the agent is one thread and `run_cycles` has a fixed number of cycles. The only calls that wait for
another process run a `tc` command, without a timeout of their own; it is assumed to return. In `SecurityPolicy` the main thread while it starts or stops (`WF(SecMain)`,
not while it is up) and the event thread; `SecurityEvents` adds the engine's thread. In `JobManager` the timers,
the delivery of `close`, and the end of a process that was sent SIGKILL or of a cleanup, which has a timeout of its own. That timeout sends a
SIGTERM only, so this assumes a cleanup that obeys it, which the scripts in the repository do; no job's
process has to end because of a SIGTERM. Nothing is assumed of other writers, of the kernel's acceptance,
of the moment of a stop, of new samples, or of the scheduler process, which may
hang in any phase. In `ScxDispatch` it is the kernel that runs: a slice ends when another task
waits, a CPU without a task takes one, and time passes (`WF` of `SliceEnd`, `Pick` and
`Age` per CPU); nobody has to block, to wake up, or to change the gate.
No strong fairness is used anywhere.

## 4. What is proved

TLAPS checks every leaf; the assumptions are the named `ASSUME`s on the constants
(types, thresholds of at least 1, streak bound above the thresholds), which TLC
evaluates in every run.

**ResourceControl** - type correctness and the five safety properties the run checks. None
of them is inductive as it stands: that a stop leaves nothing needs to know what is
still pending at every point of the restore loop. `IInv` in
`ResourceControlProofs` adds that a key is written only under a snapshot
(`WriteCovered`), that everything pending is under one (`TodoHeld`), that as long as no
restore failed every snapshot is pending (`StopCovers`, `UndoCovers`), that the
value just read is not the agent's (`SeenForeign`), and that an undo never has more to
do than its transaction's keys (`UndoBounded`). Locality of the undo
(`UndoLocality`) is an action property that follows from `UndoBounded`.

**ControlLoop** - type correctness, two invariants and two action properties, for
every value of the thresholds. The strengthening relates the program's streaks to
what really happened: `activation_streak` never exceeds the run of windows with
evidence, a gate that presses was confirmed and so is whatever the mode's streaks count,
and in a limiting mode `normal_streak` counts exactly the windows since the gate pressed.

**PolicyEngine** - type correctness, that an engine in audit mode changes nothing, and the
four invariants of the runs. The second needs `AuditIdle`: in audit mode no action ever counts as applied, in the
transaction or in `active_actions_`, which is what keeps every undo and every stop from writing.

`NothingForgotten` and `OldValuesAreOthers` hold without any assumption on the contents of files: any number of
actions on one file, values that read back as something else, old values that are empty, files that cannot be opened later.
Where the code loses track of a file, `lost` says so at the step where it does, and the invariants speak of all other
files. `BooksInv` says of every file that holds what the engine set that the engine believes in it, or is busy with
an action that set it (`Claimed`), and of every entry still to be restored that its old value is another's, or one that
is believed in and that no later action of the transaction has set (`OldSound`).

The other two hold under hypotheses about the contents of files, each an `ASSUME` of its theorem:

- `UndoIsComplete`, under `Settled`: what a file holds reads back as itself when it is written
  again. Otherwise an undo that does all it should leaves another text in the file. The argument is that
  every file that differs from what it was when the transaction began belongs to an action that counts as applied, or
  to the one at hand, and that the earliest action on a file has that content as its old value (`UndoInv`).
- `BeliefsAreTrue`, under `ReadsBack`: the values that actions set read as they were
  written. `effective_desired_states_` compares the text of a request, the verification accepts others
  (`max 100000` for a `cpu.max` of `max`), so without it the file need not hold the text that is believed.

The constants of `pe_undo` satisfy `Settled`, those of `pe_books` both.

**PolicyEventLoop** - type correctness, order, and completeness up to `missed`, for any
number of lines and truncations and an arbitrary writer. The idea of `IInv` is one position `p` in the file
(the cursor while reading, the offset otherwise): ids grow along the file
(`FileGrows`), everything behind `p` is handled, missed or not matching
(`Behind`), and everything ahead of it is newer than everything handled (`Ahead`).

**ScxSession** - type correctness and the three safety properties, for any
number of starts, loads, polls and maps. `SafeInv` adds to them that every living
process is the one in the session or was replaced there (`Known`), that a
scheduler is enabled only while its process is between attach and the end of its loop, and
never one the kernel has ejected (`Owning`), and what each step of a stop has already
established of the process it ends (`Stopping`): after the identity check it is past its
exec, after SIGKILL it is a zombie until it is reaped, and a process left in the
session of a skill that is down was refused before its exec. `Known` and
`Stopping` together give the completeness of the stop.

**ScxDispatch** - type correctness, and that every task is in exactly one place (`NoTaskLost`), for any number of
tasks and CPUs. `PlaceInv` puts the queues of the scheduler, the local queues and the CPUs side by
side: within each family no task occurs twice (`Distinct`), and of the four places - with the scheduler, in a local
queue, on a CPU, asleep - every task has one and no more (`Somewhere`). Two lemmas say what taking the head of a
queue and appending to one do to a family of queues, and each callback is a composition of them.
The only assumption beside types is that the mark of an idle CPU (`Nobody`) is no task.

**SecurityEvents** - `CompositionImplements`: every behaviour of the composition is one of
`SecurityPolicy` and one of `PolicyEventLoop`, as each joint step maps to a step or a stutter of each
part. So the theorems about the reader hold with the real writer (`EventsInOrder`,
`EventLossExplained`), for any rules. Of the security policy itself: type correctness, and that the ring
outlives its reader; the strengthening (`ThreadInside`) ties the thread to the part of start and stop
in which it exists. Then `AlertsSound`: what the deque of a rate rule does is what the rule means, for any rules,
thresholds and windows. The deque holds times only, so the invariant (`HitsArePending`) gives every hit the position of
the event it stands for, in order, and says that a pending event without a hit has left the window for good. As times
never decrease, the hits that are dropped at the front are all that are too old, and what remains are as many as
the events that `AlertsAsSpecified` counts (`CountHits`, by a bijection).

**JobManager** - type correctness, `StoppedNeverSucceeds` and `OneMutatingJob`, for any number of jobs and any size
of the table. The slot gets an owner, a mutating job that was not closed or whose cleanup runs
(`Holders`); at most one owner is in the table (`OneHolder`), because a start finds none
(`FreeSlot`), and whatever is at work is an owner (`Settled`). `Marked` says that whoever was signalled
carries a mark `close` respects.

**AgentSkills** - for any set of skills with any dependencies, any faults, any number of agents and any acts of
others: the order of the start respects the dependencies (`OrderIsSound`), manager and skills implement
`SkillContract` (`Refines`), an agent that ended leaves nothing of its own (`EndIsClean`), and takes nothing away
that is not its own (`OthersAreLeftAlone`). The order is computed by a recursive function that takes one skill
from the queue of the sort at a time; it is proved sound by looking at the least step at which it would not be. The
refinement goes step by step: `LifeInv` says which skills run at every position of a start or of a way
down (`RunningInv`), and that only the skill that is being called is in the middle of anything
(`BusyInv`), so each step maps to a start, an end, or a stutter of the contract. `EndLeavesNothing` follows from an
invariant per skill that what it put into the kernel is in its books as long as it runs (`XdpHeld`, `QosHeld`,
`PolHeld`), together with that of the lease.

**WorkloadObserver** - the shape of map and books, and that the deltas add up (`NothingInvented`), for any
number of threads, ids, map entries and events. The count of a thread is what it did before its present entry in the map
(`Base`) plus what is in the entry (`Entry`). A report is `Backed` if it is no more than the base, or no
more than the base and that part of the entry the next delta will be taken from; `ReportInv` keeps this for what was
reported and for what the samples of this cycle will add. What a cycle reports of a thread is a sum along its
samples, and only the walk decides how often a thread is in them: `WalkInv` says that the walk does not pass over an
entry that was reported before, `SameInv` that the report is what was last seen while the entry stands.

Only model-checked are the liveness properties (`RestoreTerminates`, `QuietRelaxes`,
`PressureActivates`, `BegunWorkEnds`, `EventsHandled`, `EventsRecorded`, `StopEnds`, `CyclesEnd`,
`GateStateArrives`, `JobsEnd`, `AgentEnds`, `NotStranded`, `BackgroundDespiteBatch`), since fairness and `ENABLED`
are out of the prover's reach. `StopRestoresOldValues` is false, which a run shows. Every other property of a
run is a theorem.

## 5. Not modelled

- *Target resolver*: a lookup of cgroups, containers and devices in one call; its results are constants or open
  choices of the other modules.
- *Capability detector, metrics, configuration, command line*: probing, the text of atomic counters, and
  parsing; nothing takes more than a step or keeps state another part depends on.
- *Console data, server, actions*: reading of files, routing, a table.
- *Action journal*: nothing reads it back; where its failure matters (policy engine, lease) the failure is a step.
- *Packet and path matching in the BPF programs of the network skills*: comparisons without state.
- *Parsing of YAML in the skills' `configure`*: the rules it yields are constants, with what it refuses as the assumption.
- *PSI reader*: one file per cycle; the windows of `ControlLoop` are what it may yield.
- *`bpf/vmlinux.h`* (generated), third-party code, scripts, benchmarks, results and documents.

## 6. Plan

What is left, the most consequential first.

1. `StopOrder` - `PolicyEngine` and `ResourceControl` on the same cgroup files: each is the
   other's unknown writer, and the order of the stops decides what remains. Over
   both an abstract specification, `Lease`: a file is free, or held
   by one writer who knows its old value; the two modules refine it with a mapping, step by step.
2. `FailedTransactionUndone` for files that do not read back as they were written: what an undo leaves, up to
   `Accepted`.
3. `ScxSession` with a second agent that finds the scheduler of a dead one.
4. `WorkloadObserver` with CPUs, so that two handlers of the same thread race in the map.

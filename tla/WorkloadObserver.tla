-------------------------- MODULE WorkloadObserver --------------------------
(***************************************************************************)
(* How the agent learns what threads did: programs on scheduler events     *)
(* keep counters per thread id in a hash map                               *)
(* (bpf/workload_observer.bpf.c), and once per cycle the agent walks the   *)
(* keys, looks every one up, and takes the difference to what it saw in    *)
(* the cycle before (agent/src/runtime.cpp:155-339), while threads run,    *)
(* exit, and give their ids to others.                                     *)
(*                                                                         *)
(* The five counters are one here.  A thread is known by its start time,   *)
(* which is its number; a kernel that has none to offer does not load the  *)
(* programs, so the cookies of runtime.cpp:239-254 are left out.           *)
(***************************************************************************)
EXTENDS Integers, Sequences, FiniteSets, SequencesExt, FiniteSetsExt

CONSTANTS
  Tids,        \* thread ids, numbers in the order in which the map is walked
  MaxThreads,  \* bound: threads ever born
  MaxTasks,    \* EULERPILOT_MAX_TASKS
  MaxEvents    \* bound: scheduler events that count

ASSUME ObserverAssumption ==
  /\ Tids \subseteq Nat \ {0}
  /\ MaxThreads \in Nat /\ MaxTasks \in Nat /\ MaxEvents \in Nat

VARIABLES
  life,      \* thread -> "unborn", "alive", "exiting", "gone"
  tid,       \* thread -> its id
  entry,     \* task_metrics_map: tid -> [start, count], start = 0 if there is none
  step,      \* where the agent is in its cycle
  keys,      \* the keys read_samples has collected
  samples,   \* what it has found under them
  previous,  \* history.previous_samples: thread -> count, or Unknown
  reported,  \* history: thread -> the sum of all deltas
  counted,   \* history: thread -> the events that were counted for it
  broken,    \* history: threads whose entry was deleted or replaced
  exempt     \* history: threads that one cycle has read twice, or has ignored
             \* after an earlier one had counted them

kernel == <<life, tid, entry, counted, broken>>
agent  == <<step, keys, samples, previous, reported, exempt>>
vars   == <<kernel, agent>>

Threads == 1..MaxThreads
Unknown == -1
NoEntry == [start |-> 0, count |-> 0]
InMap   == {t \in Tids : entry[t] # NoEntry}
Events  == FoldFunction(+, 0, counted)

Init ==
  /\ life = [i \in Threads |-> "unborn"] /\ tid = [i \in Threads |-> 0]
  /\ entry = [t \in Tids |-> NoEntry]
  /\ step = "wait" /\ keys = <<>> /\ samples = <<>>
  /\ previous = [i \in Threads |-> Unknown]
  /\ reported = [i \in Threads |-> 0] /\ counted = [i \in Threads |-> 0]
  /\ broken = {} /\ exempt = {}
-----------------------------------------------------------------------------
(* The kernel.                                                             *)

\* An id is free once its thread is reaped, which may be before the thread has
\* left the CPU for the last time.
Born(i, t) ==
  /\ life[i] = "unborn" /\ \A j \in 1..i - 1 : life[j] # "unborn"
  /\ \A j \in Threads : life[j] = "alive" => tid[j] # t
  /\ life' = [life EXCEPT ![i] = "alive"] /\ tid' = [tid EXCEPT ![i] = t]
  /\ UNCHANGED <<entry, counted, broken, agent>>

\* get_or_init_task: a new entry if there is room, and a fresh one in place of
\* an entry of another thread; then the handler counts in it.
Room(t) == entry[t] # NoEntry \/ Cardinality(InMap) < MaxTasks
Counted(i) ==
  IF ~Room(tid[i]) THEN UNCHANGED <<entry, counted, broken>>
  ELSE LET old == entry[tid[i]]
           count == IF old.start = i THEN old.count + 1 ELSE 1
       IN /\ entry' = [entry EXCEPT ![tid[i]] = [start |-> i, count |-> count]]
          /\ counted' = [counted EXCEPT ![i] = @ + 1]
          /\ broken' = broken \cup ({old.start} \ {0, i})

\* sched_wakeup, sched_switch, sched_migrate_task
SchedEvent(i) ==
  /\ life[i] \in {"alive", "exiting"}
  /\ Events < MaxEvents
  /\ Counted(i)
  /\ UNCHANGED <<life, tid, agent>>

\* sched_process_exit deletes the entry, the thread still runs.
ProcessExit(i) ==
  /\ life[i] = "alive"
  /\ life' = [life EXCEPT ![i] = "exiting"]
  /\ entry' = [entry EXCEPT ![tid[i]] = NoEntry]
  /\ broken' = broken \cup ({entry[tid[i]].start} \ {0})
  /\ UNCHANGED <<tid, counted, agent>>

\* The last sched_switch of a thread makes an entry for it again.
LastSwitch(i) ==
  /\ life[i] = "exiting"
  /\ Events < MaxEvents
  /\ life' = [life EXCEPT ![i] = "gone"]
  /\ Counted(i)
  /\ UNCHANGED <<tid, agent>>
-----------------------------------------------------------------------------
(* The agent.                                                              *)

\* bpf_map_get_next_key starts over when its key is no longer there.
NextKeys(key) == IF key \in InMap THEN {t \in InMap : t > key} ELSE InMap

\* read_samples, the first loop.  Bound: at most two passes.
CollectKey ==
  /\ step \in {"wait", "keys"}
  /\ Len(keys) < 2 * Cardinality(Tids)
  /\ LET next == NextKeys(IF keys = <<>> THEN 0 ELSE Last(keys))
     IN IF next = {} THEN step' = "lookup" /\ UNCHANGED keys
                     ELSE step' = "keys" /\ keys' = Append(keys, Min(next))
  /\ UNCHANGED <<kernel, samples, previous, reported, exempt>>

\* The second loop, and should_ignore_sample of what it has found.  What is gone
\* by now is left out, and so is a thread with the name of a kernel thread, which
\* any thread may take on and give up.  Bound: none that is exempt does it again.
LookUp ==
  /\ step = "lookup" /\ keys # <<>>
  /\ keys' = Tail(keys)
  /\ LET key == Head(keys)
         who == entry[key].start
     IN  \/ key \notin InMap /\ UNCHANGED <<samples, exempt>>
         \/ key \in InMap /\ samples' = Append(samples, entry[key]) /\ UNCHANGED exempt
         \/ /\ key \in InMap /\ who \notin exempt /\ UNCHANGED samples
            /\ exempt' = exempt \cup (IF reported[who] > 0 THEN {who} ELSE {})
  /\ UNCHANGED <<kernel, step, previous, reported>>

SamplesOf(i) == {n \in 1..Len(samples) : samples[n].start = i}

\* The difference for whoever had the id before.
PreviousOf_tid(i) ==
  LET Same == {j \in Threads : tid[j] = tid[i] /\ previous[j] # Unknown}
  IN IF Same = {} THEN Unknown ELSE previous[Max(Same)]

\* resolve_task_identity
PreviousOf(i) == previous[i]

\* safe_counter_delta, and the whole counter of a thread that was not there.
Delta(count, last) == IF last # Unknown /\ count >= last THEN count - last ELSE count

\* The sum of the deltas of a thread's samples.
Deltas(i) ==
  LET Sum[n \in 0..Len(samples)] ==
        IF n = 0 THEN 0
        ELSE IF samples[n].start = i THEN Sum[n - 1] + Delta(samples[n].count, PreviousOf(i))
        ELSE Sum[n - 1]
  IN  Sum[Len(samples)]

\* compute_sample_deltas: every sample is compared with the cycle before, and
\* the last one of a thread is what the next cycle compares with.
Compute ==
  /\ step = "lookup" /\ keys = <<>>
  /\ reported' = [i \in Threads |-> reported[i] + Deltas(i)]
  /\ previous' = [i \in Threads |-> IF SamplesOf(i) = {} THEN Unknown
                                    ELSE samples[Max(SamplesOf(i))].count]
  /\ exempt' = exempt \cup {i \in Threads : \E m, n \in SamplesOf(i) : m # n}
  /\ step' = "wait" /\ samples' = <<>>
  /\ UNCHANGED <<kernel, keys>>

Cycle == CollectKey \/ LookUp \/ Compute

Next ==
  \/ \E i \in Threads, t \in Tids : Born(i, t)
  \/ \E i \in Threads : SchedEvent(i) \/ ProcessExit(i) \/ LastSwitch(i)
  \/ Cycle

Spec == Init /\ [][Next]_vars
-----------------------------------------------------------------------------
\* The deltas of a thread never add up to more than what it did, whoever has its
\* id before or after it, and add up to exactly what the agent last saw while
\* its entry is not taken away from it.  A thread is exempt once a cycle has read
\* its key twice, because another thread's exit made the walk start over, or has
\* ignored it for its name after an earlier one counted it: the agent then
\* forgets what it saw and counts the whole counter again
\* (runtime.cpp:155-183, 293-339, 724-728, workload_observer.bpf.c:24-53).
DeltasAddUp ==
  \A i \in Threads \ exempt :
    /\ reported[i] <= counted[i]
    /\ i \notin broken /\ previous[i] # Unknown => reported[i] = previous[i]
=============================================================================

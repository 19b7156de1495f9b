---------------------------- MODULE ScxDispatch ----------------------------
(***************************************************************************)
(* The sched_ext scheduler (sched/scx_eulerpilot.bpf.c): which queue a     *)
(* task is put into, and which queue a CPU takes its next task from.       *)
(*                                                                         *)
(* The agent writes the class map and the gate's state, which the          *)
(* scheduler reads at every enqueue.  A queue keeps what was put into it   *)
(* when either changes.  A slice is finite, its length does not matter     *)
(* here; of the time since a CPU last dispatched a background task only    *)
(* whether it exceeds background_starvation_ns does.  The order of the     *)
(* shared queue, by virtual time, is left open.                            *)
(*                                                                         *)
(* What the kernel does around the callbacks (external): a CPU whose       *)
(* current task has used its slice calls dispatch first and enqueues that  *)
(* task afterwards, if another one was found.                              *)
(***************************************************************************)
EXTENDS Integers, Sequences, SequencesExt

CONSTANTS
  Tasks, Cpus,
  GateStates,   \* what the gate_state_map may hold, "active" among them
  MayBe,        \* the classes the class map may hold for each task
  Fifo          \* fifo_sched: the shared queue is first in, first out

Classes == {"normal", "latency", "batch", "background"}
Nobody  == "nobody"

ASSUME DispatchAssumption ==
  /\ Nobody \notin Tasks
  /\ MayBe \in [Tasks -> SUBSET Classes] /\ "active" \in GateStates
  /\ Fifo \in BOOLEAN

VARIABLES
  gate,      \* the state in gate_state_map
  class,     \* class_map; a missing or invalid entry counts as "normal"
  dsq,       \* the queues the scheduler creates
  local,     \* SCX_DSQ_LOCAL of each CPU
  running,   \* the task on each CPU, or Nobody
  asleep,    \* tasks that are not runnable
  starved    \* CPUs for which background_starved() is true

dspVars == <<gate, class, dsq, local, running, asleep, starved>>

Queues == {"latency", "batch", "background", "shared"}

DspInit ==
  /\ gate = "normal"                      \* the map is zero at first
  /\ class = [t \in Tasks |-> "normal"]
  /\ dsq = [q \in Queues |-> <<>>]
  /\ local = [c \in Cpus |-> <<>>]
  /\ running = [c \in Cpus |-> Nobody]
  /\ asleep = Tasks
  /\ starved = Cpus                       \* last_bg_dispatch_ns = 0
-----------------------------------------------------------------------------
\* Classified queues are used in the state ACTIVE only.
SelectDsq(t) == IF gate = "active" /\ class[t] # "normal" THEN class[t] ELSE "shared"

\* No return after the first insertion: the shared queue gets the task as well.
Enqueue_twice(queues, t) ==
  LET q == SelectDsq(t)
  IN  dsq' = [p \in Queues |-> IF p \in {q, "shared"} THEN Append(queues[p], t) ELSE queues[p]]

\* eulerpilot_enqueue: first in, first out, or by virtual time.
Enqueue(queues, t) ==
  LET q == SelectDsq(t)
  IN  IF q # "shared" \/ Fifo
      THEN dsq' = [queues EXCEPT ![q] = Append(@, t)]
      ELSE \E i \in 1..(Len(queues[q]) + 1) : dsq' = [queues EXCEPT ![q] = InsertAt(@, i, t)]

\* A task wakes up.  eulerpilot_select_cpu puts it on an idle CPU if it finds
\* one, whatever its class and the gate; enqueue is then not called.
Wake(t) ==
  /\ t \in asleep
  /\ asleep' = asleep \ {t}
  /\ \/ \E c \in Cpus :
          /\ running[c] = Nobody /\ local[c] = <<>>
          /\ local' = [local EXCEPT ![c] = Append(@, t)]
          /\ UNCHANGED dsq
     \/ /\ Enqueue(dsq, t)
        /\ UNCHANGED local
  /\ UNCHANGED <<gate, class, running, starved>>

\* No starvation guard.
Selected_unguarded(c) ==
  LET Order == <<"latency", "batch", "background", "shared">>
      Filled == {i \in DOMAIN Order : dsq[Order[i]] # <<>>}
  IN  IF Filled = {} THEN {} ELSE {Order[CHOOSE i \in Filled : \A j \in Filled : i <= j]}

\* While the gate is not active, classified queues are not looked at.
Selected_gated(c) ==
  LET Order == IF gate = "active" THEN <<"latency", "batch", "background", "shared">>
               ELSE <<"shared">>
      Filled == {i \in DOMAIN Order : dsq[Order[i]] # <<>>}
  IN  IF Filled = {} THEN {} ELSE {Order[CHOOSE i \in Filled : \A j \in Filled : i <= j]}

\* eulerpilot_dispatch: the queue it takes a task from, if any.
Selected(c) ==
  LET Order == <<"latency">> \o (IF c \in starved THEN <<"background">> ELSE <<>>)
                 \o <<"batch", "background", "shared">>
      Filled == {i \in DOMAIN Order : dsq[Order[i]] # <<>>}
  IN  IF Filled = {} THEN {} ELSE {Order[CHOOSE i \in Filled : \A j \in Filled : i <= j]}

\* The task moved from queue q runs; note_background_dispatch.
Take(c, q) ==
  /\ running' = [running EXCEPT ![c] = Head(dsq[q])]
  /\ starved' = IF q = "background" THEN starved \ {c} ELSE starved

\* What the CPU's local queue holds runs, or what dispatch moves into it.
RunNext(c) ==
  \/ /\ local[c] # <<>>
     /\ running' = [running EXCEPT ![c] = Head(local[c])]
     /\ local' = [local EXCEPT ![c] = Tail(@)]
     /\ UNCHANGED <<dsq, starved>>
  \/ /\ local[c] = <<>>
     /\ \E q \in Selected(c) :
          /\ Take(c, q)
          /\ dsq' = [dsq EXCEPT ![q] = Tail(@)]
     /\ UNCHANGED local

\* A CPU without a task runs one that was queued meanwhile.
Pick(c) ==
  /\ running[c] = Nobody
  /\ RunNext(c)
  /\ UNCHANGED <<gate, class, asleep>>

\* The slice is over and dispatch finds another task: the two change places.
SliceEnd(c) ==
  /\ running[c] # Nobody
  /\ \E q \in Selected(c) :
       /\ Take(c, q)
       /\ Enqueue([dsq EXCEPT ![q] = Tail(@)], running[c])
  /\ UNCHANGED <<gate, class, local, asleep>>

\* The running task sleeps; the CPU is idle only if there is no other.
Block(c) ==
  /\ running[c] # Nobody
  /\ asleep' = asleep \cup {running[c]}
  /\ \/ RunNext(c)
     \/ /\ local[c] = <<>> /\ Selected(c) = {}
        /\ running' = [running EXCEPT ![c] = Nobody]
        /\ UNCHANGED <<dsq, local, starved>>
  /\ UNCHANGED <<gate, class>>

\* background_starvation_ns have passed since the last dispatch from "background".
Age(c) ==
  /\ c \notin starved
  /\ starved' = starved \cup {c}
  /\ UNCHANGED <<gate, class, dsq, local, running, asleep>>

\* update_scx_gate_state, init_gate_state_defaults and --gate-set.
SetGate(g) ==
  /\ gate' = g
  /\ UNCHANGED <<class, dsq, local, running, asleep, starved>>

\* update_scx_class_map: an entry is written, or deleted when the process is gone.
SetClass(t) ==
  /\ \E k \in MayBe[t] \cup {"normal"} : class' = [class EXCEPT ![t] = k]
  /\ UNCHANGED <<gate, dsq, local, running, asleep, starved>>

DspNext ==
  \/ \E t \in Tasks : Wake(t) \/ SetClass(t)
  \/ \E c \in Cpus : Pick(c) \/ SliceEnd(c) \/ Block(c) \/ Age(c)
  \/ \E g \in GateStates : SetGate(g)

DspSpec == DspInit /\ [][DspNext]_dspVars

\* Slices end, idle CPUs look for work, time passes.
DspFairSpec == DspSpec /\ \A c \in Cpus : WF_dspVars(Pick(c)) /\ WF_dspVars(SliceEnd(c)) /\ WF_dspVars(Age(c))
-----------------------------------------------------------------------------
DspTypeOK ==
  /\ gate \in GateStates \cup {"normal"}
  /\ class \in [Tasks -> Classes]
  /\ dsq \in [Queues -> Seq(Tasks)]
  /\ local \in [Cpus -> Seq(Tasks)]
  /\ running \in [Cpus -> Tasks \cup {Nobody}]
  /\ asleep \subseteq Tasks
  /\ starved \subseteq Cpus

\* Where a task is: places that hold it, each with the number of times it does.
Copies(s, t) == {i \in DOMAIN s : s[i] = t}

Places(t) ==
  (UNION {{<<q, i>> : i \in Copies(dsq[q], t)} : q \in Queues})
  \cup (UNION {{<<c, i>> : i \in Copies(local[c], t)} : c \in Cpus})
  \cup {<<c, 0>> : c \in {d \in Cpus : running[d] = t}}
  \cup (IF t \in asleep THEN {<<"asleep", 0>>} ELSE {})

\* Between wake-ups, slices and changes of the gate no task is lost or doubled.
OnePlace == \A t \in Tasks : \E p \in Places(t) : Places(t) = {p}

In(q, t) == Copies(dsq[q], t) # {}
Classified(t) == \E q \in Queues \ {"shared"} : In(q, t)

\* No task is stranded in a classified queue after the gate has left ACTIVE, nor
\* while the map is missing or invalid (the comment in eulerpilot_dispatch).
NotStranded == <>[](gate # "active") => \A t \in Tasks : <>[]~Classified(t)

\* However busy the batch queue is, a background task gets its turn, as long
\* as no latency task is waiting.
BackgroundDespiteBatch ==
  <>[](dsq["latency"] = <<>>) =>
    \A t \in Tasks : In("background", t) ~> ~In("background", t)
=============================================================================

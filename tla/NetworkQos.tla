----------------------------- MODULE NetworkQos -----------------------------
(***************************************************************************)
(* The network_qos skill (agent/src/builtin_skills/network_qos.cpp): a     *)
(* clsact hook with a classifier on it, and a tbf qdisc at the root of one *)
(* lab device.  Every command to tc and every call of libbpf is a step.    *)
(***************************************************************************)
EXTENDS SkillManager

CONSTANT HooksFound  \* of {"none", "other"}: whose clsact hook the first agent finds

VARIABLES
  root,         \* whose qdisc is at the root of the device (the kernel's): "own",
                \* "old" and "rival" are tbf, "rival" of another manager
  hook,         \* who created the clsact hook (the kernel's)
  filters,      \* whose filters are on its egress side (the kernel's)
  hookCreated,  \* tc_hook_created_
  tcAttached,   \* tc_attached_
  tbfAttached,  \* tbf_attached_
  qdiscAfter,   \* tbf_qdisc_after_: what tc showed after the start
  qosRunning,   \* running_
  qosMode,      \* mode_
  qosAt         \* the next step of the call that is active

qosKernel == <<root, hook, filters>>
qosFlags  == <<hookCreated, tcAttached, tbfAttached, qdiscAfter>>
qosVars   == <<qosKernel, qosFlags, qosRunning, qosMode, qosAt>>

\* What "tc qdisc show" prints: the root qdisc and whether there is a hook (each
\* qdisc has a handle of its own); nothing when the command fails.
NoOutput == <<>>
Output   == <<root, hook # "none">>
Shown    == {Output} \cup (IF "show" \in Faults THEN {NoOutput} ELSE {})

QosInit ==
  /\ root = "none" /\ hook \in HooksFound /\ filters = {}
  /\ hookCreated = FALSE /\ tcAttached = FALSE /\ tbfAttached = FALSE
  /\ qdiscAfter = NoOutput
  /\ qosRunning = FALSE /\ qosMode \in Modes /\ qosAt = "idle"

Inherited(owner) == IF owner = "own" THEN "old" ELSE owner

\* Qdisc, hook and filter stay when their agent dies.
QosReset ==
  /\ root' = Inherited(root) /\ hook' = Inherited(hook)
  /\ filters' = {Inherited(f) : f \in filters}
  /\ hookCreated' = FALSE /\ tcAttached' = FALSE /\ tbfAttached' = FALSE
  /\ qdiscAfter' = NoOutput
  /\ qosRunning' = FALSE /\ qosAt' = "idle"
  /\ UNCHANGED qosMode
-----------------------------------------------------------------------------
QosIn(function, step) == InCall("network_qos", function) /\ qosAt = step

QosGo(step) == qosAt' = step /\ UNCHANGED managerVars

QosDone(result) == qosAt' = "idle" /\ Return(result)

\* probe, init and start up to the hook: a root qdisc that is already there is
\* refused, but a device whose qdiscs cannot be listed has none.
QosStart ==
  /\ QosIn("start", "idle")
  /\ \/ QosDone("failed") /\ UNCHANGED qosRunning
     \/ qosMode = "audit" /\ qosRunning' = TRUE /\ QosDone("ok")
     \/ /\ qosMode = "enforce"
        /\ \E seen \in Shown :
             IF seen # NoOutput /\ seen[1] # "none" THEN QosDone("failed")
             ELSE QosGo("hook") \/ QosGo("look")
        /\ UNCHANGED qosRunning
  /\ UNCHANGED <<qosKernel, qosFlags, qosMode>>

\* bpf_tc_hook_create
QosHook ==
  /\ QosIn("start", "hook")
  /\ \/ QosGo("look") /\ UNCHANGED <<hook, hookCreated>>
     \/ /\ hook' = IF hook = "none" THEN "own" ELSE hook
        /\ hookCreated' = (hook = "none")
        /\ QosGo("attach")
  /\ UNCHANGED <<root, filters, tcAttached, tbfAttached, qdiscAfter, qosRunning, qosMode>>

\* bpf_tc_attach with a fixed handle and priority, which an earlier agent's
\* filter may still hold.
QosAttach ==
  /\ QosIn("start", "attach")
  /\ \/ QosGo("look") /\ UNCHANGED <<filters, tcAttached>>
     \/ /\ hook # "none" /\ "old" \notin filters
        /\ filters' = filters \cup {"own"} /\ tcAttached' = TRUE
        /\ QosGo("replace")
  /\ UNCHANGED <<root, hook, hookCreated, tbfAttached, qdiscAfter, qosRunning, qosMode>>

\* tc qdisc replace ... root tbf
QosReplace ==
  /\ QosIn("start", "replace")
  /\ \/ QosGo("look") /\ UNCHANGED root
     \/ root' = "own" /\ QosGo("verify")
  /\ UNCHANGED <<hook, filters, qosFlags, qosRunning, qosMode>>

\* The end of apply_tbf_qdisc: any tbf will do, and whatever is listed is what
\* the rollback compares with.
IsTbf(seen) == seen # NoOutput /\ seen[1] \in {"own", "old", "rival"}

QosVerify ==
  /\ QosIn("start", "verify")
  /\ \E seen \in Shown :
       /\ qdiscAfter' = seen
       /\ IF IsTbf(seen)
            THEN tbfAttached' = TRUE /\ qosRunning' = TRUE /\ QosDone("ok")
            ELSE QosGo("look") /\ UNCHANGED <<tbfAttached, qosRunning>>
  /\ UNCHANGED <<qosKernel, hookCreated, tcAttached, qosMode>>

\* rollback, called by a start that fails, by the manager, and by stop.
QosRollback == \/ QosIn("start", "look")
               \/ QosIn("rollback", "idle") \/ QosIn("stop", "idle")

QosResult == IF call = "start" THEN "failed" ELSE "ok"

QosLook ==
  /\ QosRollback
  /\ \E seen \in Shown :
       QosGo(IF tbfAttached /\ qdiscAfter # NoOutput /\ seen = qdiscAfter
               THEN "delete" ELSE "detach")
  /\ UNCHANGED <<qosKernel, qosFlags, qosRunning, qosMode>>

\* tc qdisc del ... root, whatever is there and whether or not it succeeds.
QosDelete ==
  /\ qosAt = "delete"
  /\ \/ root' = "none"
     \/ "tc" \in Faults /\ UNCHANGED root
  /\ tbfAttached' = FALSE
  /\ QosGo("detach")
  /\ UNCHANGED <<hook, filters, hookCreated, tcAttached, qdiscAfter, qosRunning, qosMode>>

\* bpf_tc_detach and bpf_tc_hook_destroy, whose results are ignored.  Called for
\* one side of the hook (BPF_TC_EGRESS) the second takes every filter on that side
\* along, and leaves the clsact qdisc.
QosDetach ==
  /\ qosAt = "detach"
  /\ LET detached == IF tcAttached THEN filters \ {"own"} ELSE filters
     IN \/ filters' = IF hookCreated THEN {} ELSE detached
        \/ "tc" \in Faults /\ filters' \in {filters, detached}
  /\ hookCreated' = FALSE /\ tcAttached' = FALSE /\ qosRunning' = FALSE
  /\ QosDone(QosResult)
  /\ UNCHANGED <<root, hook, tbfAttached, qdiscAfter, qosMode>>

QosNext == \/ QosStart \/ QosHook \/ QosAttach \/ QosReplace \/ QosVerify
           \/ QosLook \/ QosDelete \/ QosDetach
-----------------------------------------------------------------------------
\* Somebody else sets or removes the root qdisc (a tbf or another one) or the
\* hook, or puts a filter on the hook.
QosOther ==
  /\ \/ \E owner \in {"none", "other", "rival"} \ {root} : root' = owner /\ UNCHANGED <<hook, filters>>
     \/ /\ hook' = IF hook = "none" THEN "other" ELSE "none"
        /\ filters' = {} /\ UNCHANGED root
     \/ /\ hook # "none" /\ "other" \notin filters
        /\ filters' = filters \cup {"other"} /\ UNCHANGED <<root, hook>>
  /\ UNCHANGED <<qosFlags, qosRunning, qosMode, qosAt>>
=============================================================================

----------------------------- MODULE NetworkXdp -----------------------------
(***************************************************************************)
(* The network_xdp skill (agent/src/builtin_skills/network_xdp.cpp): one   *)
(* generic XDP program on one lab device, which has room for one.  Every   *)
(* look at the device and every change to it is a step, so that whoever    *)
(* else manages the device acts in between.  The rules and counters inside *)
(* the program are left out.                                               *)
(***************************************************************************)
EXTENDS SkillManager

VARIABLES
  xdp,          \* whose program is on the device (the kernel's): "own", of this
                \* agent, "old", of one before it, "other", of anybody else
  xdpAttached,  \* xdp_attached_
  xdpRunning,   \* running_
  xdpMode,      \* mode_
  xdpAt         \* the next step of the call that is active

xdpVars == <<xdp, xdpAttached, xdpRunning, xdpMode, xdpAt>>

XdpInit ==
  /\ xdp = "none" /\ xdpAttached = FALSE /\ xdpRunning = FALSE
  /\ xdpMode \in Modes
  /\ xdpAt = "idle"

\* A program attached by netlink stays when its agent dies.
XdpReset ==
  /\ xdp' = IF xdp = "own" THEN "old" ELSE xdp
  /\ xdpAttached' = FALSE /\ xdpRunning' = FALSE /\ xdpAt' = "idle"
  /\ UNCHANGED xdpMode
-----------------------------------------------------------------------------
XdpIn(function, step) == InCall("network_xdp", function) /\ xdpAt = step

XdpGo(step) == xdpAt' = step /\ UNCHANGED managerVars

XdpDone(result) == xdpAt' = "idle" /\ Return(result)

\* query_current_xdp_prog_id; "unknown" when it fails.
XdpQuery == {xdp} \cup (IF "query" \in Faults THEN {"unknown"} ELSE {})

\* probe, init and start up to the attachment.  Audit attaches nothing.
XdpStart ==
  /\ XdpIn("start", "idle")
  /\ \/ XdpDone("failed") /\ UNCHANGED <<xdpRunning, xdpAttached>>
     \/ xdpMode = "audit" /\ xdpRunning' = TRUE /\ XdpDone("ok") /\ UNCHANGED xdpAttached
     \/ /\ xdpMode = "enforce"
        /\ \/ XdpGo("attach")
           \/ XdpGo("look")  \* a load that fails goes straight to rollback
        /\ UNCHANGED <<xdpRunning, xdpAttached>>
  /\ UNCHANGED <<xdp, xdpMode>>

\* Without the flag.
XdpAttach_replaces ==
  /\ XdpIn("start", "attach")
  /\ \/ xdp' = "own" /\ XdpGo("verify")
     \/ UNCHANGED xdp /\ XdpGo("look")
  /\ UNCHANGED <<xdpAttached, xdpRunning, xdpMode>>

\* XDP_FLAGS_UPDATE_IF_NOEXIST: only if the device has no program.
XdpAttach ==
  /\ XdpIn("start", "attach")
  /\ \/ xdp = "none" /\ xdp' = "own" /\ XdpGo("verify")
     \/ UNCHANGED xdp /\ XdpGo("look")
  /\ UNCHANGED <<xdpAttached, xdpRunning, xdpMode>>

XdpVerify ==
  /\ XdpIn("start", "verify")
  /\ \E seen \in XdpQuery :
       IF seen = "own"
         THEN xdpAttached' = TRUE /\ xdpRunning' = TRUE /\ XdpDone("ok")
         ELSE XdpGo("look") /\ UNCHANGED <<xdpAttached, xdpRunning>>
  /\ UNCHANGED <<xdp, xdpMode>>

\* rollback, called by a start that fails, by the manager, and by stop.
XdpRollback == \/ XdpIn("start", "look")
               \/ XdpIn("rollback", "idle") \/ XdpIn("stop", "idle")

XdpResult == IF call = "start" THEN "failed" ELSE "ok"

\* A query that fails is not a mismatch.
XdpLook ==
  /\ XdpRollback
  /\ \/ /\ xdpAttached
        /\ \E seen \in XdpQuery : seen \in {"own", "none", "unknown"}
        /\ XdpGo("detach") /\ UNCHANGED xdpRunning
     \/ /\ xdpAttached => xdp \in {"old", "other"}  \* refused
        /\ xdpRunning' = FALSE /\ XdpDone(XdpResult)
  /\ UNCHANGED <<xdp, xdpAttached, xdpMode>>

\* bpf_xdp_detach names no program: it takes off what is there.  Its result is
\* ignored.
XdpDetach ==
  /\ xdpAt = "detach"
  /\ \/ xdp' = "none"
     \/ "query" \in Faults /\ UNCHANGED xdp
  /\ xdpAttached' = FALSE /\ xdpRunning' = FALSE
  /\ XdpDone(XdpResult)
  /\ UNCHANGED xdpMode

XdpNext == XdpStart \/ XdpAttach \/ XdpVerify \/ XdpLook \/ XdpDetach
-----------------------------------------------------------------------------
\* Somebody else puts a program on the device, replaces one, or takes it off.
XdpOther ==
  /\ \E owner \in {"none", "other"} \ {xdp} : xdp' = owner
  /\ UNCHANGED <<xdpAttached, xdpRunning, xdpMode, xdpAt>>
=============================================================================

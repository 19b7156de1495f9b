-------------------------- MODULE MCSecurityEvents --------------------------
(***************************************************************************)
(* A small instance of SecurityEvents: one tracepoint, and an alert at     *)
(* every event.                                                            *)
(***************************************************************************)
EXTENDS SecurityEvents

MCHooks == <<"sys_enter_execve">>

MCRules == << >>

MCRateRules == <<[syscall |-> "execve", ref |-> AnyRef, objects |-> Objects,
                  threshold |-> 1, window |-> 1]>>
=============================================================================

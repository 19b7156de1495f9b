-------------------------- MODULE MCSecurityPolicy --------------------------
(***************************************************************************)
(* A small instance of SecurityPolicy: one hook that is only attached when *)
(* asked for, a rule that denies in a cgroup and one that audits all over, *)
(* a rate rule for the opens that were denied and one for all of them.     *)
(***************************************************************************)
EXTENDS SecurityPolicy

MCHooks == <<"lsm_file_open", "lsm_capable", "sys_enter_openat">>

MCRules == <<[hook |-> "lsm_file_open", objects |-> {"secret"}, group |-> "scoped",
              enforce |-> TRUE, ref |-> "demo"],
             [hook |-> "lsm_file_open", objects |-> {"secret"}, group |-> Everywhere,
              enforce |-> FALSE, ref |-> "audit"]>>

MCRateRules == <<[syscall |-> "openat", ref |-> "demo", objects |-> Objects,
                  threshold |-> 2, window |-> 1],
                 [syscall |-> "openat", ref |-> AnyRef, objects |-> Objects,
                  threshold |-> 3, window |-> 2]>>
=============================================================================

--------------------------- MODULE MCAgentSkills ---------------------------
(***************************************************************************)
(* Small instances of AgentSkills: skills in the order of skills.yaml, the *)
(* policy engine depending on one of them, which once is disabled.         *)
(***************************************************************************)
EXTENDS AgentSkills

MCList == <<"policy_engine", "network_policy", "network_qos", "network_xdp">>

MCDeps == [s \in Skills |-> IF s = "policy_engine" THEN {"network_qos"} ELSE {}]

MCConfigs == {[list |-> MCList, enabled |-> e, deps |-> MCDeps] :
                e \in {Skills, Skills \ {"network_qos"}}}
=============================================================================

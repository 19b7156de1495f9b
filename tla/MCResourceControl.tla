------------------------- MODULE MCResourceControl -------------------------
(***************************************************************************)
(* Small instances of ResourceControl.  The settings are the ones of       *)
(* configs/skills.yaml seen through the profiles: "latency" and "mixed"    *)
(* differ for the background group only in cpu.weight (100 and 5), because *)
(* every profile that names a group selects the pressure settings.         *)
(***************************************************************************)
EXTENDS ResourceControl

MCControls == <<"weight", "quota">>

\* "def": the kernel's default; "op": written by an operator; "odd" is
\* accepted but read back rounded (memory.high that is not page aligned), and
\* "cap" with a second field (a cpu.max of "max"), in which it is recognised.
MCValues == {"def", "op", "light", "heavy", "cap", "capfull", "odd", "rounded"}

MCReadback == [v \in MCValues |-> CASE v = "odd" -> "rounded"
                                    [] v = "cap" -> "capfull"
                                    [] OTHER -> v]
MCAccepted == [v \in MCValues |-> IF v = "cap" THEN {"cap", "capfull"} ELSE {v}]

PlanTable == [latency   |-> <<"light", "cap">>,
              mixed     |-> <<"heavy", "cap">>,
              unaligned |-> <<"skip", "odd">>,
              reclaim   |-> <<"skip", "skip">>]

MCPlanValue ==
  [p \in Plans |->
     [f \in {"weight", "quota", "memory.reclaim"} \cap Files |->
        CASE f = "weight" -> PlanTable[p][1]
          [] f = "quota" -> PlanTable[p][2]
          [] OTHER -> IF p = "reclaim" THEN "cap" ELSE "skip"]]

MCPlanGroup == [p \in Plans |-> "background"]

MCControlsReclaim == <<"weight", "quota", "memory.reclaim">>
=============================================================================

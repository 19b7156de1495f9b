\* One cgroup, three controls of which one is refused, a value the kernel rounds,
\* everything the environment can do.
SPECIFICATION FairSpec
CONSTANTS
  Groups = {"background"}
  Controls <- MCControlsReclaim
  Irreversible = {"memory.reclaim"}
  Values <- MCValues
  Skip = "skip"
  Initial = "def"
  EnvValues = {"op"}
  Readback <- MCReadback
  Accepted <- MCAccepted
  Plans = {"mixed", "unaligned", "reclaim"}
  PlanGroup <- MCPlanGroup
  PlanValue <- MCPlanValue
  ExplicitPlans = {"mixed"}
  Pids = {1}
  Outside = "outside"
  MaxInode = 1
  NoSnapshot = NoSnapshot
  Disturbances = {"env", "open", "reject", "recreate", "crash"}
INVARIANTS AgentValuesAccounted RestoreValueForeign SuccessfulStopLeavesNothing FailedAssignUndone
PROPERTIES UndoIsLocal RestoreTerminates

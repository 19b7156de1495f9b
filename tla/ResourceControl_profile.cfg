\* Nobody interferes; the profile goes from latency to mixed.
SPECIFICATION Spec
CONSTANTS
  Groups = {"background"}
  Controls <- MCControls
  Irreversible = {}
  Values <- MCValues
  Skip = "skip"
  Initial = "def"
  EnvValues = {"op"}
  Readback <- MCReadback
  Accepted <- MCAccepted
  Plans = {"latency", "mixed"}
  PlanGroup <- MCPlanGroup
  PlanValue <- MCPlanValue
  ExplicitPlans = {"mixed"}
  Pids = {1}
  Outside = "outside"
  MaxInode = 0
  NoSnapshot = NoSnapshot
  Disturbances = {}
INVARIANT StopRestoresOldValues

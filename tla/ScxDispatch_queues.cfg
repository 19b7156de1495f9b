\* Two batch tasks keep the only CPU busy beside a latency and a background task.
SPECIFICATION DspFairSpec
CONSTANTS
  Tasks = {"l1", "b1", "b2", "g"}
  Cpus = {"c1"}
  GateStates = {"normal", "active", "cooldown"}
  MayBe <- MCMayBe
  Fifo = FALSE
INVARIANT OnePlace
PROPERTIES NotStranded BackgroundDespiteBatch

\* Two starts, a reload, everything the process, the kernel and others can do.
SPECIFICATION FairSpec
CONSTANTS
  Maps <- MCMaps
  MaxStarts = 2
  MaxLoads = 2
  Polls = 2
  Disturbances = {"die", "eject", "external", "pinfail", "noseq"}
INVARIANTS RecordedUnreaped EnabledIsRecorded StopLeavesNoScheduler
PROPERTIES CyclesEnd GateStateArrives
CHECK_DEADLOCK FALSE

\* Every gate mode, every trigger context, three warm-up cycles, a fair cycle.
SPECIFICATION FairSpec
CONSTANTS
  Windows <- MCWindows
  GateModes = {"psi", "normal", "always-active"}
  ActivationWindows = 2
  RecoveryWindows = 3
  CooldownTime = 2
  Elapsed = {1, 2}
  EnterLatency = 2
  EnterMixed = 2
  ExitToNormal = 5
  Warmup = 3
  ThroughputFirst = TRUE
  StreakBound = 5
INVARIANTS NoHastyLimit ModeFollowsGate
PROPERTIES QuietRelaxes PressureActivates NoEarlyRelease

\* Two actions on one file, one of which memory is too low for at times, and one on a
\* device; everything may fail.
SPECIFICATION Spec
CONSTANTS
  NumActions = 3
  Guarded = {1}
  Files = {"cpu", "veth"}
  Netdevs = {"veth"}
  ActionFile <- MCActionFileTwice
  ActionValue <- MCActionValueTwice
  Values <- MCValues
  Initial <- MCInitial
  Empty = ""
  EnvValues <- MCEnvValues
  Readback <- MCReadback
  Accepted <- MCAccepted
  Requests = {r1, r2}
  Modes = {"audit", "enforce"}
  Disturbances = {"env", "open", "reject", "guard", "journal"}
INVARIANTS FailedTransactionUndone AuditChangesNothing AgentValuesKnown OldValuesForeign
SYMMETRY RequestSymmetry

\* Three files, one of which nobody else writes, two events that succeed and any
\* number that fail: what is believed to be in effect is, and what has begun ends.
SPECIFICATION FairSpec
CONSTANTS
  NumActions = 3
  Guarded = {2}
  Files = {"cpu", "memory", "veth"}
  Netdevs = {"veth"}
  ActionFile <- MCActionFile
  ActionValue <- MCActionValue
  Values <- MCValues
  Initial <- MCInitial
  Empty = ""
  EnvValues <- MCEnvValues
  Readback <- MCReadback
  Accepted <- MCAccepted
  Requests = {1, 2}
  Modes = {"enforce"}
  Disturbances = {"env", "reject", "guard", "journal"}
INVARIANT BelievedInEffect
PROPERTY BegunWorkEnds

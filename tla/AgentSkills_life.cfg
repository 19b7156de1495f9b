\* Two agents, the second of which finds the hook of the first, one action of
\* others, everything may fail.
SPECIFICATION FairSpec
CONSTANTS
  Skills = {"policy_engine", "network_policy", "network_qos", "network_xdp"}
  Configs <- MCConfigs
  MaxLives = 2
  MaxDisturbed = 1
  Modes = {"audit", "enforce"}
  HooksFound = {"none"}
  Faults = {"open", "query", "show", "tc", "unpin", "throw"}
 
PROPERTIES KeepsContract ForeignKept AgentEnds
CHECK_DEADLOCK FALSE

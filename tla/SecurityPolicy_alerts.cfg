\* Four calls of denied, audited and traced kinds, a ring for two, three instants.
SPECIFICATION SecFairSpec
CONSTANTS
  Hooks <- MCHooks
  Conditional = {"lsm_capable"}
  Rules <- MCRules
  RateRules <- MCRateRules
  Objects = {"secret"}
  Groups = {"scoped", "other"}
  Everywhere = "everywhere"
  AnyRef = "any"
  RingSize = 2
  MaxCalls = 4
  MaxTime = 3
INVARIANTS ReaderHasRing AlertsAsSpecified
PROPERTIES EventsRecorded StopEnds
CHECK_DEADLOCK FALSE

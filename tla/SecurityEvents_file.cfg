\* Two calls, each with an alert, a truncation; both threads, start and stop.
SPECIFICATION AllFairSpec
CONSTANTS
  Hooks <- MCHooks
  Conditional = {}
  Rules <- MCRules
  RateRules <- MCRateRules
  Objects = {"any"}
  Groups = {"any"}
  Everywhere = "everywhere"
  AnyRef = "any"
  RingSize = 2
  MaxCalls = 2
  MaxTime = 0
  Kinds = {"hit", "anomaly", "life"}
  Matching = {"anomaly"}
  MaxEvents = 7
  MaxTruncations = 1
  Earlier = {0}
INVARIANTS HandledInOrder LostOnlyIfMissed
PROPERTY EventsHandled
CHECK_DEADLOCK FALSE

\* Three jobs, a table of one, processes that ignore SIGTERM, escape, or never start.
SPECIFICATION FairSpec
CONSTANTS
  MaxJobs = 3
  RecentLimit = 1
  Actions <- MCActions
  Disturbances = {"escape", "throw"}
INVARIANT StoppedNeverSucceeds
PROPERTIES OneMutatingJob JobsEnd
CHECK_DEADLOCK FALSE

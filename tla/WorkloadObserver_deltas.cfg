\* Three threads, three ids, room for two entries; three events.
SPECIFICATION Spec
CONSTANTS
  Tids = {1, 2, 3}
  MaxThreads = 3
  MaxTasks = 2
  MaxEvents = 3
INVARIANT DeltasAddUp
CHECK_DEADLOCK FALSE

SPECIFICATION Spec
CONSTANTS
  p1 = p1
  p2 = p2
  None = None
  Instances <- MCInstances
  PageSize = 4
INVARIANTS
  NoMixedJobs
  NotesStored
  StatsAgree
CHECK_DEADLOCK FALSE

SPECIFICATION Spec
CONSTANTS
  Limit = 2
  UintMax = 6
  Scripts = 2
  MaxJobs = 2
  MaxDepth = 3
INVARIANTS TypeOK GuardExact JobsSettled
PROPERTIES DeadlineEnds
CHECK_DEADLOCK FALSE

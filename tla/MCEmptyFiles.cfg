SPECIFICATION Spec
CONSTANTS
  Links <- MCLinks
  Days <- MCDays
  MaxCommits = 2
  MaxEdits = 2
INVARIANTS
  StaleMeansReadmeTouched
CHECK_DEADLOCK FALSE

SPECIFICATION Spec

CONSTANTS
  MaxRuns = 2
  MaxReports = 2

INVARIANTS
  FailsOnlyMisread
  ScanStopped
  OnlyEventsLeft
  AloneConnectsToMyo
CHECK_DEADLOCK FALSE

SPECIFICATION Spec

CONSTANTS
  MaxRuns = 1
  MaxReports = 2

INVARIANTS
  ConnectsToMyo
CHECK_DEADLOCK FALSE

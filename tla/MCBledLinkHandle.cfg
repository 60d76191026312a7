CONSTANTS
  Attempts = 1
  Handles = {1}
  PoseBytes = {0}
  StatusLen = 4
  ImuLen = 1
  MaxCuts = 0
  MaxLate = 0
  MaxImu = 0
  MaxPoses = 0
  MaxUpdates = 0
SPECIFICATION Spec
INVARIANTS
  HandleReturned
CHECK_DEADLOCK FALSE

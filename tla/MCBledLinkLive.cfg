CONSTANTS
  Attempts = 2
  Handles = {1}
  PoseBytes = {0}
  StatusLen = 4
  ImuLen = 1
  MaxCuts = 0
  MaxLate = 1
  MaxImu = 1
  MaxPoses = 1
  MaxUpdates = 1
SPECIFICATION FairSpec
PROPERTIES
  ReachesStream
CHECK_DEADLOCK FALSE

CONSTANTS
  Attempts = 2
  Handles = {1}
  PoseBytes = {3}
  StatusLen = 4
  ImuLen = 2
  MaxCuts = 1
  MaxLate = 2
  MaxImu = 2
  MaxPoses = 1
  MaxUpdates = 1
SPECIFICATION Spec
INVARIANTS
  AnswerNotLost
  WritesToAssigned
  BoardInOrder
  BoardComplete
  ClosedMeansDown
PROPERTIES
  ImplementsSession
CHECK_DEADLOCK FALSE

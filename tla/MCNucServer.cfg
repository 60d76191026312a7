CONSTANTS
  N = 2
  BufCells = 6
  MaxFailures = 1
  MaxReadings = 2
  MaxQueue = 6
  Window = 2
SPECIFICATION Spec
INVARIANTS
  MessageIsOneReading
PROPERTIES
  NoStepBack
  ImplementsDirectRelay
CHECK_DEADLOCK FALSE

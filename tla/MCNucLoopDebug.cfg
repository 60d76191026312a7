CONSTANTS
  N = 2
  BufCells = 9
  DebugFill = TRUE
  MaxReadings = 3
  MaxReplies = 2
  MaxQueue = 9
  Window = 3
SPECIFICATION FairSpec
INVARIANTS
  GarbageIsShort
  MessageIsOneReading
PROPERTIES
  ImplementsRelay
  NoStepBack
  CommandsKeepFlowing
CHECK_DEADLOCK FALSE

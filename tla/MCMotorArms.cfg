CONSTANTS
  Arms = {a1, a2}
  Kinds = {"paired", "orientation", "disconnected"}
  Programs = {"nuc"}
  ReadEvery = 0
  BufUnits = 3
  MaxQueue = 0
  MaxFailures = 1
  Scale = 1
  MaxRoll = 1
  Rolls <- MCRolls
  Turn = 1
  Poses = {unknown}
  Idle = {unknown}
  Unknown = unknown
SPECIFICATION FairSpec
INVARIANTS
  AllArmsLowStop
PROPERTIES
  LoweredArmsStopMotor
CHECK_DEADLOCK FALSE

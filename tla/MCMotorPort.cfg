CONSTANTS
  Arms = {a1}
  Kinds = {"paired", "orientation", "pose"}
  Programs = {"nuc", "win"}
  ReadEvery = 2
  BufUnits = 3
  MaxQueue = 4
  MaxFailures = 1
  Scale = 1
  MaxRoll = 1
  Rolls <- MCRolls
  Turn = 1
  Poses = {unknown}
  Idle = {unknown}
  Unknown = unknown
SPECIFICATION FairSpec
INVARIANTS
  CommandsConfigured
  OverrunOnlyWhenPiled
PROPERTIES
  SteadySpeedReachesMotor
CHECK_DEADLOCK FALSE

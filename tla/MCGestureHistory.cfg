CONSTANTS
  Scale <- MCScale
  MaxRoll <- MCMaxRoll
  Rolls <- MCRolls
  Turn = 2
  Poses = {unknown, fist}
  Idle = {unknown}
  Unknown = unknown
  StopWhenDown = TRUE
  MaxSamples = 4
SPECIFICATION HSpec
INVARIANTS
  CommandFits
  NeutralBand
  ReferenceFollowsLog
  SpeedFollowsLog
  TwoLowSamplesStop

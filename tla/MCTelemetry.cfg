CONSTANTS
  N = 2
  MaxPosts = 2
  MaxLines = 3
  Window = 4
SPECIFICATION TFairSpec
INVARIANTS
  ParsesOneLine
  NoMixAtRest
  ScreenSettles
  
PROPERTIES
  NoSwitchStepsBack
  SentIsShown
CHECK_DEADLOCK FALSE

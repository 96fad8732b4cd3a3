SPECIFICATION FairSpec
CONSTANTS
  Gimbal = "g0"
  FollowerGimbals = {}
  Axes <- MCAxes
  Directions = {}
  MoveTimeout = 1
  HomeReturnEnabled = TRUE
  StaleAfter = 1
  HomeDelay = 2
  AgeCap = 3
PROPERTIES
  ShutdownCompletes
  TakeoverIsHonoured
  ComesHome

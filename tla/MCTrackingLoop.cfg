SPECIFICATION Spec
CONSTANTS
  Gimbal = "g0"
  FollowerGimbals <- MCFollowers
  Axes <- MCAxes
  Directions <- MCDirections
  MoveTimeout = 1
  HomeReturnEnabled = TRUE
  StaleAfter = 2
  HomeDelay = 1
  AgeCap = 3
INVARIANTS
  NothingBridgesAPoseFault
  HomeMeansNoTarget
  AimOnlyWhileTracking
  AtHomeMeansStill
  DoneMeansStopped
PROPERTIES
  EveryTickCommands
  MotionStartsOnFreshPose
  KeysActOnlyInManual

SPECIFICATION MCSpec
CONSTANTS
  Pulses = 2
  Sample = 2
  MaxIo = 2
  MaxGap = 6
  PulseTime = 2
  SettleTime = 2
  SettleTimeout = 4
  MaxRun = 16
  Cameras <- MCCameras
  Steps = 3
  MaxGroups = 4
  FollowValues <- MCFollowValues
  TimeoutValues <- MCTimeoutValues
INVARIANTS
  ReactionIsBounded
  RunEndsInOrder
  AxisIsLeftStopped
  EveryGimbalHasOneDriver
  GoodFollowsAreKept
CHECK_DEADLOCK FALSE

SPECIFICATION Spec
CONSTANTS
  Threads <- MCThreads
  Gimbals <- MCGimbals
  NoThread = "nobody"
  Calls <- MCCalls
  Owner <- MCOwner
  Missing <- MCMissing
  Calibrated <- MCCalibrated
  Positions <- MCPositions
  MinPosition <- MCMinPosition
  MaxPosition = 1
  MaxSpeed = 1
  Scale = 1
  Tolerance = 2
INVARIANTS
  RepliesAreMine
  PartialFailureStops
  LimitsAreReadInTheCall
PROPERTY
  ImplementsContract

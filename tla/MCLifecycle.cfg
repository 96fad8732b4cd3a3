SPECIFICATION FairSpec
CONSTANTS
  Cameras <- MCCameras
  Leaders <- MCLeaders
  MaxSignals = 2
INVARIANTS
  SourceIsAlive
PROPERTY
  TimelyStopCompletes
CHECK_DEADLOCK FALSE

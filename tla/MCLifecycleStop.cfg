SPECIFICATION FairSpec
CONSTANTS
  Cameras <- MCCameras
  Leaders <- MCLeaders
  MaxSignals = 2
PROPERTY
  StopEndsPipelines
CHECK_DEADLOCK FALSE

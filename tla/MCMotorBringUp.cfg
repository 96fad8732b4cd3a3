SPECIFICATION FairSpec
CONSTANTS
  DriveCount = 4
  OnBoot <- MCOnBoot
  Span = 3
  Backoff = 1
  Grace = 1
  MaxStalls = 1
  MaxSamples = 7
  MaxReadErrors = 1
  Attempts = 2
  SettleSamples = 2
  StuckSamples = 2
  Watchdog = 2
  Lossy = FALSE
INVARIANTS
  LimitsWithinStops
  FailedAxesAreDisabled
  BootLeavesStill
PROPERTIES
  OnlyActiveMoves
  WatchdogsAreFed
  BringUpEnds
CHECK_DEADLOCK FALSE

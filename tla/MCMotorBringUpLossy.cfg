SPECIFICATION Spec
CONSTANTS
  DriveCount = 4
  OnBoot <- MCOnBoot
  Span = 3
  Backoff = 1
  Grace = 1
  MaxStalls = 1
  MaxSamples = 7
  MaxReadErrors = 1
  Attempts = 2
  SettleSamples = 2
  StuckSamples = 2
  Watchdog = 2
  Lossy = TRUE
INVARIANT
  FailedAxesAreDisabled
CHECK_DEADLOCK FALSE

SPECIFICATION Spec
CONSTANTS
  Gaps <- MCGaps
  MinLatency = 30
  MaxLatency = 280
  Latencies <- MCLatencies
  BeforeRetrieval = 10
  MaxInterval = 200
  MaxAge = 250
  RelearnFrames = 2
  MaxFrames = 4
  TickTimes <- MCTickTimes
  Capacity = 2
  RateWindow = 50
  MaxStep = 100
  MaxCoast = 150
  PipelineLatency = 0
  MaxTicks = 4
  MaxFaults = 1
INVARIANTS
  DtIsElapsed
  FrozenBriefly
  CompensationSpansOneHistory
PROPERTIES
  FramePoseIsRight
CHECK_DEADLOCK FALSE

SPECIFICATION MCSpec
CONSTANTS
  Kinds <- MCKinds
  Stages <- MCStages
  Capacity = 2
  MaxRecords = 4
  MaxEvents = 4
INVARIANTS
  ClosedMeansAccountedFor
  CountersAccountForRows
PROPERTIES
  ImplementsLog
  CloseCompletes
  TraceCloses
CHECK_DEADLOCK FALSE

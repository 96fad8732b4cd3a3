SPECIFICATION FairSpec
CONSTANTS
  r1 = r1
  r2 = r2
  Readers <- MCReaders
  MaxPublications = 4
INVARIANTS
  NoLostWakeup
  CursorNamesValue
PROPERTIES
  ImplementsBroadcast

SPECIFICATION Spec
CONSTANTS
  Cap = 3
  None = None
  LegacyJson = FALSE
  MayStopInWrite = FALSE
  MaxBuckets = 8
  MaxStops = 3
INVARIANTS StoreIsConsistent
PROPERTIES ImplementsDurableHistory EventuallySaved
CHECK_DEADLOCK FALSE

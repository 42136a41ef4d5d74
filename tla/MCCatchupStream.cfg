SPECIFICATION Spec
CONSTANTS
  Tfs = {"1m", "5m"}
  None = None
  Cap = 3
  ChunkSize = 1
  QueueMax = 3
  FirstTf = "1m"
  MayOverlap = FALSE
  StartCounts = {1}
  MaxCloses = 2
  MaxSwitches = 1
  MaxDowns = 1
INVARIANTS CacheIsOfItsTimeframe HistoryIsDelivered
PROPERTIES LoadingClears
CHECK_DEADLOCK FALSE

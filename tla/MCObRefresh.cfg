SPECIFICATION FairSpec
CONSTANTS
    tf1 = tf1
    tf2 = tf2
    TFs <- TimeframeOrder
    None = None
    MaxFails = 3
    QueueMax = 1
    MaxClosed = 1
    MaxSwitches = 2
    MaxFaults = 2
INVARIANTS PoolIsAccounted
PROPERTIES MatrixCatchesUp BackwardOnlyForAWhile
CHECK_DEADLOCK FALSE

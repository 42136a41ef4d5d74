SPECIFICATION HeatSpec
CONSTANTS
    Absent = Absent
    b1 = b1
    b2 = b2
    Bands <- MCBands
    Home = b1
    Bins <- MCBins
    Starts <- MCFar
    Spans <- MCRange
    Pulse = 2
    Px = 2
    MinCols = 2
    MinData = 2
    MaxSpan = 20
    QueueMax = 2
    FirstNow = 8
    MaxNow = 8
    MaxRequests = 4
    MaxFaults = 0
INVARIANT DocStrictlyAscending
CHECK_DEADLOCK FALSE

SPECIFICATION FairSpec
CONSTANTS
    Absent = Absent
    b1 = b1
    b2 = b2
    Bands <- MCBands
    Home = b1
    Bins <- MCBins
    Starts <- MCStarts
    Spans <- MCSpans
    Pulse = 2
    Px = 4
    MinCols = 2
    MinData = 4
    MaxSpan = 10
    QueueMax = 2
    FirstNow = 10
    MaxNow = 14
    MaxRequests = 2
    MaxFaults = 1
INVARIANTS  SettledMeansLoaded
PROPERTIES WindowArrives
CHECK_DEADLOCK FALSE

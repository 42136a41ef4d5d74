SPECIFICATION Spec
CONSTANTS
    Cap = 2
    Targets <- MCTargets
    FirstTf = 1
    Trades <- MCTrades
    Trail = 2
    Grain = 2
    Others <- MCOthers
    Anchors <- MCAnchors
    ChunkLen = 1
    WireCap = 1
    MaxBuckets = 3
    MaxTime = 1
    MaxBreaks = 1
    SelCap = 2
    SelTargets <- MCSelTargets
    SelBoxes <- MCSelBoxes
    SelAnchors = {0, 2}
    Lookback = 1
    VpinWindow = 1
    Drawable = 2
    SelPanels = {"abs"}
    SelMaxId = 4
    SelMaxForced = 1
    TunnelApps = {a, b}
    MaxLaunches = 4
    Scales = {1, 2}
    FirstScale = 1
    Obs = {"h1", "o"}
    Icebergs = {"h2"}
    Past <- MCPast
    AudioWire = 2
    AudioBreaks = 2
INVARIANTS  TunnelsAreAccounted BacklogStaysSilent
PROPERTIES   SelectionReadsItsBox 
CHECK_DEADLOCK FALSE

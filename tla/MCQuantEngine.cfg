SPECIFICATION FairSpec
CONSTANTS
    None = None
    Vols <- MCVols
    Targets <- MCTargets
    Den = 2
    OiParts <- MCOiParts
    Times <- MCTimes
    Cap = 3
    VpinWindow = 2
    Lookback = 2
    MaxTraded = 9
INVARIANTS SplittingConserves
PROPERTIES ShipsWhatClosed 

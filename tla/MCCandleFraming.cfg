SPECIFICATION FairSpec
CONSTANTS
    None = None
    MaxCandle = 2
    MaxTrades = 2
    MaxKlines = 1
    MaxLiqs = 1
    MaxPolls = 1
    MaxSubs = 1
    QueueMax = 1
INVARIANTS TapeIsCountedOnce 
PROPERTIES FormingEdgeConverges

SPECIFICATION AnalyticsSpec
CONSTANTS
    Lookback = 2
    VelHighlight = 12
    OtsuSteps = 4
    ExpansionMax = 4
    FlatBand = 2
    Window = 2
    NMin = 2
    Kappa = 80
    Rho = 60
    Sigma = 75
    Beta = 15
    Buffer = 1
    Tiers <- TierTable
    SweepWindow = 2
    ExhWindow = 3
    MinRemainder = 2
    SustainMin = 60
    AdaptMin = 3
    NoReading = NoReading
    Families <- HistoryFamilies
    ExactFamily = "states"
    Cap = 5
    MaxTotal <- HistoryTotals
INVARIANTS LevelsFollowTheirBuckets VerdictsAgree SeriesAgree
PROPERTIES ScansAgree FormingFlipSolidifies
CHECK_DEADLOCK FALSE

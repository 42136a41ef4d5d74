SPECIFICATION OiSpec
CONSTANTS
    NoOi = NoOi
    Qty <- MCQty
    OiLevels <- MCOiLevels
    TargetRefs <- MCTargetRefs
    CapK = 1
    AlphaNum = 2
    AlphaDen = 5
    FloorDen = 10
    MaxMoved = 10
    MaxInterval = 3
INVARIANTS BalanceAccounted PendingWithinCap
PROPERTIES BleedTowardZero

SPECIFICATION Spec
CONSTANTS
  Bids = {b1}
  Asks = {a1}
  None = None
  Retention = 2
  DeltaCap = 1
  SnapCap = 2
  SnapInFlight = FALSE
  MaxU = 3
  MaxTime = 4
  MaxSnaps = 1
  MaxCuts = 1
  MaxFails = 1
INVARIANTS RecordIsFaithful 
PROPERTIES RetainedStaysAnchored
CHECK_DEADLOCK FALSE

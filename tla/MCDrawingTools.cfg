CONSTANTS
  w1 = w1
  w2 = w2
  rect1 = rect1
  long1 = long1
  line1 = line1
  None = None
  Windows <- MCWindows
  Editors <- MCEditors
  Stored <- MCStored
  Session <- MCSession
  KindOf <- MCKindOf
  Grid <- MCGrid
  MaxX = 6
  Geometries <- MCGeometries
  DragsShared = FALSE
  MaxCrashes = 1
SPECIFICATION Spec
INVARIANTS  EditsFollowTheCanvas
PROPERTIES DragMovesOnlyItsSide 

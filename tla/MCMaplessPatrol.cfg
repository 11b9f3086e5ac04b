SPECIFICATION FairSpec
CONSTANTS
  MaxLanes = 2
  ConfirmFrames = 1
  LaneBound = 4
INVARIANTS
  MaplessInv
  ResetForgets
PROPERTIES
  OneLanePerBoundary
  EndsStopped
CHECK_DEADLOCK FALSE

SPECIFICATION FairSpec
CONSTANTS
  r1 = r1
  Patrol = Patrol
  Returns <- MCReturns
  Orphan = Orphan
  MaxLoops = 2
INVARIANTS
  PatrolInv
  StopReachesPatrol
  ReturnAfterPatrol
PROPERTIES
  WorkersEnd

SPECIFICATION Spec
CONSTANTS
  r1 = r1
  Patrol = Patrol
  Returns <- MCReturns
  Orphan = Orphan
  MaxLoops = 0
INVARIANT EmergencyStopsMotion

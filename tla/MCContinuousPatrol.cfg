SPECIFICATION FairSpec
CONSTANT MaxLoops = 2
INVARIANTS
  ContinuousInv
  StopSticks
PROPERTY StopEnds

SPECIFICATION FairSpec
CONSTANTS
  e1 = e1
  e2 = e2
  Times <- MCTimes
  Events <- MCEvents
  NoEvent = NoEvent
  Plain = Plain
  CommandMemory = 2
  EventMemory = 2
  Slots = 2
INVARIANTS
  RuntimeInv
  CommandsInOrder
  PatrolNeedsLink
PROPERTIES
  ClosedStartsNothing
  CloseEnds
CHECK_DEADLOCK FALSE

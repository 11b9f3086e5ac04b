SPECIFICATION FairSpec
CONSTANTS
  e1 = e1
  e2 = e2
  Events <- MCEvents
  Outcomes <- MCOutcomes
  NoEvent = NoEvent
  MaxToggles = 2
INVARIANTS
  MissionInv
  CuesBelongToSlot
  CompleteBeforeHome
  StrandedOnlyByFault
PROPERTY MissionSettles

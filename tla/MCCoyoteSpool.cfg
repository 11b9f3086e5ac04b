SPECIFICATION FairSpec
CONSTANTS
  e1 = e1
  e2 = e2
  e3 = e3
  Events <- MCEvents
  NoEvent = NoEvent
  MaxPending = 1
INVARIANTS
  SpoolSafety
  ManifestsTellTruth
  NoClaimForgotten
PROPERTIES
  ImplementsDelivery
  OfferedIsSettled

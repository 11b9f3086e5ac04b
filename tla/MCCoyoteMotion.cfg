CONSTANTS
    Events = {e1, e2}
    Types = {coyote, cup}
    NoEvent = NoEvent
    NoType = NoType
    RequireScan = FALSE
    EnableLongJump = TRUE
SYMMETRY Symmetry
SPECIFICATION MotionSpec
INVARIANTS MotionSafety EmergencyIsSilent UnarmedMotionIsDetour
PROPERTIES FoundIsSeen ImplementsSession

CONSTANTS
    Events = {e1}
    Types = {coyote}
    NoEvent = NoEvent
    NoType = NoType
    RequireScan = FALSE
    EnableLongJump = TRUE
SPECIFICATION FairMotionSpec
PROPERTIES SearchEnds

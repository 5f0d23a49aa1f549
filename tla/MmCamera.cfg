CONSTANTS
    Callers = {c1, c2}
    MaxObjs = 1
    MaxMsgs = 2
    MaxEvents = 1
    OpensOverlap = FALSE
    ChannelCallsOverlap = FALSE
    NULL = NULL
SPECIFICATION FairSpec
INVARIANTS
    ObjectsLive
    StatusIsOurs
PROPERTIES
    CallsReturn
CHECK_DEADLOCK FALSE

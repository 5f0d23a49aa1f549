\* A wait that timed out, and its answer after it.
CONSTANTS
    Callers = {c1, c2}
    MaxObjs = 1
    MaxMsgs = 2
    MaxEvents = 1
    OpensOverlap = FALSE
    ChannelCallsOverlap = FALSE
    NULL = NULL
SPECIFICATION Spec
INVARIANT OneOperation
CHECK_DEADLOCK FALSE

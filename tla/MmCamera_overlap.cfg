\* Two threads of the HAL in calls on one channel.
CONSTANTS
    Callers = {c1, c2}
    MaxObjs = 1
    MaxMsgs = 2
    MaxEvents = 1
    OpensOverlap = FALSE
    ChannelCallsOverlap = TRUE
    NULL = NULL
SPECIFICATION Spec
INVARIANT NoDeadlock
CHECK_DEADLOCK FALSE

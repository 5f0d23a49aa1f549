SPECIFICATION Spec
CONSTANTS
    Bufs = {b1, b2}
    NoBuf = NoBuf
    Users = {u1}
    Worker = w
    IsBundled = TRUE
    LinkedAtStart = TRUE
    HasCb = TRUE
    Failures = FALSE
    MaxSessions = 1
INVARIANT StoppedNotPolled
CHECK_DEADLOCK FALSE

SPECIFICATION MCSpec
CONSTANTS
    Bufs = {b1}
    NoBuf = NoBuf
    Users = {u1, u2}
    Worker = w
    IsBundled = TRUE
    LinkedAtStart = TRUE
    HasCb = TRUE
    Failures = FALSE
    MaxSessions = 1
    Dims <- FrameSizes
    Pads <- Paddings
INVARIANT LayoutsFit
PROPERTIES
    Progress
CHECK_DEADLOCK FALSE

SPECIFICATION Spec
CONSTANTS
    Bufs = {b1, b2}
    NoBuf = NoBuf
    Users = {u1}
    Worker = w
    IsBundled = TRUE
    LinkedAtStart = TRUE
    HasCb = TRUE
    Failures = TRUE
    MaxSessions = 2
INVARIANTS
    RefcntExact
    KernelOwnsAlone
    BookkeepingFits
CHECK_DEADLOCK FALSE

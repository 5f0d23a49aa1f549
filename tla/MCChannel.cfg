SPECIFICATION FairSpec
CONSTANTS
    snapshot = snapshot
    preview = preview
    meta = meta
    Slots <- SnapshotChannel
    Meta = meta
    Linked = {preview}
    Bufs <- Buffers
    MaxSessions = 2
    MaxRequests = 1
INVARIANTS
    StartStopClean
PROPERTIES
    StopLosesNothing
    CallsReturn
CHECK_DEADLOCK FALSE

SPECIFICATION Spec
CONSTANTS
    snapshot = snapshot
    preview = preview
    meta = meta
    Slots <- SnapshotChannel
    Meta = meta
    Linked = {preview}
    Bufs <- Buffers
    MaxSessions = 1
    MaxRequests = 1
INVARIANT FailedStartLosesNothing
CHECK_DEADLOCK FALSE

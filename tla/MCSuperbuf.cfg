SPECIFICATION Spec
CONSTANTS
    meta = meta
    preview = preview
    snapshot = snapshot
    Meta = meta
    Attrs <- Bundles
    FutureWait = 2
    NoMem <- OutOfMemory
    MaxFrame = 3
    FlushFrames = {0, 2}
    MaxRequest = 2
SYMMETRY Images
INVARIANTS
    FrameInOnePlace
    QueueBounded
    RightBundles

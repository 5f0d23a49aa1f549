SPECIFICATION Spec
CONSTANTS
    Pictures <- TwoPictures
    Modes <- Ways
INVARIANT SnapshotsStayOn
CHECK_DEADLOCK FALSE

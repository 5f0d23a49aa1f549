SPECIFICATION Spec
CONSTANTS
    MaxFaults = 1
    MaxCapture = 2
    Modes <- Restarted
PROPERTY SnapshotDoneEndsItsPicture
CHECK_DEADLOCK FALSE

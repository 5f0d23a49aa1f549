SPECIFICATION Spec
CONSTANTS
    HdrFeatures <- Both_HDR
    Interests <- Groups
    MaxSends = 2
    MaxEvents = 1
INVARIANTS
    DaemonAgrees
    PreviewAsAsked
    Settles
CHECK_DEADLOCK FALSE

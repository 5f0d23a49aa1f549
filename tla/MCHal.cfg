SPECIFICATION Spec
CONSTANTS
    MaxFaults = 1
    MaxCapture = 2
    Modes <- Uses
INVARIANTS
    CallsAccounted
    ChannelsFitState
PROPERTIES
    EveryCallReturns
CHECK_DEADLOCK FALSE

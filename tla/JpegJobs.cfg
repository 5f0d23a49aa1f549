SPECIFICATION FairSpec
CONSTANTS
     Sessions = {s1, s2}
     Fallible = {s1}
     mgr = mgr
     NULL = NULL
     MaxJobs = 2
     MaxLives = 1
     MaxFaults = 1
INVARIANTS
    EncoderExact
PROPERTIES
    SilentOnceOver
    Progress
CHECK_DEADLOCK FALSE

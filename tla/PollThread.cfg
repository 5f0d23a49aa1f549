SPECIFICATION FairSpec
CONSTANTS
    Fds = {f1, f2}
    NoFd = NoFd
    SpuriousWakeUps = FALSE
    MaxPipe = 3
    MaxLaunches = 2
INVARIANTS
    TypeOK
    SyncDelIsBarrier
PROPERTIES
    SyncCommandConsumed
    Progress
CHECK_DEADLOCK FALSE

CONSTANTS
    Fds = {f1}
    NoFd = NoFd
    SpuriousWakeUps = FALSE
    MaxPipe = 2
    MaxLaunches = 1
SPECIFICATION Spec
CHECK_DEADLOCK FALSE
INVARIANTS ReleaseJoins

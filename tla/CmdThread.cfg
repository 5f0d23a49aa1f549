SPECIFICATION FairSpec
CONSTANTS
    Ctl = Ctl
    NoThread = NoThread
    Posters = {p1, p2}
    MaxCmds = 3
    MaxLaunches = 2
INVARIANTS
    TypeOK
    NoLostCommand
    ReleaseDrains
    NoUseAfterDestroy
PROPERTIES
    ImplementsAsyncDispatch
    Progress

CONSTANTS
    Client = {a, b}
    Worker = {v, w}
    MaxJobs = 2
    Options <- MCOptions
SPECIFICATION FairSpec
INVARIANTS
    TypeOK
    CountersMatch
    WorkersInBounds
    ReservedStaysUp
    FreedIsQuiet
    NoJobStranded
    WaitersListed
PROPERTIES
    ImplementsJobLine
    JobsRun
    PostReturns
    WaitReturns
    ReleaseReturns
CHECK_DEADLOCK FALSE

SPECIFICATION LiveSpec
CONSTANTS
    Window = 1
    DispatchWindow = 1
    PinnedTo = 1
    PinUntil = 1
    MaxCommits = 2
    MaxReleases = 2
    MaxTime = 2
INVARIANTS
    TypeOK
PROPERTIES
    AcceptsReleased
    CatchesUp
    DispatchGoesThrough
CHECK_DEADLOCK FALSE

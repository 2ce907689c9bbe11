SPECIFICATION Spec
CONSTANTS
    r1 = r1
    r2 = r2
    h1 = h1
    h2 = h2
    Runners = {r1, r2}
    Hosts = {h1, h2}
    PushHook = TRUE
    Reuse = FALSE
    MaxSources = 2
    MaxCommits = 3
    MaxClock = 3
SYMMETRY Symmetry
INVARIANTS
    TypeOK
    PublishedWhole
    PublishedBuilt
PROPERTIES
    NeverOlder
CHECK_DEADLOCK FALSE

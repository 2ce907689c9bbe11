SPECIFICATION Spec
CONSTANTS
    Keys = {k1, k2}
    FirstKey = k1
    NoKey = none
    Verifiers = {cp, agent}
    Window = 1
    Overlap = 3
    Grace = 2
    MaxTime = 8
INVARIANTS
    TypeOK
    RotationKeepsFresh
CHECK_DEADLOCK FALSE

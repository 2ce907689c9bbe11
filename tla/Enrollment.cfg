SPECIFICATION Spec
CONSTANTS
    h1 = h1
    n1 = n1
    s1 = s1
    s2 = s2
    Hosts = {h1}
    Nonces = {n1}
    Slots = {s1, s2}
    TokenLife = 3
    Retention = 1
    Window = 1
    MaxTime = 2
    MaxReleases = 2
    MaxRestarts = 1
SYMMETRY Symmetry
INVARIANTS
    TypeOK
    RevokedKeptOut
PROPERTY TokenOnce
CHECK_DEADLOCK FALSE

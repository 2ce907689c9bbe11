SPECIFICATION Spec
CONSTANTS
    CertLife = 8
    RenewBelow = 6
    MaxOutage = 2
    MaxTime = 24
INVARIANTS
    TypeOK
    FileOutlastsClient
CHECK_DEADLOCK FALSE

SPECIFICATION LiveSpec
CONSTANTS
    older = older
    prior = prior
    new = new
    p1 = p1
    NoClosure = NoClosure
    Closures = {older, prior, new}
    Probes = {p1}
    EnforceProbes = {p1}
    Policy = "RollbackAndHalt"
    Target = new
    History <- TwoGenerations
    SoakDue = 1
    FailAfter = 1
    MaxTime = 1
    MaxSeq = 6
    IntentCapacity = 2
    MaxDispatches = 2
    MaxFaults = 1
INVARIANTS
    TypeOK
    ActivatedIsReal
PROPERTY HeartbeatRecovers

SPECIFICATION Spec
CONSTANTS
    older = older
    prior = prior
    new = new
    p1 = p1
    NoClosure = NoClosure
    Closures = {older, prior, new}
    Probes = {p1}
    EnforceProbes = {p1}
    Policy = "RollbackAndHalt"
    Target = new
    History <- TwoGenerations
    SoakDue = 0
    FailAfter = 0
    MaxTime = 0
    MaxSeq = 6
    IntentCapacity = 2
    MaxDispatches = 2
    MaxFaults = 0
PROPERTY DeferralIsReported

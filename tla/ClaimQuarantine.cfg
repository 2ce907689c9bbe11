SPECIFICATION Spec
CONSTANTS
    h1 = h1
    h2 = h2
    h3 = h3
    c1 = c1
    r1 = r1
    r2 = r2
    p1 = p1
    a = a
    b = b
    base = base
    NoClosure = NoClosure
    NoRollout = NoRollout
    Hosts = {h1, h2}
    Channels = {c1}
    Rollouts = {r1}
    Closures = {base, a}
    Probes = {}
    EnforceProbes = {}
    ChannelOf <- AllInC1
    HostChannel <- HostsInC1
    TargetOf <- NewClosures
    NumWaves <- NoWaves
    WaveOf <- NoWave
    HostEdges <- None
    ChannelEdges <- None
    Budgets <- OneAtATime
    Policy = "RollbackAndHalt"
    BaseClosure = base
PROPERTIES
    QuarantineHolds

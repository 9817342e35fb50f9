SPECIFICATION Spec
CONSTANTS
    r1 = r1
    r2 = r2
    r3 = r3
    r4 = r4
    n1 = n1
    Requests = {r1, r2, r3, r4}
    Names = {n1}
    NoName = NoName
    Memories = {1, 2}
    Cpus = {1}
    MaxSid = 103
    MaxFaults = 1
    FaultKinds = {"host"}
    MaxCrashes = 1
    GuestHalts = FALSE
    Ops = {"start", "stop", "restart", "create", "update", "delete"}
    Clients = "polite"
SYMMETRY Interchangeable
INVARIANT StatusTruthful
INVARIANT LimitsEnforced
INVARIANT NoOrphans
INVARIANT NoDoubleMount
INVARIANT HostFilesKept
PROPERTY LifecycleSpec
CHECK_DEADLOCK FALSE

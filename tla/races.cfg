SPECIFICATION Spec
CONSTANTS
    r1 = r1
    r2 = r2
    r3 = r3
    n1 = n1
    n2 = n2
    Requests = {r1, r2, r3}
    Names = {n1, n2}
    NoName = NoName
    Memories = {1}
    Cpus = {1}
    MaxSid = 102
    MaxFaults = 1
    FaultKinds = {"host", "db"}
    MaxCrashes = 1
    GuestHalts = FALSE
    Ops = {"create", "start", "stop", "restart", "delete"}
    Clients = "free"
SYMMETRY Interchangeable
INVARIANT TypeOK
INVARIANT RowsUnique
INVARIANT SidsDistinct
PROPERTY ErrorFromOwnJob
PROPERTY DeletedStaysDeleted
PROPERTY LifecycleSpec
CHECK_DEADLOCK FALSE

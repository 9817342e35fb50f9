SPECIFICATION FairSpec
CONSTANTS
    r1 = r1
    r2 = r2
    n1 = n1
    Requests = {r1, r2}
    Names = {n1}
    NoName = NoName
    Memories = {1}
    Cpus = {1}
    MaxSid = 101
    MaxFaults = 1
    FaultKinds = {"host", "redis"}
    MaxCrashes = 0
    GuestHalts = TRUE
    Ops = {"start", "stop", "restart", "create", "update", "delete"}
    Clients = "free"
INVARIANT InstallingHasJob
PROPERTY InstallEnds
PROPERTY RequestsAnswered
CHECK_DEADLOCK FALSE

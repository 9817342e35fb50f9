SPECIFICATION Spec
CONSTANTS
    r1 = r1
    r2 = r2
    n1 = n1
    Requests = {r1, r2}
    Names = {n1}
    NoName = NoName
    Memories = {1}
    Cpus = {1}
    MaxSid = 101
    MaxFaults = 0
    FaultKinds = {}
    MaxCrashes = 0
    GuestHalts = FALSE
    Ops = {"create", "start"}
    Clients = "free"
SYMMETRY Interchangeable
INVARIANT NoDoubleMount
CHECK_DEADLOCK FALSE

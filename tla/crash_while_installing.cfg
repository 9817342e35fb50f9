SPECIFICATION Spec
CONSTANTS
    r1 = r1
    r2 = r2
    n1 = n1
    Requests = {r1, r2}
    Names = {n1}
    NoName = NoName
    Memories = {1}
    Cpus = {1}
    MaxSid = 101
    MaxFaults = 0
    FaultKinds = {}
    MaxCrashes = 1
    GuestHalts = FALSE
    Ops = {"create"}
    Clients = "free"
SYMMETRY Interchangeable
PROPERTY NameBeingCreated
CHECK_DEADLOCK FALSE

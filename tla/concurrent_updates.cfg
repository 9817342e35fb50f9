SPECIFICATION Spec
CONSTANTS
    r1 = r1
    r2 = r2
    r3 = r3
    n1 = n1
    Requests = {r1, r2, r3}
    Names = {n1}
    NoName = NoName
    Memories = {1, 2}
    Cpus = {1, 2}
    MaxSid = 102
    MaxFaults = 0
    FaultKinds = {}
    MaxCrashes = 0
    GuestHalts = FALSE
    Ops = {"create", "update"}
    Clients = "patient"
SYMMETRY Interchangeable
INVARIANT LimitsEnforced
CHECK_DEADLOCK FALSE

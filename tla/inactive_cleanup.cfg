SPECIFICATION Spec
CONSTANTS
    c1 = c1
    v1 = v1
    s1 = s1
    Conns = {c1}
    Servers = {v1}
    Sessions = {s1}
    None = None
    MaxOutput = 1
    Idling = TRUE
SYMMETRY Interchangeable
INVARIANT AgentSurvives
CHECK_DEADLOCK FALSE

SPECIFICATION Spec
CONSTANTS
    c1 = c1
    c2 = c2
    c3 = c3
    v1 = v1
    v2 = v2
    s1 = s1
    Conns = {c1, c2, c3}
    Servers = {v1, v2}
    Sessions = {s1}
    None = None
    MaxOutput = 2
    Idling = TRUE
SYMMETRY Interchangeable
INVARIANT TypeOK
INVARIANT OwnServer
INVARIANT OneAtKeyboard
INVARIANT AttachedIsClient
INVARIANT OutputInOrder
CHECK_DEADLOCK FALSE

SPECIFICATION FairSpec
CONSTANTS
    c1 = c1
    c2 = c2
    v1 = v1
    s1 = s1
    Conns = {c1, c2}
    Servers = {v1}
    Sessions = {s1}
    None = None
    MaxOutput = 1
    Idling = FALSE
PROPERTY DialsAnswered
PROPERTY EndedForgotten
PROPERTY OutputDelivered
PROPERTY ClosedAtEnd

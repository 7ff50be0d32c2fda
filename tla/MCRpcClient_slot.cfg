CONSTANTS
    p1 = p1
    p2 = p2
    c1 = c1
    c2 = c2
    c3 = c3
    Nothing = Nothing
    Callers = {p1, p2}
    Conns = {c1, c2, c3}
    MaxRuntime = 2
    MaxFailures = 2
    Kinds = {"plain"}
SPECIFICATION ClientFairSpec
PROPERTIES
    NoPermanentBadSlot
CHECK_DEADLOCK FALSE

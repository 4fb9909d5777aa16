CONSTANTS
    c1 = c1
    c2 = c2
    c3 = c3
    a = a
    b = b
    Clients = {c1, c2}
    Ids = {a, b}
    IdOf <- OwnIds
    Server = Server
    StopId = Server
    MaxOverlaps = 2
    MaxDeaths = 0
SPECIFICATION Spec
INVARIANTS SwitchOnlyIfAccepted
CHECK_DEADLOCK FALSE

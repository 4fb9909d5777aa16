CONSTANTS
    c1 = c1
    c2 = c2
    c3 = c3
    a = a
    b = b
    Clients = {c1, c2, c3}
    Ids = {a, b}
    IdOf <- TwoShareAnId
    Server = Server
    StopId = b
    MaxOverlaps = 1
    MaxDeaths = 1
SPECIFICATION FairSpec
INVARIANTS TypeOK AloneSwitchesIfAccepted NothingLeftBehind NobodyKilledWriting JoinedIsRegistered
PROPERTIES HangsOnlyBehindTheAcceptor ServesTheLiving
CHECK_DEADLOCK FALSE

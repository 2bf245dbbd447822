SPECIFICATION FiguresSpec
CONSTANTS
    r1 = r1
    r2 = r2
    Sources <- MCSources
    Endpoints <- MCEndpoints
    Requests <- MCRequests
    Ttl = 2
    Wait = 1
    LoginRetry = 3
    None = None
    Physical = {eth0}
    Virtual = {tailscale0}
    Cores = {cpu0}
    MaxCount = 2
    InitRetry = 2
    IdleLimit = 2
    MaxChanges = 3
INVARIANTS
    FiguresMakeSense
    ShownSizesCurrent
PROPERTIES
    LoginsSpaced
    AnswersInTime
    Recovers
    IdleReleased

SPECIFICATION Spec
CONSTANTS
    web = web
    oneoff = oneoff
    b1 = b1
    b2 = b2
    r1 = r1
    NoPkgs = NoPkgs
    NoProc = NoProc
    Servers <- MCOneServer
    OneOffs <- MCOneOff
    Earlier <- MCNothing
    Baselines <- MCTwoBaselines
    PageLists <- MCNoPage
    MaxJobs = 2
    MaxStops = 1
    WritesFail = FALSE
    Daemonises = FALSE
PROPERTIES
    KeepsPromise
    OutcomeKept
INVARIANTS
    OneVenvWriter
    LogKept

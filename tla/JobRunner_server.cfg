SPECIFICATION FairSpec
CONSTANTS
    web = web
    oneoff = oneoff
    b1 = b1
    b2 = b2
    r1 = r1
    NoPkgs = NoPkgs
    NoProc = NoProc
    Servers <- MCOneServer
    OneOffs <- MCNone
    Earlier <- MCNothing
    Baselines <- MCTwoBaselines
    PageLists <- MCPageLists
    MaxJobs = 2
    MaxStops = 1
    WritesFail = FALSE
    Daemonises = TRUE
INVARIANTS
    OkMeansInstalled
    CacheClearAlone
PROPERTIES
    SuccessMeansInstalled
    CancelEnds
    EndedFreesVenv

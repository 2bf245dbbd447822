SPECIFICATION DeployFairSpec
CONSTANTS
    web = web
    oneoff = oneoff
    b1 = b1
    NoPkgs = NoPkgs
    NoProc = NoProc
    Servers <- MCServers
    OneOffs <- MCOneOffs
    Earlier <- MCBaselines
    Baselines <- MCBaselines
    PageLists <- MCNoPage
    MaxJobs = 2
    MaxStops = 0
    WritesFail = FALSE
    Daemonises = FALSE
    MaxDeploys = 1
    BusyLimit = 1
INVARIANTS
    OkIsEarned
    ShownIsDeployed
PROPERTIES
    DeployEnds
CHECK_DEADLOCK FALSE

SPECIFICATION Spec
CONSTANTS
    s1 = s1
    s2 = s2
    n1 = n1
    n2 = n2
    Importers = {p1, p2}
    Sources = {s1, s2}
    Names = {n1, n2}
    Paths <- FlatPaths
    HostTree <- FlatTree
    Plans <- MixedPlans
    NoSource = NoSource
    UserQuick = FALSE
    WritesFail = FALSE
    MaxEdits = 2
    MaxRuns = 1
    MaxCrashes = 0
PROPERTIES ForeignUntouched
CHECK_DEADLOCK FALSE

SPECIFICATION Spec
CONSTANTS
    s1 = s1
    s2 = s2
    n1 = n1
    n2 = n2
    Importers = {p1}
    Sources = {s1}
    Names = {n1}
    Paths <- MCPaths
    HostTree <- MCHostTree
    Plans <- OnePlan
    NoSource = NoSource
    UserQuick = TRUE
    WritesFail = TRUE
    MaxEdits = 2
    MaxRuns = 2
    MaxCrashes = 1
INVARIANTS NothingHalfWritten OkMeansCopied
PROPERTIES NothingDeleted
CHECK_DEADLOCK FALSE

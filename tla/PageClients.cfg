SPECIFICATION ClientsSpec
CONSTANTS
    Lines = {"a", "bad", "torch"}
    Refused = {"bad"}
    Lists <- MCLists
    MaxSaves = 1
    MaxJobs = 1
    Typed <- MCTyped
    MaxEdits = 2
    MaxLost = 1
    Torch = {"torch"}
    MinFree = 1
    MaxFree = 1
    MaxStops = 1
INVARIANTS
    KeepsUnsavedIfFresh
    ListSafe
PROPERTIES
    InstallsEdits
    EditorSettles
CHECK_DEADLOCK FALSE

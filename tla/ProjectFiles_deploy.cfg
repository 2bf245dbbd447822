SPECIFICATION FilesSpec
CONSTANTS
    UserEnvs <- MCEnvs
    UserConfigs <- MCConfigs
    FormEdits <- MCFormEdits
    MaxEdits = 1
    MaxCommands = 2
    MaxPieces = 5
INVARIANTS
    SavedIsRead
    ReadAsPipDoes
 
CHECK_DEADLOCK FALSE

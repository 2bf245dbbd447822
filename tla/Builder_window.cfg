SPECIFICATION FairSpec
CONSTANT MaxDialogs = 2
CHECK_DEADLOCK FALSE
INVARIANTS OnePrompt SuccessIsComplete NoOrphan
PROPERTIES UsesFreshPs NeverStuckBusy

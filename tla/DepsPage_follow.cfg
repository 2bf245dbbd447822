SPECIFICATION FairSpec
CONSTANTS
    Clients = {"page", "other"}
    MaxJobs = 2
    MaxLen = 2
    MaxChunk = 1
    MaxStops = 1
    ChunksPerPoll = 2
    MaxLost = 1
INVARIANTS ShownInOrder
PROPERTIES CatchesUp FullLogIfWatching

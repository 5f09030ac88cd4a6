CONSTANTS
    Channels <- MixedChannels
    Settings <- MixedSettings
    FifoOf <- BothFifos
    Counts = {1, 2}
    FifoWords = 2
    MaxTick = 2
    Disciplined = TRUE

SPECIFICATION FairSpec

INVARIANT ListsMatchEvents
PROPERTIES
    PriorityRespected
    WaitsForHigherOnly

CONSTANTS
    Channels <- FastChannels
    Settings <- FastSettings
    FifoOf <- BothFifos
    Counts = {1, 2}
    FifoWords = 2
    MaxTick = 2
    Disciplined = FALSE

SPECIFICATION Spec

INVARIANT
    FrontExists

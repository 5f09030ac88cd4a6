CONSTANTS
    capacity = 4
    RefillAt = 2
    RefillBytes = 2
    Samples = {0, 1}
    Timers = {0, 1}
    Kinds = {"pulse1", "wave", "noise"}
    Rates = 4
    LowRates = 4
    Lengths = 2
    Volumes = 2
    Shifts = 1
    TimerMax = 2
    Envelopes <- MCEnvelopes
    Sweeps <- MCSweeps
    Tones = {0, 1}
    Capacities = {1, 3}
    Interval = 3
    PhaseShifts = {2, 5}
    Window = 3
SPECIFICATION ApuSpec
INVARIANTS
    NoSampleDropped
    SoundInOrder
    OutputKeepsPace
    PsgTypeOK
PROPERTIES
    ImplementsSampleQueue
    NotesEnd

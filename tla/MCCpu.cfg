CONSTANTS
    Space = 64
    Values = {33, 46}
    MsrModes = {"usr", "svc", "irq"}
    MaxSteps = 5
    FiqRegs = {8}
    OwnRegs = {13}
    Modes = {"usr", "svc", "irq", "fiq"}
    Contents = {0, 1}
    WordBits = 4
    Rom = 2
    MaxPc = 10
    MaxBehind = 4
    Halfwords = 6
    Waits = {1}
    NonSeq = 2
    MaxTick = 4
    CycleWidth = 4096
    vblank = vblank
    dma = dma
    h1 = h1
    h2 = h2
    Irqs <- MCIrqs
    Bytes <- MCBytes
    Handles <- MCHandles
    Keys = {"a", "b", "shoulder"}
    LowKeys = {"a", "b"}
SPECIFICATION ProcessorSpec
INVARIANTS
    PipelineInOrder
    ResumesWhereInterrupted
    ArithmeticIsExact
    ThumbMeansArm
    TablesAgree
    SequentialFetchBounded
    HoldsWhatItRead
    SignalConsistent
    KeysAnswered
PROPERTIES
    InterruptTaken
    HaltEnds
    ImplementsRegisterFile

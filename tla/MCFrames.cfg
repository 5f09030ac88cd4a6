CONSTANTS
    cycles_hdraw = 7
    cycles_hblank = 3
    total_lines = 7
    screen_height = 3
    video_dma_start_line = 2
    video_dma_end_line = 5
    Settings = {0, 2, 6}
    MaxTick = 3
    Width = 1024
    MaxDma = 3
    Rows = 7
    VisibleRows = 5
    Edges = {0, 3, 5, 9}
    References = {0, 5}
    Slopes = {0, 1, 2}
    Sizes = {1, 2, 3}
    Columns = 12
    TileDots = 4
    One = 4
    ByteRange = 256
    Backgrounds = 3
    Priorities = {0, 1}
    Enables <- MCEnables
    Costs = {1, 3}
    Budget = 3
    Slots = {1}
    HasRtc = TRUE
    Backup = "flash"
    MaxRuns = 2
    MaxHandle = 5
SPECIFICATION FramesSpec
INVARIANTS
    FollowsBeam
    EveryLineOnce
    NextWithinPeriod
    LinesFollowRegisters
    PixelsExact
    LoadRestores
    HandlesNameOwnEvents
    EventsOnce

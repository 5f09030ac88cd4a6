CONSTANTS
    MaxNow = 7
    MaxHandle = 5
    MaxDelay = 3
    MaxCycles = 3
    Last = 1
    overflow_value = 3
    Prescalars <- MCPrescalars
    Selected = {0, 2}
    MaskWidth = 2
    Reloads = {0, 1}
    Width = 16
    MaxTick = 2
SPECIFICATION SchedulingSpec
INVARIANT CountsLikeHardware

CONSTANTS
    MaxNow = 7
    MaxHandle = 5
    MaxDelay = 3
    MaxCycles = 3
    Last = 1
    overflow_value = 3
    Prescalars <- MCPrescalars
    Selected = {0, 1}
    MaskWidth = 2
    Reloads = {0, 1}
    Width = 10
    MaxTick = 2
SPECIFICATION SchedulingSpec
INVARIANTS
    RemainingCyclesNeverWrap
    CountsLikeHardware
    OverflowsAsOften
PROPERTIES
    DeadHandlesStayDead
    ImplementsAgenda

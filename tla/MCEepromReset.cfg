CONSTANTS
    ChipWidth = 2
    Narrow = 1
    Wide = 2
    Words = 2
    WordBits = 3
    IgnoredBits = 2
    eeprom_settle_cycles = 10
    EepromValues = {1, 6}
    WriteFirst = FALSE
    ResetAfterDetection = TRUE
    Banks = 2
    BankSize = 6
    SectorSize = 2
    cmd_addr1 = 5
    cmd_addr2 = 3
    Values = {1}
    Times <- MCTimes
    Parameters = {194}
    GiveUpAt = {12}
    Codes = {0, 2, 3, 4, 6, 7}
    Strays = {34}
    MayReverse = FALSE
    MaxRequests = 2
    Paks <- MCPaks
    Entry <- MCEntry
    Marks <- MCMarks
SPECIFICATION CartridgeSpec
INVARIANT WidthKnown

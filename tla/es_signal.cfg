SPECIFICATION FairSpec
CONSTANTS
    Threads = 2
    Granul = 2
    SegmentRecords = 4
    TotalRecords = 4
    Keys <- Bits
    Files <- AnyFour
    Interrupts = TRUE
PROPERTY StopsOnSignal
CHECK_DEADLOCK FALSE

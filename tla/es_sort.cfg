SPECIFICATION FairSpec
CONSTANTS
    Threads = 2
    Granul = 2
    SegmentRecords = 8
    TotalRecords = 12
    Keys <- Bits
    Files <- TwoSegments
    Interrupts = TRUE
INVARIANTS TypeOK OwnCells WrittenIsSorted
PROPERTIES RecordsAreKept RunsToItsEnd StopsWhileSorting
CHECK_DEADLOCK FALSE

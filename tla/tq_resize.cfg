SPECIFICATION FairSpec
CONSTANTS
    MaxProducers = 1
    MaxConsumers = 2
    InitCapacity = 2
    MaxCapacity = 3
    MaxMessages = 3
    Commands <- ResizeCommands
    AllocOutcomes <- AllocMayFail
INVARIANTS FullTokensMatch FreeTokensCover
PROPERTIES ResizeKeepsMessages GrowKeepsTail ResizeEnds

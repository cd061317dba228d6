SPECIFICATION FairSpec
CONSTANTS
    MaxProducers = 2
    MaxConsumers = 1
    InitCapacity = 2
    MaxCapacity = 2
    MaxMessages = 4
    Commands <- TrafficCommands
    AllocOutcomes <- AllocSucceeds
INVARIANTS TypeOK FreeTokensMatch
PROPERTIES RefinesQueue MessagesAreTaken ShutdownCompletes

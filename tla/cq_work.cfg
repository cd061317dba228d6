SPECIFICATION FairSpec
CONSTANTS
    MaxProducers = 2
    MaxConsumers = 2
    InitCapacity = 2
    MaxCapacity = 3
    MaxMessages = 3
    Sessions <- AllSessions
INVARIANTS TypeOK NoLostWakeup
PROPERTIES RefinesQueue ResizeKeepsQueue MessagesAreTaken ShutdownCompletes
CHECK_DEADLOCK FALSE

SPECIFICATION FairSpec
CONSTANTS
    QUEUE_SIZE = 2
    NumProducers = 2
    NumConsumers = 2
    MaxMessages = 3
    Sessions <- AllSessions
INVARIANTS TypeOK TokensBalance SoundUntilInterrupted
PROPERTIES MessagesAreTaken AllLeave

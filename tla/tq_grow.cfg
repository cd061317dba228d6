SPECIFICATION Spec
CONSTANTS
    MaxProducers = 1
    MaxConsumers = 1
    InitCapacity = 2
    MaxCapacity = 3
    MaxMessages = 3
    Commands <- GrowCommands
    AllocOutcomes <- AllocSucceeds
INVARIANT QueueHoldsMessages

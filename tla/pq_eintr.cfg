SPECIFICATION Spec
CONSTANTS
    QUEUE_SIZE = 1
    NumProducers = 1
    NumConsumers = 1
    MaxMessages = 2
    Sessions <- JustOne
INVARIANT FreeSlotsInRange

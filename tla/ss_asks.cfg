SPECIFICATION FairSpec
CONSTANTS
    MAX_CHILDREN = 2
    NumChildren = 3
    THRESHOLD = 2
    MaxAsks = 2
INVARIANTS TypeOK TableIsExact
PROPERTIES OnRequest RequestsAnswered
CHECK_DEADLOCK FALSE

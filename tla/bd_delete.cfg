SPECIFICATION Spec
CONSTANTS
    Paths <- Four
    Nested <- Below
    Contents <- Letters
    size_of <- Sizes
    mime_of <- Types
    hash_of <- Hashes
    Disks <- AnyDisk
    Layouts <- AllLayouts
    Options <- Lines
    FirstCapacity = 3
    Rewritable <- Ends
    MaxEdits = 1
INVARIANTS TypeOK FiltersFindDuplicates ContentsSurvive PrintsTheSets
PROPERTIES NothingUniqueIsRemoved

SPECIFICATION Spec
CONSTANTS
    Paths <- Four
    Nested <- Below
    Contents <- Letters
    size_of <- Sizes
    mime_of <- Types
    hash_of <- Hashes
    Disks <- AnyDisk
    Layouts <- NoLinks
    Options <- BatchLines
    FirstCapacity = 10
    Rewritable <- Ends
    MaxEdits = 0
INVARIANT EverySetKeepsOne

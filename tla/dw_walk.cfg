SPECIFICATION Spec
CONSTANTS
    INITIAL_CAPACITY = 1
    MaxChanges = 2
    Parent <- SmallTree
    FirstKind <- SmallKinds
    Options <- AllOptions
INVARIANTS TypeOK WalkIsComplete
PROPERTIES FreedOnce NothingLeaks

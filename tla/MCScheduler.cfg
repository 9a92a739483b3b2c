SPECIFICATION SchedFairSpec
CONSTANTS
    MaxThreads = 3
    Wrap = 8
    Period = 2
    MaxDelay = 1
    MaxLate = 1
    None = None
    Object = Object
INVARIANTS ListsKept CheckCovers
PROPERTIES NeverEarly Turn
CHECK_DEADLOCK FALSE

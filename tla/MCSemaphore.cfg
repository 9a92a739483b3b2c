\* Threads may all wait while nobody releases.
SPECIFICATION FairSpec
CHECK_DEADLOCK FALSE
CONSTANTS
    t1 = t1
    t2 = t2
    t3 = t3
    Threads <- ThreeThreads
    MaxCount = 2
    IsrReleases = TRUE
INVARIANTS WaitersMeanZero
PROPERTIES Implements Served

\* A reader that asks again behind a writer stops both.
SPECIFICATION FairSpec
CHECK_DEADLOCK FALSE
CONSTANTS
    t1 = t1
    t2 = t2
    t3 = t3
    NoThread = NoThread
    MaxDepth = 2
    Threads = {t1, t2, t3}
INVARIANTS Accounted Exclusion
PROPERTIES Entered

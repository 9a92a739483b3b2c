SPECIFICATION Spec
CONSTANTS
    x = x
    y = y
    NoName = NoName
    NoSector = NoSector
    NoData = NoData
    Names = {x, y}
    Procs = {thread1, thread2}
    thread1 = thread1
    thread2 = thread2
    Bindings <- MCBindings
    Breakable <- MCBreakable
    Budgets <- MCBudgets
    Images <- MCImages
    NumEntries = 3
    MapSize = 2
    NumClusters = 4
    PerSector = 3
SYMMETRY Symmetry
INVARIANTS CacheKept NoCrossLinks ChainsKept SpaceKept Stored DirectoryKept
PROPERTIES KeepsTable

SPECIFICATION TimersSpec
CONSTANTS
    a = a
    b = b
    c = c
    d = d
    u = u
    Timeouts = {a, b, c, d}
    Others = {u}
    TimeoutTick = TimeoutTick
    None = None
    MaxTimeouts = 3
    MaxTasks = 2
    Wrap = 12
    MaxDelay = 2
SYMMETRY Symmetric
INVARIANTS ListsKept LatenessBounded

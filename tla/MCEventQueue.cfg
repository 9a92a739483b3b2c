SPECIFICATION FairSpec
CONSTANTS
    on = on
    off = off
    s1 = s1
    s2 = s2
    None = None
    Ids = {on, off}
    Senders = {s1, s2}
    Builds <- AllBuilds
INVARIANTS Tracked
PROPERTIES Implements AnswerComes

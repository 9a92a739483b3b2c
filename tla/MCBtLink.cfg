\* The iPod leaves for its own firmware, or waits for ever.
SPECIFICATION FairSpec
CONSTANTS
    Names <- TwoNames
    LongNames <- TwoLong
    ResetNames <- TwoLong
    MaxToBoard = 2
    MaxToIpod = 2
    NoDevice = NoDevice
    MaxFaults = 2
INVARIANTS OnlyChosenSent
PROPERTIES ConnectedToSelected AwaitEnds ResetRecovers
CHECK_DEADLOCK FALSE

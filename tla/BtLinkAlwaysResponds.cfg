SPECIFICATION Spec
CONSTANTS
    Names <- OneName
    LongNames <- OneName
    ResetNames <- NoNames
    MaxToBoard = 2
    MaxToIpod = 3
    NoDevice = NoDevice
    MaxFaults = 1
PROPERTY AlwaysResponds
CHECK_DEADLOCK FALSE

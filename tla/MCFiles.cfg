SPECIFICATION Spec
CONSTANTS
    stream1 = stream1
    stream2 = stream2
    stream3 = stream3
    Temp = Temp
    Streams = {stream1, stream2, stream3}
    Files <- MCFiles
    SectorSize = 2
    MaxSize = 6
    TruncThresh = 4
    NumBuffers = 3
    Modes <- MCModes
SYMMETRY Symmetry
INVARIANTS CachesKept ReadsLastWritten AllSaved
PROPERTIES OnlyTailLost

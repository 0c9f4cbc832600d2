SPECIFICATION ReaderFairSpec
CONSTANTS
    MaxLines = 3
    MaxFaults = 3
    Sizes = {1, 2, 4}
    Streams <- SmallStreams
INVARIANTS
    ReaderTypeOK
    OutputIsPrefix
    LinesAreWhole
    Accounted
PROPERTIES
    EndIsReached

SPECIFICATION Spec
CONSTANTS
    FileSizes <- TwoVersions
    Ranges = {TRUE, FALSE}
    Offsets = {0, 1, 3, 4, 5}
    Deltas <- SmallDeltas
    ReadSizes = {1, 3}
    MaxPosition = 8
CONSTRAINT
    PositionBound
INVARIANTS
    CursorIsPosition
    OneVersion
PROPERTIES
    ImplementsByteSource

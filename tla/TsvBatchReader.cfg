SPECIFICATION FairSpec
CONSTANTS
    MaxLines = 4
    Columns = 2
    BatchSize = 2
    Tables <- SmallTables
INVARIANTS
    TypeOK
    RowsAligned
PROPERTIES
    EndIsFinal
    ImplementsLineBatches

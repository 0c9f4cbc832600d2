SPECIFICATION FairSpec
CONSTANTS
    MaxLines = 7
    BatchSize = 2
    Capacity = 1
    Jobs <- AllJobs
INVARIANTS
    ResultIsExact
    DiskIsPrefix
    SealedMeansDrained
    BoundedMemory
    OldOutputKept
    IInv
PROPERTIES
    QuietAfterOk
    Returns
    WriterStops
    ImplementsExport
CHECK_DEADLOCK FALSE

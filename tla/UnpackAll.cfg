SPECIFICATION Spec
CONSTANTS
    Dumps <- TwoDumps
    Formats = {"tsv-raw", "csv"}
    MaxRuns = 2
INVARIANTS
    SuccessMeansComplete
    TocIsLast
CHECK_DEADLOCK FALSE

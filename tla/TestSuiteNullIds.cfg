SPECIFICATION Spec
CONSTANTS
    Tests = {"csv", "parquet"}
    Key = "id"
    Scenarios <- Compared
    MaxRuns = 1
    MaxEdits = 0
INVARIANT
    PassedMeansMatches
CHECK_DEADLOCK FALSE

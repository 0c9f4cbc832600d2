SPECIFICATION FairSpec
CONSTANTS
    Tests = {"csv", "parquet"}
    Key = "id"
    Scenarios <- SmallScenarios
    MaxRuns = 2
    MaxEdits = 1
INVARIANTS
    TypeOK
    SpoiltOnlyByDownloads
    PassedMeansSame
    NewSnapshotsAreReviewed
    UpdatedIsAccepted
    GreenMeansCurrent
PROPERTY
    RunsEnd
CHECK_DEADLOCK FALSE

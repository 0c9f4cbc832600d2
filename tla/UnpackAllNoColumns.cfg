SPECIFICATION Spec
CONSTANTS
    Dumps <- NoColumns
    Formats = {"csv"}
    MaxRuns = 1
INVARIANT
    FailsOnlyOnFaults
CHECK_DEADLOCK FALSE

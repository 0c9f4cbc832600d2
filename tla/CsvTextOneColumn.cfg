SPECIFICATION Spec
CONSTANTS
    Tables <- OneColumn
    Plain = {"a"}
INVARIANT
    NoRowLost
CHECK_DEADLOCK FALSE

SPECIFICATION TextSpec
CONSTANTS
    Rows <- SmallRows
    Lines <- SmallLines
    Others = {"a", "quote", "comma"}
    Tables <- TwoColumns
    Headers <- SmallHeaders
    Alphabet = {"tab", "bs", "N", "n", "bad"}
    MaxLength = 5
INVARIANTS
    TextTypeOK
    RoundTrip
    AsDefined
    CsvRoundTrip
    RowsSurvive
CHECK_DEADLOCK FALSE

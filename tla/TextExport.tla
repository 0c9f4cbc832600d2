----------------------------- MODULE TextExport -----------------------------
(***************************************************************************)
(* From the server to the reader of a csv file: a row is dumped, parsed by *)
(* parse_line (CopyText), written by write_csv_header and write_csv_batch  *)
(* and read back (CsvText).  Two formats with different special            *)
(* characters and different signs for NULL follow one another.             *)
(***************************************************************************)
EXTENDS CopyText

CONSTANTS
    Tables,    \* tables that are written without having been dumped
    Headers    \* for each number of columns, names for the rows dumped

VARIABLES
    table, rest,                \* the table written, the rest of its file
    csvRows, csvRow, csvField, inQuotes, wasQuoted,   \* what was read
    csvVerdict

readerVars == <<csvRows, csvRow, csvField, inQuotes, wasQuoted, csvVerdict>>
csvVars == <<table, rest, readerVars>>

Csv == INSTANCE CsvText WITH Plain <- Char \ {"quote", "comma", "nl", "cr"},
                             rows <- csvRows, row <- csvRow, field <- csvField,
                             verdict <- csvVerdict

ASSUME TablesAssumption ==
    /\ \A t \in Tables : Csv!IsTable(t)
    /\ \A r \in Rows : \A header \in Headers[Len(r)] :
           Csv!IsTable([header |-> header, rows |-> <<r>>])

NoTable == [header |-> <<>>, rows |-> <<>>]

(* A line is there to be parsed, or there is none and a table is written.  *)
TextInit ==
    \/ /\ Init
       /\ table = NoTable /\ rest = <<>>
       /\ csvRows = <<>> /\ csvRow = <<>> /\ csvField = <<>>
       /\ inQuotes = FALSE /\ wasQuoted = FALSE /\ csvVerdict = "none"
    \/ /\ Csv!Init
       /\ row = <<>> /\ columns = Len(table.header) /\ line = <<>> /\ i = 0
       /\ field = <<>> /\ isNull = FALSE /\ started = FALSE
       /\ cells = <<>> /\ verdict = "end"

Written == table # NoTable

(* The writer thread gets the row in a batch and writes the file.          *)
WriteCsv ==
    /\ row # <<>> /\ verdict = "ok" /\ ~ Written
    /\ \E header \in Headers[columns] :
          /\ table' = [header |-> header, rows |-> <<cells>>]
          /\ rest' = Csv!Csv(table')
    /\ UNCHANGED <<vars, readerVars>>

TextNext ==
    \/ Next /\ UNCHANGED csvVars
    \/ WriteCsv
    \/ Written /\ Csv!Next /\ UNCHANGED vars

TextSpec == TextInit /\ [][TextNext]_<<vars, csvVars>>

-----------------------------------------------------------------------------
TextTypeOK == TypeOK /\ Csv!TypeOK

(* Every table of two or more columns comes back from its csv file as it   *)
(* was: NULL, written bare, and the empty string, written "", are told     *)
(* apart, and quotes, commas and line ends inside a value stay inside.     *)
CsvRoundTrip == Csv!RoundTrip

(* From end to end: who reads the csv file of a table of two or more       *)
(* columns gets the rows that the server dumped.  A NULL is \N in the one  *)
(* format and nothing in the other, \N is also a text, and "" is nothing   *)
(* in the one and quoted in the other.                                     *)
RowsSurvive == csvVerdict # "none" /\ row # <<>> => Tail(csvRows) = <<row>>
=============================================================================

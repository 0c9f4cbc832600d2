------------------------------ MODULE CsvText ------------------------------
(***************************************************************************)
(* The csv format: what write_csv_header and write_csv_batch               *)
(* (table_read/mod.rs) write, read back by parse_csv and read_csv          *)
(* (test_utils/snapshot.rs), which the tests take for what tools like      *)
(* DuckDB do.                                                              *)
(***************************************************************************)
EXTENDS Naturals, Sequences, SequencesExt

CONSTANTS
    Tables,   \* the tables written: [header, rows]
    Plain     \* the characters without a meaning in CSV

Char == {"quote", "comma", "nl", "cr"} \cup Plain

Null == [null |-> TRUE, text |-> <<>>]
Value(s) == [null |-> FALSE, text |-> s]

(* What may be written: a header of names, and rows of its length.         *)
IsTable(t) ==
    /\ t.header \in Seq([null : {FALSE}, text : Seq(Char)]) \ {<<>>}
    /\ t.rows \in Seq(Seq([null : BOOLEAN, text : Seq(Char)]))
    /\ \A r \in DOMAIN t.rows :
           /\ Len(t.rows[r]) = Len(t.header)
           /\ \A c \in DOMAIN t.rows[r] : t.rows[r][c].null => t.rows[r][c].text = <<>>

VARIABLES
    table,                        \* history: the table that was written
    rest,                         \* the characters not read yet
    rows, row, field,             \* what was read
    inQuotes, wasQuoted,
    verdict                       \* "none", then "ok" or "err"

vars == <<table, rest, rows, row, field, inQuotes, wasQuoted, verdict>>

-----------------------------------------------------------------------------
(* The writer.                                                             *)
Doubled(s) ==
    FlattenSeq([k \in DOMAIN s |-> IF s[k] = "quote" THEN <<"quote", "quote">> ELSE <<s[k]>>])

(* Faulty variants: an empty string is not quoted; a CR is not.            *)
NeedsQuotingNotEmpty(s) == ToSet(s) \cap {"quote", "comma", "nl", "cr"} # {}
NeedsQuotingNotCr(s) == s = <<>> \/ ToSet(s) \cap {"quote", "comma", "nl"} # {}

NeedsQuoting(s) == s = <<>> \/ ToSet(s) \cap {"quote", "comma", "nl", "cr"} # {}

CsvStr(s) == IF NeedsQuoting(s) THEN <<"quote">> \o Doubled(s) \o <<"quote">> ELSE s

CsvCell(cell) == IF cell.null THEN <<>> ELSE CsvStr(cell.text)

CsvLine(r) ==
    FlattenSeq([c \in DOMAIN r |-> (IF c = 1 THEN <<>> ELSE <<"comma">>) \o CsvCell(r[c])])
    \o <<"nl">>

Csv(t) == CsvLine(t.header) \o FlattenSeq([r \in DOMAIN t.rows |-> CsvLine(t.rows[r])])

Init ==
    /\ table \in Tables
    /\ rest = Csv(table)
    /\ rows = <<>> /\ row = <<>> /\ field = <<>>
    /\ inQuotes = FALSE /\ wasQuoted = FALSE /\ verdict = "none"

-----------------------------------------------------------------------------
(* The reader: one action per branch of its loop.                          *)
Reads(c) == verdict = "none" /\ rest # <<>> /\ Head(rest) = c
Peeks(c) == Len(rest) > 1 /\ rest[2] = c
Skip(n) == rest' = SubSeq(rest, n + 1, Len(rest))

Quoted ==
    /\ inQuotes /\ verdict = "none" /\ rest # <<>>
    /\ IF Head(rest) # "quote"
       THEN Skip(1) /\ field' = Append(field, Head(rest)) /\ UNCHANGED inQuotes
       ELSE IF Peeks("quote")
       THEN Skip(2) /\ field' = Append(field, "quote") /\ UNCHANGED inQuotes
       ELSE Skip(1) /\ inQuotes' = FALSE /\ UNCHANGED field
    /\ UNCHANGED <<table, rows, row, wasQuoted, verdict>>

Cell == IF wasQuoted \/ field # <<>> THEN Value(field) ELSE Null

Comma ==
    /\ ~ inQuotes /\ Reads("comma")
    /\ Skip(1)
    /\ row' = Append(row, Cell) /\ field' = <<>> /\ wasQuoted' = FALSE
    /\ UNCHANGED <<table, rows, inQuotes, verdict>>

(* A blank line is no row.                                                 *)
HasRow == wasQuoted \/ field # <<>> \/ row # <<>>

EndRow ==
    IF HasRow
    THEN rows' = Append(rows, Append(row, Cell)) /\ row' = <<>> /\ field' = <<>>
    ELSE UNCHANGED <<rows, row, field>>

Newline ==
    /\ ~ inQuotes /\ (Reads("nl") \/ Reads("cr"))
    /\ Skip(IF Head(rest) = "cr" /\ Peeks("nl") THEN 2 ELSE 1)
    /\ EndRow
    /\ wasQuoted' = FALSE
    /\ UNCHANGED <<table, inQuotes, verdict>>

OpensQuote == field = <<>> /\ ~ wasQuoted

Quote ==
    /\ ~ inQuotes /\ Reads("quote") /\ OpensQuote
    /\ Skip(1)
    /\ inQuotes' = TRUE /\ wasQuoted' = TRUE
    /\ UNCHANGED <<table, rows, row, field, verdict>>

Other ==
    /\ ~ inQuotes
    /\ (\E c \in Plain : Reads(c)) \/ (Reads("quote") /\ ~ OpensQuote)
    /\ Skip(1)
    /\ field' = Append(field, Head(rest))
    /\ UNCHANGED <<table, rows, row, inQuotes, wasQuoted, verdict>>

(* The end of the text; read_csv then wants a header and rows of its       *)
(* length.                                                                 *)
End ==
    /\ verdict = "none" /\ rest = <<>>
    /\ EndRow
    /\ verdict' = IF inQuotes \/ rows' = <<>> THEN "err"
                  ELSE IF \E k \in DOMAIN rows' : Len(rows'[k]) # Len(rows'[1]) THEN "err"
                  ELSE "ok"
    /\ UNCHANGED <<table, rest, inQuotes, wasQuoted>>

Next == Quoted \/ Comma \/ Newline \/ Quote \/ Other \/ End

Spec == Init /\ [][Next]_vars

-----------------------------------------------------------------------------
(* The reader accepts every file the writer writes.                        *)
TypeOK ==
    /\ rest \in Seq(Char) /\ field \in Seq(Char)
    /\ inQuotes \in BOOLEAN /\ wasQuoted \in BOOLEAN
    /\ (inQuotes => wasQuoted) /\ verdict \in {"none", "ok"}

(* Every table of two or more columns comes back as it was: NULL, written  *)
(* bare, and the empty string, written "", are told apart, and quotes,     *)
(* commas and line ends inside a value stay inside.                        *)
RoundTrip == verdict # "none" => rows = <<table.header>> \o table.rows

(* write_csv_batch: "SQL NULLs are written as bare empty fields ... This   *)
(* is the critical distinction that lets tools like DuckDB reconstruct the *)
(* data".  No row is lost, whatever the number of columns.                 *)
NoRowLost == verdict = "ok" => Len(rows) = 1 + Len(table.rows)
=============================================================================

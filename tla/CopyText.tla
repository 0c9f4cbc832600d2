------------------------------ MODULE CopyText ------------------------------
(***************************************************************************)
(* The text format of COPY: what `parse_line` (arrow_tsv.rs) reads from a  *)
(* line of the dump.  Characters stand for classes: "n" and "r" are        *)
(* letters that name a control character after a backslash (so are b, f, t *)
(* and v), "N" marks a NULL, "." with a backslash marks the end, and "bad" *)
(* is a byte that is not UTF-8.                                            *)
(***************************************************************************)
EXTENDS Naturals, Sequences, SequencesExt

CONSTANTS
    Rows,    \* rows the server dumps: sequences of cells
    Lines,   \* other lines the parser is given: [columns, text]
    Others   \* the other characters

Control == {"tab", "nl", "cr"}
Char == Control \cup {"bs", "n", "r", "t", "N", ".", "bad"} \cup Others

Null == [null |-> TRUE, text |-> <<>>]
Value(s) == [null |-> FALSE, text |-> s]

ASSUME CopyTextAssumption ==
    /\ \A r \in Rows :
           /\ r # <<>> /\ r \in Seq([null : BOOLEAN, text : Seq(Char \ {"bad"})])
           /\ \A c \in DOMAIN r : r[c].null => r[c].text = <<>>
    /\ \A l \in Lines : l.columns \in Nat \ {0} /\ l.text \in Seq(Char)

VARIABLES
    row,      \* history: the row the line was made from, or <<>>
    columns,  \* n_cols
    line,     \* line_buf, without its newline once i > 0
    i,        \* the position of the next character, 0 before strip_newline
    field, isNull, started,
    cells,    \* what the builders got from this line; col is its length
    verdict   \* "none", then "ok", "err", or "end" for the end marker

inputVars == <<row, columns>>
fieldVars == <<field, isNull, started>>
vars == <<inputVars, line, i, fieldVars, cells, verdict>>

-----------------------------------------------------------------------------
(* The server (external): it writes NULL as \N and puts a backslash before *)
(* backslashes and, as letters, control characters.                        *)
Escaped(c) ==
    CASE c = "tab" -> <<"bs", "t">> [] c = "nl" -> <<"bs", "n">>
      [] c = "cr" -> <<"bs", "r">> [] c = "bs" -> <<"bs", "bs">>
      [] OTHER -> <<c>>

Encoded(cell) ==
    IF cell.null THEN <<"bs", "N">>
    ELSE FlattenSeq([k \in DOMAIN cell.text |-> Escaped(cell.text[k])])

Dumped(r) ==
    FlattenSeq([c \in DOMAIN r |-> (IF c = 1 THEN <<>> ELSE <<"tab">>) \o Encoded(r[c])])

Newlines == {<<>>, <<"nl">>, <<"cr", "nl">>}

Init ==
    /\ \/ \E r \in Rows, newline \in Newlines :
             row = r /\ columns = Len(r) /\ line = Dumped(r) \o newline
       \/ \E l \in Lines : row = <<>> /\ columns = l.columns /\ line = l.text
    /\ i = 0 /\ field = <<>> /\ isNull = FALSE /\ started = FALSE
    /\ cells = <<>> /\ verdict = "none"

-----------------------------------------------------------------------------
Without(s, n) == SubSeq(s, 1, Len(s) - n)

(* strip_newline.                                                          *)
Stripped(s) ==
    IF ~ IsSuffix(<<"nl">>, s) THEN s
    ELSE Without(s, IF IsSuffix(<<"cr", "nl">>, s) THEN 2 ELSE 1)

(* next_batch strips the newline and looks for the end marker.             *)
Strip ==
    /\ i = 0 /\ verdict = "none"
    /\ line' = Stripped(line)
    /\ i' = 1
    /\ verdict' = IF line' = <<"bs", ".">> THEN "end" ELSE "none"
    /\ UNCHANGED <<inputVars, fieldVars, cells>>

Scanning == i > 0 /\ verdict = "none"

At(c) == Scanning /\ i <= Len(line) /\ line[i] = c

(* finalize_field, if there is a column left: `ok` is what then follows.   *)
Cell == IF isNull THEN Null ELSE Value(field)

(* Faulty variant: the columns are only counted at the end.                *)
FieldOkAnyColumn == isNull \/ "bad" \notin ToSet(field)

FieldOk == Len(cells) < columns /\ (isNull \/ "bad" \notin ToSet(field))

Finalize == cells' = Append(cells, Cell)

(* Faulty variant: the flag survives the delimiter.                        *)
DelimiterKeepsNull ==
    /\ At("tab") /\ FieldOk
    /\ Finalize
    /\ field' = <<>> /\ started' = FALSE /\ i' = i + 1
    /\ UNCHANGED <<inputVars, line, isNull, verdict>>

Delimiter ==
    /\ At("tab") /\ FieldOk
    /\ Finalize
    /\ field' = <<>> /\ isNull' = FALSE /\ started' = FALSE /\ i' = i + 1
    /\ UNCHANGED <<inputVars, line, verdict>>

Escape == At("bs") /\ i < Len(line)

(* Faulty variant: \N counts anywhere in a field.                          *)
AtNullAnywhere == Escape /\ line[i + 1] = "N"

AtNull == Escape /\ ~ started /\ line[i + 1] = "N"

NullMark ==
    /\ AtNull
    /\ isNull' = TRUE /\ started' = TRUE /\ i' = i + 2
    /\ UNCHANGED <<inputVars, line, field, cells, verdict>>

Unescaped(c) ==
    CASE c = "n" -> "nl" [] c = "r" -> "cr" [] c = "t" -> "tab" [] OTHER -> c

EscapedChar ==
    /\ Escape /\ ~ AtNull
    /\ field' = Append(field, Unescaped(line[i + 1]))
    /\ started' = TRUE /\ i' = i + 2
    /\ UNCHANGED <<inputVars, line, isNull, cells, verdict>>

(* Any other character, a backslash at the end of the line included.       *)
PlainChar ==
    /\ Scanning /\ i <= Len(line) /\ line[i] # "tab" /\ ~ Escape
    /\ field' = Append(field, line[i])
    /\ started' = TRUE /\ i' = i + 1
    /\ UNCHANGED <<inputVars, line, isNull, cells, verdict>>

(* The last field, then the number of columns.                             *)
LineEnd ==
    /\ Scanning /\ i > Len(line) /\ FieldOk
    /\ Finalize
    /\ verdict' = IF Len(cells') = columns THEN "ok" ELSE "err"
    /\ UNCHANGED <<inputVars, line, i, fieldVars>>

(* Too many columns, or a field that is not UTF-8.                         *)
FieldFails ==
    /\ Scanning /\ (i <= Len(line) => line[i] = "tab") /\ ~ FieldOk
    /\ verdict' = "err"
    /\ UNCHANGED <<inputVars, line, i, fieldVars, cells>>

Next ==
    \/ Strip \/ Delimiter \/ NullMark \/ EscapedChar \/ PlainChar
    \/ LineEnd \/ FieldFails

Spec == Init /\ [][Next]_vars

-----------------------------------------------------------------------------
TypeOK ==
    /\ columns \in Nat /\ line \in Seq(Char)
    /\ i \in 0 .. Len(line) + 1
    /\ field \in Seq(Char) /\ isNull \in BOOLEAN /\ started \in BOOLEAN
    /\ cells \in Seq([null : BOOLEAN, text : Seq(Char \ {"bad"})])
    /\ Len(cells) <= columns
    /\ verdict \in {"none", "ok", "err", "end"}

(* Every row the server can dump comes back as it was: NULL, the empty     *)
(* string, the text \N and the text \. are told apart, no character of a   *)
(* value is taken for a delimiter, a newline or the end marker.            *)
RoundTrip ==
    row # <<>> /\ verdict # "none" => verdict = "ok" /\ cells = row

(* The reference definition, without a scan.  A character is literal if an *)
(* odd run of backslashes precedes it; the other tabs delimit the fields.  *)
LastOther(text, k) ==
    LET others == {j \in 1 .. k - 1 : text[j] # "bs"}
    IN IF others = {} THEN 0 ELSE CHOOSE j \in others : \A m \in others : m <= j
Literal(text, k) == (k - 1 - LastOther(text, k)) % 2 = 1

Delimiters(text) == {k \in DOMAIN text : text[k] = "tab" /\ ~ Literal(text, k)}
DelimitersTo(text, k) == {j \in Delimiters(text) : j <= k}

NthDelimiter(text, n) ==
    IF n = 0 THEN 0
    ELSE IF n > Cardinality(Delimiters(text)) THEN Len(text) + 1
    ELSE CHOOSE k \in Delimiters(text) : Cardinality(DelimitersTo(text, k)) = n

(* The backslashes that are not themselves literal go, unless at the end.  *)
Meant(text, k) ==
    IF Literal(text, k) THEN <<Unescaped(text[k])>>
    ELSE IF text[k] = "bs" /\ k # Len(text) THEN <<>> ELSE <<text[k]>>

FieldText(text, first, last) ==
    FlattenSeq([k \in 1 .. last - first + 1 |-> Meant(text, first + k - 1)])

DefinedCell(text, n) ==
    LET first == NthDelimiter(text, n - 1) + 1
        last == NthDelimiter(text, n) - 1
    IN IF last > first /\ text[first] = "bs" /\ text[first + 1] = "N"
       THEN Null ELSE Value(FieldText(text, first, last))

Defined(text) == [n \in 1 .. Cardinality(Delimiters(text)) + 1 |-> DefinedCell(text, n)]

Acceptable(text) ==
    /\ Len(Defined(text)) = columns
    /\ \A n \in DOMAIN Defined(text) : "bad" \notin ToSet(Defined(text)[n].text)

(* Any line: it is accepted if it has the right number of fields and       *)
(* all of them are UTF-8, and yields the fields so defined.  A field that  *)
(* only begins with \N is a NULL.                                          *)
AsDefined ==
    /\ verdict \in {"ok", "err"} => (verdict = "ok" <=> Acceptable(line))
    /\ verdict = "ok" => cells = Defined(line)
=============================================================================

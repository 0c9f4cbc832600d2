---------------------------- MODULE MCTextExport ----------------------------
(***************************************************************************)
(* Small instances of TextExport: rows of one or two short cells that are  *)
(* dumped, every line of up to MaxLength characters as one or two columns, *)
(* and tables of one or two rows.  Rows of one column are not written:     *)
(* see CsvTextOneColumn.cfg.                                               *)
(***************************************************************************)
EXTENDS TextExport

CONSTANTS Alphabet, MaxLength

Cells(n) == {Null} \cup {Value(s) : s \in SeqOf(Char \ {"bad"}, n)}

SmallRows ==
    [1 .. 1 -> Cells(2)] \cup [1 .. 2 -> Cells(1)]
    \cup {<<c, Value(<<"a">>)>> : c \in Cells(2)}
    \cup {<<Value(<<"bs">>), c>> : c \in Cells(2)}

SmallLines == [columns : 1 .. 2, text : SeqOf(Alphabet, MaxLength)]

Names == {Value(<<"a">>), Value(<<"comma", "quote">>), Value(<<"quote", "a">>)}
SmallHeaders == <<{}, {<<Value(<<"a">>), Value(<<"comma", "quote">>)>>}>>

CsvCells(n) == {Null} \cup {Value(s) : s \in SeqOf({"quote", "comma", "nl", "cr", "a"}, n)}

TwoColumns ==
    [header : [1 .. 2 -> Names], rows : [1 .. 1 -> [1 .. 2 -> CsvCells(1)]]]
    \cup [header : {<<Value(<<"a">>), Value(<<"quote">>)>>}, rows : [1 .. 1 -> [1 .. 2 -> CsvCells(2)]]]
    \cup [header : {<<Value(<<"a">>), Value(<<"quote">>)>>}, rows : [1 .. 2 -> [1 .. 2 -> CsvCells(1)]]]
=============================================================================

------------------------------ MODULE MCCsvText ------------------------------
(***************************************************************************)
(* Small instances of CsvText: tables of one column.                       *)
(***************************************************************************)
EXTENDS CsvText

Cells(n) == {Null} \cup {Value(s) : s \in SeqOf(Char, n)}
Name(s) == Value(s)

OneColumn ==
    [header : {<<Name(<<"a">>)>>}, rows : [1 .. 2 -> [1 .. 1 -> Cells(1)]]]
=============================================================================

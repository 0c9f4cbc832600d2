----------------------------- MODULE MCReadEntry -----------------------------
(***************************************************************************)
(* Small instances of ReadEntry.                                           *)
(***************************************************************************)
EXTENDS ReadEntry

CONSTANT MaxLines   \* data lines of a table

(* Reading stops at the first "io" line, so at most the last one is.       *)
Tables == {s \in UNION {[1 .. n -> LineKinds] : n \in 0 .. MaxLines} :
              \A i \in 1 .. Len(s) - 1 : s[i] # "io"}

(* Every call on an entry that can be exported ...                         *)
GoodJobs == [format : Formats, lines : Tables,
             data : {TRUE}, columns : {TRUE}, output : {TRUE}]

(* ... and every combination of missing parts on two small tables.         *)
AllJobs == GoodJobs \cup
           [format : Formats, lines : {<<>>, <<"row">>},
            data : BOOLEAN, columns : BOOLEAN, output : BOOLEAN]
=============================================================================

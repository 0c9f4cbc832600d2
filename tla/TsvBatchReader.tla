---------------------------- MODULE TsvBatchReader ----------------------------
(***************************************************************************)
(* `TsvBatchReader::next_batch` (arrow_tsv.rs): lines are parsed into one  *)
(* column builder per column until batch_size rows are there; the builders *)
(* then become the columns of a batch.  A cell is the number of the line   *)
(* it was parsed from.                                                     *)
(***************************************************************************)
EXTENDS Integers, Sequences

CONSTANTS
    Tables,     \* the tables that are considered
    Columns,    \* the number of columns
    BatchSize   \* rows of a full batch

(* A line as parse_line sees it: a row; a line it rejects after `fills`    *)
(* columns got their cell (too few or too many columns, a field that is    *)
(* not UTF-8); a failing read; the line "\." .                             *)
Line == [kind : {"row"}, fills : {Columns}]
        \cup [kind : {"bad"}, fills : 0 .. Columns]
        \cup [kind : {"io", "marker"}, fills : {0}]

ASSUME TablesAssumption ==
    /\ Tables \subseteq Seq(Line)
    /\ Columns \in Nat \ {0} /\ BatchSize \in Nat \ {0}

VARIABLES
    table,      \* the lines
    pos,        \* lines read
    calling,    \* inside next_batch
    rows,       \* rows parsed in this call
    builders,   \* the cells of each column
    done,
    answer,     \* what the last call returned: its kind and first, last line
    from,       \* history: the line this call would return first
    failed,     \* history: a call has returned an error
    batches     \* history: the columns of every batch returned

historyVars == <<from, failed, batches>>
vars == <<table, pos, calling, rows, builders, done, answer, historyVars>>

Empty == [c \in 1 .. Columns |-> <<>>]

Init ==
    /\ table \in Tables
    /\ pos = 0 /\ calling = FALSE /\ rows = 0 /\ builders = Empty /\ done = FALSE
    /\ answer = [kind |-> "none", first |-> 0, last |-> 0]
    /\ from = 1 /\ failed = FALSE /\ batches = <<>>

(* The line after those returned before the first error.                   *)
NextLine == IF ~ calling /\ ~ failed /\ answer.kind = "batch" THEN answer.last + 1 ELSE from

Returns(kind) == answer' = [kind |-> kind, first |-> 0, last |-> 0]

-----------------------------------------------------------------------------
Call ==
    /\ ~ calling /\ ~ done
    /\ calling' = TRUE /\ rows' = 0
    /\ from' = NextLine
    /\ UNCHANGED <<table, pos, builders, done, answer, failed, batches>>

CallDone ==
    /\ ~ calling /\ done
    /\ Returns("end")
    /\ from' = NextLine
    /\ UNCHANGED <<table, pos, calling, rows, builders, done, failed, batches>>

(* Faulty variant: no limit on the rows of a batch.                        *)
ReadingOn == calling /\ ~ done

Reading == calling /\ ~ done /\ rows < BatchSize
Current == table[pos + 1]
More(kind) == pos < Len(table) /\ Current.kind = kind

(* The first n columns get a cell from the line read.                      *)
Fill(n) ==
    builders' = [c \in 1 .. Columns |-> IF c <= n THEN Append(builders[c], pos + 1)
                                                  ELSE builders[c]]

ParseRow ==
    /\ Reading /\ More("row")
    /\ pos' = pos + 1
    /\ Fill(Columns)
    /\ rows' = rows + 1
    /\ UNCHANGED <<table, calling, done, answer, historyVars>>

(* `parse_line(..)?`: cells stay in the builders, also those of the rows   *)
(* before.                                                                 *)
ParseFails ==
    /\ Reading /\ More("bad")
    /\ pos' = pos + 1
    /\ Fill(Current.fills)
    /\ calling' = FALSE
    /\ Returns("err") /\ failed' = TRUE
    /\ UNCHANGED <<table, rows, done, from, batches>>

ReadFails ==
    /\ Reading /\ More("io")
    /\ pos' = pos + 1
    /\ calling' = FALSE
    /\ Returns("err") /\ failed' = TRUE
    /\ UNCHANGED <<table, rows, builders, done, from, batches>>

(* Faulty variant: the end is not remembered.                              *)
LastLineForgotten ==
    /\ Reading /\ (pos < Len(table) => Current.kind = "marker")
    /\ pos' = IF pos < Len(table) THEN pos + 1 ELSE pos
    /\ calling' = FALSE
    /\ Returns("end")
    /\ UNCHANGED <<table, rows, builders, done, historyVars>>

LastLine ==
    /\ Reading /\ (pos < Len(table) => Current.kind = "marker")
    /\ pos' = IF pos < Len(table) THEN pos + 1 ELSE pos
    /\ done' = TRUE
    /\ UNCHANGED <<table, calling, rows, builders, answer, historyVars>>

(* After the loop.                                                         *)
LoopEnds == calling /\ (done \/ rows = BatchSize)

Rectangular == \A c \in 1 .. Columns : Len(builders[c]) = Len(builders[1])

Nothing ==
    /\ LoopEnds /\ rows = 0
    /\ calling' = FALSE
    /\ Returns("end")
    /\ UNCHANGED <<table, pos, rows, builders, done, historyVars>>

(* Faulty variant: the columns are cut to a common length.                 *)
Shortest == CHOOSE n \in {Len(builders[c]) : c \in 1 .. Columns} :
                \A c \in 1 .. Columns : n <= Len(builders[c])

FinishBatchCut ==
    /\ LoopEnds /\ rows > 0
    /\ calling' = FALSE /\ builders' = Empty
    /\ LET cols == [c \in 1 .. Columns |-> SubSeq(builders[c], 1, Shortest)]
       IN  /\ batches' = Append(batches, cols)
           /\ answer' = [kind |-> "batch", first |-> cols[1][1],
                         last |-> cols[1][Len(cols[1])]]
    /\ UNCHANGED <<table, pos, rows, done, from, failed>>

(* Faulty variant: the builders keep their cells.                          *)
FinishBatchKeeps ==
    /\ LoopEnds /\ rows > 0 /\ Rectangular
    /\ calling' = FALSE
    /\ batches' = Append(batches, builders)
    /\ answer' = [kind |-> "batch", first |-> builders[1][1],
                  last |-> builders[1][Len(builders[1])]]
    /\ UNCHANGED <<table, pos, rows, builders, done, from, failed>>

(* finish() empties the builders; try_new wants columns of one length.     *)
FinishBatch ==
    /\ LoopEnds /\ rows > 0 /\ Rectangular
    /\ calling' = FALSE /\ builders' = Empty
    /\ batches' = Append(batches, builders)
    /\ answer' = [kind |-> "batch", first |-> builders[1][1],
                  last |-> builders[1][Len(builders[1])]]
    /\ UNCHANGED <<table, pos, rows, done, from, failed>>

FinishFails ==
    /\ LoopEnds /\ rows > 0 /\ ~ Rectangular
    /\ calling' = FALSE /\ builders' = Empty
    /\ Returns("err") /\ failed' = TRUE
    /\ UNCHANGED <<table, pos, rows, done, from, batches>>

-----------------------------------------------------------------------------
Work ==
    \/ ParseRow \/ ParseFails \/ ReadFails \/ LastLine
    \/ Nothing \/ FinishBatch \/ FinishFails

(* read_entry stops at the end or the first error, but the type does not   *)
(* stop anyone from calling next_batch again.                              *)
Next == Call \/ CallDone \/ Work

Spec == Init /\ [][Next]_vars

FairSpec == Spec /\ WF_vars(Next)

-----------------------------------------------------------------------------
TypeOK ==
    /\ table \in Tables /\ pos \in 0 .. Len(table)
    /\ rows \in 0 .. BatchSize
    /\ calling \in BOOLEAN /\ done \in BOOLEAN /\ failed \in BOOLEAN
    /\ answer.kind \in {"none", "batch", "end", "err"}
    /\ \A c \in 1 .. Columns : Len(builders[c]) <= pos

(* In every batch the cells of a row come from one line, and a line is in  *)
(* at most one batch: what a rejected line left in the builders never      *)
(* shifts one column against another, even for a caller that goes on.      *)
RowsAligned ==
    /\ \A b \in DOMAIN batches : \A c \in 1 .. Columns : batches[b][c] = batches[b][1]
    /\ \A a, b \in DOMAIN batches :
         \A i \in DOMAIN batches[a][1], j \in DOMAIN batches[b][1] :
            <<a, i>> # <<b, j>> => batches[a][1][i] # batches[b][1][j]

(* Once the end was answered it stays the answer, and no line behind it is *)
(* read.                                                                   *)
EndIsFinal ==
    [][answer.kind = "end" => answer'.kind = "end" /\ pos' = pos]_vars

(* Up to the first error next_batch is LineBatches: each batch is the next *)
(* BatchSize lines, the last one the rest, and there is none when the      *)
(* table ends on a batch boundary.                                         *)
Marked == {k \in DOMAIN table : table[k].kind = "marker"}
Rows == IF Marked = {} THEN Len(table)
                       ELSE (CHOOSE k \in Marked : \A l \in Marked : k <= l) - 1

L == INSTANCE LineBatches WITH
        rows <- [k \in 1 .. Rows |-> table[k].kind = "row"],
        next <- NextLine,
        answer <- IF failed THEN [kind |-> "err", first |-> 0, last |-> 0] ELSE answer

ImplementsLineBatches == L!FairSpec
=============================================================================

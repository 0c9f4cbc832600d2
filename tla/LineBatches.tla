----------------------------- MODULE LineBatches -----------------------------
(***************************************************************************)
(* What next_batch (arrow_tsv.rs) promises read_entry: the lines of the    *)
(* table in order, BatchSize at a time and the rest at the end, until a    *)
(* line that is no row; the rows of its batch before it are not returned.  *)
(* The module ReadEntry takes its batches in these steps.                  *)
(***************************************************************************)
EXTENDS Integers, Sequences

CONSTANT BatchSize

VARIABLES
    rows,    \* for each line whether it is a row
    next,    \* number of the next line that was not returned
    answer   \* the last answer

vars == <<rows, next, answer>>

None == [kind |-> "none", first |-> 0, last |-> 0]
Error == [None EXCEPT !.kind = "err"]
End == [None EXCEPT !.kind = "end"]
Lines(i, j) == [kind |-> "batch", first |-> i, last |-> j]

WindowEnd ==
    IF next + BatchSize - 1 <= Len(rows) THEN next + BatchSize - 1 ELSE Len(rows)

AllRows == \A k \in next .. WindowEnd : rows[k]

Init == rows \in Seq(BOOLEAN) /\ next = 1 /\ answer = None

Batch ==
    /\ answer.kind \in {"none", "batch"} /\ next <= Len(rows) /\ AllRows
    /\ answer' = Lines(next, WindowEnd)
    /\ next' = WindowEnd + 1
    /\ UNCHANGED rows

Fail ==
    /\ answer.kind \in {"none", "batch"} /\ next <= Len(rows) /\ ~ AllRows
    /\ answer' = Error
    /\ UNCHANGED <<rows, next>>

Finish ==
    /\ answer.kind \in {"none", "batch"} /\ next > Len(rows)
    /\ answer' = End
    /\ UNCHANGED <<rows, next>>

Spec == Init /\ [][Batch \/ Fail \/ Finish]_vars

FairSpec == Spec /\ WF_vars(Batch \/ Fail \/ Finish)
=============================================================================

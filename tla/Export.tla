------------------------------- MODULE Export -------------------------------
(***************************************************************************)
(* What read_entry (table_read/mod.rs) promises its callers about one      *)
(* output, whatever the format: it answers once, Ok exactly when the       *)
(* output holds the whole table, and the output is settled by then.        *)
(***************************************************************************)
VARIABLES
    out,     \* "untouched", "partial" or "whole"
    result   \* "none" until read_entry returns "ok" or "err"

vars == <<out, result>>

Init == out = "untouched" /\ result = "none"

(* Work on the output: it is truncated, then filled and completed.         *)
Work ==
    /\ result = "none"
    /\ \/ out = "untouched" /\ out' = "partial"
       \/ out = "partial" /\ out' = "whole"
    /\ UNCHANGED result

Succeed ==
    /\ result = "none" /\ out \in {"partial", "whole"}
    /\ out' = "whole"
    /\ result' = "ok"

Fail ==
    /\ result = "none" /\ out \in {"untouched", "partial"}
    /\ out' \in {out, "partial"}
    /\ result' = "err"

Next == Work \/ Succeed \/ Fail

Spec == Init /\ [][Next]_vars

FairSpec == Spec /\ WF_vars(Next)
=============================================================================

----------------------------- MODULE ByteSource -----------------------------
(***************************************************************************)
(* What DumpReader (reader.rs) promises libpgdump, for a local file and    *)
(* for a URL alike: Read and Seek over its bytes.  A read delivers the    *)
(* bytes at the position, or reports the end when it is there; a seek goes *)
(* where it was told to; what fails leaves the position alone.             *)
(***************************************************************************)
EXTENDS Integers

CONSTANT Sizes   \* one size, or those it has while it is replaced

VARIABLES
    pos,   \* the position
    last   \* the last call: [op, ok, first, n], op being "read" or what the
           \* seek is relative to.  A read delivers n bytes from first on, a
           \* seek by n goes to first.

vars == <<pos, last>>

Call(op, ok, first, n) == [op |-> op, ok |-> ok, first |-> first, n |-> n]

Init == pos = 0 /\ last = Call("none", TRUE, 0, 0)

Deliver ==
    \E size \in Sizes : \E n \in 1 .. size - pos :
        /\ last' = Call("read", TRUE, pos, n)
        /\ pos' = pos + n

ReportEnd ==
    /\ \E size \in Sizes : pos >= size
    /\ last' = Call("read", TRUE, pos, 0)
    /\ UNCHANGED pos

Bases(op) == CASE op = "start" -> {0} [] op = "current" -> {pos} [] op = "end" -> Sizes

Move ==
    /\ last'.op \in {"start", "current", "end"}
    /\ pos' - last'.n \in Bases(last'.op) /\ pos' \in Nat
    /\ last' = Call(last'.op, TRUE, pos', last'.n)

Fail ==
    /\ \E op \in {"read", "start", "current", "end"} : last' = Call(op, FALSE, 0, 0)
    /\ UNCHANGED pos

Spec == Init /\ [][Deliver \/ ReportEnd \/ Move \/ Fail]_vars
=============================================================================

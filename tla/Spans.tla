-------------------------------- MODULE Spans --------------------------------
(***************************************************************************)
(* Intervals of line numbers, and sequences of them that cover a range.    *)
(***************************************************************************)
EXTENDS Integers, Sequences

Batch == [first : Int, last : Int]

Span(i, j) == [first |-> i, last |-> j]

(* The spans of s follow each other without gap or overlap and cover       *)
(* exactly i .. j (nothing when j = i - 1).  That they are in order, given *)
(* next, follows, but only by induction.                                   *)
Chain(s, i, j) ==
    /\ \A k \in 1 .. Len(s) : s[k].first <= s[k].last
    /\ \A k \in 1 .. Len(s) - 1 : s[k + 1].first = s[k].last + 1
    /\ \A k, l \in 1 .. Len(s) : k < l => s[k].last < s[l].first
    /\ IF s = <<>> THEN j = i - 1
                    ELSE s[1].first = i /\ s[Len(s)].last = j
=============================================================================

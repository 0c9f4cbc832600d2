-------------------------- MODULE MCHttpRangeReader --------------------------
(***************************************************************************)
(* Small instances of HttpRangeReader: bounds the positions.               *)
(***************************************************************************)
EXTENDS HttpRangeReader

CONSTANT MaxPosition   \* seeks go at most this far

SmallDeltas == -2 .. 2

TwoVersions == <<4, 3>>

PositionBound == position <= MaxPosition
=============================================================================

---------------------------- MODULE MCTsvStream ----------------------------
(***************************************************************************)
(* Small instances of TsvStream and LineReader: up to MaxLines lines of    *)
(* one byte, rows of four whose last three may read as the end marker, and *)
(* end markers of two; the reader fails at any bytes.                      *)
(***************************************************************************)
EXTENDS LineReader

CONSTANT MaxLines

SmallLines == {[len |-> 1, tail |-> 9], [len |-> 4, tail |-> 1], [len |-> 2, tail |-> 0]}

SmallStreams ==
    {s \in [header : 1 .. 2, lines : SeqOf(SmallLines, MaxLines), open : BOOLEAN] :
        s.open => s.lines # <<>>}
=============================================================================

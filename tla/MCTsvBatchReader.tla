-------------------------- MODULE MCTsvBatchReader --------------------------
(***************************************************************************)
(* Small instances of TsvBatchReader: every table of up to MaxLines lines. *)
(***************************************************************************)
EXTENDS TsvBatchReader, SequencesExt

CONSTANT MaxLines

SmallTables == SeqOf(Line, MaxLines)
=============================================================================

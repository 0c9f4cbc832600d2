------------------------------ MODULE LineReader ------------------------------
(***************************************************************************)
(* The `BufReader` that read_entry (table_read/mod.rs) puts over a         *)
(* TsvStream, and the read_until(b'\n') by which the header line and then  *)
(* the lines for next_batch (arrow_tsv.rs) are taken from it: TsvStream    *)
(* composed with its caller.  A line may come in several refills, and any  *)
(* refill may fail, also when a part of the line is in line_buf already:   *)
(* the part that was read before an earlier error in the same line.        *)
(***************************************************************************)
EXTENDS TsvStream

(* A BufReader has a buffer, and passes the whole of it to read.           *)
ASSUME BufferAssumption == 0 \notin Sizes

VARIABLES
    unread,    \* what is in the BufReader's buffer and was not taken yet
    reading,   \* a read_until is under way
    lineBuf,   \* next_batch's line_buf
    answer,    \* the last answer of read_until: "none", "line", "end", "err"
    lines      \* history: the lines it answered

takenVars == <<lineBuf, answer, lines>>
readerVars == <<vars, unread, reading, takenVars>>

ReaderInit ==
    /\ Init
    /\ unread = <<>> /\ reading = FALSE /\ lineBuf = <<>>
    /\ answer = "none" /\ lines = <<>>

(* b is a newline.                                                         *)
EndsLine(b) ==
    IF b[1] = 0 THEN b[2] = stream.header
    ELSE /\ b[2] = stream.lines[b[1]].len
         /\ b[1] = Len(stream.lines) => ~ stream.open

AnswerLine == answer' = "line" /\ lines' = Append(lines, lineBuf') /\ reading' = FALSE

-----------------------------------------------------------------------------
(* Faulty variant: line_buf is not cleared.                                *)
StartKeeps ==
    /\ ~ reading
    /\ reading' = TRUE
    /\ UNCHANGED <<vars, unread, takenVars>>

(* next_batch, or read_entry for the header line.                          *)
Start ==
    /\ ~ reading
    /\ reading' = TRUE /\ lineBuf' = <<>>
    /\ UNCHANGED <<vars, unread, answer, lines>>

(* Faulty variant: a last line without a newline is taken for the end.     *)
RefillDrops ==
    /\ reading /\ unread = <<>>
    /\ Next
    /\ unread' = SubSeq(out', Len(out) + 1, Len(out'))
    /\ \/ last' = "data" /\ UNCHANGED <<reading, answer>>
       \/ last' = "eof" /\ answer' = "end" /\ reading' = FALSE
       \/ last' = "err" /\ answer' = "err" /\ reading' = FALSE
    /\ UNCHANGED <<lineBuf, lines>>

(* fill_buf: one read of the stream.  At its end the rest is the line, or  *)
(* there is none; an error ends read_until with the line unfinished.       *)
Refill ==
    /\ reading /\ unread = <<>>
    /\ Next
    /\ unread' = SubSeq(out', Len(out) + 1, Len(out'))
    /\ UNCHANGED lineBuf
    /\ \/ /\ last' = "data"
          /\ UNCHANGED <<reading, answer, lines>>
       \/ /\ last' = "eof" /\ lineBuf # <<>>
          /\ AnswerLine
       \/ /\ last' = "eof" /\ lineBuf = <<>>
          /\ answer' = "end" /\ reading' = FALSE
          /\ UNCHANGED lines
       \/ /\ last' = "err"
          /\ answer' = "err" /\ reading' = FALSE
          /\ UNCHANGED lines

LineEnds == {k \in DOMAIN unread : EndsLine(unread[k])}

(* consume: up to the first newline, or all there is.                      *)
Take ==
    /\ reading /\ unread # <<>>
    /\ IF LineEnds = {}
       THEN /\ lineBuf' = lineBuf \o unread /\ unread' = <<>>
            /\ UNCHANGED <<reading, answer, lines>>
       ELSE LET k == Min(LineEnds) IN
            /\ lineBuf' = lineBuf \o SubSeq(unread, 1, k)
            /\ unread' = SubSeq(unread, k + 1, Len(unread))
            /\ AnswerLine
    /\ UNCHANGED vars

ReaderNext == Start \/ Refill \/ Take

ReaderSpec == ReaderInit /\ [][ReaderNext]_readerVars

(* The caller keeps asking for lines, also after an error and at the end.  *)
ReaderFairSpec == ReaderSpec /\ WF_readerVars(ReaderNext)

-----------------------------------------------------------------------------
ReaderTypeOK ==
    /\ TypeOK
    /\ reading \in BOOLEAN /\ answer \in {"none", "line", "end", "err"}
    /\ unread # <<>> => reading
    /\ answer = "line" /\ ~ reading => lineBuf # <<>>

(* Where the beginning of line l was lost: the first of two errors in it.  *)
(* The bytes before the first are in line_buf when the second strikes, and *)
(* the next next_batch clears it.                                          *)
CutsIn(l) ==
    {faults[i][2] : i \in {i \in DOMAIN faults :
        faults[i][1] = l /\ \E j \in DOMAIN faults : j > i /\ faults[j][1] = l}}

(* A last line without a newline is lost by one error: that of the read    *)
(* that should have found the end of the stream.                           *)
LastLineLost ==
    stream.open /\ \E i \in DOMAIN faults : faults[i][1] > Len(stream.lines)

Torn(l) == (\E k \in CutsIn(l) : k > 0) \/ (l = Len(stream.lines) /\ LastLineLost)

NothingTorn == \A l \in 1 .. Len(stream.lines) : ~ Torn(l)

(* An error in a row just before its "\." end: the rest is taken for the   *)
(* end marker when the caller reads on.                                    *)
RowSplit ==
    \E i \in DOMAIN faults : \E l \in 1 .. Len(stream.lines) :
        faults[i] = <<l, stream.lines[l].tail>> /\ faults[i][2] > 0

(* next_batch is given what it takes lines for: the header first, then the *)
(* lines of the table, each once and whole, however the bytes were cut     *)
(* into reads and wherever the dump's reader failed, except that two       *)
(* errors in one line cost it what came before the first; the end only     *)
(* after the last of them, and neither the marker nor the blank lines that *)
(* pg_dump writes after it, however often the caller asks again.           *)
LinesAreWhole ==
    ~ MarkerSplit /\ ~ RowSplit =>
        /\ Len(lines) <= LastLine + 1
        /\ \A n \in DOMAIN lines :
              \/ lines[n] = LineBytes(n - 1)
              \/ \E k \in CutsIn(n - 1) : lines[n] = Bytes(n - 1, k, stream.lines[n - 1].len)
        /\ answer = "end" =>
              \/ Len(lines) = LastLine + 1
              \/ Len(lines) = LastLine /\ stream.open /\ Torn(Len(stream.lines))

(* Errors in different lines lose nothing, although next_batch clears      *)
(* line_buf after each: every byte the stream delivered is in a line that  *)
(* was answered, in the one under way, or still to be taken.               *)
Accounted ==
    NothingTorn => out = FlattenSeq(lines) \o (IF reading THEN lineBuf ELSE <<>>) \o unread

(* A caller that goes on, also after an error, gets to the end of the      *)
(* table: no read comes back with nothing while there is something left.   *)
EndIsReached == <>[](answer = "end")

-----------------------------------------------------------------------------
(* Why EndIsReached needs no more than fairness: what every step has less  *)
(* of, the lines and errors ahead of the stream before what the stream     *)
(* holds, and that before what the BufReader holds.                        *)
ToFetch ==
    (Len(stream.lines) + 1 - line) + (IF done THEN 0 ELSE 1) + (MaxFaults - Len(faults))
ToDeliver == (stream.header - hpos) + (Len(buffer) - bufferPos)
ToTake == Len(unread)
ToAsk == IF reading THEN 0 ELSE 1

(* No read is for nothing: before the end is answered, each step of        *)
(* read_until uses up something that no later step brings back; the        *)
(* TsvStream returns no data only where a line, the marker, an error or    *)
(* the end was behind it.                                                  *)
ReadsAdvance ==
    [][/\ ToFetch' \in Nat /\ ToDeliver' \in Nat /\ ToTake' \in Nat
       /\ \/ answer' = "end"
          \/ ToFetch' < ToFetch
          \/ /\ ToFetch' = ToFetch
             /\ \/ ToDeliver' < ToDeliver
                \/ /\ ToDeliver' = ToDeliver
                   /\ \/ ToTake' < ToTake
                      \/ ToTake' = ToTake /\ ToAsk' < ToAsk]_readerVars

(* The end is answered for good, however often the caller asks again.      *)
EndStays == [][answer = "end" => answer' = "end"]_readerVars
=============================================================================

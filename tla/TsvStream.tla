------------------------------ MODULE TsvStream ------------------------------
(***************************************************************************)
(* `TsvStream::read` (tsv.rs): a header row, then the raw lines of the     *)
(* COPY block up to the line "\.", in pieces as large as the caller's      *)
(* buffer.  A byte is <<line, k>>: byte k of a line; line 0 is the header. *)
(***************************************************************************)
EXTENDS Naturals, Sequences, SequencesExt

CONSTANTS
    Streams,   \* the raw streams that are considered
    Sizes,     \* lengths of the buffers passed to read
    MaxFaults  \* bound: how often the dump's reader fails

(* What follows byte `tail` of a line is exactly "\.", "\.\n" or "\.\r\n": *)
(* with tail 0 the line is the end marker, with a tail past its end it has *)
(* no such rest; a row may have one, as the value "\." is written "\\.".   *)
(* If the stream is `open`, its last line is cut off before the newline.   *)
Line == {l \in [len : Nat \ {0}, tail : Nat] : l.tail # l.len}
Stream ==
    {s \in [header : Nat \ {0}, lines : Seq(Line), open : BOOLEAN] : s.open => s.lines # <<>>}

ASSUME StreamsAssumption ==
    Streams \subseteq Stream /\ Sizes \subseteq Nat /\ MaxFaults \in Nat

VARIABLES
    stream,      \* the raw stream
    faults,      \* history: the <<line, k>> at which its reader failed
    line, off,   \* the reader's position: bytes up to off of `line` are taken
    hpos,        \* bytes of the header delivered: the cursor's position
    doneHeader, buffer, bufferPos, done,
    out,         \* history: the bytes the caller got
    asked,       \* history: the size of the buffer in the last call
    last         \* the last answer: "none", "data", "eof" or "err"

innerVars == <<stream, faults, line, off>>
vars == <<innerVars, hpos, doneHeader, buffer, bufferPos, done, out, asked, last>>

Bytes(l, i, j) == [k \in 1 .. j - i |-> <<l, i + k>>]

Smaller(a, b) == IF a <= b THEN a ELSE b

Init ==
    /\ stream \in Streams
    /\ faults = <<>> /\ line = 1 /\ off = 0
    /\ hpos = 0 /\ doneHeader = FALSE
    /\ buffer = <<>> /\ bufferPos = 0 /\ done = FALSE
    /\ out = <<>> /\ asked = 0 /\ last = "none"

-----------------------------------------------------------------------------
(* One action per way through read(buf), n being the length of buf.        *)
Buffered == bufferPos < Len(buffer)

HeaderYields(n) == ~ doneHeader /\ n > 0 /\ hpos < stream.header

ReadDone(n) ==
    /\ done /\ ~ Buffered
    /\ last' = "eof"
    /\ UNCHANGED <<innerVars, hpos, doneHeader, buffer, bufferPos, done, out>>

ReadHeader(n) ==
    /\ ~ done \/ Buffered
    /\ HeaderYields(n)
    /\ hpos' = Smaller(hpos + n, stream.header)
    /\ out' = out \o Bytes(0, hpos, hpos')
    /\ last' = "data"
    /\ UNCHANGED <<innerVars, doneHeader, buffer, bufferPos, done>>

(* A header cursor that yields nothing is done, even if buf was empty.     *)
PastHeader(n) == ~ HeaderYields(n) /\ doneHeader' = TRUE

(* Faulty variants: the position passes the end of the buffer; a rest that *)
(* does not fit is withheld.                                               *)
ReadBufferOverrun(n) ==
    /\ Buffered /\ PastHeader(n)
    /\ out' = out \o SubSeq(buffer, bufferPos + 1, Smaller(bufferPos + n, Len(buffer)))
    /\ bufferPos' = bufferPos + n
    /\ last' = "data"
    /\ UNCHANGED <<innerVars, hpos, buffer, done>>

ReadBufferWhole(n) ==
    /\ Buffered /\ PastHeader(n)
    /\ bufferPos' = IF bufferPos + n < Len(buffer) THEN bufferPos ELSE Len(buffer)
    /\ out' = out \o SubSeq(buffer, bufferPos + 1, bufferPos')
    /\ last' = "data"
    /\ UNCHANGED <<innerVars, hpos, buffer, done>>

ReadBuffer(n) ==
    /\ Buffered /\ PastHeader(n)
    /\ bufferPos' = Smaller(bufferPos + n, Len(buffer))
    /\ out' = out \o SubSeq(buffer, bufferPos + 1, bufferPos')
    /\ last' = "data"
    /\ UNCHANGED <<innerVars, hpos, buffer, done>>

(* read_until: what is left of the current line.                           *)
Fetching(n) == ~ done /\ ~ Buffered /\ PastHeader(n)
AtStreamEnd == line <= Len(stream.lines) => off = stream.lines[line].len
AtMarker == ~ AtStreamEnd /\ off = stream.lines[line].tail

(* How much of the line is there when the reader fails: not its newline,   *)
(* with which read_until would have come back.                             *)
ErrorAt ==
    IF line > Len(stream.lines) THEN {0}
    ELSE off .. (IF stream.open /\ line = Len(stream.lines)
                 THEN stream.lines[line].len ELSE stream.lines[line].len - 1)

(* An error that read_until does not retry by itself: the bytes that were  *)
(* read before it stay in the buffer, for the caller's next call.  It may  *)
(* strike again, and in the same line.                                     *)
ReadFault(n) ==
    /\ Fetching(n) /\ Len(faults) < MaxFaults
    /\ \E k \in ErrorAt :
        /\ faults' = Append(faults, <<line, k>>) /\ off' = k
        /\ buffer' = Bytes(line, off, k)
    /\ bufferPos' = 0
    /\ last' = "err"
    /\ UNCHANGED <<stream, line, hpos, done, out>>

ReadStreamEnd(n) ==
    /\ Fetching(n) /\ AtStreamEnd
    /\ buffer' = <<>> /\ bufferPos' = 0 /\ done' = TRUE
    /\ last' = "eof"
    /\ UNCHANGED <<innerVars, hpos, out>>

ReadMarker(n) ==
    /\ Fetching(n) /\ AtMarker
    /\ line' = line + 1 /\ off' = 0
    /\ buffer' = <<>> /\ bufferPos' = 0 /\ done' = TRUE
    /\ last' = "eof"
    /\ UNCHANGED <<stream, faults, hpos, out>>

(* Faulty variant: the start of the line is handed out a second time.      *)
ReadLineAgain(n) ==
    /\ Fetching(n) /\ ~ AtStreamEnd /\ ~ AtMarker
    /\ line' = line + 1 /\ off' = 0
    /\ buffer' = Bytes(line, off, stream.lines[line].len)
    /\ out' = out \o SubSeq(buffer', 1, Smaller(n, Len(buffer')))
    /\ bufferPos' = 0
    /\ last' = "data"
    /\ UNCHANGED <<stream, faults, hpos, done>>

ReadLine(n) ==
    /\ Fetching(n) /\ ~ AtStreamEnd /\ ~ AtMarker
    /\ line' = line + 1 /\ off' = 0
    /\ buffer' = Bytes(line, off, stream.lines[line].len)
    /\ bufferPos' = Smaller(n, Len(buffer'))
    /\ out' = out \o SubSeq(buffer', 1, bufferPos')
    /\ last' = "data"
    /\ UNCHANGED <<stream, faults, hpos, done>>

-----------------------------------------------------------------------------
(* The caller reads with buffers of any size, also after an error and      *)
(* after the end.                                                          *)
Next ==
    \E n \in Sizes :
        /\ asked' = n
        /\ \/ ReadDone(n) \/ ReadHeader(n) \/ ReadBuffer(n)
           \/ ReadFault(n) \/ ReadStreamEnd(n) \/ ReadMarker(n) \/ ReadLine(n)

Spec == Init /\ [][Next]_vars

-----------------------------------------------------------------------------
TypeOK ==
    /\ stream \in Streams
    /\ line \in 1 .. Len(stream.lines) + 1 /\ off \in Nat
    /\ hpos \in 0 .. stream.header /\ bufferPos \in 0 .. Len(buffer)
    /\ Len(faults) <= MaxFaults /\ doneHeader \in BOOLEAN /\ done \in BOOLEAN
    /\ asked \in Sizes \cup {0} /\ last \in {"none", "data", "eof", "err"}

LineBytes(l) == Bytes(l, 0, IF l = 0 THEN stream.header ELSE stream.lines[l].len)

Marked == {l \in 1 .. Len(stream.lines) : stream.lines[l].tail = 0}

(* The number of the last line that is part of the table.                  *)
LastLine == IF Marked = {} THEN Len(stream.lines)
                           ELSE (CHOOSE l \in Marked : \A k \in Marked : l <= k) - 1

Text(l) == LineBytes(0) \o FlattenSeq([k \in 1 .. l |-> LineBytes(k)])

(* An error in the middle of the marker line splits it, and read does not  *)
(* recognise the parts when the caller reads on (none in src/ does).       *)
MarkerSplit == \E i \in DOMAIN faults : faults[i][1] \in Marked /\ faults[i][2] > 0

(* What was delivered is a prefix of the header row and the table's lines: *)
(* for every sequence of buffer sizes, and however often the dump's reader *)
(* failed, nothing is repeated or skipped, and neither the end marker nor  *)
(* what follows it comes through.                                          *)
OutputIsPrefix == ~ MarkerSplit => IsPrefix(out, Text(LastLine))
=============================================================================

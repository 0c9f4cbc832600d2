------------------------------ MODULE ReadEntry ------------------------------
(***************************************************************************)
(* `read_entry` (table_read/mod.rs): one table's data goes from the COPY   *)
(* stream of the dump to an output.  For csv and parquet the calling       *)
(* thread parses lines into batches and sends them over a bounded channel  *)
(* to a writer thread; for tsv-raw the calling thread copies the stream.   *)
(*                                                                         *)
(* Lines are numbered: 0 is the header, 1..Len(job.lines) are the data     *)
(* lines, in the order of the stream.  A batch is the interval of lines    *)
(* it holds.  What a line contains is abstracted to how it is received.    *)
(***************************************************************************)
EXTENDS Spans

CONSTANTS
    Jobs,       \* the calls of read_entry that are considered
    BatchSize,  \* DEFAULT_BATCH_SIZE: rows of a full batch
    Capacity    \* batches the channel holds

Formats == {"tsv-raw", "csv", "parquet"}

(* How a data line is received: parse_line accepts it; parse_line rejects  *)
(* it (column count, UTF-8); or reading it from the dump fails.            *)
LineKinds == {"row", "bad", "io"}

(* The arguments of a call: `data` says open_data_reader finds a block for *)
(* the entry, `columns` that its COPY statement yields column names, and   *)
(* `output` that a path was given.                                         *)
Job == [format : Formats, lines : Seq(LineKinds),
        data : BOOLEAN, columns : BOOLEAN, output : BOOLEAN]

ASSUME ConfigAssumption ==
    /\ Jobs \subseteq Job
    /\ BatchSize \in Nat \ {0}
    /\ Capacity \in Nat \ {0}

VARIABLES
    job,     \* the call
    pc,      \* where the calling thread is
    result,  \* what read_entry returned
    next,    \* number of the next line to take from the stream
    pend,    \* the batch in the caller's hands: <<>> or <<batch>>
    chan,    \* the channel
    tx, rx,  \* the sender, the receiver still exists
    wpc,     \* where the writer thread is
    held,    \* the batch the writer received: <<>> or <<batch>>
    buf,     \* what the BufWriter (or the parquet writer) holds in memory
    disk,    \* what the output holds
    sealed,  \* the output was completed: flush, close, end of the copy
    old      \* the file a previous run left at the output path is intact

callerVars == <<pc, result, next, pend>>
chanVars   == <<chan, tx, rx>>
fileVars   == <<held, buf, disk, sealed>>
vars == <<job, callerVars, chanVars, wpc, fileVars, old>>

Header == Span(0, 0)

LastLine == Len(job.lines)
Raw == job.format = "tsv-raw"

WriterRuns == wpc \in {"header", "recv", "write", "failing"}

(***************************************************************************)
(* What TsvBatchReader::next_batch yields from line `next` on: a full      *)
(* batch, a shorter last one, nothing at the end, or an error.             *)
(***************************************************************************)
RowsFrom(i, j) == \A k \in i .. j : job.lines[k] = "row"

WindowEnd == IF next + BatchSize - 1 <= LastLine THEN next + BatchSize - 1 ELSE LastLine

BatchReady  == next <= LastLine /\ RowsFrom(next, WindowEnd)
BatchFailed == next <= LastLine /\ ~ RowsFrom(next, WindowEnd)
StreamEnded == next > LastLine

-----------------------------------------------------------------------------
Init ==
    /\ job \in Jobs
    /\ pc = "prepare" /\ result = "none"
    /\ next = IF Raw THEN 0 ELSE 1
    /\ pend = <<>> /\ chan = <<>> /\ tx = TRUE /\ rx = TRUE
    /\ wpc = "none" /\ held = <<>> /\ buf = <<>> /\ disk = <<>>
    /\ sealed = FALSE /\ old = TRUE

Return(r) == pc' = "done" /\ result' = r

(* Up to the creation of the file: the stream is opened; csv and parquet   *)
(* also want a path and column names, make its parent directories and take *)
(* the header line off the stream.                                         *)
Exportable == job.data /\ (Raw \/ (job.output /\ job.columns))

(* Faulty variant: the columns are only looked at after File::create.      *)
PrepareUnchecked ==
    /\ pc = "prepare" /\ pc' = "create"
    /\ UNCHANGED <<job, result, next, pend, chanVars, wpc, fileVars, old>>

Prepare ==
    /\ pc = "prepare" /\ Exportable
    /\ pc' = "create"
    /\ UNCHANGED <<job, result, next, pend, chanVars, wpc, fileVars, old>>

(* Each of those calls may also fail on its own: I/O, permissions.         *)
PrepareFails ==
    /\ pc = "prepare" /\ Return("err")
    /\ UNCHANGED <<job, next, pend, chanVars, wpc, fileVars, old>>

(* File::create truncates what was there.  ArrowWriter::try_new then       *)
(* writes the file's magic; the csv header is left to the writer thread.   *)
Create ==
    /\ pc = "create"
    /\ old' = (old /\ ~ job.output)
    /\ pc' = IF Raw THEN "copy" ELSE "produce"
    /\ wpc' = CASE Raw -> "none"
                [] job.format = "csv" -> "header"
                [] job.format = "parquet" -> "recv"
    /\ buf' = IF job.format = "parquet" THEN <<Header>> ELSE <<>>
    /\ UNCHANGED <<job, result, next, pend, chanVars, held, disk, sealed>>

(* Either File::create or, the file being truncated by then, try_new.      *)
CreateFails ==
    /\ pc = "create" /\ Return("err")
    /\ old' \in IF job.format = "parquet" THEN {TRUE, FALSE} ELSE {TRUE}
    /\ UNCHANGED <<job, next, pend, chanVars, wpc, fileVars>>

-----------------------------------------------------------------------------
(* tsv-raw: io::copy.  Lines are not parsed, so "bad" ones are copied.     *)
CanCopy == next <= LastLine /\ (next > 0 => job.lines[next] # "io")

CopyLine ==
    /\ pc = "copy" /\ CanCopy
    /\ disk' = Append(disk, Span(next, next))
    /\ next' = next + 1
    /\ UNCHANGED <<job, pc, result, pend, chanVars, wpc, held, buf, sealed, old>>

(* Faulty variant: a read error is taken for the end of the stream.        *)
CopyEndsOnError ==
    /\ pc = "copy" /\ ~ CanCopy
    /\ sealed' = TRUE
    /\ Return("ok")
    /\ UNCHANGED <<job, next, pend, chanVars, wpc, held, buf, disk, old>>

CopyEnds ==
    /\ pc = "copy" /\ StreamEnded
    /\ sealed' = TRUE
    /\ Return("ok")
    /\ UNCHANGED <<job, next, pend, chanVars, wpc, held, buf, disk, old>>

(* The read fails at an "io" line; the write may fail before any line.     *)
CopyFails ==
    /\ pc = "copy" /\ ~ StreamEnded
    /\ Return("err")
    /\ UNCHANGED <<job, next, pend, chanVars, wpc, fileVars, old>>

-----------------------------------------------------------------------------
(* csv, parquet: the calling thread.                                       *)
Produce ==
    /\ pc = "produce" /\ BatchReady
    /\ pend' = <<Span(next, WindowEnd)>>
    /\ next' = WindowEnd + 1
    /\ pc' = "send"
    /\ UNCHANGED <<job, result, chanVars, wpc, fileVars, old>>

(* Faulty variant: no drop(tx) before the join.                            *)
ProduceEndsKeepsSender ==
    /\ pc = "produce" /\ StreamEnded
    /\ pc' = "join"
    /\ UNCHANGED <<job, result, next, pend, chanVars, wpc, fileVars, old>>

ProduceEnds ==
    /\ pc = "produce" /\ StreamEnded
    /\ tx' = FALSE
    /\ pc' = "join"
    /\ UNCHANGED <<job, result, next, pend, chan, rx, wpc, fileVars, old>>

(* Faulty variant: the sender outlives the failed call.                    *)
ProduceFailsKeepsSender ==
    /\ pc = "produce" /\ BatchFailed
    /\ Return("err")
    /\ UNCHANGED <<job, next, pend, chanVars, wpc, fileVars, old>>

(* `next_batch()?` leaves the function: the rows of the failed batch stay  *)
(* in its builders, the sender is dropped, the writer thread is detached.  *)
ProduceFails ==
    /\ pc = "produce" /\ BatchFailed
    /\ tx' = FALSE
    /\ Return("err")
    /\ UNCHANGED <<job, next, pend, chan, rx, wpc, fileVars, old>>

(* Faulty variant: an unbounded channel.                                   *)
SendUnbounded ==
    /\ pc = "send" /\ rx
    /\ chan' = chan \o pend
    /\ pend' = <<>>
    /\ pc' = "produce"
    /\ UNCHANGED <<job, result, next, tx, rx, wpc, fileVars, old>>

Send ==
    /\ pc = "send" /\ rx /\ Len(chan) < Capacity
    /\ chan' = chan \o pend
    /\ pend' = <<>>
    /\ pc' = "produce"
    /\ UNCHANGED <<job, result, next, tx, rx, wpc, fileVars, old>>

SendFails ==
    /\ pc = "send" /\ ~ rx
    /\ pend' = <<>>
    /\ tx' = FALSE
    /\ pc' = "join"
    /\ UNCHANGED <<job, result, next, chan, rx, wpc, fileVars, old>>

(* Faulty variants: the writer's error is dropped; the writer is not       *)
(* waited for.                                                             *)
JoinIgnoresError ==
    /\ pc = "join" /\ wpc \in {"ok", "err"}
    /\ Return("ok")
    /\ UNCHANGED <<job, next, pend, chanVars, wpc, fileVars, old>>

JoinDoesNotWait ==
    /\ pc = "join"
    /\ Return(IF wpc = "err" THEN "err" ELSE "ok")
    /\ UNCHANGED <<job, next, pend, chanVars, wpc, fileVars, old>>

Join ==
    /\ pc = "join" /\ wpc \in {"ok", "err"}
    /\ Return(wpc)
    /\ UNCHANGED <<job, next, pend, chanVars, wpc, fileVars, old>>

-----------------------------------------------------------------------------
(* csv, parquet: the writer thread.                                        *)
WriteHeader ==
    /\ wpc = "header"
    /\ buf' = <<Header>>
    /\ wpc' = "recv"
    /\ UNCHANGED <<job, callerVars, chanVars, held, disk, sealed, old>>

(* Faulty variant: the batch also stays in the channel.                    *)
ReceiveTwice ==
    /\ wpc = "recv" /\ chan # <<>>
    /\ held' = <<Head(chan)>>
    /\ wpc' = "write"
    /\ UNCHANGED <<job, callerVars, chanVars, buf, disk, sealed, old>>

Receive ==
    /\ wpc = "recv" /\ chan # <<>>
    /\ held' = <<Head(chan)>>
    /\ chan' = Tail(chan)
    /\ wpc' = "write"
    /\ UNCHANGED <<job, callerVars, tx, rx, buf, disk, sealed, old>>

(* The first n parts of what was written reach the file, the rest stays in *)
(* memory: the buffer spills when it is full.                              *)
Spill(written, n) ==
    /\ disk' = disk \o SubSeq(written, 1, n)
    /\ buf' = SubSeq(written, n + 1, Len(written))

(* Faulty variant: a batch overtakes what is still in the buffer.          *)
WriteBatchUnbuffered ==
    /\ wpc = "write"
    /\ \E n \in 0 .. Len(held \o buf) : Spill(held \o buf, n)
    /\ held' = <<>>
    /\ wpc' = "recv"
    /\ UNCHANGED <<job, callerVars, chanVars, sealed, old>>

WriteBatch ==
    /\ wpc = "write"
    /\ \E n \in 0 .. Len(buf \o held) : Spill(buf \o held, n)
    /\ held' = <<>>
    /\ wpc' = "recv"
    /\ UNCHANGED <<job, callerVars, chanVars, sealed, old>>

(* Faulty variant: stop as soon as the sender is gone.                     *)
AtDisconnect == wpc = "recv" /\ ~ tx

(* The channel is empty and has no sender: rx.iter() ends; flush or close. *)
AtEnd == wpc = "recv" /\ chan = <<>> /\ ~ tx

Finish ==
    /\ AtEnd
    /\ disk' = disk \o buf
    /\ buf' = <<>>
    /\ sealed' = TRUE
    /\ rx' = FALSE
    /\ wpc' = "ok"
    /\ UNCHANGED <<job, callerVars, chan, tx, held, old>>

(* A write, the flush or the close fails, or the thread panics: some rows  *)
(* of the batch may have been written, and dropping the BufWriter tries to *)
(* flush it once more.  The receiver is dropped after that.                *)
Partly(bs) ==
    {<<>>} \cup UNION {{<<Span(bs[i].first, k)>> : k \in bs[i].first .. bs[i].last}
                        : i \in DOMAIN bs}

WriterFails ==
    /\ wpc \in {"header", "write"} \/ AtEnd
    /\ \E part \in Partly(held) : \E n \in 0 .. Len(buf \o part) :
           disk' = disk \o SubSeq(buf \o part, 1, n)
    /\ buf' = <<>> /\ held' = <<>>
    /\ wpc' = "failing"
    /\ UNCHANGED <<job, callerVars, chanVars, sealed, old>>

WriterExits ==
    /\ wpc = "failing"
    /\ rx' = FALSE
    /\ chan' = <<>>
    /\ wpc' = "err"
    /\ UNCHANGED <<job, callerVars, tx, fileVars, old>>

(* Returning from main ends the process, and a detached writer with it.    *)
Exit ==
    /\ pc = "done" /\ WriterRuns
    /\ wpc' = "killed"
    /\ UNCHANGED <<job, callerVars, chanVars, fileVars, old>>

-----------------------------------------------------------------------------
Caller ==
    \/ Prepare \/ PrepareFails \/ Create \/ CreateFails
    \/ CopyLine \/ CopyEnds \/ CopyFails
    \/ Produce \/ ProduceEnds \/ ProduceFails
    \/ Send \/ SendFails \/ Join

Writer ==
    \/ WriteHeader \/ Receive \/ WriteBatch \/ Finish
    \/ WriterFails \/ WriterExits

Next == Caller \/ Writer \/ Exit

Spec == Init /\ [][Next]_vars

(* Both threads are scheduled, and every I/O call they make returns.       *)
FairSpec == Spec /\ WF_vars(Caller) /\ WF_vars(Writer)

-----------------------------------------------------------------------------
ControlTypes ==
    /\ job \in Jobs
    /\ pc \in {"prepare", "create", "copy", "produce", "send", "join", "done"}
    /\ result \in {"none", "ok", "err"}
    /\ wpc \in {"none", "header", "recv", "write", "failing", "ok", "err", "killed"}
    /\ tx \in BOOLEAN /\ rx \in BOOLEAN /\ sealed \in BOOLEAN /\ old \in BOOLEAN

DataTypes ==
    /\ next \in Nat
    /\ pend \in Seq(Batch) /\ Len(pend) <= 1
    /\ chan \in Seq(Batch) /\ Len(chan) <= Capacity
    /\ held \in Seq(Batch) /\ Len(held) <= 1
    /\ buf \in Seq(Batch) /\ disk \in Seq(Batch)

(* In particular the channel never holds more than Capacity batches.       *)
TypeOK == ControlTypes /\ DataTypes

(* The output holds the header and every line of the table, each once and  *)
(* in order, and was completed.                                            *)
Whole == sealed /\ Chain(disk, 0, LastLine)

(* read_entry says Ok exactly for a whole output: an error of either       *)
(* thread, at any moment, is never turned into success, and what is        *)
(* reported as a failure did not produce a complete file (`??` on join,    *)
(* `?` on next_batch, the break when send fails).                          *)
ResultIsExact == pc = "done" => (result = "ok" <=> Whole)

(* Whatever fails or is killed and whenever, what has reached the output   *)
(* is a prefix of the table from its header on: no batch is lost between   *)
(* two others, repeated, or written out of order.                          *)
DiskIsPrefix == \E n \in -1 .. LastLine : Chain(disk, 0, n)

(* A completed output misses no batch the calling thread handed over, so   *)
(* also when a bad line ends the call early: the detached writer drains    *)
(* the channel before it closes the file, and less than a batch of good    *)
(* rows before the bad line is missing.                                    *)
SealedMeansDrained ==
    sealed => /\ Chain(disk, 0, next - 1)
              /\ result = "err" => \E k \in next .. next + BatchSize - 1 :
                                       k <= LastLine /\ job.lines[k] # "row"

(* README: "Uses streaming for very low memory usage".  Rows taken from    *)
(* the dump and not yet given to the file's writer stay within the channel *)
(* and one batch on either side of it, however slow the writer is.         *)
BoundedMemory ==
    wpc \in {"header", "recv", "write"} =>
        \E n \in 0 .. LastLine :
            /\ (wpc = "header" /\ n = 0) \/ Chain(disk \o buf, 0, n)
            /\ next - 1 - n <= (Capacity + 2) * BatchSize

(* The file of a previous run is given up only for an entry that can be    *)
(* exported: an entry without data or columns leaves it alone.             *)
OldOutputKept == ~ old => Exportable

(* Once read_entry has returned Ok nobody writes to the output any more.   *)
QuietAfterOk == [][result = "ok" => UNCHANGED fileVars]_vars

(* read_entry returns: no error leaves one thread waiting on the other.    *)
Returns == <>(pc = "done")

(* The writer thread ends too, also when the call returned without joining *)
(* it: dropping the sender wakes it up.                                    *)
WriterStops == pc = "done" ~> ~ WriterRuns

-----------------------------------------------------------------------------
(* The module Export is implemented with this state of the output.         *)
Out == IF Whole THEN "whole"
       ELSE IF old /\ disk = <<>> THEN "untouched" ELSE "partial"

E == INSTANCE Export WITH out <- Out

(* read_entry keeps what Export promises, the answer included: it comes,   *)
(* and a detached writer does not change the verdict on the output.        *)
ImplementsExport == E!FairSpec

-----------------------------------------------------------------------------
(* The inductive invariant.  Every line taken from the stream is in one    *)
(* place, and the places hold consecutive ranges: disk, buf, held, chan    *)
(* and pend end at d, b, h, c and next - 1.                                *)
InOrder ==
    \E d, b, h, c \in -1 .. LastLine :
        /\ Chain(disk, 0, d) /\ Chain(buf, d + 1, b) /\ b >= 0
        /\ Chain(held, b + 1, h)
        /\ Chain(chan, h + 1, c) /\ Chain(pend, c + 1, next - 1)

(* Before the csv header is written, only the channel may hold something.  *)
HeaderFirst ==
    /\ disk = <<>> /\ buf = <<>> /\ held = <<>>
    /\ \E c \in 0 .. LastLine : Chain(chan, 1, c) /\ Chain(pend, c + 1, next - 1)

Idle == pend = <<>> /\ chan = <<>> /\ held = <<>> /\ buf = <<>>

(* What the writer's position says about the data.                         *)
Unstarted ==
    wpc = "none" => /\ Idle /\ tx /\ rx
                    /\ ~ Raw => disk = <<>> /\ next = 1 /\ ~ sealed

Running ==
    /\ wpc = "header" => HeaderFirst
    /\ wpc \in {"recv", "write"} => InOrder
    /\ wpc = "recv" => held = <<>>

Stopped ==
    /\ wpc = "ok" => Idle /\ sealed /\ ~ tx /\ Chain(disk, 0, next - 1)
    /\ wpc \notin {"none", "ok"} => ~ sealed
    /\ ~ rx => wpc \in {"ok", "err", "killed"}
    /\ wpc \in {"ok", "err"} => ~ rx

Copied ==
    Raw => /\ wpc = "none"
           /\ Chain(disk, 0, next - 1)
           /\ sealed => next = LastLine + 1

(* What the caller's position says about the rest.                         *)
Taken == next <= LastLine + 1 /\ (~ Raw => next >= 1)

Calling ==
    /\ pc \in {"prepare", "create"} => wpc = "none" /\ disk = <<>> /\ ~ sealed /\ old
    /\ pc = "create" => Exportable
    /\ pc = "copy" => Raw /\ ~ sealed
    /\ pc \in {"produce", "send", "join"} => ~ Raw /\ wpc \notin {"none", "killed"}
    /\ pc \in {"produce", "send"} => tx
    /\ pc # "send" => pend = <<>>
    /\ pc = "join" => ~ tx /\ (StreamEnded \/ wpc = "err")
    /\ pc = "done" => wpc = "none" \/ ~ tx

Answered ==
    /\ (pc = "done") <=> (result # "none")
    /\ result = "ok" => sealed /\ StreamEnded /\ wpc \in {"none", "ok"}
    /\ result = "err" /\ Raw => ~ sealed
    /\ result = "err" /\ ~ Raw => wpc \in {"none", "err"} \/ BatchFailed

Truncated == wpc # "none" => ~ old

IInv ==
    /\ TypeOK /\ DiskIsPrefix /\ OldOutputKept
    /\ Unstarted /\ Running /\ Stopped /\ Copied
    /\ Taken /\ Calling /\ Answered /\ Truncated

(* No batch on its way to the file has more than BatchSize rows.  With     *)
(* IInv, which does not depend on it, this bounds the rows on their way.   *)
Small(s) == \A k \in 1 .. Len(s) : s[k].last - s[k].first < BatchSize

BatchesSmall == Small(pend) /\ Small(chan) /\ Small(held)

-----------------------------------------------------------------------------
(* Why the call returns and the writer stops, as far as single states and  *)
(* steps show it.  A thread can go on unless the channel is full, empty,   *)
(* or the other thread has not ended yet.                                  *)
CallerCanStep ==
    \/ pc \in {"prepare", "create", "copy", "produce"}
    \/ pc = "send" /\ (~ rx \/ Len(chan) < Capacity)
    \/ pc = "join" /\ wpc \in {"ok", "err"}

WriterCanStep ==
    \/ wpc \in {"header", "write", "failing"}
    \/ wpc = "recv" /\ (chan # <<>> \/ ~ tx)

(* The two threads never wait for each other, and a writer that was        *)
(* detached never waits for a sender that is gone.                         *)
NoDeadlock ==
    /\ pc # "done" => CallerCanStep \/ WriterCanStep
    /\ pc = "done" /\ WriterRuns => WriterCanStep

(* How many steps are left, at most.                                       *)
CallerLeft ==
    CASE pc = "prepare" -> 7 [] pc = "create" -> 6
      [] pc \in {"copy", "produce"} -> 2 [] pc = "send" -> 5 [] pc = "join" -> 1
      [] pc = "done" -> 0

WriterLeft ==
    CASE wpc \in {"header", "write"} -> 3 [] wpc = "recv" -> 2 [] wpc = "failing" -> 1
      [] wpc \in {"none", "ok", "err", "killed"} -> 0

StepsLeft == 4 * (LastLine + 1 - next) + 2 * Len(chan) + CallerLeft + WriterLeft

(* Nothing is done for ever: after 4 * (lines + 1) + 7 steps at most both  *)
(* threads have stopped, whatever fails.                                   *)
EveryStepCounts == [][0 <= StepsLeft' /\ StepsLeft' < StepsLeft]_vars
=============================================================================

# pg_dumpster in TLA+

`pg_dumpster` reads PostgreSQL custom-format dumps (`pg_dump -Fc`), from a file or over
HTTP, and exports the data of tables as tsv, csv or parquet. This directory models the parts
of it in which something can go wrong, checks them with TLC on small instances, and proves nearly all
that is checked, liveness aside, with TLAPS for all instances.

## The system

| Component | Source | State it keeps | Operations | Model |
|---|---|---|---|---|
| `read_entry` | `table_read/mod.rs:83-258` | two threads, a bounded channel, the buffered output file | export one table | `ReadEntry`, `Export` |
| `read_table` | `table_read/mod.rs:36-77` | none | settle the format, open, find, `read_entry` | `ReadTable` |
| `TsvStream` and the `BufReader` over it | `tsv.rs`, `arrow_tsv.rs:35-45` | header cursor, one buffered line, `done` | `read`, `read_until` | `TsvStream`, `LineReader` |
| `TsvBatchReader` | `arrow_tsv.rs:10-77` | column builders, `done` | `next_batch` | `TsvBatchReader`, `LineBatches` |
| COPY text parser | `arrow_tsv.rs:79-161` | one field | `strip_newline`, `parse_line`, `finalize_field` | `CopyText`, `TextExport` |
| CSV writer | `table_read/mod.rs:295-353` | none | header, batch, string | `CsvText`, `TextExport` |
| `HttpRangeReader` | `http_range_reader.rs` | position, cached size, open response | `read`, `seek` | `HttpRangeReader` |
| `DumpReader` | `reader.rs` | a file or an `HttpRangeReader` | `read`, `seek`, opening | `ByteSource`, steps of `ReadTable` and `UnpackAll` |
| names and COPY statements | `entries.rs` | none | parse, normalise, find | `TableNames` |
| `all` | `main.rs:93-126` | a directory | export all tables, write `toc.json` | `UnpackAll` |
| `table ls` | `main.rs:128-140` | none | print names | `TableNames` (the names only) |
| `toc` | `toc.rs` | none | TOC to JSON | not modelled |
| progress reports | `table_read/mod.rs:260-293` | counters | pass bytes through | not modelled |
| profiling | `profiling.rs`, `lib.rs` | two global tables under locks | record, checkpoint, summary, reset | not modelled |
| fixture cache of the tests | `test_utils/case.rs`, `scripts/gen_dump.sh`, `src.sh` of a fixture | cached dumps, running scripts | `src_dump` | `FixtureCache` |
| snapshots, table diff | `test_utils/snapshot.rs` | a snapshot file | `assert_matches`: update, create, compare | `SnapshotStore`, `TableDiff`, `CsvText` (`parse_csv`) |
| the tests | `tests/test_table_read.rs` | parallel threads over both | one run of `cargo test` after another | `TestSuite` |
| `util.rs` | `util.rs` | | an old copy that `lib.rs` does not include | not modelled |

How they interact. `all` and `table read` open a dump (`open_reader`), libpgdump (external)
reads its table of contents through `DumpReader`, and `read_entry` is called for an entry.
`read_entry` stacks `TableDataReader` (libpgdump) < `TsvStream` < `BufReader` <
`TsvBatchReader` in the calling thread; batches go over a channel of 4 to a writer thread, which
owns the file. Errors travel back by return value, by a failing `send`, and by `join`. The tests of
`table read` run in parallel threads, which share the cached dump of a fixture and its snapshot as
files, without a lock.

What is hard, and where: the two threads of `read_entry` that fail independently, with a writer
that is *detached* when parsing fails; the error paths of the streaming readers, which keep
state across an error; the HTTP response that outlives a seek; reruns of `all` into a
directory; the text formats, where one character decides between NULL and a value; and the tests,
which regenerate one dump and write one snapshot concurrently, may be killed while a script they started
goes on, and must not be green for the wrong reason.
`PROJECT.json` lists every hazard at its line with the properties that cover it, or the
reason why none does.

## The modules

```
  UnpackAll ---X!Next--> Export <--implements-- ReadEntry --takes batches as--> LineBatches
  (all)                  (contract of           (threads, channel, file)         ^ implements
  ReadTable --X!Next-->   read_entry)            EXTENDS Spans                  TsvBatchReader
  (table read)                                                                   | a line "row"/"bad"
     EXTENDS                                                                    CopyText
  TableNames             ByteSource <--implements-- HttpRangeReader               ^ EXTENDS
  (names, COPY)          (Read + Seek)                                          TextExport
                                                                                  | INSTANCE
  LineReader --EXTENDS--> TsvStream                                             CsvText
  (BufReader, read_until)

  TestSuite --EXTENDS--> FixtureCache   (cached dump, scripts)   --EXTENDS--> TestPhases
  (cargo test)      \--> SnapshotStore  (the snapshot file)       --EXTENDS--> TestPhases, TableDiff
```

**ReadEntry** (core). A line of the table is its number, with 0 for the header; a batch is an
interval of numbers (`Spans`). `job` is the call: the format, what each line does to the parser
(`row`, `bad`, `io`), whether the dump has data and columns for the entry, and whether an output path was
given. `pc` and `wpc` are the program counters of the two threads. Each action is one step of
one thread between two points at which the other can observe it:
`Prepare`/`PrepareFails` everything before `File::create`; `Create` the truncation (and the
start of the writer thread); `CopyLine`, `CopyEnds`, `CopyFails` `io::copy` for tsv-raw;
`Produce`, `ProduceEnds`, `ProduceFails` one `next_batch()?`; `Send`, `SendFails` the `send`; `Join` the `join` with its `??`;
`WriteHeader`, `Receive`, `WriteBatch`, `Finish`, `WriterFails`, `WriterExits` the writer
thread; `Exit` the end of `main`, which kills a detached writer. Data moves
`pend -> chan -> held -> buf -> disk`; the `BufWriter` hands any prefix of what it holds
to the file at any write. The parquet writer is treated as a buffer in the same way: what it
has not given to the file is in `buf`, and the file is valid only after `close`.
A panic of the writer thread is a `WriterFails`. The csv rendering of a row is in `CsvText`.

**Export** is what callers of `read_entry` rely on: the output goes from untouched over partial
to whole; one answer, Ok exactly if whole; nothing happens to the output after the answer.

**TsvStream** models `read` byte by byte: one action per return statement, `n` being the
length of the caller's buffer; a byte is the pair of its line and its offset. The dump's reader may fail
at any byte and any number of times (`MaxFaults`), as a broken source does when it is read again: `faults` is where. The `tail` of a line says behind which
of its bytes a rest like the end marker begins, which is what counts after an error. **LineReader** puts the caller over it: the `BufReader` of `read_entry` (`unread` is
what it holds) and the `read_until` of `next_batch` (`Start` clears `line_buf`, `Refill` is `fill_buf`,
`Take` is `consume`), so that a line may come in several pieces and any of them may fail, with a part of the line in `line_buf` or not. **TsvBatchReader** keeps the builders as sequences of line numbers, so that a
shifted column would show; a rejected line has filled some columns. **LineBatches** is its contract: consecutive
full batches, a last short one, and an error that costs the rows of its batch. It covers one pass up to the
first error (the refinement mapping holds the answer at the error after that); what a caller may still rely on then is `RowsAligned` and `EndIsFinal`.
`ReadEntry!BatchReady`, `WindowEnd`, `BatchFailed` and `StreamEnded` are the steps of `LineBatches`.

**HttpRangeReader** models `read` and `seek` with the server as the environment: it may ignore ranges,
fail, break a body off, and replace the file between requests. **ByteSource** is
the contract of a seekable reader; `last` is the last call and its answer.

**UnpackAll** composes the command `all` with the contract `Export` (`X == INSTANCE Export`), one call per entry.
`files` and `toc` are the directory; they survive kills and further runs. **ReadTable** composes `table read` with the
same contract: `Infer` settles the format, `Open` opens the dump, `Take` is the search, `Read` the call; `file` is what
an earlier run left at the output path.

**CopyText**, **CsvText**, **TableNames** are the conversions. Characters stand for classes, the ones
with a meaning apart from those without. `CopyText` has one action per branch of the loop of `parse_line` and,
as the reference, a definition of the fields of a line without any scan (`Defined`). `CsvText` writes a table with the
writer's operators and reads it with one action per branch of `parse_csv`. **TextExport** composes the two: a row
the server dumped is parsed, written and read back, so that what the one format escapes meets what the other
quotes. In `TableNames` the conversions are operators (`Parses` is `parse_copy_statement`, `AskForTable` a user's choice of a name). The text of
COPY statements and of dumped rows is PostgreSQL's and is marked external.

**TestSuite** is `cargo test` on one fixture. `phase` (**TestPhases**) says how far each test of the run is.
**FixtureCache** is `src_dump`: `UseCached` the test for a fresh dump, `StartGenerator` the start of a script by the
test, and one action per step of the script: `Load` (psql reads `src.sql`), `PgDump` (into a temporary file), `Move`; or
`Download`, `Downloaded` (`src.sh` writes to the cached path itself; it may end well with the whole dump, or with the page of an error there). Times of modification are abstracted to the number
of edits of the fixture before them, the only comparison the code makes; a file written after an edit is newer than it. A
script may outlive the test that started it, also when the whole run is killed. **SnapshotStore** is `assert_matches`:
the look at the file (`StartUpdate`, `StartCreate`, `StartCompare`), `File::create`, one write per line, and the reading and
comparison in one step (`Compare`; what it read is `seen`). Two writers of one file keep positions of their own, so
one that truncates it leaves a `Hole` where the other goes on. **TableDiff** has `diff_tables`
as operators (`DiffTables`) and, as the reference, equality of the tables as bags of records (`SameRecords`).

Definitions called a *faulty variant* in a comment are not part of any specification: each one
is a plausible bug in the definition after it, and replacing that definition by the variant
makes a run fail. `PROJECT.json` lists which.

## The runs

| Run | What it shows | Bounds |
|---|---|---|
| `ReadEntry` | `ResultIsExact`, `DiskIsPrefix`, `SealedMeansDrained`, `BoundedMemory`, `OldOutputKept`, `QuietAfterOk`, that `IInv` (with `TypeOK` in it) is an invariant, `Returns`, `WriterStops`, `ImplementsExport` | all tables of up to 7 lines, batches of 2, channel of 1, 3 formats |
| `TsvStream` | under a `BufReader`: `ReaderTypeOK`, `OutputIsPrefix` (bytes), `LinesAreWhole` (lines), `Accounted` (errors in different lines lose nothing), `EndIsReached` | up to 3 lines of 1 or 4 bytes or markers, buffers of 1, 2, 4 in every order, up to 3 errors at any bytes |
| `TsvBatchReader` | `TypeOK`, `RowsAligned`, `EndIsFinal`, `ImplementsLineBatches` | all tables of up to 4 lines, 2 columns, batches of 2, a caller that may go on after errors |
| `HttpRangeReader` | `CursorIsPosition`, `OneVersion`, `ImplementsByteSource` | files of 4 and then 3 bytes, positions to 8 |
| `UnpackAll` | `SuccessMeansComplete`, `TocIsLast` | 2 dumps of up to 4 entries, 2 formats, 2 runs |
| `UnpackAllNoColumns` | violates `FailsOnlyOnFaults` | one dump of 2 tables, csv |
| `TextExport` | `TextTypeOK`, `RoundTrip` and `AsDefined` of `parse_line`, `CsvRoundTrip`, `RowsSurvive` from the server to the reader of the csv file | rows of up to 2 cells of up to 2 characters; lines of up to 5; tables of 1 or 2 rows |
| `CsvTextOneColumn` | violates `NoRowLost` | 1 column |
| `TableNames` | `NameFindsTable`, `HeaderIsColumns`, `OkMeansAsked`, `RefusedKeepsOutput` | 2 tables, names of up to 3 characters; every format and extension for a few catalogs, one for the others |
| `TableNamesCommas` | violates `HeaderIsColumns` | 2 columns with commas in their names |
| `TestSuite` | `TypeOK`, `SpoiltOnlyByDownloads`, `PassedMeansSame`, `NewSnapshotsAreReviewed`, `UpdatedIsAccepted`, `GreenMeansCurrent`, `RunsEnd` | 2 tests, 2 runs, 1 edit; all pairs of tables of up to 2 rows and 2 columns as snapshot and output |
| `TestSuiteNullIds` | violates `PassedMeansMatches` | the same pairs, one run |

Why the bounds are enough. With batches of 2 and a channel of 1, seven lines fill every place a batch
can be in (`pend`, `chan`, `held`, `buf`) at once and leave a last batch of one row; the proofs
cover every other size. Buffers of 1, 2 and 4 bytes are smaller than, inside, and larger than the
lines. Three errors strike one line twice and then another one, or one line three times. Two runs of `all` are every case of a run over what another one left, because a
run looks at nothing in the directory. The parsers keep two or three flags
and forget them at each delimiter, so cells of two characters reach every state of them. The format of a request and the
name in it are settled by different code and meet only in `Read`, so that all of the one are run with a few of the other. Two
tests are every race for a dump or a snapshot: each looks at the files only, not at how many others there are; a second
run meets what a first one, killed or not, left cached, written and running; one edit makes it stale. The comparison looks at
rows by id, in pairs, so two rows on either side hold every case of a missing, extra, changed or repeated row.
`MCTestSuite` names its families of scenarios after these questions (`SnapshotRaces`, `CacheRaces`, `OneTest`, `Compared`,
`Rewritten`).

Where the system may stop, deadlock is not checked: after `read_entry` has returned, after the last run of `all` or of the tests, after the answer of `table read`, at
the end of a line or text. It is checked for `TsvStream`, `TsvBatchReader` and `HttpRangeReader`, whose callers may always call again.

Bounds inside the models: `PositionBound` (positions of the HTTP reader), `MaxFaults` (read errors of a dump), `MaxRuns`
(runs of `all`, and of the tests), `MaxEdits` (of the fixture), the length of `FileSizes` (replacements of the remote file). The HTTP reader's targets stay below 2^64.

### Fairness

`ReadEntry!FairSpec` has weak fairness of each thread: both are scheduled by the operating system, every I/O
call returns, and each step of a thread stays enabled until it is taken, because only the thread itself can disable it
(a send waits for room, but room or a dead receiver is there for good once the writer acts). `Exit` is not fair:
a library caller may stay. `LineReader!ReaderFairSpec` says that the caller keeps asking for lines, as the loops of
`read_entry` and `read_until` do; the next step of that one thread is always enabled. `TsvBatchReader!FairSpec` that the thread in `next_batch` and its caller run on. `TestSuite!FairSpec` has weak fairness of all the `Work` of threads and
scripts together: something goes on as long as anything can. That is enough for `RunsEnd`, because each test and script takes a bounded
number of steps; a script's commands are taken to end, and its wait for the server does after 60 tries. No fairness
is assumed of `StartRun`, `Kill` and `Edit`.

### Findings

* `UnpackAllNoColumns`: `all --format csv|parquet` fails on a sound dump with a table without
  columns and writes no `toc.json` (`main.rs:104,118` against `main.rs:22`; `table ls` and `table read` leave
  out entries without a statement, `entries.rs:92`).
* `CsvTextOneColumn`: in a table of one column a NULL becomes a blank line, which the
  project's own reader skips (`mod.rs:326` and `snapshot.rs:257` against the doc at `mod.rs:308`).
* `TableNamesCommas`: a column named `a,b` becomes two columns (`entries.rs:17` against `mod.rs:33`).
* `TestSuiteNullIds`: a test passes although rows whose id is NULL are missing or changed, because `index_by_id`
  passes over them (`snapshot.rs:524` against the doc at `snapshot.rs:23`).

Limits that the properties name rather than hide: a read into an empty buffer before the header is out would lose the
header row (`tsv.rs:67-72`; `PastHeader` has the case, but no caller in the program reads so, nor any of the checked ones);
after a read error *inside the end marker* a caller that
reads on gets the marker from `TsvStream` as data (`MarkerSplit`; `next_batch` still finds it in its `line_buf`, `arrow_tsv.rs:62`, unless the marker fails twice), and after one in a row that ends in `\.`, just
before it, the rest is taken for the marker (`RowSplit`); *two* read errors in one line lose what came before the first, because `next_batch` clears `line_buf` (`arrow_tsv.rs:53`), and the
rest is parsed as a line; one error at the end of a block whose last line is open loses that line (`Torn`; no caller in `src/` reads on after an error, and `LinesAreWhole` and `Accounted` say just what is lost);
the statement of a table or schema with an opening parenthesis in its name is cut at the wrong place (`entries.rs:7`; `FindableTables` in the proofs, columns may have parentheses); at the end of a remote file a read is an error (416), which
`ImplementsByteSource` allows; `BoundedMemory` does not count what the writers of csv and parquet keep themselves; `TocIsLast` holds only for the first run into a
directory; a table with both quotes and dots in its names, or with a space at a dot, may be taken for another (`MCTableNames`);
across seeks the versions of a replaced remote file do mix (`OneVersion` is about one stretch of reads);
an edit of `src.sql` while a script is dumping may leave a dump that is newer than the edit and does not have it, which later runs take
for fresh (`GreenMeansCurrent` excludes it by `overtaken`); a download broken off leaves a partial dump that stays, and so does the page of an HTTP error, because `src.sh`
calls curl without `--fail` (lines 7 and 8) and `case.rs:126` takes what is there after a good end (`SpoiltOnlyByDownloads` allows both for `src.sh` alone, and every test that finds such a page fails); two tests that update one snapshot with different tables
leave a mixture (`UpdatedIsAccepted` is about equal ones).

## The proofs

All proofs are checked by TLAPS and hold for every value of the constants that the named assumptions allow.

| Module | Theorem | States | Assumes |
|---|---|---|---|
| `ReadEntryProof` | `Invariant` | `Spec => []IInv` | `ConfigAssumption`: `BatchSize` and `Capacity` positive |
| | `TypeCorrect`, `PrefixCorrect`, `OldOutputCorrect` | `[]TypeOK`, `[]DiskIsPrefix`, `[]OldOutputKept` | |
| | `ResultCorrect`, `DrainCorrect`, `QuietCorrect` | `[]ResultIsExact`, `[]SealedMeansDrained`, `QuietAfterOk` | |
| | `BatchesCorrect`, `MemoryCorrect` | `[]BatchesSmall`, `[]BoundedMemory` | |
| | `ImplementsExportSafety` | `Spec => E!Spec`: the steps of `read_entry` are steps of `Export` | |
| | `DeadlockFree`, `StepsBounded` | `[]NoDeadlock`, `EveryStepCounts` | |
| `LineReaderProof` | `OutputCorrect` | `Spec => []OutputIsPrefix`, for `TsvStream` under any caller | `StreamsAssumption` |
| | `ReaderImplementsStream` | `ReaderSpec => Spec`: the `BufReader` is such a caller | `BufferAssumption`: no buffer of 0 bytes |
| | `ReaderTypesCorrect`, `AccountedCorrect`, `LinesCorrect` | `[]ReaderTypeOK`, `[]Accounted`, `[]LinesAreWhole` | |
| | `EndHolds`, `ReadsEnd` | `EndStays`, `ReadsAdvance` | |
| `TsvBatchReaderProof` | `TypeCorrect`, `AlignedCorrect`, `EndCorrect` | `[]TypeOK`, `[]RowsAligned`, `EndIsFinal` | `TablesAssumption` |
| | `ImplementsLineBatchesSafety` | `Spec => L!Spec`: up to the first error the steps are those of `LineBatches` | |
| `TextProof` | `NamesCorrect` | `[]NameFindsTable` | `NamesAssumption`, `FindableTables` |
| | `HeaderCorrect` | `[]HeaderIsColumns` | the same, `PlainColumns` |
| | `AskedCorrect`, `RefusalCorrect` | `[]OkMeansAsked`, `[]RefusedKeepsOutput` | `[]NameFindsTable` |
| | `CopyCorrect`, `DefinedCorrect` | `[]RoundTrip` and `[]AsDefined` of `parse_line` | `CopyTextAssumption` |
| | `CsvCorrect`, `SurviveCorrect`, `TextTypesCorrect` | `[]CsvRoundTrip`, `[]RowsSurvive`, `[]TextTypeOK` | `TablesAssumption`, `NoLoneNull` |
| `HttpRangeReaderProof` | `HttpInvariant`, `TypeCorrect` | `[]HttpInv`, `[]TypeOK` | `HttpAssumption` |
| | `CursorCorrect`, `OneVersionCorrect` | `[]CursorIsPosition`, `[]OneVersion` | |
| | `ImplementsByteSourceCorrect` | `Spec => ImplementsByteSource` | |
| `UnpackAllProof` | `UnpackInvariant`, `TypeCorrect` | `[]UnpackInv`, `[]TypeOK` | dump ids do not repeat |
| | `SuccessCorrect`, `TocCorrect` | `[]SuccessMeansComplete`, `[]TocIsLast` | |
| `TestSuiteProof` | `SpoiltCorrect`, `ReviewCorrect` | `[]SpoiltOnlyByDownloads`, `[]NewSnapshotsAreReviewed` | `SuiteAssumption` |
| | `TypeCorrect`, `PassedCorrect` | `[]TypeOK`, `[]PassedMeansSame` | |
| | `CurrentCorrect`, `UpdatedCorrect` | `[]GreenMeansCurrent`, `[]UpdatedIsAccepted` | |
| | `WaitsEnd`, `WorkEnds` | `[]NoTestWaits`, `WorkAdvances` | |
| `Lemmas` | | what the proofs share | |

Four of the assumptions say more than that a constant has its type. `FindableTables`: the names of tables and schemas have no opening
parenthesis and no space at their ends or beside a dot, and no table has both quotes and dots in its two names; quotes or dots, commas and other spaces
they may have, and one table may have quotes where another has dots. Without it the property is false: the header of a COPY statement ends at its first
parenthesis, a space beside a dot is trimmed, and the tables `"a`, `.B` and `a.`, `B"` have one name between them; the run `TableNames` has two tables that differ
in a space beside a dot. `PlainColumns`: no column has a comma or
a quote in its name (a comma is the finding `TableNamesCommas`; quotes at the ends are trimmed by the code). `NoLoneNull`: no row that is written consists of one NULL
(the finding `CsvTextOneColumn`); it holds of every table of two or more columns. `BufferAssumption`: `BufReader` has a capacity of 8 KiB.

`read_entry`. `Chain(s, i, j)` says that the spans of `s` are consecutive and cover `i..j`; `Lemmas` has the
facts about it: chains can be concatenated, cut anywhere, lose their head, and end in one place only. None of the properties is
inductive. That what is on disk is a prefix depends on where the other batches are, so `IInv` says it of
all places at once: `InOrder` has `disk`, `buf`, `held`, `chan` and `pend` cover `0..next-1` one after the
other. `HeaderFirst`, `Unstarted`, `Stopped` and `Copied` are its forms for the other positions of
the writer and for tsv-raw, and `Calling`, `Answered`, `Taken` and `Truncated` tie the caller's
position to them (for instance, that the caller joins only with the sender dropped and either the stream at its end or
the writer dead, which makes the writer's Ok mean everything). The preservation
proof has one step per action, and under it one per conjunct of `IInv` that the action touches. `ResultCorrect`, `DrainCorrect` and `QuietCorrect`
follow from `IInv`, and so does that `Out` moves only as `Export` allows. For `BoundedMemory` it has to be known that no batch
on the way is longer than `BatchSize` (`BatchesSmall`); a chain of `k` of them then covers at most `k * BatchSize` rows, by induction on `k`.

`TsvStream` and `LineReader`. `OutputIsPrefix` says nothing of the bytes in `buffer`, so `TextInv` does: what was returned, followed by what
`buffer` holds, is the text up to the reader's position (`Delivered`), and no line passed was the marker (`BeforeMarker`). The reader is in the middle of a
line only where its last fault was (`Phases`, `AtError`). For the reader of lines the invariant has three positions in one line
(`At(c, b, i, j)`): the bytes of line `c` from `b` to `i` are in `line_buf`, `j` were delivered, the difference is unread in the `BufReader`, and those before `b` are lost:
`b` is 0 or the place of an error in this line that was followed by another (`CutsIn`); the lines before are as `LinesAreWhole` has them. `Accounted` alone is not inductive, because `Start` clears `line_buf`: it must be known that a line that was answered, and only such a one, is in `lines`.

`TsvBatchReader`. A rejected line leaves cells in its first columns, so that columns differ in length. `Staircase` says how: a column is never longer
than one to its left, and equal to it if as long. A batch is made of the whole builders, and only of columns of one length (`RecordBatch::try_new`), hence of equal ones. `Clean`
says that before the first error the builders hold just the lines of this call, from which each step is one of `LineBatches` or a stutter.

Texts. Characters of one conversion become pieces of text: `FlattenSeq` of the pieces. `LaidOut` (`Lemmas`) says where each piece lies in the
whole, and `Begin` where in a row each piece of a cell does, behind the separators; induction over sequences (`SeqInduction`) proves it once for all
formats. The invariant of `parse_line`, `Reading(c, n)`, is then that the scan is behind the `n`-th unit of cell `c`, with `c - 1` cells finished, `n` characters in the field and the flags
to match; each step passes one unit, which is one or two characters and never a bare delimiter, or one separator. Stripping the newline is right because an unescaped line end cannot be at the end of a dumped row,
and no dumped row is the end marker (`NotEndMarker`). `ReadingCsv(r, c, n)` is the same for line `r` of a csv file, where the units are the opening quote, a character or a doubled quote, and
the closing quote; `Inside` and `Opened` are the values of the two flags there. `NoLoneNull` is what makes the reader's `HasRow` true at the end of each line. `CopyInv` and `CsvInv` together give `RowsSurvive`.

Any line. `AsDefined` compares `parse_line` with a definition that does not scan: it counts the backslashes before a character and the delimiters before a field.
`LiteralNext` is the law of the first count (a character is literal if the one before it is a backslash that is not), so the scan, which takes a backslash together with the next character, never stops at a literal one;
`NthDelimiterIs` and `DelimitersNext` are those of the second. `ScanInv` then says that the current field is behind the delimiter whose number is the number of finished cells, that these are the defined ones (`Scanned`), and that
the text so far is the meaning of what was scanned of the field (`Partial`), unless the field began with `\N`: that flag survives, whatever follows.

Names. `Split` is a recursive function; it undoes joining, and joining undoes it, for parts without the separator (`SplitJoin`, `JoinSplit`, `SplitJoined`, from
`SplitAppend` and `SplitConcat` by induction over sequences). The code cuts a name at its dots, cleans each part and joins the parts again, so that a name with dots in it is cut inside its quotes:
`"a.b"` becomes the parts `"a` and `b"`, which are quoted once more. `Shown(s)` is what comes out of a text whose parts are as they should be, and is injective
(`ShownInjective`, from that of quoting, `DoubledInjective`). Each of the three ways in which a name reaches `find_table_entry` (pg_dump's, quoted only where needed; `table ls`'s; a user's, if it has no quotes) is
cut into the same parts (`NameCuts`): those of its `Spelling`, which is the name, or the quoted name if it has dots. So a table is found by name exactly if its `Spelled` name is the one
asked for, and two tables with the same one are the same table (`SpelledInjective`): if one of them has no dots, there is one way to cut (`OneDot`); if both have, neither has quotes, and the first
character tells whether the schema was quoted and hence where it ends (`FirstName`). What a user types for a table with dots is not always found, but never takes another (`TypedIsOwn`).
For requests `RequestInv` relates the file to the call of `read_entry` and the search to what was found.

`HttpRangeReader`. That the open response is at the position is kept by a read only because the body really holds the bytes
from there to the end of a version; `HttpInv` therefore says what a response *is* (`Open`: it starts at
the position, in a version up to the present one, and ends where that version ends), where what was read came from
(`Sole`), and that a cached size is that of some version (`Cached`). The refinement has one step per action and is a stutter
where the server acts.

`all`. `SuccessMeansComplete` needs what the loop has done so far: `UnpackInv` says that every entry that is no longer to do is
whole (`Passed`), that the file of the call under way is whole as soon as `Export` has answered Ok (`CallOK`), and that no two
entries share a file, which follows from the assumption that dump ids do not repeat; that there is always a first entry to do is well-foundedness of `<`.

The tests. `SpoiltOnlyByDownloads` is not inductive: a script could begin again at the path of a dump. `CacheInv` adds that a
script is started at most once for each test and run (`Fresh`), that the places of `gen_dump.sh` occur for sql fixtures only and downloads for those of `src.sh` (`Scripts`),
and that whoever left the dump partial is still downloading or has failed, while somebody's download has ended if it is a page (`Partly`). `ReviewInv` says of a run that may not update that
a changed snapshot goes with a test that is creating it, or did and failed, or was killed (`Reviewed`). `PassedMeansSame` rests on `Agreed` (what a passed test read gave no difference) and on a
lemma about `DiffTables` alone: if it is empty, the two tables are the same bag of records with ids. `GreenMeansCurrent` rests on `Current`: as long as nobody was overtaken
by an edit, all that a script has loaded, dumped or moved, and all that a test found or read, is of the fixture as it is. `UpdatedIsAccepted` needs to follow every writer of the file
through the truncations of the others: `Updated` says that the file has no line that is not the table's or a hole, and that *some* writer, the last to open it, has all of its lines there (`WriterHolds`);
what a snapshot of a sorted table gives back has no difference from the table, because `SortedRows` is a permutation (an injection of a finite set into itself).

Termination. Fairness and ENABLED are beyond the installed provers, but what termination rests on is said without them and proved.
That nobody waits for nothing: `NoDeadlock` writes the guards of the steps out (`CallerCanStep`, `WriterCanStep`) and says that as long as one thread has not
stopped, one can go on, and that a detached writer can by itself; it needs from `IInv` that a writer that has stopped has dropped its receiver (`Stopped`) and that the
sender is dropped before the join and the return (`Calling`). `NoTestWaits` says that a test waits for no script but one that was started in this run, and that it has left a dump if it has ended. And
that nothing goes on for ever: each step has less left by a measure. For `read_entry` that is a number, `StepsLeft`, where each line has four steps and each batch in the channel two; for the
reader of lines, which may be in the middle of a line when a read fails, what is left to fetch, then to deliver, then to take (`ReadsAdvance`);
in the tests each step moves one thread or script ahead and none back, and only the first step of a test starts a script (`WorkAdvances`).

Only model-checked: what fairness makes of this (`Returns`, `WriterStops`, `EndIsReached`, `RunsEnd`, and the liveness part of
`ImplementsExport` and of `ImplementsLineBatches`), and that the guards written out are those of the steps.

## Not modelled, and why

libpgdump, arrow, parquet, reqwest, docker, psql, pg_dump, curl and the servers are external; they appear as far as the code depends on them.
`toc.rs` is a pure conversion. Progress reports and log messages do not
touch the data. Profiling is behind a feature flag, and no code of the program
uses its macros. `util.rs` is not compiled. Of the snapshots, the JSON comparator with its line diff, the readers of
parquet and raw tsv outputs (one call into arrow each, or a split at tabs) and the layout of diffs are left out. Two `read_entry` calls on the same path
at once do not happen in the program; a library caller could make them, by a retry while a detached writer is still at work. Whether
libpgdump reports a block that is cut off before its marker is not in this repository.

## Plan

Done, in this order: `Spans`, `ReadEntry` with `Export` and the proofs; `TsvStream`; `TsvBatchReader` with `LineBatches`;
`HttpRangeReader` with `ByteSource`; `UnpackAll`; `CopyText`, `CsvText`, `TableNames`; `LineReader`; `FixtureCache`, `SnapshotStore`,
`TableDiff` and `TestSuite`; `TextExport`; `ReadTable`; the proofs for `HttpRangeReader` and `UnpackAll`; for `LineReader` and `TsvBatchReader`; `BoundedMemory`; all of
`TestSuite`; names, requests and the two text formats; any COPY line; termination's safe part (no deadlock, and a measure that each step lowers); names with dots.

Nothing of the plan is left that the provers can do. What a further version could add: the readers of parquet and raw tsv outputs in the comparisons of tests, and two calls of `read_entry` on
one path at once.

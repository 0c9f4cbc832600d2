--------------------------- MODULE ReadEntryProof ---------------------------
(***************************************************************************)
(* IInv is an inductive invariant of ReadEntry, for every set of calls,    *)
(* batch size and channel capacity; the safety properties follow from it,  *)
(* and so does that every step is one the module Export allows, that the   *)
(* threads never wait for each other, and that their steps are bounded.    *)
(***************************************************************************)
EXTENDS ReadEntry, Lemmas

USE ConfigAssumption DEF ConfigAssumption, callerVars, chanVars, fileVars, Return,
                         WriterRuns, AtEnd, StreamEnded, Exportable

LEMMA JobType ==
  ASSUME TypeOK
  PROVE  /\ job \in Job /\ LastLine \in Nat
         /\ job.format \in Formats /\ job.output \in BOOLEAN
  <1>1. job \in Job
    BY DEF TypeOK, ControlTypes
  <1>2. QED
    BY <1>1 DEF Job, LastLine

(* What only depends on the call and the lines taken.                      *)
LEMMA SameCall ==
  ASSUME job' = job
  PROVE  /\ LastLine' = LastLine /\ (Raw' <=> Raw)
         /\ next' = next => (BatchFailed' <=> BatchFailed)
  BY DEF LastLine, Raw, BatchFailed, RowsFrom, WindowEnd

LEMMA WindowBounds ==
  ASSUME TypeOK, next <= LastLine
  PROVE  WindowEnd \in next .. LastLine
  BY JobType DEF TypeOK, DataTypes, WindowEnd

LEMMA InitIInv == Init => IInv
  <1> SUFFICES ASSUME Init PROVE IInv
    OBVIOUS
  <1>1. job \in Job /\ LastLine \in Nat /\ <<>> \in Seq(Batch) /\ Len(<<>>) = 0
    BY EmptySeq DEF Init, Job, LastLine
  <1>2. Chain(<<>>, 0, -1)
    BY ChainEmpty
  <1>3. ControlTypes
    BY DEF Init, ControlTypes
  <1>4. DataTypes
    BY <1>1 DEF Init, DataTypes
  <1>5. DiskIsPrefix /\ OldOutputKept
    BY <1>1, <1>2 DEF Init, DiskIsPrefix, OldOutputKept
  <1>6. Unstarted /\ Running /\ Stopped
    BY DEF Init, Unstarted, Idle, Running, Stopped
  <1>7. Copied
    BY <1>1, <1>2 DEF Init, Copied
  <1>8. Taken /\ Calling /\ Answered /\ Truncated
    BY <1>1 DEF Init, Taken, Calling, Answered, Truncated
  <1>9. QED
    BY <1>3, <1>4, <1>5, <1>6, <1>7, <1>8 DEF IInv, TypeOK

(* The call finds the entry's data and columns.                           *)
LEMMA PrepareStep == IInv /\ Prepare => IInv'
  <1> SUFFICES ASSUME IInv, Prepare PROVE IInv'
    OBVIOUS
  <1>1. ControlTypes'
    BY SameCall DEF IInv, Prepare, TypeOK, ControlTypes
  <1>2. DataTypes'
    BY SameCall DEF IInv, Prepare, TypeOK, DataTypes
  <1>3. DiskIsPrefix'
    BY SameCall DEF IInv, Prepare, DiskIsPrefix
  <1>4. OldOutputKept'
    BY SameCall DEF IInv, Prepare, OldOutputKept, Calling
  <1>5. Unstarted'
    BY SameCall DEF IInv, Prepare, Unstarted, Calling, Idle, Copied
  <1>6. Running'
    BY SameCall DEF IInv, Prepare, Running, InOrder, HeaderFirst
  <1>7. Stopped'
    BY SameCall DEF IInv, Prepare, Stopped, Calling, Idle, Copied
  <1>8. Copied'
    BY SameCall DEF IInv, Prepare, Copied, Calling
  <1>9. Taken'
    BY SameCall DEF IInv, Prepare, Taken
  <1>10. Calling'
    BY SameCall DEF IInv, Prepare, Calling, Unstarted, Stopped, Truncated, Answered, Idle
  <1>11. Answered'
    BY SameCall DEF IInv, Prepare, Answered, Calling, Stopped, Copied
  <1>12. Truncated'
    BY SameCall DEF IInv, Prepare, Truncated, Calling
  <1>13. QED
    BY <1>1, <1>2, <1>3, <1>4, <1>5, <1>6,
       <1>7, <1>8, <1>9, <1>10, <1>11, <1>12 DEF IInv, TypeOK

(* The call fails before it creates the output.                           *)
LEMMA PrepareFailsStep == IInv /\ PrepareFails => IInv'
  <1> SUFFICES ASSUME IInv, PrepareFails PROVE IInv'
    OBVIOUS
  <1>1. ControlTypes'
    BY SameCall DEF IInv, PrepareFails, TypeOK, ControlTypes
  <1>2. DataTypes'
    BY SameCall DEF IInv, PrepareFails, TypeOK, DataTypes
  <1>3. DiskIsPrefix'
    BY SameCall DEF IInv, PrepareFails, DiskIsPrefix
  <1>4. OldOutputKept'
    BY SameCall DEF IInv, PrepareFails, OldOutputKept, Calling
  <1>5. Unstarted'
    BY SameCall DEF IInv, PrepareFails, Unstarted, Calling, Idle, Copied
  <1>6. Running'
    BY SameCall DEF IInv, PrepareFails, Running, InOrder, HeaderFirst
  <1>7. Stopped'
    BY SameCall DEF IInv, PrepareFails, Stopped, Calling, Idle, Copied
  <1>8. Copied'
    BY SameCall DEF IInv, PrepareFails, Copied, Calling
  <1>9. Taken'
    BY SameCall DEF IInv, PrepareFails, Taken
  <1>10. Calling'
    BY SameCall DEF IInv, PrepareFails, Calling, Unstarted, Stopped, Truncated, Answered, Idle
  <1>11. Answered'
    BY SameCall DEF IInv, PrepareFails, Answered, Calling, Stopped, Copied
  <1>12. Truncated'
    BY SameCall DEF IInv, PrepareFails, Truncated, Calling
  <1>13. QED
    BY <1>1, <1>2, <1>3, <1>4, <1>5, <1>6,
       <1>7, <1>8, <1>9, <1>10, <1>11, <1>12 DEF IInv, TypeOK

(* The output is truncated and the writer thread starts.                  *)
LEMMA CreateStep == IInv /\ Create => IInv'
  <1> SUFFICES ASSUME IInv, Create PROVE IInv'
    OBVIOUS
  <1>1. /\ pc = "create" /\ wpc = "none" /\ disk = <<>> /\ ~ sealed /\ old
        /\ job' = job /\ next' = next /\ Exportable
    BY DEF IInv, Calling, Create
  <1>2. job.format \in Formats /\ job.output \in BOOLEAN /\ LastLine \in Nat
    BY JobType DEF IInv
  <1>3. /\ Raw => pc' = "copy" /\ wpc' = "none" /\ buf' = <<>>
        /\ job.format = "csv" => pc' = "produce" /\ wpc' = "header" /\ buf' = <<>>
        /\ job.format = "parquet" => pc' = "produce" /\ wpc' = "recv" /\ buf' = <<Header>>
    BY DEF Create, Raw
  <1>4. Raw \/ job.format = "csv" \/ job.format = "parquet"
    BY <1>2 DEF Formats, Raw
  <1>5. /\ <<Header>> \in Seq(Batch) /\ Chain(<<Header>>, 0, 0)
        /\ Chain(<<>>, 0, -1) /\ Chain(<<>>, 1, 0)
    BY ChainOne, ChainEmpty DEF Header
  <1>6. Raw \/ (Idle /\ next = 1 /\ ~ old')
    BY <1>1, <1>2 DEF IInv, Unstarted, Create
  <1>7. ControlTypes'
    BY <1>1, <1>3, <1>4 DEF IInv, TypeOK, ControlTypes, Create
  <1>8. DataTypes'
    BY <1>3, <1>4, <1>5, EmptySeq DEF IInv, TypeOK, DataTypes, Create
  <1>9. DiskIsPrefix'
    BY SameCall DEF IInv, Create, DiskIsPrefix
  <1>10. OldOutputKept'
    BY SameCall DEF IInv, Create, OldOutputKept, Calling
  <1>11. Unstarted'
    BY SameCall DEF IInv, Create, Unstarted, Calling, Idle, Copied
  <1>12. Running'
    <2>1. CASE Raw
      BY <1>3, <2>1 DEF Running
    <2>2. CASE job.format = "csv"
      <3>1. /\ disk' = <<>> /\ buf' = <<>> /\ held' = <<>> /\ chan' = <<>> /\ pend' = <<>>
            /\ next' = 1 /\ LastLine' \in Nat
        BY <1>1, <1>2, <1>3, <1>6, <2>2, SameCall DEF Create, Idle, Raw
      <3>2. Chain(chan', 1, 0) /\ Chain(pend', 0 + 1, next' - 1)
        BY <1>5, <3>1
      <3>3. HeaderFirst'
        BY <3>1, <3>2 DEF HeaderFirst
      <3>4. QED
        BY <1>3, <2>2, <3>3 DEF Running
    <2>3. CASE job.format = "parquet"
      <3>1. /\ disk' = <<>> /\ buf' = <<Header>> /\ held' = <<>> /\ chan' = <<>>
            /\ pend' = <<>> /\ next' = 1 /\ LastLine' \in Nat
        BY <1>1, <1>2, <1>3, <1>6, <2>3, SameCall DEF Create, Idle, Raw
      <3>2. /\ Chain(disk', 0, -1) /\ Chain(buf', -1 + 1, 0) /\ Chain(held', 0 + 1, 0)
            /\ Chain(chan', 0 + 1, 0) /\ Chain(pend', 0 + 1, next' - 1)
        BY <1>5, <3>1
      <3>3. InOrder'
        BY <3>1, <3>2 DEF InOrder
      <3>4. QED
        BY <1>3, <2>3, <3>1, <3>3 DEF Running
    <2>4. QED
      BY <1>4, <2>1, <2>2, <2>3
  <1>13. Stopped'
    BY <1>1, <1>3, <1>4 DEF IInv, Stopped, Create
  <1>14. Copied'
    BY <1>1, <1>3, SameCall DEF IInv, Copied, Create
  <1>15. Taken'
    BY <1>1, SameCall DEF IInv, Taken
  <1>16. Calling'
    <2>1. pend' = <<>>
      BY <1>1 DEF IInv, Calling, Create
    <2>2. tx' /\ (Raw' <=> Raw)
      BY <1>1, SameCall DEF IInv, Unstarted, Create
    <2>3. ~ sealed'
      BY <1>1 DEF Create
    <2>4. /\ pc' \in {"copy", "produce"} /\ (pc' = "copy" => Raw)
          /\ pc' = "produce" => ~ Raw /\ wpc' \in {"header", "recv"}
      BY <1>3, <1>4 DEF Raw
    <2>5. QED
      BY <2>1, <2>2, <2>3, <2>4 DEF Calling
  <1>17. Answered'
    BY SameCall DEF IInv, Create, Answered, Calling, Stopped, Copied
  <1>18. Truncated'
    BY <1>1, <1>3, <1>4, <1>6 DEF Truncated, Raw
  <1>19. QED
    BY <1>7, <1>8, <1>9, <1>10, <1>11, <1>12,
       <1>13, <1>14, <1>15, <1>16, <1>17, <1>18 DEF IInv, TypeOK

(* The call fails when it creates the output.                             *)
LEMMA CreateFailsStep == IInv /\ CreateFails => IInv'
  <1> SUFFICES ASSUME IInv, CreateFails PROVE IInv'
    OBVIOUS
  <1>1. ControlTypes'
    BY SameCall DEF IInv, CreateFails, TypeOK, ControlTypes
  <1>2. DataTypes'
    BY SameCall DEF IInv, CreateFails, TypeOK, DataTypes
  <1>3. DiskIsPrefix'
    BY SameCall DEF IInv, CreateFails, DiskIsPrefix
  <1>4. OldOutputKept'
    BY SameCall DEF IInv, CreateFails, OldOutputKept, Calling
  <1>5. Unstarted'
    BY SameCall DEF IInv, CreateFails, Unstarted, Calling, Idle, Copied
  <1>6. Running'
    BY SameCall DEF IInv, CreateFails, Running, InOrder, HeaderFirst
  <1>7. Stopped'
    BY SameCall DEF IInv, CreateFails, Stopped, Calling, Idle, Copied
  <1>8. Copied'
    BY SameCall DEF IInv, CreateFails, Copied, Calling
  <1>9. Taken'
    BY SameCall DEF IInv, CreateFails, Taken
  <1>10. Calling'
    BY SameCall DEF IInv, CreateFails, Calling, Unstarted, Stopped, Truncated, Answered, Idle
  <1>11. Answered'
    BY SameCall DEF IInv, CreateFails, Answered, Calling, Stopped, Copied
  <1>12. Truncated'
    BY SameCall DEF IInv, CreateFails, Truncated, Calling
  <1>13. QED
    BY <1>1, <1>2, <1>3, <1>4, <1>5, <1>6,
       <1>7, <1>8, <1>9, <1>10, <1>11, <1>12 DEF IInv, TypeOK

(* tsv-raw: one more line is copied.                                      *)
LEMMA CopyLineStep == IInv /\ CopyLine => IInv'
  <1> SUFFICES ASSUME IInv, CopyLine PROVE IInv'
    OBVIOUS
  <1>1. /\ Raw /\ next \in Nat /\ next <= LastLine /\ LastLine \in Nat
        /\ disk \in Seq(Batch) /\ Chain(disk, 0, next - 1) /\ ~ sealed /\ wpc = "none"
    BY JobType DEF IInv, Copied, Calling, CopyLine, CanCopy, TypeOK, DataTypes
  <1>2. disk' \in Seq(Batch) /\ Chain(disk', 0, next)
    <2>1. <<Span(next, next)>> \in Seq(Batch) /\ Chain(<<Span(next, next)>>, next, next)
      BY <1>1, ChainOne
    <2>2. Chain(<<Span(next, next)>>, (next - 1) + 1, next)
      BY <1>1, <2>1
    <2>3. /\ disk \o <<Span(next, next)>> \in Seq(Batch)
          /\ Chain(disk \o <<Span(next, next)>>, 0, next)
      <3> DEFINE p == <<Span(next, next)>>
      <3>1. p \in Seq(Batch) /\ Chain(p, (next - 1) + 1, next) /\ next - 1 \in Int
        BY <1>1, <2>1, <2>2
      <3> HIDE DEF p
      <3>2. disk \o p \in Seq(Batch) /\ Chain(disk \o p, 0, next)
        BY <1>1, <3>1, ChainConcat
      <3>3. QED
        BY <3>2 DEF p
    <2>4. disk' = disk \o <<Span(next, next)>>
      <3>1. Span(next, next) \in Batch
        BY <1>1 DEF Span, Batch
      <3>2. QED
        BY <1>1, <3>1, AppendIsConcat DEF CopyLine
    <2>5. QED
      BY <2>3, <2>4
  <1>3. job' = job /\ next' = next + 1 /\ LastLine' = LastLine /\ (Raw' <=> Raw)
    BY SameCall DEF CopyLine
  <1>4. ControlTypes'
    BY SameCall DEF IInv, CopyLine, TypeOK, ControlTypes
  <1>5. DataTypes'
    BY <1>1, <1>2, <1>3 DEF IInv, TypeOK, DataTypes, CopyLine
  <1>6. DiskIsPrefix'
    BY <1>1, <1>2, <1>3 DEF DiskIsPrefix
  <1>7. OldOutputKept'
    BY SameCall DEF IInv, CopyLine, OldOutputKept, Calling
  <1>8. Unstarted'
    BY <1>1, <1>3 DEF IInv, Unstarted, Idle, CopyLine
  <1>9. Running'
    BY <1>1 DEF Running, CopyLine
  <1>10. Stopped'
    BY <1>1 DEF IInv, Stopped, CopyLine
  <1>11. Copied'
    BY <1>1, <1>2, <1>3 DEF Copied, CopyLine
  <1>12. Taken'
    BY <1>1, <1>3 DEF Taken
  <1>13. Calling'
    BY SameCall DEF IInv, CopyLine, Calling, Unstarted, Stopped, Truncated, Answered, Idle
  <1>14. Answered'
    BY SameCall DEF IInv, CopyLine, Answered, Calling, Stopped, Copied
  <1>15. Truncated'
    BY SameCall DEF IInv, CopyLine, Truncated, Calling
  <1>16. QED
    BY <1>4, <1>5, <1>6, <1>7, <1>8, <1>9,
       <1>10, <1>11, <1>12, <1>13, <1>14, <1>15 DEF IInv, TypeOK

(* tsv-raw: the copy ends and the call returns Ok.                        *)
LEMMA CopyEndsStep == IInv /\ CopyEnds => IInv'
  <1> SUFFICES ASSUME IInv, CopyEnds PROVE IInv'
    OBVIOUS
  <1>1. /\ Raw /\ next \in Nat /\ next > LastLine /\ next <= LastLine + 1 /\ LastLine \in Nat
        /\ wpc = "none"
    BY JobType DEF IInv, Copied, Calling, Taken, CopyEnds, TypeOK, DataTypes
  <1>2. ControlTypes'
    BY SameCall DEF IInv, CopyEnds, TypeOK, ControlTypes
  <1>3. DataTypes'
    BY SameCall DEF IInv, CopyEnds, TypeOK, DataTypes
  <1>4. DiskIsPrefix'
    BY SameCall DEF IInv, CopyEnds, DiskIsPrefix
  <1>5. OldOutputKept'
    BY SameCall DEF IInv, CopyEnds, OldOutputKept, Calling
  <1>6. Unstarted'
    BY <1>1, SameCall DEF IInv, Unstarted, Idle, CopyEnds
  <1>7. Running'
    BY SameCall DEF IInv, CopyEnds, Running, InOrder, HeaderFirst
  <1>8. Stopped'
    BY <1>1, SameCall DEF IInv, Stopped, Idle, CopyEnds
  <1>9. Copied'
    BY <1>1, SameCall DEF IInv, Copied, CopyEnds
  <1>10. Taken'
    BY <1>1, SameCall DEF IInv, Taken, CopyEnds
  <1>11. Calling'
    BY <1>1, SameCall DEF IInv, CopyEnds, Calling, Unstarted, Stopped, Truncated, Answered, Idle
  <1>12. Answered'
    BY <1>1, SameCall DEF Answered, CopyEnds
  <1>13. Truncated'
    BY SameCall DEF IInv, CopyEnds, Truncated, Calling
  <1>14. QED
    BY <1>2, <1>3, <1>4, <1>5, <1>6, <1>7,
       <1>8, <1>9, <1>10, <1>11, <1>12, <1>13 DEF IInv, TypeOK

(* tsv-raw: the copy fails.                                               *)
LEMMA CopyFailsStep == IInv /\ CopyFails => IInv'
  <1> SUFFICES ASSUME IInv, CopyFails PROVE IInv'
    OBVIOUS
  <1>1. ControlTypes'
    BY SameCall DEF IInv, CopyFails, TypeOK, ControlTypes
  <1>2. DataTypes'
    BY SameCall DEF IInv, CopyFails, TypeOK, DataTypes
  <1>3. DiskIsPrefix'
    BY SameCall DEF IInv, CopyFails, DiskIsPrefix
  <1>4. OldOutputKept'
    BY SameCall DEF IInv, CopyFails, OldOutputKept, Calling
  <1>5. Unstarted'
    BY SameCall DEF IInv, CopyFails, Unstarted, Calling, Idle, Copied
  <1>6. Running'
    BY SameCall DEF IInv, CopyFails, Running, InOrder, HeaderFirst
  <1>7. Stopped'
    BY SameCall DEF IInv, CopyFails, Stopped, Calling, Idle, Copied
  <1>8. Copied'
    BY SameCall DEF IInv, CopyFails, Copied, Calling
  <1>9. Taken'
    BY SameCall DEF IInv, CopyFails, Taken
  <1>10. Calling'
    BY SameCall DEF IInv, CopyFails, Calling, Copied, Unstarted, Stopped, Truncated, Answered,
                    Idle
  <1>11. Answered'
    BY SameCall DEF IInv, CopyFails, Answered, Calling, Stopped, Copied
  <1>12. Truncated'
    BY SameCall DEF IInv, CopyFails, Truncated, Calling
  <1>13. QED
    BY <1>1, <1>2, <1>3, <1>4, <1>5, <1>6,
       <1>7, <1>8, <1>9, <1>10, <1>11, <1>12 DEF IInv, TypeOK

(* The caller parses one more batch.                                      *)
LEMMA ProduceStep == IInv /\ Produce => IInv'
  <1> SUFFICES ASSUME IInv, Produce PROVE IInv'
    OBVIOUS
  <1>1. /\ next \in Nat /\ LastLine \in Nat /\ WindowEnd \in next .. LastLine
        /\ pend = <<>> /\ ~ Raw /\ tx /\ wpc # "none"
    BY JobType, WindowBounds
       DEF IInv, Calling, Produce, BatchReady, TypeOK, DataTypes
  <1>2. /\ pend' \in Seq(Batch) /\ Len(pend') = 1
        /\ Chain(pend', next, next' - 1) /\ Chain(<<>>, next, next - 1)
    BY <1>1, ChainOne, ChainEmpty DEF Produce
  <1>3. /\ job' = job /\ next' \in Nat /\ next' <= LastLine + 1 /\ next' >= 1
        /\ LastLine' = LastLine /\ (Raw' <=> Raw)
    BY <1>1, SameCall DEF Produce
  <1>4. ControlTypes'
    BY SameCall DEF IInv, Produce, TypeOK, ControlTypes
  <1>5. DataTypes'
    BY <1>2, <1>3 DEF IInv, TypeOK, DataTypes, Produce
  <1>6. DiskIsPrefix'
    BY SameCall DEF IInv, Produce, DiskIsPrefix
  <1>7. OldOutputKept'
    BY SameCall DEF IInv, Produce, OldOutputKept, Calling
  <1>8. Unstarted'
    BY <1>1 DEF Unstarted, Produce
  <1>9. Running'
    <2>1. CASE wpc = "header"
      <3>1. PICK c \in 0 .. LastLine : Chain(chan, 1, c) /\ Chain(pend, c + 1, next - 1)
        BY <2>1 DEF IInv, Running, HeaderFirst
      <3>2. c = next - 1
        BY <1>1, <3>1, ChainEmpty
      <3>3. Chain(chan', 1, c) /\ Chain(pend', c + 1, next' - 1)
        BY <1>1, <1>2, <3>1, <3>2 DEF Produce
      <3>4. HeaderFirst'
        BY <1>3, <2>1, <3>3 DEF IInv, Running, HeaderFirst, Produce
      <3>5. QED
        BY <2>1, <3>4 DEF Running, Produce
    <2>2. CASE wpc \in {"recv", "write"}
      <3>1. PICK d, b, h, c \in -1 .. LastLine :
                /\ Chain(disk, 0, d) /\ Chain(buf, d + 1, b) /\ b >= 0
                /\ Chain(held, b + 1, h)
                /\ Chain(chan, h + 1, c) /\ Chain(pend, c + 1, next - 1)
        BY <2>2 DEF IInv, Running, InOrder
      <3>2. c = next - 1
        BY <1>1, <3>1, ChainEmpty
      <3>3. Chain(pend', c + 1, next' - 1)
        BY <1>1, <1>2, <3>2
      <3>4. InOrder'
        BY <1>3, <3>1, <3>3 DEF InOrder, Produce
      <3>5. QED
        BY <2>2, <3>4 DEF IInv, Running, Produce
    <2>3. CASE wpc \notin {"header", "recv", "write"}
      BY <2>3 DEF Running, Produce
    <2>4. QED
      BY <2>1, <2>2, <2>3
  <1>10. Stopped'
    <2>1. wpc # "ok"
      BY <1>1 DEF IInv, Stopped
    <2>2. QED
      BY <2>1 DEF IInv, Stopped, Produce
  <1>11. Copied'
    BY <1>1, <1>3 DEF Copied
  <1>12. Taken'
    BY <1>3 DEF Taken
  <1>13. Calling'
    BY SameCall DEF IInv, Produce, Calling, Unstarted, Stopped, Truncated, Answered, Idle
  <1>14. Answered'
    BY SameCall DEF IInv, Produce, Answered, Calling, Stopped, Copied
  <1>15. Truncated'
    BY SameCall DEF IInv, Produce, Truncated, Calling
  <1>16. QED
    BY <1>4, <1>5, <1>6, <1>7, <1>8, <1>9,
       <1>10, <1>11, <1>12, <1>13, <1>14, <1>15 DEF IInv, TypeOK

(* The stream ends: the caller drops the sender.                          *)
LEMMA ProduceEndsStep == IInv /\ ProduceEnds => IInv'
  <1> SUFFICES ASSUME IInv, ProduceEnds PROVE IInv'
    OBVIOUS
  <1>1. ControlTypes'
    BY SameCall DEF IInv, ProduceEnds, TypeOK, ControlTypes
  <1>2. DataTypes'
    BY SameCall DEF IInv, ProduceEnds, TypeOK, DataTypes
  <1>3. DiskIsPrefix'
    BY SameCall DEF IInv, ProduceEnds, DiskIsPrefix
  <1>4. OldOutputKept'
    BY SameCall DEF IInv, ProduceEnds, OldOutputKept, Calling
  <1>5. Unstarted'
    BY SameCall DEF IInv, ProduceEnds, Unstarted, Calling, Idle, Copied
  <1>6. Running'
    BY SameCall DEF IInv, ProduceEnds, Running, InOrder, HeaderFirst
  <1>7. Stopped'
    BY SameCall DEF IInv, ProduceEnds, Stopped, Calling, Idle, Copied
  <1>8. Copied'
    BY SameCall DEF IInv, ProduceEnds, Copied, Calling
  <1>9. Taken'
    BY SameCall DEF IInv, ProduceEnds, Taken
  <1>10. Calling'
    BY SameCall DEF IInv, ProduceEnds, Calling, Unstarted, Stopped, Truncated, Answered, Idle
  <1>11. Answered'
    BY SameCall DEF IInv, ProduceEnds, Answered, Calling, Stopped, Copied
  <1>12. Truncated'
    BY SameCall DEF IInv, ProduceEnds, Truncated, Calling
  <1>13. QED
    BY <1>1, <1>2, <1>3, <1>4, <1>5, <1>6,
       <1>7, <1>8, <1>9, <1>10, <1>11, <1>12 DEF IInv, TypeOK

(* A batch cannot be built: the call returns at once.                     *)
LEMMA ProduceFailsStep == IInv /\ ProduceFails => IInv'
  <1> SUFFICES ASSUME IInv, ProduceFails PROVE IInv'
    OBVIOUS
  <1>1. ControlTypes'
    BY SameCall DEF IInv, ProduceFails, TypeOK, ControlTypes
  <1>2. DataTypes'
    BY SameCall DEF IInv, ProduceFails, TypeOK, DataTypes
  <1>3. DiskIsPrefix'
    BY SameCall DEF IInv, ProduceFails, DiskIsPrefix
  <1>4. OldOutputKept'
    BY SameCall DEF IInv, ProduceFails, OldOutputKept, Calling
  <1>5. Unstarted'
    BY SameCall DEF IInv, ProduceFails, Unstarted, Calling, Idle, Copied
  <1>6. Running'
    BY SameCall DEF IInv, ProduceFails, Running, InOrder, HeaderFirst
  <1>7. Stopped'
    BY SameCall DEF IInv, ProduceFails, Stopped, Calling, Idle, Copied
  <1>8. Copied'
    BY SameCall DEF IInv, ProduceFails, Copied, Calling
  <1>9. Taken'
    BY SameCall DEF IInv, ProduceFails, Taken
  <1>10. Calling'
    BY SameCall DEF IInv, ProduceFails, Calling, Unstarted, Stopped, Truncated, Answered, Idle
  <1>11. Answered'
    BY SameCall DEF IInv, ProduceFails, Answered, Calling, Stopped, Copied
  <1>12. Truncated'
    BY SameCall DEF IInv, ProduceFails, Truncated, Calling
  <1>13. QED
    BY <1>1, <1>2, <1>3, <1>4, <1>5, <1>6,
       <1>7, <1>8, <1>9, <1>10, <1>11, <1>12 DEF IInv, TypeOK

(* The caller hands a batch over.                                         *)
LEMMA SendStep == IInv /\ Send => IInv'
  <1> SUFFICES ASSUME IInv, Send PROVE IInv'
    OBVIOUS
  <1>1. /\ next \in Nat /\ LastLine \in Nat /\ next <= LastLine + 1 /\ next >= 1
        /\ ~ Raw /\ tx /\ wpc # "none"
        /\ chan \in Seq(Batch) /\ pend \in Seq(Batch) /\ Len(pend) <= 1
        /\ Len(chan) < Capacity
    BY JobType DEF IInv, Calling, Taken, Send, TypeOK, DataTypes
  <1>2. /\ job' = job /\ next' = next /\ pend' = <<>> /\ LastLine' = LastLine
        /\ chan' = chan \o pend /\ (Raw' <=> Raw)
    BY SameCall DEF Send
  <1>3. chan' \in Seq(Batch) /\ Len(chan') = Len(chan) + Len(pend)
    BY <1>1, <1>2, ConcatProperties
  <1>4. Chain(pend', (next - 1) + 1, next' - 1) /\ next - 1 \in 0 .. LastLine
    BY <1>1, <1>2, ChainEmpty
  <1>5. ControlTypes'
    BY SameCall DEF IInv, Send, TypeOK, ControlTypes
  <1>6. DataTypes'
    BY <1>1, <1>2, <1>3, EmptySeq, LengthZero DEF IInv, TypeOK, DataTypes, Send
  <1>7. DiskIsPrefix'
    BY SameCall DEF IInv, Send, DiskIsPrefix
  <1>8. OldOutputKept'
    BY SameCall DEF IInv, Send, OldOutputKept, Calling
  <1>9. Unstarted'
    BY SameCall DEF IInv, Send, Unstarted, Calling, Idle, Copied
  <1>10. Running'
    <2>1. CASE wpc = "header"
      <3>1. PICK c \in 0 .. LastLine : Chain(chan, 1, c) /\ Chain(pend, c + 1, next - 1)
        BY <2>1 DEF IInv, Running, HeaderFirst
      <3>2. Chain(chan', 1, next - 1)
        BY <1>1, <1>2, <3>1, ChainConcat
      <3>3. HeaderFirst'
        BY <1>2, <1>4, <2>1, <3>2 DEF IInv, Running, HeaderFirst, Send
      <3>4. QED
        BY <2>1, <3>3 DEF Running, Send
    <2>2. CASE wpc \in {"recv", "write"}
      <3>1. PICK d, b, h, c \in -1 .. LastLine :
                /\ Chain(disk, 0, d) /\ Chain(buf, d + 1, b) /\ b >= 0
                /\ Chain(held, b + 1, h)
                /\ Chain(chan, h + 1, c) /\ Chain(pend, c + 1, next - 1)
        BY <2>2 DEF IInv, Running, InOrder
      <3>2. Chain(chan', h + 1, next - 1)
        BY <1>1, <1>2, <3>1, ChainConcat
      <3>3. next - 1 \in -1 .. LastLine
        BY <1>4
      <3>4. InOrder'
        BY <1>2, <1>4, <3>1, <3>2, <3>3 DEF InOrder, Send
      <3>5. QED
        BY <2>2, <3>4 DEF IInv, Running, Send
    <2>3. CASE wpc \notin {"header", "recv", "write"}
      BY <2>3 DEF Running, Send
    <2>4. QED
      BY <2>1, <2>2, <2>3
  <1>11. Stopped'
    BY SameCall DEF IInv, Send, Stopped, Calling, Idle, Copied
  <1>12. Copied'
    BY SameCall DEF IInv, Send, Copied, Calling
  <1>13. Taken'
    BY SameCall DEF IInv, Send, Taken
  <1>14. Calling'
    BY SameCall DEF IInv, Send, Calling, Unstarted, Stopped, Truncated, Answered, Idle
  <1>15. Answered'
    BY SameCall DEF IInv, Send, Answered, Calling, Stopped, Copied
  <1>16. Truncated'
    BY SameCall DEF IInv, Send, Truncated, Calling
  <1>17. QED
    BY <1>5, <1>6, <1>7, <1>8, <1>9, <1>10,
       <1>11, <1>12, <1>13, <1>14, <1>15, <1>16 DEF IInv, TypeOK

(* The writer is gone: the caller stops producing.                        *)
LEMMA SendFailsStep == IInv /\ SendFails => IInv'
  <1> SUFFICES ASSUME IInv, SendFails PROVE IInv'
    OBVIOUS
  <1>1. wpc \notin {"header", "recv", "write"}
    BY DEF IInv, Stopped, SendFails
  <1>2. ControlTypes'
    BY SameCall DEF IInv, SendFails, TypeOK, ControlTypes
  <1>3. DataTypes'
    BY SameCall, EmptySeq DEF IInv, SendFails, TypeOK, DataTypes
  <1>4. DiskIsPrefix'
    BY SameCall DEF IInv, SendFails, DiskIsPrefix
  <1>5. OldOutputKept'
    BY SameCall DEF IInv, SendFails, OldOutputKept, Calling
  <1>6. Unstarted'
    BY SameCall DEF IInv, SendFails, Unstarted, Calling, Idle, Copied
  <1>7. Running'
    BY <1>1 DEF Running, SendFails
  <1>8. Stopped'
    BY SameCall DEF IInv, SendFails, Stopped, Calling, Idle, Copied
  <1>9. Copied'
    BY SameCall DEF IInv, SendFails, Copied, Calling
  <1>10. Taken'
    BY SameCall DEF IInv, SendFails, Taken
  <1>11. Calling'
    BY SameCall DEF IInv, SendFails, Calling, Unstarted, Stopped, Truncated, Answered, Idle
  <1>12. Answered'
    BY SameCall DEF IInv, SendFails, Answered, Calling, Stopped, Copied
  <1>13. Truncated'
    BY SameCall DEF IInv, SendFails, Truncated, Calling
  <1>14. QED
    BY <1>2, <1>3, <1>4, <1>5, <1>6, <1>7,
       <1>8, <1>9, <1>10, <1>11, <1>12, <1>13 DEF IInv, TypeOK

(* The call returns what the writer thread returned.                      *)
LEMMA JoinStep == IInv /\ Join => IInv'
  <1> SUFFICES ASSUME IInv, Join PROVE IInv'
    OBVIOUS
  <1>1. ControlTypes'
    BY SameCall DEF IInv, Join, TypeOK, ControlTypes
  <1>2. DataTypes'
    BY SameCall DEF IInv, Join, TypeOK, DataTypes
  <1>3. DiskIsPrefix'
    BY SameCall DEF IInv, Join, DiskIsPrefix
  <1>4. OldOutputKept'
    BY SameCall DEF IInv, Join, OldOutputKept, Calling
  <1>5. Unstarted'
    BY SameCall DEF IInv, Join, Unstarted, Calling, Idle, Copied
  <1>6. Running'
    BY SameCall DEF IInv, Join, Running, InOrder, HeaderFirst
  <1>7. Stopped'
    BY SameCall DEF IInv, Join, Stopped, Calling, Idle, Copied
  <1>8. Copied'
    BY SameCall DEF IInv, Join, Copied, Calling
  <1>9. Taken'
    BY SameCall DEF IInv, Join, Taken
  <1>10. Calling'
    BY SameCall DEF IInv, Join, Calling, Unstarted, Stopped, Truncated, Answered, Idle
  <1>11. Answered'
    BY SameCall DEF IInv, Join, Answered, Calling, Stopped, Copied
  <1>12. Truncated'
    BY SameCall DEF IInv, Join, Truncated, Calling
  <1>13. QED
    BY <1>1, <1>2, <1>3, <1>4, <1>5, <1>6,
       <1>7, <1>8, <1>9, <1>10, <1>11, <1>12 DEF IInv, TypeOK

(* csv: the header is written before any batch.                           *)
LEMMA WriteHeaderStep == IInv /\ WriteHeader => IInv'
  <1> SUFFICES ASSUME IInv, WriteHeader PROVE IInv'
    OBVIOUS
  <1>1. LastLine \in Nat /\ job' = job /\ next' = next /\ LastLine' = LastLine
    BY JobType, SameCall DEF IInv, WriteHeader
  <1>2. /\ <<Header>> \in Seq(Batch) /\ Chain(<<Header>>, 0, 0)
        /\ Chain(<<>>, 0, -1) /\ Chain(<<>>, 1, 0)
    BY ChainOne, ChainEmpty DEF Header
  <1>3. HeaderFirst
    BY DEF IInv, Running, WriteHeader
  <1>4. ControlTypes'
    BY SameCall DEF IInv, WriteHeader, TypeOK, ControlTypes
  <1>5. DataTypes'
    BY <1>1, <1>2 DEF IInv, TypeOK, DataTypes, WriteHeader
  <1>6. DiskIsPrefix'
    BY SameCall DEF IInv, WriteHeader, DiskIsPrefix
  <1>7. OldOutputKept'
    BY SameCall DEF IInv, WriteHeader, OldOutputKept, Calling
  <1>8. Unstarted'
    BY SameCall DEF IInv, WriteHeader, Unstarted, Calling, Idle, Copied
  <1>9. Running'
    <2>1. PICK c \in 0 .. LastLine : Chain(chan, 1, c) /\ Chain(pend, c + 1, next - 1)
      BY <1>3 DEF HeaderFirst
    <2>2. /\ Chain(disk', 0, -1) /\ Chain(buf', -1 + 1, 0) /\ Chain(held', 0 + 1, 0)
          /\ Chain(chan', 0 + 1, c) /\ Chain(pend', c + 1, next' - 1)
      BY <1>1, <1>2, <1>3, <2>1 DEF HeaderFirst, WriteHeader
    <2>3. InOrder'
      BY <1>1, <2>1, <2>2 DEF InOrder
    <2>4. QED
      BY <1>3, <2>3 DEF Running, WriteHeader, HeaderFirst
  <1>10. Stopped'
    BY SameCall DEF IInv, WriteHeader, Stopped, Calling, Idle, Copied
  <1>11. Copied'
    BY SameCall DEF IInv, WriteHeader, Copied, Calling
  <1>12. Taken'
    BY SameCall DEF IInv, WriteHeader, Taken
  <1>13. Calling'
    BY SameCall DEF IInv, WriteHeader, Calling, Unstarted, Stopped, Truncated, Answered, Idle
  <1>14. Answered'
    BY SameCall DEF IInv, WriteHeader, Answered, Calling, Stopped, Copied
  <1>15. Truncated'
    BY SameCall DEF IInv, WriteHeader, Truncated, Calling
  <1>16. QED
    BY <1>4, <1>5, <1>6, <1>7, <1>8, <1>9,
       <1>10, <1>11, <1>12, <1>13, <1>14, <1>15 DEF IInv, TypeOK

(* The writer takes a batch from the channel.                             *)
LEMMA ReceiveStep == IInv /\ Receive => IInv'
  <1> SUFFICES ASSUME IInv, Receive PROVE IInv'
    OBVIOUS
  <1>1. /\ LastLine \in Nat /\ job' = job /\ next' = next /\ LastLine' = LastLine
        /\ chan \in Seq(Batch) /\ chan # <<>> /\ held = <<>>
        /\ Len(chan) <= Capacity /\ Len(chan) \in Nat
    BY JobType, SameCall, LengthZero DEF IInv, Receive, Running, TypeOK, DataTypes
  <1>2. PICK d, b, h, c \in -1 .. LastLine :
            /\ Chain(disk, 0, d) /\ Chain(buf, d + 1, b) /\ b >= 0
            /\ Chain(held, b + 1, h)
            /\ Chain(chan, h + 1, c) /\ Chain(pend, c + 1, next - 1)
    BY DEF IInv, Running, Receive, InOrder
  <1>3. h = b
    BY <1>1, <1>2, ChainEmpty
  <1>4. /\ held' \in Seq(Batch) /\ chan' \in Seq(Batch)
        /\ Len(held') = 1 /\ Len(chan') <= Capacity
    BY <1>1, <1>2, ChainHead DEF Receive
  <1>5. PICK m \in h + 1 .. c : Chain(held', h + 1, m) /\ Chain(chan', m + 1, c)
    BY SMTT(40), <1>1, <1>2, ChainHead DEF Receive
  <1>6. ControlTypes'
    BY SameCall DEF IInv, Receive, TypeOK, ControlTypes
  <1>7. DataTypes'
    BY <1>1, <1>4 DEF IInv, TypeOK, DataTypes, Receive
  <1>8. DiskIsPrefix'
    BY SameCall DEF IInv, Receive, DiskIsPrefix
  <1>9. OldOutputKept'
    BY SameCall DEF IInv, Receive, OldOutputKept, Calling
  <1>10. Unstarted'
    BY SameCall DEF IInv, Receive, Unstarted, Calling, Idle, Copied
  <1>11. Running'
    <2>1. m \in -1 .. LastLine
      BY <1>1, <1>2, <1>5
    <2>2. /\ Chain(disk', 0, d) /\ Chain(buf', d + 1, b) /\ Chain(held', b + 1, m)
          /\ Chain(chan', m + 1, c) /\ Chain(pend', c + 1, next' - 1)
      BY <1>1, <1>2, <1>3, <1>5 DEF Receive
    <2>3. InOrder'
      BY <1>1, <1>2, <2>1, <2>2 DEF InOrder
    <2>4. QED
      BY <2>3 DEF Running, Receive
  <1>12. Stopped'
    BY SameCall DEF IInv, Receive, Stopped, Calling, Idle, Copied
  <1>13. Copied'
    BY SameCall DEF IInv, Receive, Copied, Calling
  <1>14. Taken'
    BY SameCall DEF IInv, Receive, Taken
  <1>15. Calling'
    BY SameCall DEF IInv, Receive, Calling, Unstarted, Stopped, Truncated, Answered, Idle
  <1>16. Answered'
    BY SameCall DEF IInv, Receive, Answered, Calling, Stopped, Copied
  <1>17. Truncated'
    BY SameCall DEF IInv, Receive, Truncated, Calling
  <1>18. QED
    BY <1>6, <1>7, <1>8, <1>9, <1>10, <1>11,
       <1>12, <1>13, <1>14, <1>15, <1>16, <1>17 DEF IInv, TypeOK

(* The writer writes the batch it holds.                                  *)
LEMMA WriteBatchStep == IInv /\ WriteBatch => IInv'
  <1> SUFFICES ASSUME IInv, WriteBatch PROVE IInv'
    OBVIOUS
  <1>1. /\ LastLine \in Nat /\ job' = job /\ next' = next /\ LastLine' = LastLine
        /\ disk \in Seq(Batch) /\ buf \in Seq(Batch) /\ held \in Seq(Batch)
        /\ held' = <<>>
    BY JobType, SameCall DEF IInv, WriteBatch, TypeOK, DataTypes
  <1>2. PICK d, b, h, c \in -1 .. LastLine :
            /\ Chain(disk, 0, d) /\ Chain(buf, d + 1, b) /\ b >= 0
            /\ Chain(held, b + 1, h)
            /\ Chain(chan, h + 1, c) /\ Chain(pend, c + 1, next - 1)
    BY DEF IInv, Running, WriteBatch, InOrder
  <1> DEFINE w == buf \o held
  <1>3. PICK n \in 0 .. Len(w) : disk' = disk \o SubSeq(w, 1, n)
                                 /\ buf' = SubSeq(w, n + 1, Len(w))
    BY DEF WriteBatch, Spill
  <1>4. w \in Seq(Batch) /\ Chain(w, d + 1, h)
    BY <1>1, <1>2, ChainConcat
  <1> HIDE DEF w
  <1>5. SubSeq(w, 1, n) \in Seq(Batch) /\ buf' \in Seq(Batch)
    BY SMTT(40), <1>2, <1>3, <1>4, ChainSplit
  <1>6. PICK m \in d .. h : Chain(SubSeq(w, 1, n), d + 1, m) /\ Chain(buf', m + 1, h)
    <2>1. \E m \in (d + 1) - 1 .. h : /\ Chain(SubSeq(w, 1, n), d + 1, m)
                                     /\ Chain(SubSeq(w, n + 1, Len(w)), m + 1, h)
      BY <1>2, <1>3, <1>4, ChainSplit
    <2>2. (d + 1) - 1 = d
      BY <1>2
    <2>3. QED
      BY <1>3, <2>1, <2>2
  <1>7. disk' \in Seq(Batch) /\ Chain(disk', 0, m)
    <2> DEFINE p == SubSeq(w, 1, n)
    <2>1. p \in Seq(Batch) /\ Chain(p, d + 1, m) /\ disk' = disk \o p
      BY <1>3, <1>5, <1>6
    <2>2. m \in Int /\ d \in Int
      BY <1>2, <1>6
    <2> HIDE DEF p
    <2>3. QED
      BY SMTT(40), <1>1, <1>2, <2>1, <2>2, ChainConcat
  <1>8. m \in -1 .. LastLine /\ h >= 0
    <2>1. b + 1 <= h + 1
      BY <1>1, <1>2, ChainRange
    <2>2. QED
      BY <1>1, <1>2, <1>6, <2>1
  <1>9. ControlTypes'
    BY SameCall DEF IInv, WriteBatch, TypeOK, ControlTypes
  <1>10. DataTypes'
    BY <1>1, <1>5, <1>7, EmptySeq DEF IInv, TypeOK, DataTypes, WriteBatch
  <1>11. DiskIsPrefix'
    BY <1>1, <1>7, <1>8 DEF DiskIsPrefix
  <1>12. OldOutputKept'
    BY SameCall DEF IInv, WriteBatch, OldOutputKept, Calling
  <1>13. Unstarted'
    BY SameCall DEF IInv, WriteBatch, Unstarted, Calling, Idle, Copied
  <1>14. Running'
    <2>1. /\ Chain(disk', 0, m) /\ Chain(buf', m + 1, h) /\ Chain(held', h + 1, h)
          /\ Chain(chan', h + 1, c) /\ Chain(pend', c + 1, next' - 1)
      BY <1>1, <1>2, <1>6, <1>7, ChainEmpty DEF WriteBatch
    <2>2. InOrder'
      BY <1>1, <1>2, <1>8, <2>1 DEF InOrder
    <2>3. QED
      BY <1>1, <2>2 DEF Running, WriteBatch
  <1>15. Stopped'
    BY SameCall DEF IInv, WriteBatch, Stopped, Calling, Idle, Copied
  <1>16. Copied'
    BY SameCall DEF IInv, WriteBatch, Copied, Calling
  <1>17. Taken'
    BY SameCall DEF IInv, WriteBatch, Taken
  <1>18. Calling'
    BY SameCall DEF IInv, WriteBatch, Calling, Unstarted, Stopped, Truncated, Answered, Idle
  <1>19. Answered'
    BY SameCall DEF IInv, WriteBatch, Answered, Calling, Stopped, Copied
  <1>20. Truncated'
    BY SameCall DEF IInv, WriteBatch, Truncated, Calling
  <1>21. QED
    BY <1>9, <1>10, <1>11, <1>12, <1>13, <1>14,
       <1>15, <1>16, <1>17, <1>18, <1>19, <1>20 DEF IInv, TypeOK

(* The writer completes the output.                                       *)
LEMMA FinishStep == IInv /\ Finish => IInv'
  <1> SUFFICES ASSUME IInv, Finish PROVE IInv'
    OBVIOUS
  <1>1. /\ LastLine \in Nat /\ job' = job /\ next' = next /\ LastLine' = LastLine /\ (Raw' <=> Raw)
        /\ next \in Nat /\ next <= LastLine + 1
        /\ disk \in Seq(Batch) /\ buf \in Seq(Batch)
        /\ wpc = "recv" /\ chan = <<>> /\ ~ tx
        /\ disk' = disk \o buf /\ buf' = <<>> /\ sealed'
    BY JobType, SameCall DEF IInv, Finish, Taken, TypeOK, DataTypes
  <1>2. held = <<>> /\ pend = <<>> /\ ~ Raw
    BY <1>1 DEF IInv, Running, Calling, Copied
  <1>3. PICK d, b, h, c \in -1 .. LastLine :
            /\ Chain(disk, 0, d) /\ Chain(buf, d + 1, b) /\ b >= 0
            /\ Chain(held, b + 1, h)
            /\ Chain(chan, h + 1, c) /\ Chain(pend, c + 1, next - 1)
    BY <1>1 DEF IInv, Running, InOrder
  <1>4. b = next - 1
    <2>1. h = b /\ c = h /\ next - 1 = c
      BY <1>1, <1>2, <1>3, ChainEmpty
    <2>2. QED
      BY <2>1
  <1>5. disk' \in Seq(Batch) /\ Chain(disk', 0, b)
    BY <1>1, <1>3, ChainConcat
  <1>6. ControlTypes'
    BY SameCall DEF IInv, Finish, TypeOK, ControlTypes
  <1>7. DataTypes'
    BY <1>1, <1>5, EmptySeq DEF IInv, TypeOK, DataTypes, Finish
  <1>8. DiskIsPrefix'
    BY <1>1, <1>3, <1>5 DEF DiskIsPrefix
  <1>9. OldOutputKept'
    BY SameCall DEF IInv, Finish, OldOutputKept, Calling
  <1>10. Unstarted'
    BY SameCall DEF IInv, Finish, Unstarted, Calling, Idle, Copied
  <1>11. Running'
    BY DEF Running, Finish
  <1>12. Stopped'
    BY <1>1, <1>2, <1>4, <1>5 DEF Stopped, Idle, Finish
  <1>13. Copied'
    BY <1>1, <1>2 DEF Copied
  <1>14. Taken'
    BY SameCall DEF IInv, Finish, Taken
  <1>15. Calling'
    <2>1. pc \notin {"prepare", "create", "copy", "produce", "send"}
      BY <1>1, <1>2 DEF IInv, Calling
    <2>2. QED
      BY <1>1, <1>2, <2>1 DEF IInv, Calling, Finish
  <1>16. Answered'
    <2>1. BatchFailed' <=> BatchFailed
      BY <1>1, SameCall
    <2>2. QED
      BY <1>1, <1>2, <2>1 DEF IInv, Answered, Finish
  <1>17. Truncated'
    BY SameCall DEF IInv, Finish, Truncated, Calling
  <1>18. QED
    BY <1>6, <1>7, <1>8, <1>9, <1>10, <1>11,
       <1>12, <1>13, <1>14, <1>15, <1>16, <1>17 DEF IInv, TypeOK

(* The writer fails: part of what it had may reach the file.              *)
LEMMA WriterFailsStep == IInv /\ WriterFails => IInv'
  <1> SUFFICES ASSUME IInv, WriterFails PROVE IInv'
    OBVIOUS
  <1>1. /\ LastLine \in Nat /\ job' = job /\ next' = next /\ LastLine' = LastLine /\ (Raw' <=> Raw)
        /\ disk \in Seq(Batch) /\ buf \in Seq(Batch)
        /\ held \in Seq(Batch) /\ Len(held) <= 1
        /\ wpc \in {"header", "recv", "write"}
        /\ held' = <<>> /\ buf' = <<>>
    BY JobType, SameCall DEF IInv, WriterFails, TypeOK, DataTypes
  <1>2. PICK d, b, h \in -1 .. LastLine :
            Chain(disk, 0, d) /\ Chain(buf, d + 1, b) /\ Chain(held, b + 1, h)
    <2>1. CASE wpc = "header"
      <3>1. disk = <<>> /\ buf = <<>> /\ held = <<>>
        BY <2>1 DEF IInv, Running, HeaderFirst
      <3>2. Chain(<<>>, 0, -1) /\ Chain(<<>>, -1 + 1, -1) /\ -1 \in -1 .. LastLine
        BY <1>1, ChainEmpty
      <3>3. QED
        BY <3>1, <3>2
    <2>2. CASE wpc \in {"recv", "write"}
      BY <2>2 DEF IInv, Running, InOrder
    <2>3. QED
      BY <1>1, <2>1, <2>2
  <1>3. PICK part \in Partly(held) : \E n \in 0 .. Len(buf \o part) :
            disk' = disk \o SubSeq(buf \o part, 1, n)
    BY DEF WriterFails
  <1>4. part \in Seq(Batch) /\ \E x \in b .. h : Chain(part, b + 1, x)
    <2>1. b <= h
      <3>1. b + 1 \in Int /\ h \in Int
        BY <1>2
      <3>2. b + 1 <= h + 1
        BY <1>1, <1>2, <3>1, ChainRange
      <3>3. QED
        BY <1>2, <3>2
    <2>2. CASE part = <<>>
      BY <1>2, <2>1, <2>2, EmptySeq, ChainEmpty
    <2>3. CASE part # <<>>
      <3>1. PICK i \in DOMAIN held : \E k \in held[i].first .. held[i].last :
                part = <<Span(held[i].first, k)>>
        BY <2>3 DEF Partly
      <3>2. DOMAIN held = 1 .. Len(held) /\ Len(held) \in Nat
        BY <1>1
      <3>3. i = 1 /\ Len(held) = 1 /\ held # <<>>
        BY <1>1, <3>1, <3>2
      <3>4. held[1].first = b + 1 /\ held[1].last = h
        BY <3>3 , <1>2 DEF Chain
      <3>5. PICK k \in b + 1 .. h : part = <<Span(b + 1, k)>>
        BY <3>1, <3>3, <3>4
      <3>6. part \in Seq(Batch) /\ Chain(part, b + 1, k) /\ k \in b .. h
        BY <1>2, <3>5, ChainOne
      <3>7. QED
        BY <3>6
    <2>4. QED
      BY <2>2, <2>3
  <1>5. PICK x \in b .. h : Chain(part, b + 1, x)
    BY <1>4
  <1> DEFINE w == buf \o part
  <1>6. PICK n \in 0 .. Len(w) : disk' = disk \o SubSeq(w, 1, n)
    BY <1>3
  <1>7. w \in Seq(Batch) /\ Chain(w, d + 1, x) /\ x \in Int
    BY <1>1, <1>2, <1>4, <1>5, ChainConcat
  <1> HIDE DEF w
  <1>8. SubSeq(w, 1, n) \in Seq(Batch) /\ \E m \in d .. x : Chain(SubSeq(w, 1, n), d + 1, m)
    <2>1. /\ SubSeq(w, 1, n) \in Seq(Batch)
          /\ \E m \in (d + 1) - 1 .. x : Chain(SubSeq(w, 1, n), d + 1, m)
      BY <1>2, <1>6, <1>7, ChainSplit
    <2>2. (d + 1) - 1 = d
      BY <1>2
    <2>3. QED
      BY <2>1, <2>2
  <1>9. PICK m \in d .. x : Chain(SubSeq(w, 1, n), d + 1, m)
    BY <1>8
  <1>10. disk' \in Seq(Batch) /\ Chain(disk', 0, m) /\ m \in -1 .. LastLine
    <2>1. m \in -1 .. LastLine /\ m \in Int /\ d \in Int
      BY <1>1, <1>2, <1>5, <1>9
    <2> DEFINE p == SubSeq(w, 1, n)
    <2>2. p \in Seq(Batch) /\ Chain(p, d + 1, m) /\ disk' = disk \o p
      BY <1>6, <1>8, <1>9
    <2> HIDE DEF p
    <2>3. disk' \in Seq(Batch) /\ Chain(disk', 0, m)
      BY <1>1, <1>2, <2>1, <2>2, ChainConcat
    <2>4. QED
      BY <2>1, <2>3
  <1>11. ControlTypes'
    BY SameCall DEF IInv, WriterFails, TypeOK, ControlTypes
  <1>12. DataTypes'
    BY SMTT(40), <1>1, <1>10, EmptySeq DEF IInv, TypeOK, DataTypes, WriterFails
  <1>13. DiskIsPrefix'
    BY <1>1, <1>10 DEF DiskIsPrefix
  <1>14. OldOutputKept'
    BY SameCall DEF IInv, WriterFails, OldOutputKept, Calling
  <1>15. Unstarted'
    BY DEF Unstarted, WriterFails
  <1>16. Running'
    BY DEF Running, WriterFails
  <1>17. Stopped'
    BY <1>1 DEF IInv, Stopped, WriterFails
  <1>18. Copied'
    BY <1>1 DEF IInv, Copied, WriterFails
  <1>19. Taken'
    BY SameCall DEF IInv, WriterFails, Taken
  <1>20. Calling'
    BY SameCall DEF IInv, WriterFails, Calling, Unstarted, Stopped, Truncated, Answered, Idle
  <1>21. Answered'
    <2>1. BatchFailed' <=> BatchFailed
      BY <1>1, SameCall
    <2>2. QED
      BY <1>1, <2>1 DEF IInv, Answered, WriterFails
  <1>22. Truncated'
    BY <1>1 DEF IInv, Truncated, WriterFails
  <1>23. QED
    BY <1>11, <1>12, <1>13, <1>14, <1>15, <1>16,
       <1>17, <1>18, <1>19, <1>20, <1>21, <1>22 DEF IInv, TypeOK

(* The failed writer thread ends.                                         *)
LEMMA WriterExitsStep == IInv /\ WriterExits => IInv'
  <1> SUFFICES ASSUME IInv, WriterExits PROVE IInv'
    OBVIOUS
  <1>1. ControlTypes'
    BY SameCall DEF IInv, WriterExits, TypeOK, ControlTypes
  <1>2. DataTypes'
    BY SameCall, EmptySeq DEF IInv, WriterExits, TypeOK, DataTypes
  <1>3. DiskIsPrefix'
    BY SameCall DEF IInv, WriterExits, DiskIsPrefix
  <1>4. OldOutputKept'
    BY SameCall DEF IInv, WriterExits, OldOutputKept, Calling
  <1>5. Unstarted'
    BY SameCall DEF IInv, WriterExits, Unstarted, Calling, Idle, Copied
  <1>6. Running'
    BY DEF Running, WriterExits
  <1>7. Stopped'
    BY SameCall DEF IInv, WriterExits, Stopped, Calling, Idle, Copied
  <1>8. Copied'
    BY SameCall DEF IInv, WriterExits, Copied, Calling
  <1>9. Taken'
    BY SameCall DEF IInv, WriterExits, Taken
  <1>10. Calling'
    BY SameCall DEF IInv, WriterExits, Calling, Unstarted, Stopped, Truncated, Answered, Idle
  <1>11. Answered'
    BY SameCall DEF IInv, WriterExits, Answered, Calling, Stopped, Copied
  <1>12. Truncated'
    BY SameCall DEF IInv, WriterExits, Truncated, Calling
  <1>13. QED
    BY <1>1, <1>2, <1>3, <1>4, <1>5, <1>6,
       <1>7, <1>8, <1>9, <1>10, <1>11, <1>12 DEF IInv, TypeOK

(* The process ends, and a detached writer with it.                       *)
LEMMA ExitStep == IInv /\ Exit => IInv'
  <1> SUFFICES ASSUME IInv, Exit PROVE IInv'
    OBVIOUS
  <1>1. wpc \in {"header", "recv", "write", "failing"} /\ pc = "done" /\ wpc' = "killed"
    BY DEF Exit
  <1>2. ControlTypes'
    BY SameCall DEF IInv, Exit, TypeOK, ControlTypes
  <1>3. DataTypes'
    BY SameCall DEF IInv, Exit, TypeOK, DataTypes
  <1>4. DiskIsPrefix'
    BY SameCall DEF IInv, Exit, DiskIsPrefix
  <1>5. OldOutputKept'
    BY SameCall DEF IInv, Exit, OldOutputKept, Calling
  <1>6. Unstarted'
    BY <1>1 DEF Unstarted
  <1>7. Running'
    BY <1>1 DEF Running
  <1>8. Stopped'
    BY <1>1 DEF IInv, Stopped, Exit
  <1>9. Copied'
    BY <1>1, SameCall DEF IInv, Copied, Exit
  <1>10. Taken'
    BY SameCall DEF IInv, Exit, Taken
  <1>11. Calling'
    BY SameCall DEF IInv, Exit, Calling, Unstarted, Stopped, Truncated, Answered, Idle
  <1>12. Answered'
    <2>1. result \notin {"ok"}
      BY <1>1 DEF IInv, Answered
    <2>2. BatchFailed' <=> BatchFailed
      BY SameCall DEF Exit
    <2>3. Raw' <=> Raw
      BY SameCall DEF Exit
    <2>4. QED
      BY <1>1, <2>1, <2>2, <2>3 DEF IInv, Answered, Copied, Exit
  <1>13. Truncated'
    BY <1>1 DEF IInv, Truncated, Exit
  <1>14. QED
    BY <1>2, <1>3, <1>4, <1>5, <1>6, <1>7,
       <1>8, <1>9, <1>10, <1>11, <1>12, <1>13 DEF IInv, TypeOK

-----------------------------------------------------------------------------
LEMMA Stutter == IInv /\ UNCHANGED vars => IInv'
  <1> SUFFICES ASSUME IInv, UNCHANGED vars PROVE IInv'
    OBVIOUS
  <1>1. /\ UNCHANGED <<job, pc, result, next, pend, chan, tx, rx, wpc, held, buf, disk>>
        /\ UNCHANGED <<sealed, old>>
    BY DEF vars
  <1>2. TypeOK'
    BY <1>1 DEF IInv, TypeOK, ControlTypes, DataTypes
  <1>3. DiskIsPrefix' /\ OldOutputKept'
    BY <1>1, SameCall DEF IInv, DiskIsPrefix, OldOutputKept, Raw
  <1>4. Unstarted' /\ Running'
    BY <1>1, SameCall DEF IInv, Unstarted, Idle, Running, HeaderFirst, InOrder
  <1>5. Stopped' /\ Copied' /\ Taken'
    BY <1>1, SameCall DEF IInv, Stopped, Idle, Copied, Taken
  <1>6. Calling' /\ Answered' /\ Truncated'
    BY <1>1, SameCall DEF IInv, Calling, Answered, Truncated, Raw
  <1>7. QED
    BY <1>2, <1>3, <1>4, <1>5, <1>6 DEF IInv

(* IInv is inductive.                                                      *)
LEMMA NextIInv == IInv /\ [Next]_vars => IInv'
  <1> SUFFICES ASSUME IInv, [Next]_vars PROVE IInv'
    OBVIOUS
  <1>1. CASE Caller
    BY <1>1, PrepareStep, PrepareFailsStep, CreateStep, CreateFailsStep, CopyLineStep,
       CopyEndsStep, CopyFailsStep, ProduceStep, ProduceEndsStep, ProduceFailsStep,
       SendStep, SendFailsStep, JoinStep DEF Caller
  <1>2. CASE Writer
    BY <1>2, WriteHeaderStep, ReceiveStep, WriteBatchStep, FinishStep, WriterFailsStep,
       WriterExitsStep DEF Writer
  <1>3. CASE Exit
    BY <1>3, ExitStep
  <1>4. CASE UNCHANGED vars
    BY <1>4, Stutter
  <1>5. QED
    BY <1>1, <1>2, <1>3, <1>4 DEF Next

(* The inductive invariant holds in every reachable state.                 *)
THEOREM Invariant == Spec => []IInv
  BY InitIInv, NextIInv, PTL DEF Spec

(* Every variable keeps its type, and the channel its capacity.            *)
THEOREM TypeCorrect == Spec => []TypeOK
  <1>1. IInv => TypeOK
    BY DEF IInv
  <1>2. QED
    BY <1>1, Invariant, PTL

(* The output is a prefix of the table at every moment, whatever fails.    *)
THEOREM PrefixCorrect == Spec => []DiskIsPrefix
  <1>1. IInv => DiskIsPrefix
    BY DEF IInv
  <1>2. QED
    BY <1>1, Invariant, PTL

(* A previous output is only given up for an entry that can be exported.   *)
THEOREM OldOutputCorrect == Spec => []OldOutputKept
  <1>1. IInv => OldOutputKept
    BY DEF IInv
  <1>2. QED
    BY <1>1, Invariant, PTL

(* A completed output has every line handed over, and nothing else.        *)
LEMMA SealedChain ==
  ASSUME IInv, sealed
  PROVE  /\ next \in Nat /\ LastLine \in Nat /\ disk \in Seq(Batch)
         /\ Chain(disk, 0, next - 1)
         /\ wpc \in {"none", "ok"} /\ (wpc = "none" => Raw)
  <1>1. next \in Nat /\ LastLine \in Nat /\ disk \in Seq(Batch)
    BY JobType DEF IInv, TypeOK, DataTypes
  <1>2. wpc \in {"none", "ok"} /\ (wpc = "none" => Raw)
    BY DEF IInv, Stopped, Unstarted
  <1>3. CASE wpc = "ok"
    BY <1>1, <1>2, <1>3 DEF IInv, Stopped
  <1>4. CASE wpc = "none"
    BY <1>1, <1>2, <1>4 DEF IInv, Copied
  <1>5. QED
    BY <1>2, <1>3, <1>4

(* Such an output is whole exactly when no line was left in the stream.    *)
LEMMA WholeIff ==
  ASSUME IInv, sealed
  PROVE  Whole <=> next = LastLine + 1
  <1>1. /\ next \in Nat /\ LastLine \in Nat /\ disk \in Seq(Batch)
        /\ Chain(disk, 0, next - 1)
    BY SealedChain
  <1>2. next - 1 \in Int /\ LastLine \in Int
    BY <1>1
  <1>3. Chain(disk, 0, LastLine) => LastLine = next - 1
    BY <1>1, <1>2, ChainUnique
  <1>4. QED
    BY <1>1, <1>3 DEF Whole

LEMMA AnswerIsExact ==
  ASSUME IInv, pc = "done"
  PROVE  result \in {"ok", "err"} /\ (result = "ok" <=> Whole)
  <1>1. result \in {"ok", "err"}
    BY DEF IInv, Answered, TypeOK, ControlTypes
  <1>2. next \in Nat /\ LastLine \in Nat /\ next <= LastLine + 1
    BY JobType DEF IInv, Taken, TypeOK, DataTypes
  <1>3. CASE result = "ok"
    BY <1>2, <1>3, WholeIff DEF IInv, Answered
  <1>4. CASE result = "err"
    <2> SUFFICES ASSUME Whole PROVE FALSE
      BY <1>4
    <2>1. sealed /\ next = LastLine + 1
      BY WholeIff DEF Whole
    <2>2. wpc = "ok" /\ ~ Raw
      BY <1>4, <2>1, SealedChain DEF IInv, Answered
    <2>3. BatchFailed
      BY <1>4, <2>2 DEF IInv, Answered
    <2>4. QED
      BY <1>2, <2>1, <2>3 DEF BatchFailed
  <1>5. QED
    BY <1>1, <1>3, <1>4

(* read_entry returns Ok exactly when the output holds the whole table.    *)
THEOREM ResultCorrect == Spec => []ResultIsExact
  <1>1. IInv => ResultIsExact
    BY AnswerIsExact DEF ResultIsExact
  <1>2. QED
    BY <1>1, Invariant, PTL

(* A completed output misses nothing that was handed to the writer.        *)
THEOREM DrainCorrect == Spec => []SealedMeansDrained
  <1>1. ASSUME IInv, sealed, result = "err"
        PROVE  \E k \in next .. next + BatchSize - 1 : k <= LastLine /\ job.lines[k] # "row"
    <2>1. next \in Nat /\ LastLine \in Nat
      BY <1>1, SealedChain
    <2>2. wpc = "ok" /\ ~ Raw
      BY <1>1, SealedChain DEF IInv, Answered
    <2>3. BatchFailed
      BY <1>1, <2>2 DEF IInv, Answered
    <2>4. PICK k \in next .. WindowEnd : job.lines[k] # "row"
      BY <2>3 DEF BatchFailed, RowsFrom
    <2>5. WindowEnd <= next + BatchSize - 1 /\ WindowEnd <= LastLine /\ WindowEnd \in Int
      BY <2>1 DEF WindowEnd
    <2>6. QED
      BY <2>1, <2>4, <2>5
  <1>2. IInv => SealedMeansDrained
    BY <1>1, SealedChain DEF SealedMeansDrained
  <1>3. QED
    BY <1>2, Invariant, PTL

(* After Ok the output is not written any more.                            *)
THEOREM QuietCorrect == Spec => QuietAfterOk
  <1>1. ASSUME IInv, [Next]_vars, result = "ok"
        PROVE  UNCHANGED fileVars
    <2>1. pc = "done" /\ wpc \in {"none", "ok"}
      BY <1>1 DEF IInv, Answered
    <2>2. CASE Caller
      BY <2>1, <2>2 DEF Caller, Prepare, PrepareFails, Create, CreateFails, CopyLine, CopyEnds,
         CopyFails, Produce, ProduceEnds, ProduceFails, Send, SendFails, Join
    <2>3. CASE Writer
      BY <2>1, <2>3 DEF Writer, WriteHeader, Receive, WriteBatch, Finish, WriterFails,
         WriterExits
    <2>4. CASE Exit
      BY <2>4 DEF Exit
    <2>5. CASE UNCHANGED vars
      BY <2>5 DEF vars
    <2>6. QED
      BY <1>1, <2>2, <2>3, <2>4, <2>5 DEF Next
  <1>2. IInv /\ [Next]_vars => [result = "ok" => UNCHANGED fileVars]_vars
    BY <1>1
  <1>3. QED
    BY <1>2, Invariant, PTL DEF Spec, QuietAfterOk

-----------------------------------------------------------------------------
(* An output that is not completed is untouched or partial.                *)
LEMMA Incomplete ==
  /\ ~ sealed => Out = IF old /\ disk = <<>> THEN "untouched" ELSE "partial"
  /\ (~ sealed)' => Out' = IF old' /\ disk' = <<>> THEN "untouched" ELSE "partial"
  BY DEF Out, Whole

LEMMA SameOut ==
  ASSUME UNCHANGED <<job, disk, sealed, old>>
  PROVE  Out' = Out
  BY DEF Out, Whole, LastLine

(* Steps that are not visible in the output or in the answer.              *)
LEMMA Invisible ==
  ASSUME Prepare \/ Produce \/ ProduceEnds \/ Send \/ SendFails
         \/ WriteHeader \/ Receive \/ WriterExits \/ Exit
  PROVE  UNCHANGED E!vars
  <1>1. UNCHANGED <<job, disk, sealed, old, result>>
    BY DEF Prepare, Produce, ProduceEnds, Send, SendFails, WriteHeader, Receive, WriterExits,
           Exit
  <1>2. QED
    BY <1>1, SameOut DEF E!vars

(* Failures of the calling thread: Export's Fail.                          *)
LEMMA Failing ==
  ASSUME IInv, PrepareFails \/ CreateFails \/ CopyFails \/ ProduceFails
  PROVE  E!Fail
  <1>1. /\ pc \in {"prepare", "create", "copy", "produce"} /\ result' = "err"
        /\ UNCHANGED <<job, disk, sealed>>
        /\ UNCHANGED old \/ CreateFails
    BY DEF PrepareFails, CreateFails, CopyFails, ProduceFails
  <1>2. result = "none"
    BY <1>1 DEF IInv, Answered
  <1>3. ~ sealed
    <2>1. CASE pc = "produce"
      BY <2>1 DEF IInv, Calling, Stopped
    <2>2. CASE pc # "produce"
      BY <1>1, <2>2 DEF IInv, Calling
    <2>3. QED
      BY <2>1, <2>2
  <1>4. Out \in {"untouched", "partial"} /\ Out' \in {Out, "partial"}
    <2>1. CASE UNCHANGED old
      BY <1>1, <1>3, <2>1, Incomplete
    <2>2. CASE CreateFails
      <3>1. ~ sealed' /\ disk' = disk /\ disk = <<>> /\ old
        BY <1>1, <1>3, <2>2 DEF IInv, Calling, CreateFails
      <3>2. Out = "untouched" /\ Out' \in {"untouched", "partial"}
        BY <1>3, <3>1, Incomplete
      <3>3. QED
        BY <3>2
    <2>3. QED
      BY <1>1, <2>1, <2>2
  <1>5. QED
    BY <1>1, <1>2, <1>4 DEF E!Fail

(* The output is truncated, or keeps being filled: Work or nothing.        *)
LEMMA Filling ==
  ASSUME IInv, Create \/ CopyLine \/ WriteBatch \/ WriterFails
  PROVE  E!Work \/ UNCHANGED E!vars
  <1>1. ~ sealed /\ ~ sealed' /\ result' = result
    <2>1. CASE Create
      BY <2>1 DEF IInv, Calling, Create
    <2>2. CASE CopyLine
      BY <2>2 DEF IInv, Calling, CopyLine
    <2>3. CASE WriteBatch
      BY <2>3 DEF IInv, Stopped, WriteBatch
    <2>4. CASE WriterFails
      BY <2>4 DEF IInv, Stopped, WriterFails
    <2>5. QED
      BY <2>1, <2>2, <2>3, <2>4
  <1>2. CASE Create \/ CopyLine
    <2>1. result = "none"
      BY <1>2 DEF IInv, Answered, Create, CopyLine
    <2>2. Out' = "partial" \/ Out' = Out
      <3>1. CASE Create
        BY <1>1, <3>1, Incomplete DEF Create
      <3>2. CASE CopyLine
        <4>1. disk' # <<>>
          <5>1. disk \in Seq(Batch) /\ next \in Nat
            BY DEF IInv, TypeOK, DataTypes
          <5>2. Span(next, next) \in Batch
            BY <5>1 DEF Span, Batch
          <5>3. QED
            BY <3>2, <5>1, <5>2, AppendProperties DEF CopyLine
        <4>2. QED
          BY <1>1, <4>1, Incomplete
      <3>3. QED
        BY <1>2, <3>1, <3>2
    <2>3. Out \in {"untouched", "partial"}
      BY <1>1, Incomplete
    <2>4. QED
      BY <1>1, <2>1, <2>2, <2>3 DEF E!Work, E!vars
  <1>3. CASE WriteBatch \/ WriterFails
    <2>1. ~ old /\ ~ old'
      BY <1>3 DEF IInv, Truncated, WriteBatch, WriterFails
    <2>2. Out = "partial" /\ Out' = "partial"
      BY <1>1, <2>1, Incomplete
    <2>3. QED
      BY <1>1, <2>2 DEF E!vars
  <1>4. QED
    BY <1>2, <1>3

(* The end of the copy answers Ok for a whole output.                      *)
LEMMA Copying ==
  ASSUME IInv, CopyEnds
  PROVE  E!Succeed
  <1>1. /\ Raw /\ ~ sealed /\ sealed' /\ result = "none" /\ result' = "ok"
        /\ job' = job /\ disk' = disk /\ next > LastLine
    BY DEF IInv, Calling, Answered, CopyEnds
  <1>2. /\ next \in Nat /\ LastLine \in Nat /\ disk \in Seq(Batch) /\ next <= LastLine + 1
        /\ Chain(disk, 0, next - 1)
    BY <1>1, JobType DEF IInv, TypeOK, DataTypes, Copied, Taken
  <1>3. next - 1 = LastLine
    BY <1>1, <1>2
  <1>4. disk # <<>>
    BY <1>2, <1>3, ChainEmpty
  <1>5. Out = "partial"
    BY <1>1, <1>4, Incomplete
  <1>6. Out' = "whole"
    BY <1>1, <1>2, <1>3, SameCall DEF Out, Whole
  <1>7. QED
    BY <1>1, <1>5, <1>6 DEF E!Succeed

(* The writer completes the output: it becomes whole before the answer, or *)
(* stays partial when the caller has given up.                             *)
LEMMA Finishing ==
  ASSUME IInv, IInv', Finish
  PROVE  E!Work \/ UNCHANGED E!vars
  <1>1. /\ wpc = "recv" /\ wpc' = "ok" /\ sealed' /\ job' = job /\ next' = next
        /\ result' = result /\ old' = old
    BY DEF Finish
  <1>2. ~ sealed /\ ~ old /\ ~ Raw
    BY <1>1 DEF IInv, Stopped, Truncated, Copied
  <1>3. Out = "partial"
    BY <1>2, Incomplete
  <1>4. Out' \in {"partial", "whole"}
    BY <1>1, <1>2 DEF Out
  <1>5. CASE result = "none"
    BY <1>1, <1>3, <1>4, <1>5 DEF E!Work, E!vars
  <1>6. CASE result # "none"
    <2>1. BatchFailed
      BY <1>1, <1>2, <1>6 DEF IInv, Answered, TypeOK, ControlTypes
    <2>2. /\ disk' \in Seq(Batch) /\ Chain(disk', 0, next - 1)
          /\ next \in Nat /\ LastLine \in Nat /\ next <= LastLine
      BY <1>1, <2>1, JobType DEF IInv, TypeOK, DataTypes, Stopped, BatchFailed
    <2>3. next - 1 \in Int /\ next - 1 # LastLine
      BY <2>2
    <2>4. ~ Chain(disk', 0, LastLine)
      BY <2>2, <2>3, ChainUnique
    <2>5. ~ Whole'
      BY <1>1, <2>4, SameCall DEF Whole
    <2>6. Out' = "partial"
      BY <1>1, <1>2, <2>5 DEF Out
    <2>7. QED
      BY <1>1, <1>3, <2>6 DEF E!vars
  <1>7. QED
    BY <1>5, <1>6

(* The answer after the join is the writer's, and fits the output.         *)
LEMMA Joining ==
  ASSUME IInv, Join
  PROVE  E!Succeed \/ E!Fail
  <1>1. /\ pc = "join" /\ wpc \in {"ok", "err"} /\ result' = wpc /\ Out' = Out
    BY SameOut DEF Join
  <1>2. result = "none"
    BY <1>1 DEF IInv, Answered
  <1>3. CASE wpc = "ok"
    <2>1. sealed /\ next > LastLine /\ next <= LastLine + 1
      BY <1>1, <1>3 DEF IInv, Stopped, Calling, Taken
    <2>2. next \in Nat /\ LastLine \in Nat
      BY JobType DEF IInv, TypeOK, DataTypes
    <2>3. Whole
      BY <2>1, <2>2, WholeIff
    <2>4. Out = "whole"
      BY <2>3 DEF Out
    <2>5. QED
      BY <1>1, <1>2, <1>3, <2>4 DEF E!Succeed
  <1>4. CASE wpc = "err"
    <2>1. ~ sealed
      BY <1>4 DEF IInv, Stopped
    <2>2. Out \in {"untouched", "partial"}
      BY <2>1, Incomplete
    <2>3. QED
      BY <1>1, <1>2, <1>4, <2>2 DEF E!Fail
  <1>5. QED
    BY <1>1, <1>3, <1>4

(* The steps of read_entry, from thread creation to a detached writer's    *)
(* last write, are steps of Export on the output and the answer.           *)
THEOREM ImplementsExportSafety == Spec => E!Spec
  <1>1. Init => E!Init
    BY DEF Init, E!Init, Out, Whole
  <1>2. IInv /\ IInv' /\ [Next]_vars => [E!Next]_E!vars
    <2> SUFFICES ASSUME IInv, IInv', [Next]_vars
                 PROVE  E!Next \/ UNCHANGED E!vars
      OBVIOUS
    <2>1. CASE Caller
      BY <2>1, Invisible, Failing, Filling, Copying, Joining DEF Caller, E!Next
    <2>2. CASE Writer
      BY <2>2, Invisible, Filling, Finishing DEF Writer, E!Next
    <2>3. CASE Exit
      BY <2>3, Invisible
    <2>4. CASE UNCHANGED vars
      BY <2>4, SameOut DEF vars, E!vars
    <2>5. QED
      BY <2>1, <2>2, <2>3, <2>4 DEF Next
  <1>3. QED
    BY <1>1, <1>2, Invariant, PTL DEF Spec, E!Spec

(* A batch is cut at BatchSize rows, and is not changed on its way.        *)
THEOREM BatchesCorrect == Spec => []BatchesSmall
  <1>1. Init => BatchesSmall
    <2>1. Len(<<>>) = 0
      BY EmptySeq
    <2>2. QED
      BY <2>1 DEF Init, BatchesSmall, Small
  <1>2. IInv /\ BatchesSmall /\ [Next]_vars => BatchesSmall'
    <2> SUFFICES ASSUME IInv, BatchesSmall, [Next]_vars PROVE BatchesSmall'
      OBVIOUS
    <2>1. pend \in Seq(Batch) /\ chan \in Seq(Batch) /\ held \in Seq(Batch)
      BY DEF IInv, TypeOK, DataTypes
    <2>2. Len(<<>>) = 0 /\ Small(<<>>)
      BY EmptySeq DEF Small
    <2>3. CASE Produce
      <3>1. next \in Nat /\ LastLine \in Nat /\ next <= LastLine
        BY <2>3, JobType DEF Produce, BatchReady, IInv, TypeOK, DataTypes
      <3>2. WindowEnd \in Int /\ WindowEnd - next < BatchSize
        BY <3>1 DEF WindowEnd
      <3>3. pend' = <<Span(next, WindowEnd)>> /\ chan' = chan /\ held' = held
        BY <2>3 DEF Produce, chanVars, fileVars
      <3>4. Small(pend')
        BY <3>2, <3>3 DEF Small, Span
      <3>5. QED
        BY <3>3, <3>4 DEF BatchesSmall
    <2>4. CASE Send
      <3>1. chan' = chan \o pend /\ pend' = <<>> /\ held' = held
        BY <2>4 DEF Send, fileVars
      <3>2. /\ Len(chan) \in Nat /\ Len(pend) \in Nat
            /\ Len(chan') = Len(chan) + Len(pend)
            /\ \A k \in 1 .. Len(chan) : chan'[k] = chan[k]
            /\ \A k \in Len(chan) + 1 .. Len(chan') : chan'[k] = pend[k - Len(chan)]
        BY <2>1, <3>1, ConcatProperties, LengthZero
      <3>3. Small(chan')
        <4> SUFFICES ASSUME NEW k \in 1 .. Len(chan')
                     PROVE  chan'[k].last - chan'[k].first < BatchSize
          BY DEF Small
        <4>1. CASE k <= Len(chan)
          BY <3>2, <4>1 DEF BatchesSmall, Small
        <4>2. CASE k > Len(chan)
          <5>1. k - Len(chan) \in 1 .. Len(pend) /\ chan'[k] = pend[k - Len(chan)]
            BY <3>2, <4>2
          <5>2. QED
            BY <5>1 DEF BatchesSmall, Small
        <4>3. QED
          BY <3>2, <4>1, <4>2
      <3>4. QED
        BY <2>2, <3>1, <3>3 DEF BatchesSmall
    <2>5. CASE Receive
      <3>1. chan # <<>> /\ held' = <<Head(chan)>> /\ chan' = Tail(chan) /\ pend' = pend
        BY <2>5 DEF Receive, callerVars
      <3>2. /\ Len(chan) \in Nat /\ Len(chan) >= 1 /\ Head(chan) = chan[1]
            /\ Len(chan') = Len(chan) - 1
            /\ \A k \in 1 .. Len(chan') : chan'[k] = chan[k + 1]
        BY <2>1, <3>1, HeadTailProperties, LengthZero
      <3>3. Small(chan') /\ Small(held')
        BY <3>1, <3>2 DEF BatchesSmall, Small
      <3>4. QED
        BY <3>1, <3>3 DEF BatchesSmall
    <2>6. CASE WriteBatch \/ WriterFails
      <3>1. held' = <<>> /\ pend' = pend /\ chan' = chan
        BY <2>6 DEF WriteBatch, WriterFails, callerVars, chanVars
      <3>2. QED
        BY <2>2, <3>1 DEF BatchesSmall
    <2>7. CASE SendFails
      <3>1. pend' = <<>> /\ chan' = chan /\ held' = held
        BY <2>7 DEF SendFails, fileVars
      <3>2. QED
        BY <2>2, <3>1 DEF BatchesSmall
    <2>8. CASE WriterExits
      <3>1. chan' = <<>> /\ pend' = pend /\ held' = held
        BY <2>8 DEF WriterExits, callerVars, fileVars
      <3>2. QED
        BY <2>2, <3>1 DEF BatchesSmall
    <2>9. CASE UNCHANGED <<pend, chan, held>>
      BY <2>9 DEF BatchesSmall
    <2>10. QED
      BY <2>3, <2>4, <2>5, <2>6, <2>7, <2>8, <2>9
         DEF Next, Caller, Writer, vars, Prepare, PrepareFails, Create, CreateFails,
             CopyLine, CopyEnds, CopyFails, ProduceEnds, ProduceFails, Join,
             WriteHeader, Finish, Exit
  <1>3. QED
    BY <1>1, <1>2, Invariant, PTL DEF Spec

(* Small chains in the caller's hands, the channel and the writer's hands  *)
(* cover few rows.                                                         *)
LEMMA Underway ==
  ASSUME IInv, BatchesSmall
  PROVE  /\ \A i, j \in Int : Chain(pend, i, j) => j - i + 1 <= BatchSize
         /\ \A i, j \in Int : Chain(held, i, j) => j - i + 1 <= BatchSize
         /\ \A i, j \in Int : Chain(chan, i, j) => j - i + 1 <= Capacity * BatchSize
  <1>1. /\ pend \in Seq(Batch) /\ Len(pend) \in Nat /\ Len(pend) <= 1
        /\ held \in Seq(Batch) /\ Len(held) \in Nat /\ Len(held) <= 1
        /\ chan \in Seq(Batch) /\ Len(chan) \in Nat /\ Len(chan) <= Capacity
    BY LengthZero DEF IInv, TypeOK, DataTypes
  <1>2. /\ Len(pend) * BatchSize <= BatchSize
        /\ Len(held) * BatchSize <= BatchSize
    <2>1. \A n \in Nat : n <= 1 => n * BatchSize <= BatchSize
      OBVIOUS
    <2>2. QED
      BY <1>1, <2>1
  <1>3. Len(chan) * BatchSize <= Capacity * BatchSize
    <2>1. \A n, m, k \in Nat : n <= m => n * k <= m * k
      OBVIOUS
    <2>2. QED
      BY <1>1, <2>1
  <1>4. /\ \A k \in 1 .. Len(pend) : pend[k].last - pend[k].first < BatchSize
        /\ \A k \in 1 .. Len(held) : held[k].last - held[k].first < BatchSize
        /\ \A k \in 1 .. Len(chan) : chan[k].last - chan[k].first < BatchSize
    BY DEF BatchesSmall, Small
  <1>5. ASSUME NEW i \in Int, NEW j \in Int, Chain(pend, i, j)
        PROVE  j - i + 1 <= BatchSize
    <2>1. j - i + 1 <= Len(pend) * BatchSize
      BY <1>1, <1>4, <1>5, ChainLength
    <2>2. Len(pend) * BatchSize \in Nat
      BY <1>1
    <2>3. QED
      BY <1>2, <2>1, <2>2
  <1>6. ASSUME NEW i \in Int, NEW j \in Int, Chain(held, i, j)
        PROVE  j - i + 1 <= BatchSize
    <2>1. j - i + 1 <= Len(held) * BatchSize
      BY <1>1, <1>4, <1>6, ChainLength
    <2>2. Len(held) * BatchSize \in Nat
      BY <1>1
    <2>3. QED
      BY <1>2, <2>1, <2>2
  <1>7. ASSUME NEW i \in Int, NEW j \in Int, Chain(chan, i, j)
        PROVE  j - i + 1 <= Capacity * BatchSize
    <2>1. j - i + 1 <= Len(chan) * BatchSize
      BY <1>1, <1>4, <1>7, ChainLength
    <2>2. Len(chan) * BatchSize \in Nat /\ Capacity * BatchSize \in Nat
      BY <1>1
    <2>3. QED
      BY <1>3, <2>1, <2>2
  <1>8. QED
    BY <1>5, <1>6, <1>7

(* Memory is bounded by the channel and one batch on either side of it,    *)
(* for every batch size, capacity and table, and however slow the writer.  *)
THEOREM MemoryCorrect == Spec => []BoundedMemory
  <1>1. IInv /\ BatchesSmall => BoundedMemory
    <2> SUFFICES ASSUME IInv, BatchesSmall, wpc \in {"header", "recv", "write"}
                 PROVE  \E n \in 0 .. LastLine :
                            /\ (wpc = "header" /\ n = 0) \/ Chain(disk \o buf, 0, n)
                            /\ next - 1 - n <= (Capacity + 2) * BatchSize
      BY DEF BoundedMemory
    <2>1. LastLine \in Nat /\ next \in Nat
      BY JobType DEF IInv, TypeOK, DataTypes
    <2>2. /\ (Capacity + 2) * BatchSize = Capacity * BatchSize + BatchSize + BatchSize
          /\ Capacity * BatchSize \in Nat
      OBVIOUS
    <2>3. CASE wpc = "header"
      <3> PICK c \in 0 .. LastLine : Chain(chan, 1, c) /\ Chain(pend, c + 1, next - 1)
        BY <2>3 DEF IInv, Running, HeaderFirst
      <3>1. c - 1 + 1 <= Capacity * BatchSize
        BY <2>1, Underway
      <3>2. next - 1 - (c + 1) + 1 <= BatchSize
        BY <2>1, Underway
      <3>3. next - 1 - 0 <= (Capacity + 2) * BatchSize
        BY <2>1, <2>2, <3>1, <3>2
      <3>4. QED
        BY <2>1, <2>3, <3>3
    <2>4. CASE wpc \in {"recv", "write"}
      <3> PICK d, b, h, c \in -1 .. LastLine :
              /\ Chain(disk, 0, d) /\ Chain(buf, d + 1, b) /\ b >= 0
              /\ Chain(held, b + 1, h)
              /\ Chain(chan, h + 1, c) /\ Chain(pend, c + 1, next - 1)
        BY <2>4 DEF IInv, Running, InOrder
      <3>1. d \in Int /\ b \in 0 .. LastLine /\ h \in Int /\ c \in Int
        BY <2>1
      <3>2. Chain(disk \o buf, 0, b)
        <4>1. disk \in Seq(Batch) /\ buf \in Seq(Batch)
          BY DEF IInv, TypeOK, DataTypes
        <4>2. QED
          BY <3>1, <4>1, ChainConcat
      <3>3. h - (b + 1) + 1 <= BatchSize
        BY <3>1, Underway
      <3>4. c - (h + 1) + 1 <= Capacity * BatchSize
        BY <3>1, Underway
      <3>5. next - 1 - (c + 1) + 1 <= BatchSize
        BY <2>1, <3>1, Underway
      <3>6. next - 1 - b <= (Capacity + 2) * BatchSize
        BY <2>1, <2>2, <3>1, <3>3, <3>4, <3>5
      <3>7. QED
        BY <3>1, <3>2, <3>6
    <2>5. QED
      BY <2>3, <2>4
  <1>2. QED
    BY <1>1, Invariant, BatchesCorrect, PTL

-----------------------------------------------------------------------------
(* The threads never wait for each other: a full channel has something to  *)
(* receive, a receiver that is gone lets send fail, and the sender is      *)
(* dropped before the join and on every other way out.                     *)
THEOREM DeadlockFree == Spec => []NoDeadlock
  <1>1. IInv => NoDeadlock
    <2> SUFFICES ASSUME IInv PROVE NoDeadlock
      OBVIOUS
    <2>1. /\ pc \in {"prepare", "create", "copy", "produce", "send", "join", "done"}
          /\ wpc \in {"none", "header", "recv", "write", "failing", "ok", "err", "killed"}
          /\ chan \in Seq(Batch) /\ Len(chan) \in Nat /\ Len(chan) <= Capacity
      BY LengthZero DEF IInv, TypeOK, ControlTypes, DataTypes
    <2>2. CASE pc = "send"
      <3> SUFFICES ASSUME rx, ~ Len(chan) < Capacity
                   PROVE  WriterCanStep
        BY <2>2 DEF NoDeadlock, CallerCanStep
      <3>1. wpc \in {"header", "recv", "write", "failing"}
        BY <2>1, <2>2 DEF IInv, Calling, Stopped
      <3>2. chan # <<>>
        <4>1. Len(chan) # 0
          BY <2>1
        <4>2. QED
          BY <4>1, EmptySeq
      <3>3. QED
        BY <3>1, <3>2 DEF WriterCanStep
    <2>3. CASE pc = "join"
      <3>1. ~ tx /\ wpc \notin {"none", "killed"}
        BY <2>3 DEF IInv, Calling
      <3>2. QED
        BY <2>1, <2>3, <3>1 DEF NoDeadlock, CallerCanStep, WriterCanStep
    <2>4. CASE pc = "done"
      <3>1. wpc = "none" \/ ~ tx
        BY <2>4 DEF IInv, Calling
      <3>2. QED
        BY <2>4, <3>1 DEF NoDeadlock, WriterCanStep
    <2>5. CASE pc \in {"prepare", "create", "copy", "produce"}
      BY <2>5 DEF NoDeadlock, CallerCanStep
    <2>6. QED
      BY <2>1, <2>2, <2>3, <2>4, <2>5
  <1>2. QED
    BY <1>1, Invariant, PTL

(* The quantities that StepsLeft counts.                                   *)
Counts ==
    /\ LastLine \in Nat /\ next \in Nat /\ LastLine + 1 - next \in Nat
    /\ Len(chan) \in Nat /\ CallerLeft \in Nat /\ WriterLeft \in Nat

LEMMA LeftType == IInv => Counts /\ StepsLeft \in Nat
  <1> SUFFICES ASSUME IInv PROVE Counts /\ StepsLeft \in Nat
    OBVIOUS
  <1>1. /\ LastLine \in Nat /\ next \in Nat /\ next <= LastLine + 1
        /\ Len(chan) \in Nat
    BY JobType, LengthZero DEF IInv, Taken, TypeOK, DataTypes
  <1>2. /\ pc \in {"prepare", "create", "copy", "produce", "send", "join", "done"}
        /\ wpc \in {"none", "header", "recv", "write", "failing", "ok", "err", "killed"}
    BY DEF IInv, TypeOK, ControlTypes
  <1>3. CallerLeft \in Nat /\ WriterLeft \in Nat
    BY <1>2 DEF CallerLeft, WriterLeft
  <1>4. QED
    BY <1>1, <1>3 DEF StepsLeft, Counts

(* A step takes lines off the stream, moves a batch on or brings a thread  *)
(* nearer to its end, and never the other way round.                       *)
LEMMA FewerLeft ==
  ASSUME IInv, Counts, Counts', Next
  PROVE  StepsLeft' < StepsLeft
  <1>1. job' = job /\ LastLine' = LastLine
    BY SameCall DEF Next, Caller, Writer, Prepare, PrepareFails, Create, CreateFails, CopyLine,
       CopyEnds, CopyFails, Produce, ProduceEnds, ProduceFails, Send, SendFails, Join,
       WriteHeader, Receive, WriteBatch, Finish, WriterFails, WriterExits, Exit
  <1> DEFINE now == Len(chan)
             then == Len(chan')
  <1>2. /\ LastLine \in Nat /\ next \in Nat /\ next' \in Nat /\ now \in Nat /\ then \in Nat
        /\ CallerLeft \in Nat /\ CallerLeft' \in Nat /\ WriterLeft \in Nat /\ WriterLeft' \in Nat
        /\ StepsLeft = 4 * (LastLine + 1 - next) + 2 * now + CallerLeft + WriterLeft
        /\ StepsLeft' = 4 * (LastLine + 1 - next') + 2 * then + CallerLeft' + WriterLeft'
        /\ chan' = chan => then = now
    BY <1>1 DEF Counts, StepsLeft
  <1>3. Len(<<>>) = 0 /\ chan \in Seq(Batch) /\ pend \in Seq(Batch) /\ Len(pend) <= 1
    BY EmptySeq DEF IInv, TypeOK, DataTypes
  <1> HIDE DEF now, then
  <1>4. ASSUME next' = next, chan' = chan \/ then <= now,
               \/ CallerLeft' < CallerLeft /\ WriterLeft' = WriterLeft
               \/ CallerLeft' = CallerLeft /\ WriterLeft' < WriterLeft
               \/ CallerLeft = 6 /\ CallerLeft' = 2 /\ WriterLeft = 0 /\ WriterLeft' <= 3
        PROVE  StepsLeft' < StepsLeft
    <2> DEFINE ahead == 4 * (LastLine + 1 - next)
    <2>1. /\ ahead \in Int
          /\ StepsLeft = ahead + 2 * now + CallerLeft + WriterLeft
          /\ StepsLeft' = ahead + 2 * then + CallerLeft' + WriterLeft'
      BY <1>2, <1>4
    <2> HIDE DEF ahead
    <2>2. \A a \in Nat : a <= a
      OBVIOUS
    <2>3. \A c, d, f, g \in Nat :
              /\ d < c /\ g = f => d + g < c + f
              /\ d = c /\ g < f => d + g < c + f
              /\ c = 6 /\ d = 2 /\ f = 0 /\ g <= 3 => d + g < c + f
      OBVIOUS
    <2>4. CallerLeft' + WriterLeft' < CallerLeft + WriterLeft
      BY ONLY <1>2, <1>4, <2>3, Zenon
    <2>5. then <= now
      BY ONLY <1>2, <1>4, <2>2
    <2>6. \A x \in Int : \A a, b, c, d, f, g \in Nat :
              b <= a /\ d + g < c + f => x + 2 * b + d + g < x + 2 * a + c + f
      OBVIOUS
    <2>7. /\ now \in Nat /\ then \in Nat
          /\ CallerLeft \in Nat /\ CallerLeft' \in Nat
          /\ WriterLeft \in Nat /\ WriterLeft' \in Nat
      BY <1>2
    <2>8. ahead + 2 * then + CallerLeft' + WriterLeft' < ahead + 2 * now + CallerLeft + WriterLeft
      BY ONLY <2>1, <2>4, <2>5, <2>6, <2>7, Zenon
    <2>9. QED
      BY ONLY <2>1, <2>8, Zenon
  <1>5. CASE Prepare \/ PrepareFails \/ CreateFails \/ CopyEnds \/ CopyFails \/ ProduceEnds
             \/ ProduceFails \/ SendFails \/ Join
    <2>1. next' = next /\ chan' = chan /\ wpc' = wpc
      BY <1>5 DEF Prepare, PrepareFails, CreateFails, CopyEnds, CopyFails, ProduceEnds,
         ProduceFails, SendFails, Join
    <2>2. WriterLeft' = WriterLeft
      BY <2>1 DEF WriterLeft
    <2>3. CallerLeft' < CallerLeft
      <3>1. \/ pc = "prepare" /\ pc' \in {"create", "done"}
            \/ pc = "create" /\ pc' = "done"
            \/ pc = "copy" /\ pc' = "done"
            \/ pc = "produce" /\ pc' \in {"join", "done"}
            \/ pc = "send" /\ pc' = "join"
            \/ pc = "join" /\ pc' = "done"
        BY <1>5 DEF Prepare, PrepareFails, CreateFails, CopyEnds, CopyFails,
           ProduceEnds, ProduceFails, SendFails, Join
      <3>2. QED
        BY <3>1 DEF CallerLeft
    <2>4. QED
      BY <1>2, <1>4, <2>1, <2>2, <2>3
  <1>6. CASE Create
    <2>1. next' = next /\ chan' = chan
      BY <1>6 DEF Create
    <2>2. CallerLeft = 6 /\ CallerLeft' = 2
      BY <1>6 DEF Create, CallerLeft
    <2>3. wpc = "none" /\ wpc' \in {"none", "header", "recv"}
      <3>1. job.format \in {"tsv-raw", "csv", "parquet"}
        BY JobType DEF IInv, Formats
      <3>2. QED
        BY <1>6, <3>1 DEF Create, Raw, IInv, Calling
    <2>4. WriterLeft = 0 /\ WriterLeft' <= 3
      BY <2>3 DEF WriterLeft
    <2>5. QED
      BY <1>2, <1>4, <2>1, <2>2, <2>4
  <1>7. CASE CopyLine
    <2>1. next' = next + 1 /\ chan' = chan /\ pc' = pc /\ wpc' = wpc
      BY <1>7 DEF CopyLine
    <2>2. WriterLeft' = WriterLeft /\ CallerLeft' = CallerLeft
      BY <2>1 DEF WriterLeft, CallerLeft
    <2>3. QED
      BY ONLY <1>2, <2>1, <2>2
  <1>8. CASE Produce
    <2>1. /\ chan' = chan /\ wpc' = wpc /\ pc = "produce" /\ pc' = "send"
          /\ next' = WindowEnd + 1 /\ next <= LastLine
      BY <1>8 DEF Produce, BatchReady
    <2>2. WindowEnd \in next .. LastLine
      BY <2>1, WindowBounds DEF IInv
    <2>3. WriterLeft' = WriterLeft /\ CallerLeft' = 5 /\ CallerLeft = 2
      BY <2>1 DEF WriterLeft, CallerLeft
    <2>4. next' >= next + 1
      BY ONLY <1>2, <2>1, <2>2
    <2>5. QED
      BY ONLY <1>2, <2>1, <2>3, <2>4
  <1>9. CASE Send
    <2>1. /\ next' = next /\ wpc' = wpc /\ pc = "send" /\ pc' = "produce"
          /\ chan' = chan \o pend
      BY <1>9 DEF Send
    <2>2. then <= now + 1
      BY <1>3, <2>1, ConcatProperties, LengthZero DEF now, then
    <2>3. WriterLeft' = WriterLeft /\ CallerLeft' = 2 /\ CallerLeft = 5
      BY <2>1 DEF WriterLeft, CallerLeft
    <2>4. QED
      BY ONLY <1>2, <2>1, <2>2, <2>3
  <1>10. CASE WriteHeader \/ WriteBatch \/ Finish \/ WriterFails \/ WriterExits \/ Exit
    <2>1. next' = next /\ pc' = pc /\ chan' \in {chan, <<>>}
      BY <1>10 DEF WriteHeader, WriteBatch, Finish, WriterFails, WriterExits, Exit
    <2>2. CallerLeft' = CallerLeft
      BY <2>1 DEF CallerLeft
    <2>3. then <= now
      <3>1. chan' = <<>> => then = 0
        BY <1>3 DEF then
      <3>2. QED
        BY ONLY <1>2, <2>1, <3>1
    <2>4. WriterLeft' < WriterLeft
      BY <1>10 DEF WriterLeft, WriteHeader, WriteBatch, Finish, WriterFails, WriterExits, Exit
    <2>5. QED
      BY <1>2, <1>4, <2>1, <2>2, <2>3, <2>4
  <1>11. CASE Receive
    <2>1. /\ next' = next /\ pc' = pc /\ wpc = "recv" /\ wpc' = "write"
          /\ chan # <<>> /\ chan' = Tail(chan)
      BY <1>11 DEF Receive
    <2>2. then = now - 1
      BY <1>3, <2>1, HeadTailProperties DEF now, then
    <2>3. WriterLeft' = 3 /\ WriterLeft = 2 /\ CallerLeft' = CallerLeft
      BY <2>1 DEF WriterLeft, CallerLeft
    <2>4. QED
      BY ONLY <1>2, <2>1, <2>2, <2>3
  <1>12. QED
    BY <1>5, <1>6, <1>7, <1>8, <1>9, <1>10, <1>11 DEF Next, Caller, Writer

(* A call begins with so many steps at most.                               *)
LEMMA StepsAtFirst == Init => StepsLeft <= 4 * (LastLine + 1) + 7
  <1> SUFFICES ASSUME Init PROVE StepsLeft <= 4 * (LastLine + 1) + 7
    OBVIOUS
  <1>1. LastLine \in Nat
    BY InitIInv, JobType DEF IInv
  <1>2. next \in {0, 1} /\ Len(chan) = 0 /\ CallerLeft = 7 /\ WriterLeft = 0
    BY EmptySeq DEF Init, CallerLeft, WriterLeft
  <1>3. QED
    BY <1>1, <1>2 DEF StepsLeft

(* Whatever fails and however the threads take turns, both have stopped    *)
(* after StepsLeft steps at most: with DeadlockFree, what Returns and      *)
(* WriterStops need besides fairness.                                      *)
THEOREM StepsBounded == Spec => EveryStepCounts
  <1>1. IInv /\ IInv' /\ [Next]_vars => [0 <= StepsLeft' /\ StepsLeft' < StepsLeft]_vars
    <2> SUFFICES ASSUME IInv, IInv', Next
                 PROVE  0 <= StepsLeft' /\ StepsLeft' < StepsLeft
      OBVIOUS
    <2>1. Counts
      BY LeftType
    <2>2. (IInv => Counts /\ StepsLeft \in Nat)'
      BY LeftType, PTL
    <2>3. Counts' /\ StepsLeft' \in Nat
      BY <2>2
    <2>4. QED
      BY <2>1, <2>3, FewerLeft
  <1>2. QED
    BY <1>1, Invariant, PTL DEF Spec, EveryStepCounts
=============================================================================

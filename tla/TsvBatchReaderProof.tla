------------------------- MODULE TsvBatchReaderProof -------------------------
(***************************************************************************)
(* next_batch keeps its columns aligned and takes the lines as LineBatches *)
(* says, for every table, number of columns and batch size.                *)
(***************************************************************************)
EXTENDS TsvBatchReader, Lemmas

Cols == 1 .. Columns
Column == Seq(Nat)
Block == [Cols -> Column]
Answer == [kind : {"none", "batch", "end", "err"}, first : Nat, last : Nat]

Types ==
    /\ table \in Tables /\ pos \in 0 .. Len(table)
    /\ rows \in 0 .. BatchSize
    /\ calling \in BOOLEAN /\ done \in BOOLEAN /\ failed \in BOOLEAN
    /\ answer \in Answer /\ from \in Nat
    /\ builders \in Block /\ batches \in Seq(Block)

(* Cells of lines up to p, in the order of the lines.                      *)
Ordered(s, p) ==
    \A i \in 1 .. Len(s) : s[i] <= p /\ \A j \in 1 .. Len(s) : i < j => s[i] < s[j]

Before(s, t) == \A i \in 1 .. Len(s), j \in 1 .. Len(t) : s[i] < t[j]

Cells == \A c \in Cols : Len(builders[c]) <= pos /\ Ordered(builders[c], pos)

(* A rejected line fills the first columns only, so a column is never      *)
(* longer than one to the left of it, and the same if it is as long.       *)
Stairs(s, t) == Len(t) <= Len(s) /\ (Len(t) = Len(s) => t = s)
Staircase == \A c, d \in Cols : c <= d => Stairs(builders[c], builders[d])

(* The batches returned, and what is in the builders after them.           *)
Aligned(b) == \A c \in Cols : b[c] = b[1]
Returned ==
    /\ \A b \in 1 .. Len(batches) :
           Aligned(batches[b]) /\ Ordered(batches[b][1], pos) /\ Before(batches[b][1], builders[1])
    /\ \A a, b \in 1 .. Len(batches) : a < b => Before(batches[a][1], batches[b][1])

AlignInv == Types /\ Cells /\ Staircase /\ Returned

(* A row parsed in this call has a cell in every column; the end is only   *)
(* answered when the reader is done.                                       *)
Filled == calling => \A c \in Cols : rows <= Len(builders[c])
EndKnown == answer.kind = "end" => ~ calling /\ done

Inv == AlignInv /\ Filled /\ EndKnown

-----------------------------------------------------------------------------
(* The lines parsed in this call end at Parsed; in the clean part of a run *)
(* the builders hold just these.                                           *)
Parsed == NextLine - 1 + (IF calling THEN rows ELSE 0)

Clean ==
    ~ failed =>
        /\ NextLine \in 1 .. Rows + 1 /\ Parsed <= Rows
        /\ \A k \in NextLine .. Parsed : table[k].kind = "row"
        /\ IF done THEN Parsed = Rows ELSE pos = Parsed
        /\ \A c \in Cols :
               /\ Len(builders[c]) = Parsed - NextLine + 1
               /\ \A i \in 1 .. Len(builders[c]) : builders[c][i] = NextLine + i - 1

Answers ==
    /\ answer.kind \in {"none", "end", "err"} => answer.first = 0 /\ answer.last = 0
    /\ ~ failed =>
           /\ answer.kind # "err"
           /\ answer.kind = "end" => NextLine = Rows + 1

BatchesInv == Inv /\ Clean /\ Answers

-----------------------------------------------------------------------------
(* Facts about columns and blocks.                                         *)
LEMMA ColsFacts == Cols \subseteq Nat /\ 1 \in Cols /\ Columns \in Nat /\ BatchSize \in Nat
  BY TablesAssumption DEF Cols

LEMMA ColumnGrows ==
  ASSUME NEW s \in Column, NEW p \in Nat, Ordered(s, p)
  PROVE  /\ Append(s, p + 1) \in Column /\ Len(Append(s, p + 1)) = Len(s) + 1
         /\ Ordered(Append(s, p + 1), p + 1)
         /\ \A t \in Column : Ordered(t, p) /\ Before(t, s) => Before(t, Append(s, p + 1))
  <1>1. /\ Append(s, p + 1) \in Column /\ Len(Append(s, p + 1)) = Len(s) + 1
        /\ \A i \in 1 .. Len(s) : Append(s, p + 1)[i] = s[i]
        /\ Append(s, p + 1)[Len(s) + 1] = p + 1
    BY DEF Column
  <1>2. \A i \in 1 .. Len(s) : s[i] \in Nat
    BY DEF Column
  <1> QED BY SMTT(40), <1>1, <1>2 DEF Ordered, Before, Column

LEMMA OrderedLater ==
  ASSUME NEW s \in Column, NEW p \in Nat, NEW q \in Nat, p <= q, Ordered(s, p)
  PROVE  Ordered(s, q)
  <1>1. \A i \in 1 .. Len(s) : s[i] \in Nat
    BY DEF Column
  <1> QED BY <1>1 DEF Ordered

LEMMA EmptyBlock ==
  /\ Empty \in Block
  /\ \A c \in Cols : Empty[c] = <<>>
  /\ \A s, p : Ordered(<<>>, p) /\ Before(s, <<>>)
  BY ColsFacts DEF Empty, Block, Column, Cols, Ordered, Before

LEMMA TableType ==
  ASSUME Types
  PROVE  /\ table \in Seq(Line) /\ Len(table) \in Nat /\ pos \in Nat
         /\ \A k \in 1 .. Len(table) :
                table[k].kind \in {"row", "bad", "io", "marker"} /\ table[k].fills \in 0 .. Columns
  <1>1. table \in Seq(Line)
    BY TablesAssumption DEF Types
  <1>2. \A l \in Line : l.kind \in {"row", "bad", "io", "marker"} /\ l.fills \in 0 .. Columns
    BY TablesAssumption DEF Line
  <1> QED BY <1>1, <1>2 DEF Types

LEMMA BlockTypes ==
  ASSUME Types
  PROVE  /\ \A c \in Cols : builders[c] \in Column /\ Len(builders[c]) \in Nat
         /\ \A b \in 1 .. Len(batches) : batches[b] \in Block /\ batches[b][1] \in Column
  <1>1. \A b \in Block : \A c \in Cols : b[c] \in Column /\ Len(b[c]) \in Nat
    BY DEF Block, Column
  <1>2. \A b \in 1 .. Len(batches) : batches[b] \in Block
    BY DEF Types
  <1>3. 1 \in Cols /\ builders \in Block
    BY ColsFacts DEF Types
  <1> QED BY <1>1, <1>2, <1>3

-----------------------------------------------------------------------------
LEMMA InitAlign == Init => AlignInv
  <1> SUFFICES ASSUME Init PROVE AlignInv
    OBVIOUS
  <1>1. table \in Seq(Line) /\ Len(table) \in Nat /\ batches \in Seq(Block)
    BY TablesAssumption DEF Init
  <1>3. answer \in Answer /\ builders \in Block
    BY EmptyBlock DEF Init, Answer
  <1>4. pos \in 0 .. Len(table) /\ rows \in 0 .. BatchSize /\ from \in Nat
    BY <1>1, ColsFacts DEF Init
  <1>5. Types
    BY <1>1, <1>3, <1>4 DEF Init, Types
  <1>2. Cells /\ Staircase /\ Returned
    BY EmptyBlock DEF Init, Cells, Staircase, Stairs, Returned
  <1> QED BY <1>2, <1>5 DEF AlignInv

(* Where the builders and the batches stay, a further position is harmless.*)
LEMMA MovingKeepsAlign ==
  ASSUME AlignInv, UNCHANGED <<table, builders, batches>>, Types', pos' >= pos
  PROVE  AlignInv'
  <1>1. pos \in Nat /\ pos' \in Nat /\ pos <= pos'
    BY TableType DEF AlignInv, Types
  <1>2. \A s \in Column : Ordered(s, pos) => Ordered(s, pos')
    BY <1>1, OrderedLater
  <1>3. /\ \A c \in Cols : builders[c] \in Column /\ Len(builders[c]) \in Nat
        /\ \A b \in 1 .. Len(batches) : batches[b][1] \in Column
    BY BlockTypes DEF AlignInv
  <1>4. Cells'
    BY <1>1, <1>2, <1>3 DEF AlignInv, Cells
  <1>5. Staircase'
    BY DEF AlignInv, Staircase
  <1>6. Returned'
    BY <1>2, <1>3 DEF AlignInv, Returned
  <1> QED BY <1>4, <1>5, <1>6 DEF AlignInv

(* A line read gives the first n columns a new, larger cell.               *)
LEMMA FillingKeepsAlign ==
  ASSUME AlignInv, NEW n \in 0 .. Columns, Fill(n), pos < Len(table), pos' = pos + 1, Types',
         UNCHANGED <<table, batches>>
  PROVE  AlignInv'
  <1>1. pos \in Nat /\ pos + 1 \in Nat /\ pos <= pos + 1 /\ n \in Nat
    BY TableType, ColsFacts DEF AlignInv
  <1>2. /\ \A c \in Cols : builders[c] \in Column /\ Len(builders[c]) \in Nat
        /\ \A b \in 1 .. Len(batches) : batches[b][1] \in Column
    BY BlockTypes DEF AlignInv
  <1>3. \A c \in Cols : builders'[c] = IF c <= n THEN Append(builders[c], pos + 1) ELSE builders[c]
    BY DEF Fill, Cols
  <1>4. \A s \in Column : Ordered(s, pos) => Ordered(s, pos + 1)
    BY <1>1, OrderedLater
  <1>5. Cells'
    <2> SUFFICES ASSUME NEW c \in Cols
                 PROVE  Len(builders'[c]) <= pos + 1 /\ Ordered(builders'[c], pos + 1)
      BY DEF Cells
    <2>1. Len(builders[c]) <= pos /\ Ordered(builders[c], pos)
      BY DEF AlignInv, Cells
    <2>2. /\ Len(Append(builders[c], pos + 1)) = Len(builders[c]) + 1
          /\ Ordered(Append(builders[c], pos + 1), pos + 1)
      BY <1>1, <1>2, <2>1, ColumnGrows
    <2>3. CASE c <= n
      <3>1. builders'[c] = Append(builders[c], pos + 1)
        BY <1>3, <2>3
      <3> QED BY <1>1, <1>2, <2>1, <2>2, <3>1
    <2>4. CASE ~ (c <= n)
      BY <1>1, <1>2, <1>3, <1>4, <2>1, <2>4
    <2> QED BY <2>3, <2>4
  <1>6. Staircase'
    <2> SUFFICES ASSUME NEW c \in Cols, NEW d \in Cols, c <= d
                 PROVE  Stairs(builders'[c], builders'[d])
      BY DEF Staircase
    <2>1. Stairs(builders[c], builders[d])
      BY DEF AlignInv, Staircase
    <2>2. \A e \in Cols : Len(Append(builders[e], pos + 1)) = Len(builders[e]) + 1
      BY <1>1, <1>2 DEF Column
    <2>3. c \in Nat /\ d \in Nat
      BY ColsFacts
    <2>4. CASE d <= n
      <3>1. /\ builders'[c] = Append(builders[c], pos + 1)
            /\ builders'[d] = Append(builders[d], pos + 1)
        <4>1. c <= n
          BY <1>1, <2>3, <2>4
        <4> QED BY <1>3, <2>4, <4>1
      <3> QED BY <1>2, <2>1, <2>2, <3>1 DEF Stairs
    <2>5. CASE c <= n /\ ~ (d <= n)
      <3>1. builders'[c] = Append(builders[c], pos + 1) /\ builders'[d] = builders[d]
        BY <1>3, <2>5
      <3> QED BY <1>2, <2>1, <2>2, <3>1 DEF Stairs
    <2>6. CASE ~ (c <= n)
      BY <1>1, <1>2, <1>3, <2>1, <2>2, <2>3, <2>6 DEF Stairs
    <2> QED BY <2>4, <2>5, <2>6
  <1>7. Returned'
    <2> SUFFICES ASSUME NEW b \in 1 .. Len(batches)
                 PROVE  /\ Aligned(batches[b]) /\ Ordered(batches[b][1], pos + 1)
                        /\ Before(batches[b][1], builders'[1])
      BY DEF AlignInv, Returned
    <2>1. /\ Aligned(batches[b]) /\ Ordered(batches[b][1], pos)
          /\ Before(batches[b][1], builders[1]) /\ Ordered(builders[1], pos)
      BY ColsFacts DEF AlignInv, Returned, Cells
    <2>2. Before(batches[b][1], Append(builders[1], pos + 1))
      BY <1>1, <1>2, <2>1, ColsFacts, ColumnGrows
    <2> QED BY <1>2, <1>3, <1>4, <2>1, <2>2, ColsFacts
  <1> QED BY <1>5, <1>6, <1>7 DEF AlignInv

(* finish() empties the builders; the batch it makes is aligned.           *)
LEMMA EmptyKeepsAlign ==
  ASSUME AlignInv, builders' = Empty, UNCHANGED <<table, pos>>, Types',
         \/ UNCHANGED batches
         \/ batches' = Append(batches, builders) /\ Rectangular
  PROVE  AlignInv'
  <1>1. Cells' /\ Staircase'
    BY EmptyBlock, TableType DEF AlignInv, Cells, Staircase, Stairs
  <1>2. \A s : Before(s, builders'[1])
    BY EmptyBlock, ColsFacts
  <1>3. CASE UNCHANGED batches
    BY <1>1, <1>2, <1>3 DEF AlignInv, Returned
  <1>4. CASE batches' = Append(batches, builders) /\ Rectangular
    <2>1. batches \in Seq(Block) /\ builders \in Block
      BY DEF AlignInv, Types
    <2>2. /\ Len(batches) \in Nat /\ Len(batches') = Len(batches) + 1
          /\ \A b \in 1 .. Len(batches) : batches'[b] = batches[b]
          /\ batches'[Len(batches) + 1] = builders
      BY <1>4, <2>1
    <2>3. Aligned(builders)
      BY <1>4, ColsFacts DEF AlignInv, Staircase, Stairs, Rectangular, Cols, Aligned
    <2>4. Ordered(builders[1], pos)
      BY ColsFacts DEF AlignInv, Cells
    <2>5. ASSUME NEW b \in 1 .. Len(batches')
          PROVE  Aligned(batches'[b]) /\ Ordered(batches'[b][1], pos)
      BY <2>2, <2>3, <2>4 DEF AlignInv, Returned
    <2>6. ASSUME NEW a \in 1 .. Len(batches'), NEW b \in 1 .. Len(batches'), a < b
          PROVE  Before(batches'[a][1], batches'[b][1])
      BY <2>2, <2>6 DEF AlignInv, Returned
    <2>7. Returned'
      BY <1>2, <2>5, <2>6 DEF Returned
    <2> QED BY <1>1, <2>7 DEF AlignInv
  <1> QED BY <1>3, <1>4
-----------------------------------------------------------------------------
LEMMA InitInv == Init => Inv
  BY InitAlign DEF Init, Inv, Filled, EndKnown

LEMMA FillType ==
  ASSUME Types, NEW n \in 0 .. Columns, Fill(n), pos < Len(table)
  PROVE  builders' \in Block /\ pos + 1 \in 0 .. Len(table)
  <1>1. pos \in Nat /\ Len(table) \in Nat
    BY TableType
  <1>2. \A c \in Cols : Append(builders[c], pos + 1) \in Column /\ builders[c] \in Column
    BY <1>1, BlockTypes DEF Column
  <1>3. builders' = [c \in Cols |-> IF c <= n THEN Append(builders[c], pos + 1) ELSE builders[c]]
    BY DEF Fill, Cols
  <1>4. builders' \in Block
    BY <1>2, <1>3 DEF Block
  <1> QED BY <1>1, <1>4

LEMMA CurrentType ==
  ASSUME Types, pos < Len(table)
  PROVE  Current.kind \in {"row", "bad", "io", "marker"} /\ Current.fills \in 0 .. Columns
  <1>1. pos + 1 \in 1 .. Len(table)
    BY TableType
  <1> QED BY <1>1, TableType DEF Current

LEMMA ReturnsType ==
  ASSUME NEW k \in {"end", "err"}, Returns(k)
  PROVE  answer' \in Answer /\ answer'.kind = k
  BY DEF Returns, Answer

LEMMA NextLineType ==
  ASSUME Types
  PROVE  NextLine \in Nat
  BY DEF Types, Answer, NextLine

(* Every step keeps the invariant.                                         *)
LEMMA NextInv ==
  ASSUME Inv, [Next]_vars
  PROVE  Inv'
  <1> USE DEF Inv
  <1>1. CASE Call
    <2>1. Types'
      BY <1>1, NextLineType, ColsFacts DEF Call, AlignInv, Types
    <2>2. AlignInv'
      BY <1>1, <2>1, MovingKeepsAlign, TableType DEF Call, AlignInv
    <2>3. Filled'
      BY <1>1, BlockTypes DEF Call, Filled, AlignInv
    <2> QED BY <1>1, <2>2, <2>3 DEF Call, EndKnown
  <1>2. CASE CallDone
    <2>1. Types'
      BY <1>2, NextLineType, ReturnsType DEF CallDone, AlignInv, Types
    <2>2. AlignInv'
      BY <1>2, <2>1, MovingKeepsAlign, TableType DEF CallDone, AlignInv
    <2> QED BY <1>2, <2>2, ReturnsType DEF CallDone, Filled, EndKnown
  <1>3. CASE ParseRow
    <2>1. Types /\ Columns \in 0 .. Columns /\ pos < Len(table) /\ rows \in Nat /\ BatchSize \in Nat
      BY <1>3, ColsFacts DEF ParseRow, More, AlignInv, Types
    <2>2. rows' \in 0 .. BatchSize
      BY <1>3, <2>1 DEF ParseRow, Reading
    <2>3. Types'
      BY <1>3, <2>1, <2>2, FillType DEF ParseRow, historyVars, Types
    <2>4. AlignInv'
      BY <1>3, <2>1, <2>3, FillingKeepsAlign DEF ParseRow, historyVars
    <2>5. \A c \in Cols : Len(builders'[c]) = Len(builders[c]) + 1
      <3> SUFFICES ASSUME NEW c \in Cols PROVE Len(builders'[c]) = Len(builders[c]) + 1
        OBVIOUS
      <3>1. builders'[c] = Append(builders[c], pos + 1)
        BY <1>3, ColsFacts DEF ParseRow, Fill, Cols
      <3> QED BY <2>1, <3>1, BlockTypes DEF Column
    <2>6. Filled'
      BY <1>3, <2>1, <2>5, BlockTypes DEF ParseRow, Reading, Filled
    <2> QED BY <1>3, <2>4, <2>6 DEF ParseRow, EndKnown, Reading
  <1>4. CASE ParseFails
    <2>1. Types /\ Current.fills \in 0 .. Columns /\ pos < Len(table)
      BY <1>4, CurrentType DEF ParseFails, More, AlignInv
    <2>2. Types'
      BY <1>4, <2>1, FillType, ReturnsType DEF ParseFails, Types
    <2>3. AlignInv'
      BY <1>4, <2>1, <2>2, FillingKeepsAlign DEF ParseFails
    <2> QED BY <1>4, <2>3, ReturnsType DEF ParseFails, Filled, EndKnown
  <1>5. CASE ReadFails
    <2>1. Types /\ pos < Len(table) /\ pos \in Nat /\ Len(table) \in Nat
      BY <1>5, TableType DEF ReadFails, More, AlignInv
    <2>2. pos' \in 0 .. Len(table) /\ pos' >= pos
      BY <1>5, <2>1 DEF ReadFails
    <2>3. Types'
      BY <1>5, <2>1, <2>2, ReturnsType DEF ReadFails, Types
    <2>4. AlignInv'
      BY <1>5, <2>2, <2>3, MovingKeepsAlign DEF ReadFails
    <2> QED BY <1>5, <2>4, ReturnsType DEF ReadFails, Filled, EndKnown
  <1>6. CASE LastLine
    <2>1. Types /\ pos \in Nat /\ Len(table) \in Nat
      BY TableType DEF AlignInv
    <2>2. pos' \in 0 .. Len(table) /\ pos' >= pos
      BY <1>6, <2>1 DEF LastLine, Types
    <2>3. Types'
      BY <1>6, <2>1, <2>2 DEF LastLine, historyVars, Types
    <2>4. AlignInv'
      BY <1>6, <2>2, <2>3, MovingKeepsAlign DEF LastLine, historyVars
    <2> QED BY <1>6, <2>4 DEF LastLine, Filled, EndKnown
  <1>7. CASE Nothing
    <2>1. Types'
      BY <1>7, ReturnsType DEF Nothing, historyVars, AlignInv, Types
    <2>2. AlignInv'
      BY <1>7, <2>1, MovingKeepsAlign, TableType DEF Nothing, historyVars, AlignInv
    <2>3. done
      BY <1>7, TablesAssumption DEF Nothing, LoopEnds
    <2> QED BY <1>7, <2>2, <2>3 DEF Nothing, Filled, EndKnown
  <1>8. CASE FinishBatch
    <2>1. Types /\ builders \in Block /\ batches \in Seq(Block) /\ builders[1] \in Column
      BY BlockTypes, ColsFacts DEF AlignInv, Types
    <2>2. Len(builders[1]) \in Nat /\ Len(builders[1]) >= 1
      BY SMTT(40), <1>8, <2>1, ColsFacts DEF FinishBatch, LoopEnds, Filled, Types, Column
    <2>3. builders[1][1] \in Nat /\ builders[1][Len(builders[1])] \in Nat
      BY <2>1, <2>2 DEF Column
    <2>4. answer' \in Answer /\ answer'.kind = "batch"
      BY <1>8, <2>3 DEF FinishBatch, Answer
    <2>5. batches' \in Seq(Block)
      BY <1>8, <2>1 DEF FinishBatch
    <2>6. Types'
      BY <1>8, <2>1, <2>4, <2>5, EmptyBlock DEF FinishBatch, Types
    <2>7. AlignInv'
      BY <1>8, <2>6, EmptyKeepsAlign DEF FinishBatch
    <2> QED BY <1>8, <2>4, <2>7 DEF FinishBatch, Filled, EndKnown
  <1>9. CASE FinishFails
    <2>1. Types'
      BY <1>9, EmptyBlock, ReturnsType DEF FinishFails, AlignInv, Types
    <2>2. AlignInv'
      BY <1>9, <2>1, EmptyKeepsAlign DEF FinishFails
    <2> QED BY <1>9, <2>2, ReturnsType DEF FinishFails, Filled, EndKnown
  <1>10. CASE UNCHANGED vars
    <2>1. Types'
      BY <1>10 DEF vars, historyVars, AlignInv, Types
    <2>2. AlignInv'
      BY <1>10, <2>1, MovingKeepsAlign, TableType DEF vars, historyVars, AlignInv
    <2> QED BY <1>10, <2>2 DEF vars, historyVars, Filled, EndKnown
  <1> QED
    BY <1>1, <1>2, <1>3, <1>4, <1>5, <1>6, <1>7, <1>8, <1>9, <1>10 DEF Next, Work

LEMMA InvHolds == Spec => []Inv
  BY InitInv, NextInv, PTL DEF Spec

(* The reader keeps its types, and no column has more cells than lines     *)
(* were read (TsvBatchReader::next_batch).                                 *)
THEOREM TypeCorrect == Spec => []TypeOK
  <1>1. Inv => TypeOK
    BY DEF Inv, AlignInv, Types, Answer, Cells, Cols, TypeOK
  <1> QED BY InvHolds, <1>1, PTL

(* The cells of a row of a batch come from one line, and no line is in two *)
(* batches, also for a caller that goes on after an error of next_batch.   *)
THEOREM AlignedCorrect == Spec => []RowsAligned
  <1>1. ASSUME Inv PROVE RowsAligned
    <2>1. Types /\ Returned /\ DOMAIN batches = 1 .. Len(batches)
      BY <1>1 DEF Inv, AlignInv, Types
    <2>2. \A b \in 1 .. Len(batches) :
              /\ batches[b][1] \in Column /\ DOMAIN batches[b][1] = 1 .. Len(batches[b][1])
              /\ \A i \in 1 .. Len(batches[b][1]) : batches[b][1][i] \in Nat
      BY <2>1, BlockTypes DEF Column
    <2>3. \A b \in DOMAIN batches : \A c \in 1 .. Columns : batches[b][c] = batches[b][1]
      BY <2>1 DEF Returned, Aligned, Cols
    <2>4. ASSUME NEW a \in DOMAIN batches, NEW b \in DOMAIN batches,
                 NEW i \in DOMAIN batches[a][1], NEW j \in DOMAIN batches[b][1],
                 <<a, i>> # <<b, j>>
          PROVE  batches[a][1][i] # batches[b][1][j]
      <3>1. a \in Nat /\ b \in Nat /\ i \in 1 .. Len(batches[a][1]) /\ j \in 1 .. Len(batches[b][1])
            /\ batches[a][1][i] \in Nat /\ batches[b][1][j] \in Nat
        BY SMTT(40), <2>1, <2>2
      <3>2. CASE a < b
        BY <2>1, <3>1, <3>2 DEF Returned, Before
      <3>3. CASE b < a
        BY <2>1, <3>1, <3>3 DEF Returned, Before
      <3>4. CASE a = b
        <4>1. Ordered(batches[a][1], pos)
          BY <2>1 DEF Returned
        <4>2. i < j \/ j < i
          BY <2>4, <3>1, <3>4
        <4> QED BY <3>1, <3>4, <4>1, <4>2 DEF Ordered
      <3> QED BY <3>1, <3>2, <3>3, <3>4
    <2> QED BY <2>3, <2>4 DEF RowsAligned
  <1> QED BY InvHolds, <1>1, PTL

(* After the end has been answered it is answered for ever, and the reader *)
(* takes no further line.                                                  *)
THEOREM EndCorrect == Spec => EndIsFinal
  <1>1. ASSUME Inv, [Next]_vars
        PROVE  [answer.kind = "end" => answer'.kind = "end" /\ pos' = pos]_vars
    <2> SUFFICES ASSUME answer.kind = "end"
                 PROVE  answer'.kind = "end" /\ pos' = pos
      OBVIOUS
    <2>1. ~ calling /\ done
      BY <1>1 DEF Inv, EndKnown
    <2>2. CallDone \/ UNCHANGED vars
      BY <1>1, <2>1 DEF Next, Work, Call, ParseRow, ParseFails, ReadFails, LastLine, Reading,
                        Nothing, FinishBatch, FinishFails, LoopEnds
    <2> QED BY <2>2, ReturnsType DEF CallDone, vars
  <1> QED BY InvHolds, <1>1, PTL DEF Spec, EndIsFinal
-----------------------------------------------------------------------------
(* The rows of a table are the lines before the first marker.              *)
LEMMA RowsFacts ==
  ASSUME NEW t \in Seq(Line), t = table
  PROVE  /\ Rows \in Nat /\ Rows <= Len(table) /\ Len(table) \in Nat
         /\ \A k \in 1 .. Rows : table[k].kind # "marker"
         /\ Rows < Len(table) => table[Rows + 1].kind = "marker"
  <1>1. Len(table) \in Nat /\ DOMAIN table = 1 .. Len(table)
    OBVIOUS
  <1>2. CASE Marked = {}
    BY <1>1, <1>2 DEF Rows, Marked
  <1>3. CASE Marked # {}
    <2>0. Marked \subseteq Nat
      BY <1>1 DEF Marked
    <2>1. \E k \in Marked : \A l \in Marked : k <= l
      BY <1>3, <2>0, LeastExists
    <2> DEFINE k == CHOOSE m \in Marked : \A l \in Marked : m <= l
    <2>2. k \in Marked /\ \A l \in Marked : k <= l
      BY <2>1
    <2>3. Rows = k - 1
      BY <1>3 DEF Rows
    <2> HIDE DEF k
    <2>4. k \in 1 .. Len(table) /\ table[k].kind = "marker"
      BY <1>1, <2>2 DEF Marked
    <2>5. \A l \in 1 .. Len(table) : table[l].kind = "marker" => k <= l
      BY <1>1, <2>2 DEF Marked
    <2> QED BY <1>1, <2>3, <2>4, <2>5
  <1> QED BY <1>2, <1>3

LEMMA RowsStay == table' = table => Rows' = Rows
  BY DEF Rows, Marked

(* What the mapped state looks like.                                       *)
RowFlags == [k \in 1 .. Rows |-> table[k].kind = "row"]
Mapped == IF failed THEN [kind |-> "err", first |-> 0, last |-> 0] ELSE answer

LEMMA FlagsType ==
  ASSUME Types
  PROVE  RowFlags \in Seq(BOOLEAN) /\ Len(RowFlags) = Rows
  <1>1. Rows \in Nat
    BY RowsFacts, TableType
  <1>2. RowFlags \in [1 .. Rows -> BOOLEAN]
    BY Zenon DEF RowFlags
  <1>3. RowFlags \in Seq(BOOLEAN)
    BY <1>1, <1>2, SeqDef
  <1>4. Len(RowFlags) \in Nat /\ 1 .. Len(RowFlags) = 1 .. Rows
    BY <1>2, <1>3, LenProperties
  <1> QED BY <1>1, <1>3, <1>4

(* The definitions of LineBatches in the mapped state.                     *)
LEMMA MappedDefs ==
  /\ L!Error = [kind |-> "err", first |-> 0, last |-> 0]
  /\ L!End = [kind |-> "end", first |-> 0, last |-> 0]
  /\ L!WindowEnd = IF NextLine + BatchSize - 1 <= Len(RowFlags)
                   THEN NextLine + BatchSize - 1 ELSE Len(RowFlags)
  /\ L!AllRows <=> \A k \in NextLine .. L!WindowEnd : RowFlags[k]
  BY DEF L!Error, L!End, L!None, L!WindowEnd, L!AllRows, RowFlags

LEMMA InitBatches == Init => BatchesInv /\ L!Init
  <1> SUFFICES ASSUME Init PROVE BatchesInv /\ L!Init
    OBVIOUS
  <1>1. Inv /\ Types
    BY InitInv DEF Inv, AlignInv
  <1>2. Rows \in Nat
    BY <1>1, RowsFacts, TableType
  <1>3. NextLine = 1 /\ Parsed = 0
    BY DEF Init, NextLine, Parsed
  <1>4. \A c \in Cols : builders[c] = <<>>
    BY EmptyBlock DEF Init
  <1>5. Clean /\ Answers
    BY <1>2, <1>3, <1>4 DEF Init, Clean, Answers
  <1>6. L!Init
    BY <1>1, <1>3, FlagsType DEF Init, L!Init, L!None, RowFlags
  <1> QED BY <1>1, <1>5, <1>6 DEF BatchesInv

(* After an error the mapped state stays.                                  *)
LEMMA FailedStutters ==
  ASSUME Types, failed, [Next]_vars
  PROVE  UNCHANGED L!vars /\ failed'
  <1>1. failed' /\ table' = table /\ from' = from
    BY DEF Next, Work, Call, CallDone, ParseRow, ParseFails, ReadFails, LastLine, Nothing,
           FinishBatch, FinishFails, vars, historyVars, NextLine
  <1>2. NextLine' = NextLine
    BY <1>1 DEF NextLine
  <1>3. RowFlags' = RowFlags
    BY <1>1, RowsStay DEF RowFlags
  <1> QED BY <1>1, <1>2, <1>3 DEF L!vars, RowFlags

(* The line after those parsed is a row, a line that fails, or the end.    *)
LEMMA CleanFacts ==
  ASSUME BatchesInv, ~ failed
  PROVE  /\ NextLine \in Nat /\ NextLine >= 1 /\ Rows \in Nat /\ Len(table) \in Nat
         /\ rows \in Nat /\ rows <= BatchSize /\ BatchSize \in Nat /\ BatchSize >= 1
         /\ calling => NextLine = from /\ Parsed = NextLine - 1 + rows
         /\ ~ calling => Parsed = NextLine - 1
         /\ Parsed <= Rows /\ Parsed \in Nat
         /\ \A k \in NextLine .. Parsed : table[k].kind = "row"
         /\ ~ done => pos = Parsed
         /\ done => Parsed = Rows
         /\ ~ done /\ pos < Len(table) /\ Current.kind # "marker" => Parsed + 1 <= Rows
         /\ ~ done /\ (pos < Len(table) => Current.kind = "marker") => Parsed = Rows
  <1>1. /\ Rows \in Nat /\ Rows <= Len(table) /\ Len(table) \in Nat
        /\ \A k \in 1 .. Rows : table[k].kind # "marker"
        /\ Rows < Len(table) => table[Rows + 1].kind = "marker"
    BY RowsFacts, TableType DEF BatchesInv, Inv, AlignInv
  <1>2. rows \in Nat /\ rows <= BatchSize /\ BatchSize \in Nat /\ BatchSize >= 1
    BY TablesAssumption DEF BatchesInv, Inv, AlignInv, Types
  <1>3. NextLine \in 1 .. Rows + 1 /\ Parsed <= Rows
    BY DEF BatchesInv, Clean
  <1>4. /\ calling => NextLine = from /\ Parsed = NextLine - 1 + rows
        /\ ~ calling => Parsed = NextLine - 1
    BY <1>1, <1>2, <1>3 DEF Parsed, NextLine
  <1>5. Parsed \in Nat /\ NextLine \in Nat /\ NextLine >= 1
    BY <1>1, <1>2, <1>3, <1>4
  <1>6. (~ done => pos = Parsed) /\ (done => Parsed = Rows)
    BY DEF BatchesInv, Clean
  <1>7. \A k \in NextLine .. Parsed : table[k].kind = "row"
    BY DEF BatchesInv, Clean
  <1>8. ~ done /\ pos < Len(table) /\ Current.kind # "marker" => Parsed + 1 <= Rows
    BY <1>1, <1>3, <1>5, <1>6 DEF Current
  <1>9. ~ done /\ (pos < Len(table) => Current.kind = "marker") => Parsed = Rows
    BY <1>1, <1>3, <1>5, <1>6 DEF Current
  <1> QED BY <1>1, <1>2, <1>3, <1>4, <1>5, <1>6, <1>7, <1>8, <1>9

(* A line that is no row is in the window of the batch, so LineBatches     *)
(* fails as well.                                                          *)
LEMMA FailingRefines ==
  ASSUME BatchesInv, ~ failed, Reading, pos < Len(table), Current.kind \in {"bad", "io"},
         failed', UNCHANGED <<table, from>>, ~ calling'
  PROVE  L!Fail
  <1>1. /\ NextLine \in Nat /\ NextLine >= 1 /\ Rows \in Nat /\ rows \in Nat /\ BatchSize \in Nat
        /\ NextLine = from /\ Parsed = NextLine - 1 + rows /\ pos = Parsed /\ Parsed + 1 <= Rows
        /\ rows < BatchSize
    BY CleanFacts DEF Reading
  <1>2. Len(RowFlags) = Rows /\ pos + 1 \in 1 .. Rows
    BY <1>1, FlagsType DEF BatchesInv, Inv, AlignInv
  <1>3. RowFlags[pos + 1] = FALSE
    BY <1>2 DEF RowFlags, Current
  <1>4. pos + 1 \in NextLine .. L!WindowEnd
    BY <1>1, <1>2, MappedDefs
  <1>5. ~ L!AllRows
    BY <1>3, <1>4, MappedDefs
  <1>6. answer.kind \in {"none", "batch"} /\ NextLine <= Rows
    BY <1>1 DEF BatchesInv, Inv, AlignInv, Types, Answer, Answers, EndKnown, Reading
  <1>7. NextLine' = NextLine /\ RowFlags' = RowFlags
    BY <1>1, RowsStay DEF NextLine, RowFlags
  <1>8. NextLine <= Len(RowFlags)
    BY <1>2, <1>6
  <1> QED BY <1>5, <1>6, <1>7, <1>8, MappedDefs DEF L!Fail, RowFlags

LEMMA BatchesNext ==
  ASSUME BatchesInv, ~ failed, [Next]_vars
  PROVE  Clean' /\ Answers' /\ [L!Batch \/ L!Fail \/ L!Finish]_L!vars
  <1> DEFINE Kept == UNCHANGED <<RowFlags, NextLine, Mapped>>
  <1>0. /\ Inv /\ Types
        /\ Kept => UNCHANGED L!vars
    BY DEF BatchesInv, Inv, AlignInv, L!vars, RowFlags, Mapped
  <1>1. CASE Call
    <2>1. ~ failed' /\ table' = table /\ answer' = answer /\ builders' = builders /\ ~ done /\ ~ done'
          /\ pos' = pos /\ calling' /\ ~ calling /\ rows' = 0 /\ from' = NextLine
      BY <1>1 DEF Call
    <2>2. NextLine' = NextLine /\ Parsed' = NextLine - 1 /\ Rows' = Rows /\ Parsed = NextLine - 1
      BY <2>1, CleanFacts, RowsStay DEF NextLine, Parsed
    <2>3. Clean'
      BY <2>1, <2>2 DEF BatchesInv, Clean
    <2>4. Answers'
      BY <2>1, <2>2 DEF BatchesInv, Answers
    <2>5. Kept
      BY <2>1, <2>2 DEF RowFlags, Mapped
    <2> QED BY <1>0, <2>3, <2>4, <2>5
  <1>2. CASE CallDone
    <2>1. ~ failed' /\ table' = table /\ builders' = builders /\ done /\ done' /\ pos' = pos
          /\ ~ calling' /\ ~ calling /\ rows' = rows /\ from' = NextLine
          /\ answer' = [kind |-> "end", first |-> 0, last |-> 0]
      BY <1>2 DEF CallDone, Returns
    <2>2. NextLine' = NextLine /\ Parsed' = NextLine - 1 /\ Rows' = Rows /\ Parsed = NextLine - 1
          /\ Parsed = Rows /\ Rows \in Nat /\ NextLine \in Nat
      BY <2>1, CleanFacts, RowsStay DEF NextLine, Parsed
    <2>3. Clean'
      BY <2>1, <2>2 DEF BatchesInv, Clean
    <2>4. Answers'
      BY <2>1, <2>2 DEF Answers
    <2>5. RowFlags' = RowFlags /\ Mapped' = answer' /\ Mapped = answer
      BY <2>1, <2>2 DEF RowFlags, Mapped
    <2>6. CASE answer.kind = "end"
      <3>1. answer = [kind |-> "end", first |-> 0, last |-> 0]
        BY <1>0, <2>6 DEF BatchesInv, Answers, Types, Answer
      <3> QED BY <1>0, <2>1, <2>2, <2>3, <2>4, <2>5, <3>1
    <2>7. CASE answer.kind # "end"
      <3>1. answer.kind \in {"none", "batch"}
        BY <1>0, <2>7 DEF BatchesInv, Answers, Types, Answer
      <3>2. NextLine > Len(RowFlags)
        BY <1>0, <2>2, FlagsType
      <3>3. L!Finish
        BY <2>1, <2>2, <2>5, <3>1, <3>2, MappedDefs DEF L!Finish, RowFlags, Mapped
      <3> QED BY <2>3, <2>4, <3>3
    <2> QED BY <2>6, <2>7
  <1>3. CASE ParseRow
    <2>1. ~ failed' /\ table' = table /\ answer' = answer /\ ~ done /\ ~ done'
          /\ pos' = pos + 1 /\ calling' /\ calling /\ rows' = rows + 1 /\ from' = from
          /\ pos < Len(table) /\ Current.kind = "row" /\ Fill(Columns)
      BY <1>3 DEF ParseRow, Reading, More, historyVars
    <2>2. NextLine \in Nat /\ NextLine >= 1 /\ rows \in Nat /\ Rows \in Nat /\ NextLine = from
          /\ Parsed = NextLine - 1 + rows /\ pos = Parsed /\ Parsed + 1 <= Rows /\ Parsed \in Nat
          /\ \A k \in NextLine .. Parsed : table[k].kind = "row"
      BY <2>1, CleanFacts
    <2>3. NextLine' = NextLine /\ Parsed' = Parsed + 1 /\ Rows' = Rows
      BY <2>1, <2>2, RowsStay DEF NextLine, Parsed
    <2>4. \A k \in NextLine .. Parsed + 1 : table[k].kind = "row"
      BY <2>1, <2>2 DEF Current
    <2>5. ASSUME NEW c \in Cols
          PROVE  /\ Len(builders'[c]) = Parsed + 1 - NextLine + 1
                 /\ \A i \in 1 .. Len(builders'[c]) : builders'[c][i] = NextLine + i - 1
      <3>1. builders'[c] = Append(builders[c], pos + 1) /\ builders[c] \in Column
        BY <1>0, <2>1, BlockTypes, ColsFacts DEF Fill, Cols
      <3>2. /\ Len(builders[c]) = Parsed - NextLine + 1
            /\ \A i \in 1 .. Len(builders[c]) : builders[c][i] = NextLine + i - 1
        BY DEF BatchesInv, Clean
      <3>3. /\ Len(builders'[c]) = Len(builders[c]) + 1 /\ Len(builders[c]) \in Nat
            /\ \A i \in 1 .. Len(builders[c]) : builders'[c][i] = builders[c][i]
            /\ builders'[c][Len(builders[c]) + 1] = pos + 1
        BY <3>1 DEF Column
      <3> QED BY <2>2, <3>2, <3>3
    <2>6. Clean'
      BY <2>1, <2>2, <2>3, <2>4, <2>5 DEF Clean
    <2>7. Answers'
      BY <2>1, <2>3 DEF BatchesInv, Answers
    <2>8. Kept
      BY <2>1, <2>3 DEF RowFlags, Mapped
    <2> QED BY <1>0, <2>6, <2>7, <2>8
  <1>4. CASE ParseFails \/ ReadFails
    <2>1. Reading /\ pos < Len(table) /\ Current.kind \in {"bad", "io"} /\ failed'
          /\ table' = table /\ from' = from /\ ~ calling' /\ Returns("err")
      BY <1>4 DEF ParseFails, ReadFails, More
    <2>2. L!Fail
      BY <2>1, FailingRefines
    <2> QED BY <2>1, <2>2 DEF Clean, Answers, Returns
  <1>5. CASE LastLine
    <2>1. ~ failed' /\ table' = table /\ answer' = answer /\ builders' = builders /\ ~ done /\ done'
          /\ calling' /\ calling /\ rows' = rows /\ from' = from
          /\ (pos < Len(table) => Current.kind = "marker")
      BY <1>5 DEF LastLine, Reading, historyVars
    <2>2. NextLine' = NextLine /\ Parsed' = Parsed /\ Rows' = Rows /\ Parsed = Rows
      BY <2>1, CleanFacts, RowsStay DEF NextLine, Parsed
    <2>3. Clean'
      BY <2>1, <2>2 DEF BatchesInv, Clean
    <2>4. Answers'
      BY <2>1, <2>2 DEF BatchesInv, Answers
    <2>5. Kept
      BY <2>1, <2>2 DEF RowFlags, Mapped
    <2> QED BY <1>0, <2>3, <2>4, <2>5
  <1>6. CASE Nothing
    <2>1. ~ failed' /\ table' = table /\ builders' = builders /\ pos' = pos /\ done' = done
          /\ ~ calling' /\ calling /\ rows' = rows /\ rows = 0 /\ from' = from
          /\ answer' = [kind |-> "end", first |-> 0, last |-> 0] /\ done
      BY <1>6, TablesAssumption DEF Nothing, LoopEnds, Returns, historyVars
    <2>2. NextLine = from /\ Parsed = NextLine - 1 /\ Parsed = Rows /\ Rows \in Nat /\ NextLine \in Nat
      BY <2>1, CleanFacts
    <2>3. NextLine' = NextLine /\ Parsed' = Parsed /\ Rows' = Rows
      BY <2>1, <2>2, RowsStay DEF NextLine, Parsed
    <2>4. Clean'
      BY <2>1, <2>2, <2>3 DEF BatchesInv, Clean
    <2>5. Answers'
      BY <2>1, <2>2, <2>3 DEF Answers
    <2>6. answer.kind \in {"none", "batch"}
      BY <1>0, <2>1 DEF BatchesInv, Inv, EndKnown, Answers, Types, Answer
    <2>7. NextLine > Len(RowFlags) /\ RowFlags' = RowFlags
      BY <1>0, <2>1, <2>2, <2>3, FlagsType DEF RowFlags
    <2>8. L!Finish
      BY <2>1, <2>3, <2>6, <2>7, MappedDefs DEF L!Finish, RowFlags
    <2> QED BY <2>4, <2>5, <2>8
  <1>7. CASE FinishBatch
    <2>1. ~ failed' /\ table' = table /\ builders' = Empty /\ pos' = pos /\ done' = done
          /\ ~ calling' /\ calling /\ rows' = rows /\ rows > 0 /\ from' = from
          /\ (done \/ rows = BatchSize)
          /\ answer' = [kind |-> "batch", first |-> builders[1][1],
                        last |-> builders[1][Len(builders[1])]]
      BY <1>7 DEF FinishBatch, LoopEnds
    <2>2. /\ NextLine \in Nat /\ NextLine >= 1 /\ rows \in Nat /\ Rows \in Nat /\ NextLine = from
          /\ rows <= BatchSize /\ BatchSize \in Nat
          /\ Parsed = NextLine - 1 + rows /\ Parsed <= Rows /\ Parsed \in Nat
          /\ \A k \in NextLine .. Parsed : table[k].kind = "row"
          /\ (done => Parsed = Rows) /\ (~ done => pos = Parsed)
      BY <2>1, CleanFacts
    <2>3. Len(builders[1]) = rows /\ \A i \in 1 .. rows : builders[1][i] = NextLine + i - 1
      BY <2>2, ColsFacts DEF BatchesInv, Clean
    <2>4. builders[1][1] = NextLine /\ builders[1][Len(builders[1])] = Parsed
      BY SMTT(40), <2>1, <2>2, <2>3
    <2>5. answer' = [kind |-> "batch", first |-> NextLine, last |-> Parsed]
      BY <2>1, <2>4
    <2>6. NextLine' = Parsed + 1 /\ Parsed' = Parsed /\ Rows' = Rows
      BY <2>1, <2>2, <2>5, RowsStay DEF NextLine, Parsed
    <2>7. \A c \in Cols : builders'[c] = <<>>
      BY <2>1, EmptyBlock
    <2>8. Clean'
      BY <2>1, <2>2, <2>6, <2>7 DEF Clean
    <2>9. Answers'
      BY <2>1 DEF Answers
    <2>10. Len(RowFlags) = Rows /\ RowFlags' = RowFlags
      BY <1>0, <2>1, <2>6, FlagsType DEF RowFlags
    <2>11. L!WindowEnd = Parsed
      BY <2>1, <2>2, <2>10, MappedDefs
    <2>12. L!AllRows
      <3>1. ASSUME NEW k \in NextLine .. Parsed PROVE RowFlags[k] = TRUE
        <4>1. k \in 1 .. Rows /\ table[k].kind = "row"
          BY <2>2
        <4> QED BY <4>1 DEF RowFlags
      <3> QED BY <2>11, <3>1, MappedDefs
    <2>13. answer.kind \in {"none", "batch"}
      BY <1>0, <2>1 DEF BatchesInv, Inv, EndKnown, Answers, Types, Answer
    <2>14. L!Batch
      BY <2>1, <2>2, <2>5, <2>6, <2>10, <2>11, <2>12, <2>13 DEF L!Batch, L!Lines, RowFlags
    <2> QED BY <2>8, <2>9, <2>14
  <1>8. CASE FinishFails
    <2>1. Rectangular
      BY ColsFacts DEF BatchesInv, Clean, Rectangular, Cols
    <2> QED BY <1>8, <2>1 DEF FinishFails
  <1>9. CASE UNCHANGED vars
    <2>1. UNCHANGED <<table, pos, calling, rows, builders, done, answer, from, failed>>
      BY <1>9 DEF vars, historyVars
    <2>2. NextLine' = NextLine /\ Parsed' = Parsed /\ Rows' = Rows
      BY <2>1, RowsStay DEF NextLine, Parsed
    <2>3. Clean' /\ Answers'
      BY <2>1, <2>2 DEF BatchesInv, Clean, Answers
    <2>4. Kept
      BY <2>1, <2>2 DEF RowFlags, Mapped
    <2> QED BY <1>0, <2>3, <2>4
  <1> QED BY <1>1, <1>2, <1>3, <1>4, <1>5, <1>6, <1>7, <1>8, <1>9 DEF Next, Work

(* Up to its first error next_batch returns the lines as LineBatches does: *)
(* full batches in order, the rest at the end, no row past a bad line.     *)
THEOREM ImplementsLineBatchesSafety == Spec => L!Spec
  <1>1. Init => BatchesInv /\ L!Init
    BY InitBatches
  <1>2. ASSUME BatchesInv, [Next]_vars
        PROVE  BatchesInv' /\ [L!Batch \/ L!Fail \/ L!Finish]_L!vars
    <2>1. Inv' /\ Types
      BY <1>2, NextInv DEF BatchesInv, Inv, AlignInv
    <2>2. CASE failed
      <3>1. UNCHANGED L!vars /\ failed'
        BY <1>2, <2>1, <2>2, FailedStutters
      <3>2. Answers'
        <4>1. \/ answer' = answer \/ answer'.kind = "batch" \/ Returns("end") \/ Returns("err")
          BY <1>2 DEF Next, Work, Call, CallDone, ParseRow, ParseFails, ReadFails, LastLine,
                      Nothing, FinishBatch, FinishFails, vars, historyVars
        <4>2. answer'.kind \in {"none", "end", "err"} => answer'.first = 0 /\ answer'.last = 0
          BY <1>2, <4>1 DEF BatchesInv, Answers, Returns
        <4> QED BY <3>1, <4>2 DEF Answers
      <3> QED BY <2>1, <3>1, <3>2 DEF BatchesInv, Clean
    <2>3. CASE ~ failed
      BY <1>2, <2>1, <2>3, BatchesNext DEF BatchesInv
    <2> QED BY <2>2, <2>3
  <1> QED BY <1>1, <1>2, PTL DEF Spec, L!Spec
=============================================================================

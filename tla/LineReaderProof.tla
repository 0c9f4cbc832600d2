--------------------------- MODULE LineReaderProof ---------------------------
(***************************************************************************)
(* For every stream, every sequence of buffer sizes and read errors        *)
(* anywhere, as many as there may be: TsvStream delivers a prefix of the   *)
(* table, and read_until takes lines from it that are whole but for what   *)
(* a second error in a line costs, gets on with every step, and stays at   *)
(* the end when it is there.                                               *)
(***************************************************************************)
EXTENDS LineReader, Lemmas

Byte == Nat \X Nat
LenOf(l) == IF l = 0 THEN stream.header ELSE stream.lines[l].len
LineCount == Len(stream.lines)

(* What the buffer of the stream holds and read has not delivered.         *)
Rest == SubSeq(buffer, bufferPos + 1, Len(buffer))

StreamTypes ==
    /\ stream \in Streams
    /\ line \in 1 .. LineCount + 1 /\ off \in Nat
    /\ hpos \in 0 .. stream.header
    /\ buffer \in Seq(Byte) /\ bufferPos \in 0 .. Len(buffer) /\ out \in Seq(Byte)
    /\ faults \in Seq(Byte) /\ Len(faults) <= MaxFaults
    /\ doneHeader \in BOOLEAN /\ done \in BOOLEAN
    /\ asked \in Sizes \cup {0} /\ last \in {"none", "data", "eof", "err"}

(* A line is taken in parts only where the reader failed, and to its end   *)
(* only if it has no newline.                                              *)
AtError ==
    /\ line <= LineCount /\ off <= LenOf(line)
    /\ off = LenOf(line) => line = LineCount /\ stream.open
    /\ \E i \in DOMAIN faults : faults[i] = <<line, off>>

(* The header comes before all lines and all errors; nothing is held back  *)
(* at the end.                                                             *)
Phases ==
    /\ ~ doneHeader => line = 1 /\ off = 0 /\ buffer = <<>> /\ ~ done /\ faults = <<>>
    /\ doneHeader => hpos = stream.header
    /\ off # 0 => AtError
    /\ done => buffer = <<>>

StreamInv == StreamTypes /\ Phases

(* What was taken from the stream is the text up to the position.          *)
Delivered ==
    /\ ~ doneHeader => out = Bytes(0, 0, hpos)
    /\ doneHeader /\ ~ done => out \o Rest = Text(line - 1) \o Bytes(line, 0, off)

(* As long as the marker was not split, no line read was the marker.       *)
BeforeMarker ==
    ~ MarkerSplit =>
        /\ ~ done => \A k \in 1 .. line - 1 : k \notin Marked
        /\ done => IsPrefix(out, Text(LastLine))

TextInv == StreamInv /\ Delivered /\ BeforeMarker

-----------------------------------------------------------------------------
ReaderTypes ==
    /\ unread \in Seq(Byte) /\ lineBuf \in Seq(Byte) /\ lines \in Seq(Seq(Byte))
    /\ reading \in BOOLEAN /\ answer \in {"none", "line", "end", "err"}

(* What was taken of the line under way.                                   *)
Taken == IF reading THEN lineBuf ELSE <<>>

(* The stream has fetched line c, whole or up to an error, or not at all.  *)
Fetched(c, j) ==
    \/ line = c + 1 /\ off = 0 /\ doneHeader /\ j <= LenOf(c) /\ Rest = Bytes(c, j, LenOf(c))
    \/ line = c /\ j <= off /\ Rest = Bytes(c, j, off)

LastOpen(c) == c # 0 /\ c = LineCount /\ stream.open

(* The first b bytes of line c were lost by a second error.                *)
Lost(c, b) == b \in CutsIn(c) \/ (c # 0 /\ c = LineCount /\ LastLineLost /\ b = LenOf(c))

(* Of line c the bytes up to b are lost, from there up to i taken and up   *)
(* to j delivered; only a last line without a newline can be taken to its  *)
(* end and not be answered yet.                                            *)
At(c, b, i, j) ==
    /\ b <= i /\ i <= j /\ c <= LineCount + 1 /\ Len(lines) = c
    /\ Taken = Bytes(c, b, i) /\ unread = Bytes(c, i, j)
    /\ b # 0 => Lost(c, b)
    /\ i # 0 => i < LenOf(c) \/ LastOpen(c)
    /\ c = 0 => ~ doneHeader /\ j = hpos
    /\ c # 0 => hpos = stream.header
    /\ done => b = j
    /\ c # 0 /\ ~ done => Fetched(c, j)

WholeLine(c, s) ==
    \/ s = LineBytes(c)
    \/ \E k \in CutsIn(c) : s = Bytes(c, k, stream.lines[c].len)

Whole ==
    ~ (done /\ RowSplit) => \A n \in 1 .. Len(lines) : WholeLine(n - 1, lines[n])

AtEnd ==
    \/ Len(lines) = LastLine + 1
    \/ Len(lines) = LastLine /\ stream.open /\ Torn(LineCount)

Ends ==
    /\ unread # <<>> => reading
    /\ answer = "line" /\ ~ reading => lineBuf # <<>>
    /\ answer = "end" => done
    /\ ~ MarkerSplit /\ ~ RowSplit /\ done => AtEnd

ReaderInv ==
    /\ TextInv /\ ReaderTypes /\ Whole /\ Ends /\ Accounted
    /\ \E c, b, i, j \in Nat : At(c, b, i, j)

-----------------------------------------------------------------------------
(* Parts of a line.                                                        *)
LEMMA BytesAre ==
  ASSUME NEW l \in Nat, NEW i \in Nat, NEW j \in Nat, i <= j
  PROVE  /\ Bytes(l, i, j) \in Seq(Byte) /\ Len(Bytes(l, i, j)) = j - i
         /\ \A k \in 1 .. j - i : Bytes(l, i, j)[k] = <<l, i + k>>
  <1>1. j - i \in Nat
    OBVIOUS
  <1>2. \A k \in 1 .. j - i : <<l, i + k>> \in Byte
    BY DEF Byte
  <1> QED BY <1>1, <1>2 DEF Bytes

LEMMA BytesNone == \A l, i \in Nat : Bytes(l, i, i) = <<>>
  <1> SUFFICES ASSUME NEW l \in Nat, NEW i \in Nat PROVE Bytes(l, i, i) = <<>>
    OBVIOUS
  <1>1. Bytes(l, i, i) \in Seq(Byte) /\ Len(Bytes(l, i, i)) = 0
    BY BytesAre
  <1> QED BY <1>1, EmptySeq

LEMMA BytesJoin ==
  ASSUME NEW l \in Nat, NEW i \in Nat, NEW j \in Nat, NEW k \in Nat, i <= j, j <= k
  PROVE  Bytes(l, i, j) \o Bytes(l, j, k) = Bytes(l, i, k)
  <1> DEFINE s == Bytes(l, i, j)
             t == Bytes(l, j, k)
             u == Bytes(l, i, k)
  <1>a. s \in Seq(Byte) /\ Len(s) = j - i /\ \A m \in 1 .. j - i : s[m] = <<l, i + m>>
    BY BytesAre
  <1>b. t \in Seq(Byte) /\ Len(t) = k - j /\ \A m \in 1 .. k - j : t[m] = <<l, j + m>>
    BY BytesAre
  <1>c. u \in Seq(Byte) /\ Len(u) = k - i /\ \A m \in 1 .. k - i : u[m] = <<l, i + m>>
    <2>1. i <= k
      OBVIOUS
    <2> QED BY <2>1, BytesAre
  <1> HIDE DEF s, t, u
  <1>1. Len(s) \in Nat /\ Len(t) \in Nat /\ Len(s) + Len(t) = k - i
    BY <1>a, <1>b
  <1>2. /\ s \o t \in Seq(Byte) /\ Len(s \o t) = Len(s) + Len(t)
        /\ \A m \in 1 .. Len(s) + Len(t) :
               (s \o t)[m] = IF m <= Len(s) THEN s[m] ELSE t[m - Len(s)]
    BY <1>a, <1>b, ConcatProperties
  <1>3. ASSUME NEW m \in 1 .. k - i PROVE (s \o t)[m] = u[m]
    <2>1. CASE m <= j - i
      <3>1. m \in 1 .. Len(s) + Len(t) /\ m <= Len(s) /\ m \in 1 .. j - i
        BY <1>1, <1>a, <2>1
      <3>2. (s \o t)[m] = s[m]
        BY <1>2, <3>1
      <3> QED BY <1>a, <1>c, <3>1, <3>2
    <2>2. CASE ~ (m <= j - i)
      <3>1. m - (j - i) \in 1 .. k - j /\ j + (m - (j - i)) = i + m
        BY <2>2
      <3>2. m \in 1 .. Len(s) + Len(t) /\ ~ (m <= Len(s))
        BY <1>1, <1>a, <2>2
      <3>3. (s \o t)[m] = t[m - (j - i)]
        BY <1>a, <1>2, <3>2
      <3> QED BY <1>b, <1>c, <3>1, <3>3
    <2> QED BY <2>1, <2>2
  <1>4. s \o t = u
    <2>1. Len(s \o t) = Len(u) /\ \A m \in 1 .. Len(s \o t) : (s \o t)[m] = u[m]
      BY <1>1, <1>c, <1>2, <1>3
    <2> QED BY <1>c, <1>2, <2>1, SeqEqual
  <1> QED BY <1>4 DEF s, t, u

LEMMA BytesAssociative == \A s, t, u \in Seq(Byte) : (s \o t) \o u = s \o (t \o u)
  BY ConcatAssociative

(* What is read from the buffer, and what stays in it.                     *)
LEMMA RestSplit ==
  ASSUME NEW b \in Seq(Byte), NEW p \in 0 .. Len(b), NEW q \in p .. Len(b)
  PROVE  /\ SubSeq(b, p + 1, q) \in Seq(Byte) /\ Len(SubSeq(b, p + 1, q)) = q - p
         /\ SubSeq(b, q + 1, Len(b)) \in Seq(Byte) /\ Len(SubSeq(b, q + 1, Len(b))) = Len(b) - q
         /\ SubSeq(b, p + 1, Len(b)) = SubSeq(b, p + 1, q) \o SubSeq(b, q + 1, Len(b))
  <1>1. Len(b) \in Nat /\ p \in Nat /\ q \in Nat /\ p <= q /\ q <= Len(b)
    OBVIOUS
  <1>2. \A m \in 1 .. Len(b) : b[m] \in Byte
    BY ElementOfSeq
  <1>3. SubSeq(b, p + 1, q) \in Seq(Byte) /\ Len(SubSeq(b, p + 1, q)) = q - p
    <2>1. \A m \in p + 1 .. q : b[m] \in Byte
      BY <1>1, <1>2
    <2>2. /\ SubSeq(b, p + 1, q) \in Seq(Byte)
          /\ Len(SubSeq(b, p + 1, q)) = IF p + 1 <= q THEN q - (p + 1) + 1 ELSE 0
      BY <1>1, <2>1, SubSeqProperties
    <2> QED BY <1>1, <2>2
  <1>4. SubSeq(b, q + 1, Len(b)) \in Seq(Byte) /\ Len(SubSeq(b, q + 1, Len(b))) = Len(b) - q
    <2>1. \A m \in q + 1 .. Len(b) : b[m] \in Byte
      BY <1>1, <1>2
    <2>2. /\ SubSeq(b, q + 1, Len(b)) \in Seq(Byte)
          /\ Len(SubSeq(b, q + 1, Len(b))) = IF q + 1 <= Len(b) THEN Len(b) - (q + 1) + 1 ELSE 0
      BY <1>1, <2>1, SubSeqProperties
    <2> QED BY <1>1, <2>2
  <1>5. SubSeq(b, p + 1, Len(b)) = SubSeq(b, p + 1, q) \o SubSeq(b, q + 1, Len(b))
    <2>1. p + 1 \in 1 .. Len(b) + 1 /\ q \in (p + 1) - 1 .. Len(b) /\ Len(b) \in q .. Len(b)
      BY <1>1
    <2> QED BY <2>1, ConcatAdjacentSubSeq
  <1> QED BY <1>3, <1>4, <1>5

-----------------------------------------------------------------------------
LEMMA StreamFacts ==
  ASSUME StreamTypes
  PROVE  /\ LineCount \in Nat /\ stream.header \in Nat \ {0}
         /\ stream.open \in BOOLEAN /\ (stream.open => LineCount # 0)
         /\ \A l \in 1 .. LineCount : stream.lines[l].len \in Nat \ {0} /\ LenOf(l) = stream.lines[l].len
         /\ LenOf(0) = stream.header
         /\ line \in Nat /\ line >= 1 /\ hpos \in Nat /\ bufferPos \in Nat
         /\ Len(buffer) \in Nat /\ bufferPos <= Len(buffer)
  <1>1. stream \in Stream
    BY StreamsAssumption DEF StreamTypes
  <1>2. stream.lines \in Seq(Line)
    BY <1>1 DEF Stream
  <1>3. LineCount \in Nat /\ \A l \in 1 .. LineCount : stream.lines[l] \in Line
    BY <1>2, ElementOfSeq, LenProperties DEF LineCount
  <1>4. \A l \in 1 .. LineCount : stream.lines[l].len \in Nat \ {0} /\ LenOf(l) = stream.lines[l].len
    BY <1>3 DEF Line, LenOf
  <1>5. /\ stream.header \in Nat \ {0} /\ stream.open \in BOOLEAN
        /\ stream.open => stream.lines # <<>>
    BY <1>1 DEF Stream
  <1>6. stream.open => LineCount # 0
    BY <1>2, <1>5, EmptySeq DEF LineCount
  <1> QED BY <1>3, <1>4, <1>5, <1>6 DEF StreamTypes, LenOf

LEMMA InitStream == Init => StreamInv
  <1> SUFFICES ASSUME Init PROVE StreamInv
    OBVIOUS
  <1>1. stream \in Stream
    BY StreamsAssumption DEF Init
  <1>2. LineCount \in Nat /\ stream.header \in Nat
    BY <1>1, LenProperties DEF Stream, LineCount
  <1>3. /\ line \in 1 .. LineCount + 1 /\ off \in Nat /\ hpos \in 0 .. stream.header
        /\ buffer \in Seq(Byte) /\ bufferPos \in 0 .. Len(buffer) /\ out \in Seq(Byte)
        /\ faults \in Seq(Byte) /\ Len(faults) <= MaxFaults
    BY <1>2, EmptySeq, StreamsAssumption DEF Init
  <1>4. StreamTypes
    BY <1>3 DEF Init, StreamTypes
  <1> QED BY <1>4 DEF Init, StreamInv, Phases

(* A read past the header: the header was delivered, or was before.        *)
LEMMA HeaderPassed ==
  ASSUME StreamInv, NEW n \in Sizes, PastHeader(n)
  PROVE  hpos = stream.header /\ doneHeader'
  <1>1. n \in Nat \ {0} /\ hpos \in 0 .. stream.header /\ stream.header \in Nat
    BY StreamFacts, StreamsAssumption, BufferAssumption DEF StreamInv, StreamTypes
  <1>2. doneHeader \/ ~ (hpos < stream.header)
    BY <1>1 DEF PastHeader, HeaderYields
  <1> QED BY <1>1, <1>2 DEF StreamInv, Phases, PastHeader

(* What the ways through read do to the buffer.                            *)
LEMMA LineFetched ==
  ASSUME StreamInv, NEW n \in Sizes, ReadLine(n)
  PROVE  /\ line \in 1 .. LineCount /\ off \in Nat /\ off < LenOf(line) /\ LenOf(line) \in Nat
         /\ buffer' = Bytes(line, off, LenOf(line)) /\ buffer' \in Seq(Byte)
         /\ Len(buffer') \in Nat /\ bufferPos' \in 0 .. Len(buffer')
  <1>1. line \in 1 .. LineCount
    BY SMTT(40), StreamFacts DEF StreamInv, StreamTypes, ReadLine, AtStreamEnd, LineCount
  <1>2. LenOf(line) \in Nat /\ LenOf(line) > 0 /\ off \in Nat /\ LenOf(line) = stream.lines[line].len
    BY SMTT(40), <1>1, StreamFacts DEF StreamInv, StreamTypes
  <1>3. off < LenOf(line)
    <2>1. off # LenOf(line)
      BY <1>1, <1>2 DEF ReadLine, AtStreamEnd, LineCount
    <2>2. off # 0 => off <= LenOf(line)
      BY DEF StreamInv, Phases, AtError
    <2> QED BY ONLY <1>2, <2>1, <2>2
  <1>4. buffer' = Bytes(line, off, LenOf(line))
    BY <1>1, StreamFacts DEF StreamInv, ReadLine
  <1>5. buffer' \in Seq(Byte) /\ Len(buffer') \in Nat
    <2>1. line \in Nat /\ off <= LenOf(line)
      BY <1>1, <1>2, <1>3, StreamFacts DEF StreamInv
    <2>2. Bytes(line, off, LenOf(line)) \in Seq(Byte)
      BY <1>2, <2>1, BytesAre
    <2> QED BY <1>4, <2>2, LenProperties
  <1>6. bufferPos' \in 0 .. Len(buffer')
    <2>1. bufferPos' = Smaller(n, Len(buffer'))
      BY DEF ReadLine
    <2>2. n \in Nat
      BY StreamsAssumption
    <2> QED BY ONLY <1>5, <2>1, <2>2 DEF Smaller
  <1> QED BY <1>1, <1>2, <1>3, <1>4, <1>5, <1>6

(* What a failing read leaves in the buffer, and where.                    *)
LEMMA PartFetched ==
  ASSUME StreamInv, NEW n \in Sizes, ReadFault(n)
  PROVE  \E k \in Nat :
            /\ off <= k /\ off' = k /\ bufferPos' = 0
            /\ faults' = Append(faults, <<line, k>>)
            /\ faults' \in Seq(Byte) /\ Len(faults') = Len(faults) + 1 /\ Len(faults') <= MaxFaults
            /\ buffer' = Bytes(line, off, k) /\ buffer' \in Seq(Byte)
            /\ line <= LineCount =>
                  /\ k <= LenOf(line)
                  /\ k = LenOf(line) => line = LineCount /\ stream.open
            /\ line > LineCount => off = 0 /\ k = 0
  <1>1. /\ line \in Nat /\ LineCount \in Nat /\ off \in Nat /\ line >= 1
        /\ Len(faults) \in Nat /\ faults \in Seq(Byte) /\ MaxFaults \in Nat
    BY StreamFacts, StreamsAssumption, LenProperties DEF StreamInv, StreamTypes
  <1>2. PICK k \in ErrorAt :
           /\ faults' = Append(faults, <<line, k>>) /\ off' = k
           /\ buffer' = Bytes(line, off, k)
    BY DEF ReadFault
  <1>3. Len(faults) < MaxFaults /\ bufferPos' = 0
    BY DEF ReadFault
  <1>4. CASE line > LineCount
    <2>1. k = 0 /\ off = 0
      BY <1>1, <1>2, <1>4 DEF ErrorAt, LineCount, StreamInv, Phases, AtError
    <2>2. off <= k /\ k \in Nat /\ ~ (line <= LineCount)
      BY ONLY <1>1, <1>4, <2>1
    <2>3. Bytes(line, off, k) \in Seq(Byte)
      BY ONLY <1>1, <2>2, BytesAre
    <2>4. <<line, k>> \in Byte
      BY ONLY <1>1, <2>2 DEF Byte
    <2>5. /\ faults' \in Seq(Byte) /\ Len(faults') = Len(faults) + 1
      BY ONLY <1>1, <1>2, <2>4, AppendProperties
    <2> QED BY ONLY <1>1, <1>2, <1>3, <2>1, <2>2, <2>3, <2>5
  <1>5. CASE ~ (line > LineCount)
    <2>1. line \in 1 .. LineCount
      BY <1>1, <1>5
    <2>2. LenOf(line) \in Nat \ {0} /\ LenOf(line) = stream.lines[line].len
      BY <2>1, StreamFacts DEF StreamInv
    <2>3. k \in Nat /\ off <= k /\ k <= LenOf(line)
          /\ (k = LenOf(line) => line = LineCount /\ stream.open)
      BY <1>1, <1>2, <1>5, <2>2 DEF ErrorAt, LineCount
    <2>4. Bytes(line, off, k) \in Seq(Byte)
      BY <1>1, <2>3, BytesAre
    <2>5. /\ faults' \in Seq(Byte) /\ Len(faults') = Len(faults) + 1
      BY <1>1, <1>2, <2>3, AppendProperties DEF Byte
    <2> QED BY <1>1, <1>2, <1>3, <1>5, <2>3, <2>4, <2>5
  <1> QED BY <1>4, <1>5

(* The last error is where the reader stands after it.                     *)
LEMMA FaultNoted ==
  ASSUME NEW s \in Seq(Byte), NEW f \in Byte
  PROVE  /\ Append(s, f) \in Seq(Byte) /\ Len(Append(s, f)) = Len(s) + 1
         /\ DOMAIN s = 1 .. Len(s) /\ DOMAIN Append(s, f) = 1 .. Len(s) + 1
         /\ \A i \in DOMAIN s : i \in DOMAIN Append(s, f) /\ Append(s, f)[i] = s[i]
         /\ Len(s) + 1 \in DOMAIN Append(s, f) /\ Append(s, f)[Len(s) + 1] = f
         /\ \A i \in DOMAIN s : i < Len(s) + 1
  BY AppendProperties, LenProperties

LEMMA FromBuffer ==
  ASSUME StreamInv, NEW n \in Sizes, ReadBuffer(n)
  PROVE  /\ bufferPos' \in bufferPos .. Len(buffer) /\ buffer' = buffer /\ ~ done
         /\ out' = out \o SubSeq(buffer, bufferPos + 1, bufferPos')
         /\ SubSeq(buffer, bufferPos + 1, bufferPos') \in Seq(Byte)
  <1>1. n \in Nat /\ bufferPos \in Nat /\ Len(buffer) \in Nat /\ bufferPos < Len(buffer)
    BY StreamFacts, StreamsAssumption DEF StreamInv, ReadBuffer, Buffered
  <1>2. bufferPos' \in bufferPos .. Len(buffer)
    BY <1>1 DEF ReadBuffer, Smaller
  <1>3. buffer # <<>>
    BY <1>1, EmptySeq
  <1> QED BY <1>1, <1>2, <1>3, RestSplit DEF StreamInv, StreamTypes, Phases, ReadBuffer

LEMMA FromHeader ==
  ASSUME StreamInv, NEW n \in Sizes, ReadHeader(n)
  PROVE  /\ ~ doneHeader /\ hpos \in Nat /\ hpos' \in Nat /\ hpos < hpos' /\ hpos' <= stream.header
         /\ out' = out \o Bytes(0, hpos, hpos') /\ Bytes(0, hpos, hpos') \in Seq(Byte)
  <1>1. n \in Nat \ {0} /\ hpos \in Nat /\ stream.header \in Nat /\ hpos < stream.header
    BY StreamFacts, StreamsAssumption, BufferAssumption DEF StreamInv, ReadHeader, HeaderYields
  <1>2. hpos' \in Nat /\ hpos < hpos' /\ hpos' <= stream.header
    BY <1>1 DEF ReadHeader, Smaller
  <1> QED BY <1>1, <1>2, BytesAre DEF ReadHeader, HeaderYields

LEMMA SplitLine ==
  ASSUME StreamInv, NEW n \in Sizes, ReadLine(n)
  PROVE  /\ out' = out \o SubSeq(buffer', 1, bufferPos')
         /\ SubSeq(buffer', 1, bufferPos') \in Seq(Byte) /\ Rest' \in Seq(Byte)
         /\ Bytes(line, off, LenOf(line)) = SubSeq(buffer', 1, bufferPos') \o Rest'
  <1>1. /\ buffer' = Bytes(line, off, LenOf(line)) /\ buffer' \in Seq(Byte)
        /\ bufferPos' \in 0 .. Len(buffer') /\ Len(buffer') \in Nat
    BY LineFetched
  <1>2. PICK b \in Seq(Byte), q \in Nat : b = buffer' /\ q = bufferPos' /\ q \in 0 .. Len(b)
    BY <1>1
  <1>3. /\ SubSeq(b, 1, q) \in Seq(Byte) /\ SubSeq(b, q + 1, Len(b)) \in Seq(Byte)
        /\ SubSeq(b, 1, Len(b)) = SubSeq(b, 1, q) \o SubSeq(b, q + 1, Len(b))
    <2>1. Len(b) \in Nat /\ 0 \in 0 .. Len(b) /\ q \in 0 .. Len(b) /\ 0 + 1 = 1
      BY <1>2
    <2>2. /\ SubSeq(b, 0 + 1, q) \in Seq(Byte) /\ SubSeq(b, q + 1, Len(b)) \in Seq(Byte)
          /\ SubSeq(b, 0 + 1, Len(b)) = SubSeq(b, 0 + 1, q) \o SubSeq(b, q + 1, Len(b))
      BY <2>1, RestSplit
    <2> QED BY <2>1, <2>2
  <1>4. SubSeq(b, 1, Len(b)) = b
    BY SubSeqFull
  <1> QED BY <1>1, <1>2, <1>3, <1>4 DEF ReadLine, Rest

(* Every way through read keeps the types and the phases.                  *)
LEMMA ReadKeeps ==
  ASSUME StreamInv, NEW n \in Sizes, asked' = n,
         \/ ReadDone(n) \/ ReadHeader(n) \/ ReadBuffer(n) \/ ReadFault(n)
         \/ ReadStreamEnd(n) \/ ReadMarker(n) \/ ReadLine(n)
  PROVE  StreamInv'
  <1>0. StreamTypes /\ Phases /\ asked' \in Sizes \cup {0}
    BY DEF StreamInv
  <1>1. CASE ReadDone(n)
    BY <1>0, <1>1 DEF ReadDone, innerVars, StreamInv, StreamTypes, Phases, AtError, LenOf, LineCount
  <1>2. CASE ReadHeader(n)
    <2>1. hpos' \in 0 .. stream.header /\ ~ doneHeader
      BY <1>0, <1>2, FromHeader, StreamFacts
    <2>2. out' \in Seq(Byte)
      BY ZenonT(60), <1>0, <1>2, FromHeader, ConcatProperties DEF StreamTypes
    <2> QED BY <1>0, <1>2, <2>1, <2>2 DEF ReadHeader, innerVars, StreamInv, StreamTypes, Phases, AtError, LenOf, LineCount
  <1>3. CASE ReadBuffer(n)
    <2>1. bufferPos' \in 0 .. Len(buffer) /\ buffer' = buffer /\ ~ done
      BY <1>0, <1>3, FromBuffer, StreamFacts
    <2>3. out' \in Seq(Byte)
      BY <1>0, <1>3, FromBuffer, ConcatProperties DEF StreamTypes
    <2>2. doneHeader' = TRUE /\ hpos = stream.header
      BY <1>3, HeaderPassed DEF ReadBuffer, PastHeader
    <2> QED BY <1>0, <1>3, <2>1, <2>2, <2>3
          DEF ReadBuffer, innerVars, StreamInv, StreamTypes, Phases, AtError, LenOf, LineCount
  <1>4. CASE ReadFault(n)
    <2>1. PICK k \in Nat :
             /\ off' = k /\ bufferPos' = 0 /\ faults' = Append(faults, <<line, k>>)
             /\ faults' \in Seq(Byte) /\ Len(faults') <= MaxFaults /\ buffer' \in Seq(Byte)
             /\ line <= LineCount =>
                   k <= LenOf(line) /\ (k = LenOf(line) => line = LineCount /\ stream.open)
             /\ line > LineCount => k = 0
      BY <1>0, <1>4, PartFetched
    <2>2. doneHeader' = TRUE /\ hpos = stream.header /\ ~ done /\ UNCHANGED <<stream, line, hpos, done>>
      BY <1>4, HeaderPassed DEF ReadFault, Fetching, PastHeader
    <2>3. \E i \in DOMAIN faults' : faults'[i] = <<line, k>>
      <3>1. faults \in Seq(Byte) /\ <<line, k>> \in Byte
        BY <1>0, StreamFacts DEF StreamTypes, Byte
      <3> QED BY <2>1, <3>1, FaultNoted
    <2>4. (off # 0 => AtError)'
      <3>1. line \in Nat /\ LineCount \in Nat /\ (k # 0 => line <= LineCount)
        BY <1>0, <2>1, StreamFacts
      <3>2. LineCount' = LineCount /\ (LenOf(line))' = LenOf(line) /\ off' = k /\ line' = line
        BY <2>1, <2>2 DEF LenOf, LineCount
      <3>3. (\E i \in DOMAIN faults : faults[i] = <<line, off>>)'
        BY <2>3, <3>2
      <3> QED BY <2>1, <2>2, <3>1, <3>2, <3>3 DEF AtError
    <2>5. bufferPos' \in 0 .. Len(buffer')
      BY <2>1, LenProperties
    <2>6. StreamTypes'
      BY <1>0, <1>4, <2>1, <2>2, <2>5 DEF ReadFault, StreamTypes, LineCount
    <2> QED BY <2>2, <2>4, <2>6 DEF StreamInv, Phases
  <1>5. CASE ReadStreamEnd(n)
    <2>1. buffer' \in Seq(Byte) /\ bufferPos' \in 0 .. Len(buffer')
      BY <1>5, EmptySeq DEF ReadStreamEnd
    <2>2. doneHeader' = TRUE /\ hpos = stream.header
      BY <1>5, HeaderPassed DEF ReadStreamEnd, Fetching, PastHeader
    <2> QED BY <1>0, <1>5, <2>1, <2>2
          DEF ReadStreamEnd, innerVars, StreamInv, StreamTypes, Phases, AtError, LenOf, LineCount
  <1>6. CASE ReadMarker(n)
    <2>1. buffer' \in Seq(Byte) /\ bufferPos' \in 0 .. Len(buffer')
      BY <1>6, EmptySeq DEF ReadMarker
    <2>2. doneHeader' = TRUE /\ hpos = stream.header
      BY <1>6, HeaderPassed DEF ReadMarker, Fetching, PastHeader
    <2>3. line' \in 1 .. LineCount + 1 /\ off' = 0
      BY SMTT(40), <1>0, <1>6, StreamFacts DEF ReadMarker, AtMarker, AtStreamEnd, StreamTypes, LineCount
    <2> QED BY <1>0, <1>6, <2>1, <2>2, <2>3
          DEF ReadMarker, StreamInv, StreamTypes, Phases, LineCount
  <1>7. CASE ReadLine(n)
    <2>1. /\ out' \in Seq(Byte) /\ buffer' \in Seq(Byte) /\ bufferPos' \in 0 .. Len(buffer')
          /\ line \in 1 .. LineCount
      <3>1. out \in Seq(Byte)
        BY <1>0 DEF StreamTypes
      <3>2. out' \in Seq(Byte)
        BY <1>0, <1>7, <3>1, SplitLine, ConcatProperties
      <3> QED BY <1>0, <1>7, <3>2, LineFetched
    <2>2. doneHeader' = TRUE /\ hpos = stream.header /\ ~ done
      BY <1>7, HeaderPassed DEF ReadLine, Fetching, PastHeader
    <2>3. line' \in 1 .. LineCount + 1 /\ off' = 0
      <3>1. line' = line + 1 /\ off' = 0
        BY <1>7 DEF ReadLine
      <3>2. LineCount \in Nat
        BY <1>0, StreamFacts
      <3> QED BY ONLY <2>1, <3>1, <3>2
    <2>4. /\ stream' = stream /\ hpos' = hpos /\ faults' = faults /\ done' = FALSE
          /\ last' = "data" /\ asked' \in Sizes \cup {0}
      <3>1. UNCHANGED <<stream, hpos, faults, done>> /\ last' = "data"
        BY <1>7 DEF ReadLine
      <3> QED BY ONLY <1>0, <2>2, <3>1
    <2>5. StreamTypes'
      BY <1>0, <2>1, <2>2, <2>3, <2>4 DEF StreamTypes, LineCount
    <2>6. Phases'
      BY ONLY <2>2, <2>3, <2>4 DEF Phases
    <2> QED BY <2>5, <2>6 DEF StreamInv
  <1> QED BY <1>1, <1>2, <1>3, <1>4, <1>5, <1>6, <1>7

LEMMA StreamNext ==
  ASSUME StreamInv, [Next]_vars
  PROVE  StreamInv'
  <1>1. CASE UNCHANGED vars
    BY <1>1 DEF vars, innerVars, StreamInv, StreamTypes, Phases, AtError, LenOf, LineCount
  <1>2. CASE Next
    BY <1>2, ReadKeeps DEF Next
  <1> QED BY <1>1, <1>2

-----------------------------------------------------------------------------
(* The text up to a line, and the lines before the marker.                 *)
Upto(l) == [k \in 1 .. l |-> LineBytes(k)]

LEMMA LineBytesAre ==
  ASSUME StreamTypes
  PROVE  /\ \A l \in 0 .. LineCount :
                /\ LineBytes(l) = Bytes(l, 0, LenOf(l)) /\ LineBytes(l) \in Seq(Byte)
                /\ LenOf(l) \in Nat \ {0} /\ Len(LineBytes(l)) = LenOf(l)
         /\ \A l \in 0 .. LineCount : Upto(l) \in Seq(Seq(Byte))
  <1>1. ASSUME NEW l \in 0 .. LineCount
        PROVE  /\ LineBytes(l) = Bytes(l, 0, LenOf(l)) /\ LineBytes(l) \in Seq(Byte)
               /\ LenOf(l) \in Nat \ {0} /\ Len(LineBytes(l)) = LenOf(l)
    <2>1. l \in Nat /\ LenOf(l) \in Nat \ {0} /\ 0 <= LenOf(l) /\ LenOf(l) - 0 = LenOf(l)
      BY SMTT(40), StreamFacts
    <2>2. LineBytes(l) = Bytes(l, 0, LenOf(l))
      BY DEF LineBytes, LenOf
    <2> QED BY <2>1, <2>2, BytesAre
  <1>2. ASSUME NEW l \in 0 .. LineCount PROVE Upto(l) \in Seq(Seq(Byte))
    <2>1. l \in Nat /\ \A k \in 1 .. l : LineBytes(k) \in Seq(Byte)
      BY <1>1, StreamFacts
    <2>2. Upto(l) \in [1 .. l -> Seq(Byte)]
      BY <2>1 DEF Upto
    <2> QED BY <2>1, <2>2, SeqDef
  <1> QED BY <1>1, <1>2

LEMMA TextGrows ==
  ASSUME StreamTypes, NEW l \in 1 .. LineCount
  PROVE  /\ Text(l - 1) \in Seq(Byte) /\ Text(l) \in Seq(Byte)
         /\ Text(l) = Text(l - 1) \o LineBytes(l)
  <1>1. /\ l - 1 \in 0 .. LineCount /\ l \in 0 .. LineCount /\ 0 \in 0 .. LineCount
        /\ l - 1 \in Nat /\ l \in Nat
    BY StreamFacts
  <1>2. /\ LineBytes(0) \in Seq(Byte) /\ LineBytes(l) \in Seq(Byte)
        /\ Upto(l - 1) \in Seq(Seq(Byte)) /\ Upto(l) \in Seq(Seq(Byte))
    BY <1>1, LineBytesAre
  <1>3. Upto(l) = Append(Upto(l - 1), LineBytes(l))
    <2>1. Len(Upto(l - 1)) = l - 1 /\ Len(Upto(l)) = l
      BY <1>1, <1>2 DEF Upto
    <2>2. Append(Upto(l - 1), LineBytes(l)) \in Seq(Seq(Byte))
          /\ Len(Append(Upto(l - 1), LineBytes(l))) = l
          /\ \A k \in 1 .. l - 1 : Append(Upto(l - 1), LineBytes(l))[k] = Upto(l - 1)[k]
          /\ Append(Upto(l - 1), LineBytes(l))[l] = LineBytes(l)
      <3>1. (l - 1) + 1 = l
        OBVIOUS
      <3> QED BY <1>2, <2>1, <3>1, AppendProperties
    <2>3. \A k \in 1 .. l : Upto(l)[k] = Append(Upto(l - 1), LineBytes(l))[k]
      <3> SUFFICES ASSUME NEW k \in 1 .. l
                   PROVE  Upto(l)[k] = Append(Upto(l - 1), LineBytes(l))[k]
        OBVIOUS
      <3>1. CASE k = l
        BY <2>2, <3>1 DEF Upto
      <3>2. CASE k # l
        <4>1. k \in 1 .. l - 1
          BY <3>2
        <4> QED BY <2>2, <4>1 DEF Upto
      <3> QED BY <3>1, <3>2
    <2> DEFINE a == Upto(l)
               b == Append(Upto(l - 1), LineBytes(l))
    <2>4. /\ a \in Seq(Seq(Byte)) /\ b \in Seq(Seq(Byte))
          /\ Len(a) = l /\ Len(b) = l /\ \A k \in 1 .. l : a[k] = b[k]
      BY <1>2, <2>1, <2>2, <2>3
    <2> HIDE DEF a, b
    <2>5. a = b
      BY ONLY <2>4, SeqEqual
    <2> QED BY <2>5 DEF a, b
  <1>4. FlattenSeq(Upto(l)) = FlattenSeq(Upto(l - 1)) \o LineBytes(l)
        /\ FlattenSeq(Upto(l - 1)) \in Seq(Byte)
    BY <1>2, <1>3, FlattenAppend, FlattenType
  <1>5. Text(l - 1) = LineBytes(0) \o FlattenSeq(Upto(l - 1))
        /\ Text(l) = LineBytes(0) \o FlattenSeq(Upto(l))
    BY DEF Text, Upto
  <1>6. Text(l) = Text(l - 1) \o LineBytes(l)
    <2>1. (LineBytes(0) \o FlattenSeq(Upto(l - 1))) \o LineBytes(l)
            = LineBytes(0) \o (FlattenSeq(Upto(l - 1)) \o LineBytes(l))
      BY <1>2, <1>4, BytesAssociative
    <2> QED BY <1>4, <1>5, <2>1
  <1>7. Text(l - 1) \in Seq(Byte)
    BY <1>2, <1>4, <1>5, ConcatProperties
  <1>8. Text(l) \in Seq(Byte)
    BY <1>2, <1>6, <1>7, ConcatProperties
  <1> QED BY <1>6, <1>7, <1>8

LEMMA TextZero == ASSUME StreamTypes PROVE Text(0) = LineBytes(0) /\ Text(0) \in Seq(Byte)
  <1>1. Upto(0) = <<>>
    <2>1. Upto(0) \in Seq(Seq(Byte))
      BY LineBytesAre, StreamFacts
    <2>2. Len(Upto(0)) = 0
      BY <2>1, LenProperties DEF Upto
    <2> QED BY <2>1, <2>2, EmptySeq
  <1>2. LineBytes(0) \in Seq(Byte)
    BY LineBytesAre, StreamFacts
  <1> QED BY <1>1, <1>2, FlattenEmpty, ConcatEmptySeq DEF Text, Upto

LEMMA TextType ==
  ASSUME StreamTypes, NEW l \in 0 .. LineCount
  PROVE  Text(l) \in Seq(Byte)
  <1>1. CASE l = 0
    BY <1>1, TextZero
  <1>2. CASE l # 0
    <2>1. l \in 1 .. LineCount
      BY <1>2, StreamFacts
    <2> QED BY <2>1, TextGrows
  <1> QED BY <1>1, <1>2

(* Prefixes.                                                               *)
LEMMA PrefixOfConcat ==
  ASSUME NEW S, NEW s \in Seq(S), NEW t \in Seq(S)
  PROVE  IsPrefix(s, s \o t)
  <1>1. /\ s \o t \in Seq(S) /\ Len(s \o t) = Len(s) + Len(t) /\ Len(s) \in Nat /\ Len(t) \in Nat
        /\ \A i \in 1 .. Len(s) + Len(t) : (s \o t)[i] = IF i <= Len(s) THEN s[i] ELSE t[i - Len(s)]
    BY ConcatProperties, LenProperties
  <1>2. \A i \in 1 .. Len(s) : (s \o t)[i] = s[i] /\ s[i] \in S
    BY <1>1, ElementOfSeq
  <1>3. /\ SubSeq(s \o t, 1, Len(s)) \in Seq(S)
        /\ Len(SubSeq(s \o t, 1, Len(s))) = Len(s)
        /\ \A i \in 1 .. Len(s) : SubSeq(s \o t, 1, Len(s))[i] = (s \o t)[i]
    <2>1. 1 \in Int /\ Len(s) \in Int /\ \A i \in 1 .. Len(s) : (s \o t)[i] \in S
      BY <1>1, <1>2
    <2>2. /\ SubSeq(s \o t, 1, Len(s)) \in Seq(S)
          /\ Len(SubSeq(s \o t, 1, Len(s))) = IF 1 <= Len(s) THEN Len(s) - 1 + 1 ELSE 0
          /\ \A i \in 1 .. Len(s) - 1 + 1 : SubSeq(s \o t, 1, Len(s))[i] = (s \o t)[1 + i - 1]
      BY <2>1, SubSeqProperties
    <2> QED BY <1>1, <2>2
  <1>4. SubSeq(s \o t, 1, Len(s)) = s
    BY <1>2, <1>3, SeqEqual
  <1>5. SubSeq(s, 1, Len(s)) = s
    BY SubSeqFull
  <1> QED BY <1>1, <1>4, <1>5 DEF IsPrefix

LEMMA PrefixHasRest ==
  ASSUME NEW S, NEW s \in Seq(S), NEW t \in Seq(S), IsPrefix(s, t)
  PROVE  \E r \in Seq(S) : t = s \o r
  <1>1. Len(s) \in Nat /\ Len(t) \in Nat /\ Len(s) <= Len(t) /\ s = SubSeq(t, 1, Len(s))
    BY SubSeqFull, LenProperties DEF IsPrefix
  <1>2. SubSeq(t, 1, Len(s)) \o SubSeq(t, Len(s) + 1, Len(t)) = SubSeq(t, 1, Len(t))
    <2>1. 1 \in 1 .. Len(t) + 1 /\ Len(s) \in 1 - 1 .. Len(t) /\ Len(t) \in Len(s) .. Len(t)
      BY <1>1
    <2> QED BY <2>1, ConcatAdjacentSubSeq
  <1>3. SubSeq(t, Len(s) + 1, Len(t)) \in Seq(S)
    <2>1. \A i \in Len(s) + 1 .. Len(t) : t[i] \in S
      BY <1>1, ElementOfSeq
    <2> QED BY <1>1, <2>1, SubSeqProperties
  <1>4. t = s \o SubSeq(t, Len(s) + 1, Len(t))
    BY <1>1, <1>2, SubSeqFull
  <1> QED BY <1>3, <1>4

LEMMA PrefixTransitive ==
  ASSUME NEW S, NEW s \in Seq(S), NEW t \in Seq(S), NEW u \in Seq(S),
         IsPrefix(s, t), IsPrefix(t, u)
  PROVE  IsPrefix(s, u)
  <1>1. PICK r \in Seq(S) : t = s \o r
    BY PrefixHasRest
  <1>2. PICK q \in Seq(S) : u = t \o q
    BY PrefixHasRest
  <1>3. u = s \o (r \o q) /\ r \o q \in Seq(S)
    BY SMTT(40), <1>1, <1>2, ConcatAssociative, ConcatProperties
  <1> QED BY <1>3, PrefixOfConcat

LEMMA TextPrefix ==
  ASSUME StreamTypes, NEW a \in 0 .. LineCount, NEW b \in 0 .. LineCount, a <= b
  PROVE  IsPrefix(Text(a), Text(b))
  <1> DEFINE T == {n \in Nat : a + n <= LineCount => IsPrefix(Text(a), Text(a + n))}
  <1>0. LineCount \in Nat /\ a \in Nat /\ b \in Nat /\ Text(a) \in Seq(Byte)
    BY StreamFacts, TextType
  <1>1. 0 \in T
    <2>1. Text(a) \o <<>> = Text(a) /\ <<>> \in Seq(Byte) /\ a + 0 = a
      BY <1>0, ConcatEmptySeq, EmptySeq
    <2>2. IsPrefix(Text(a), Text(a) \o <<>>)
      BY <1>0, <2>1, PrefixOfConcat
    <2> QED BY <2>1, <2>2
  <1>2. ASSUME NEW n \in Nat, n \in T PROVE n + 1 \in T
    <2> SUFFICES ASSUME a + (n + 1) <= LineCount PROVE IsPrefix(Text(a), Text(a + (n + 1)))
      OBVIOUS
    <2>1. a + n \in 0 .. LineCount /\ a + (n + 1) \in 1 .. LineCount /\ (a + (n + 1)) - 1 = a + n
      BY <1>0
    <2>2. IsPrefix(Text(a), Text(a + n))
      BY <1>0, <1>2, <2>1
    <2>3. PICK l \in 1 .. LineCount : l = a + (n + 1) /\ l - 1 = a + n /\ l \in 0 .. LineCount
      BY <1>0, <2>1
    <2>4. Text(l) = Text(l - 1) \o LineBytes(l) /\ Text(l - 1) \in Seq(Byte)
          /\ Text(l) \in Seq(Byte) /\ LineBytes(l) \in Seq(Byte)
      BY <2>3, TextGrows, LineBytesAre
    <2>5. IsPrefix(Text(l - 1), Text(l))
      BY <2>4, PrefixOfConcat
    <2> QED BY <1>0, <2>2, <2>3, <2>4, <2>5, PrefixTransitive
  <1> HIDE DEF T
  <1>3. b - a \in T
    <2>1. b - a \in Nat
      BY <1>0
    <2> QED BY <1>1, <1>2, <2>1, Induction
  <1> QED BY <1>0, <1>3 DEF T

(* The last line of the table is the one before the first marker.          *)
LEMMA LastLineIs ==
  ASSUME StreamTypes
  PROVE  /\ LastLine \in 0 .. LineCount /\ LastLine \in Nat
         /\ \A k \in 1 .. LastLine : k \notin Marked
         /\ LastLine < LineCount => LastLine + 1 \in Marked
         /\ Marked \subseteq 1 .. LineCount
         /\ \A k \in 1 .. LineCount : k \in Marked <=> stream.lines[k].tail = 0
  <1>0. LineCount \in Nat /\ Marked \subseteq Nat /\ Marked \subseteq 1 .. LineCount
    BY StreamFacts DEF Marked, LineCount
  <1>1. CASE Marked = {}
    BY <1>0, <1>1 DEF LastLine, Marked, LineCount
  <1>2. CASE Marked # {}
    <2>1. \E l \in Marked : \A k \in Marked : l <= k
      BY <1>0, <1>2, LeastExists
    <2> DEFINE m == CHOOSE l \in Marked : \A k \in Marked : l <= k
    <2>2. m \in Marked /\ \A k \in Marked : m <= k
      BY <2>1
    <2>3. LastLine = m - 1
      BY <1>2 DEF LastLine
    <2> HIDE DEF m
    <2>4. m \in 1 .. LineCount
      BY <1>0, <2>2
    <2>5. \A k \in 1 .. m - 1 : k \notin Marked
      BY <1>0, <2>2, <2>4
    <2>6. \A k \in 1 .. LineCount : k \in Marked <=> stream.lines[k].tail = 0
      BY DEF Marked, LineCount
    <2> QED BY <1>0, <2>2, <2>3, <2>4, <2>5, <2>6
  <1> QED BY <1>1, <1>2

LEMMA InitText == Init => TextInv
  <1> SUFFICES ASSUME Init PROVE TextInv
    OBVIOUS
  <1>1. StreamInv
    BY InitStream
  <1>2. Delivered
    BY BytesNone DEF Init, Delivered
  <1>3. BeforeMarker
    BY DEF Init, BeforeMarker
  <1> QED BY <1>1, <1>2, <1>3 DEF TextInv

(* Before a line is fetched, all that was fetched is delivered.            *)
LEMMA NothingHeld ==
  ASSUME TextInv, NEW n \in Sizes, Fetching(n)
  PROVE  out = Text(line - 1) \o Bytes(line, 0, off) /\ ~ done
  <1>1. StreamTypes /\ out \in Seq(Byte) /\ off \in Nat /\ hpos = stream.header
    BY HeaderPassed DEF TextInv, StreamInv, StreamTypes, Fetching
  <1>2. Rest = <<>>
    BY <1>1, StreamFacts, SubSeqEmpty DEF Fetching, Buffered, Rest
  <1>3. CASE doneHeader
    BY <1>1, <1>2, <1>3, ConcatEmptySeq DEF TextInv, Delivered, Fetching
  <1>4. CASE ~ doneHeader
    <2>1. line = 1 /\ off = 0 /\ out = Bytes(0, 0, stream.header)
      BY <1>1, <1>4 DEF TextInv, StreamInv, Phases, Delivered
    <2>2. Text(0) = LineBytes(0) /\ Text(0) \in Seq(Byte) /\ Bytes(1, 0, 0) = <<>>
          /\ LineBytes(0) = Bytes(0, 0, stream.header)
      BY <1>1, TextZero, BytesNone DEF LineBytes
    <2> QED BY <2>1, <2>2, ConcatEmptySeq DEF Fetching
  <1> QED BY <1>3, <1>4

(* What the errors so far say stays true when there are more of them.      *)
LEMMA MarkerSplitStays ==
  ASSUME StreamTypes, UNCHANGED stream,
         UNCHANGED faults \/ \E f \in Byte : faults' = Append(faults, f)
  PROVE  /\ MarkerSplit => MarkerSplit'
         /\ Marked' = Marked /\ LastLine' = LastLine
         /\ UNCHANGED faults => (MarkerSplit' <=> MarkerSplit)
  <1>1. \A i \in DOMAIN faults : i \in DOMAIN faults' /\ faults'[i] = faults[i]
    BY FaultNoted DEF StreamTypes
  <1>2. Marked' = Marked /\ LastLine' = LastLine
    BY DEF Marked, LastLine
  <1> QED BY <1>1, <1>2 DEF MarkerSplit

(* The stream's position is within the table while the marker was neither  *)
(* read nor split.                                                         *)
LEMMA WithinTable ==
  ASSUME TextInv, ~ done, ~ MarkerSplit
  PROVE  /\ \A k \in 1 .. line - 1 : k \notin Marked
         /\ line - 1 \in 0 .. LastLine
         /\ off # 0 => line \in 1 .. LastLine /\ line \notin Marked
  <1>1. /\ StreamTypes /\ line \in Nat /\ line >= 1 /\ line <= LineCount + 1 /\ LineCount \in Nat
        /\ \A k \in 1 .. line - 1 : k \notin Marked
    BY StreamFacts DEF TextInv, StreamInv, StreamTypes, BeforeMarker
  <1>2. /\ LastLine \in Nat /\ LastLine <= LineCount
        /\ LastLine < LineCount => LastLine + 1 \in Marked
    BY <1>1, LastLineIs
  <1>3. line - 1 <= LastLine
    <2>1. SUFFICES ASSUME LastLine < line - 1 PROVE FALSE
      BY <1>1, <1>2
    <2>2. LastLine < LineCount /\ LastLine + 1 \in 1 .. line - 1
      BY <1>1, <1>2, <2>1
    <2> QED BY <1>1, <1>2, <2>2
  <1>4. ASSUME off # 0 PROVE line <= LastLine /\ line \notin Marked
    <2>1. PICK i \in DOMAIN faults : faults[i] = <<line, off>>
      BY <1>4 DEF TextInv, StreamInv, Phases, AtError
    <2>2. off \in Nat /\ line <= LineCount
      BY <1>4 DEF TextInv, StreamInv, StreamTypes, Phases, AtError
    <2>3. faults[i][1] = line /\ faults[i][2] > 0
      BY <1>4, <2>1, <2>2
    <2>4. line \notin Marked
      BY <2>3 DEF MarkerSplit
    <2>5. line # LastLine + 1
      BY <1>1, <1>2, <2>2, <2>4
    <2> QED BY <1>1, <1>2, <1>3, <2>4, <2>5
  <1> QED BY <1>1, <1>2, <1>3, <1>4

LEMMA TextToPosition ==
  ASSUME TextInv, ~ done, ~ MarkerSplit
  PROVE  IsPrefix(Text(line - 1) \o Bytes(line, 0, off), Text(LastLine))
  <1>1. /\ StreamTypes /\ LineCount \in Nat /\ line \in Nat /\ line - 1 \in 0 .. LineCount
        /\ LastLine \in 0 .. LineCount /\ off \in Nat /\ line - 1 <= LastLine
        /\ LineCount \in Nat
    BY StreamFacts, LastLineIs, WithinTable DEF TextInv, StreamInv, StreamTypes
  <1>2. Text(line - 1) \in Seq(Byte) /\ Text(LastLine) \in Seq(Byte)
    BY <1>1, TextType
  <1>3. CASE off = 0
    <2>1. Text(line - 1) \o Bytes(line, 0, 0) = Text(line - 1)
      BY <1>1, <1>2, BytesNone, ConcatEmptySeq
    <2>2. IsPrefix(Text(line - 1), Text(LastLine))
      BY <1>1, TextPrefix
    <2> QED BY <1>3, <2>1, <2>2
  <1>4. CASE off # 0
    <2>1. line \in 1 .. LastLine /\ off <= LenOf(line)
      BY <1>4, WithinTable DEF TextInv, StreamInv, Phases, AtError
    <2>2. line \in 1 .. LineCount /\ line \in 0 .. LineCount /\ line <= LastLine
      BY <1>1, <2>1
    <2>3. /\ Text(line) \in Seq(Byte) /\ Text(line) = Text(line - 1) \o LineBytes(line)
          /\ LineBytes(line) = Bytes(line, 0, LenOf(line)) /\ LenOf(line) \in Nat
      BY <1>1, <2>2, TextGrows, LineBytesAre
    <2>4. Bytes(line, 0, off) \in Seq(Byte) /\ Bytes(line, off, LenOf(line)) \in Seq(Byte)
      <3>1. /\ line \in Nat /\ off \in Nat /\ LenOf(line) \in Nat
            /\ 0 \in Nat /\ 0 <= off /\ off <= LenOf(line)
        BY <1>1, <2>1, <2>3
      <3> QED BY ONLY <3>1, BytesAre
    <2>5. Bytes(line, 0, off) \o Bytes(line, off, LenOf(line)) = LineBytes(line)
      <3>1. /\ line \in Nat /\ off \in Nat /\ LenOf(line) \in Nat
            /\ 0 \in Nat /\ 0 <= off /\ off <= LenOf(line)
        BY <1>1, <2>1, <2>3
      <3>2. Bytes(line, 0, off) \o Bytes(line, off, LenOf(line)) = Bytes(line, 0, LenOf(line))
        BY ONLY ZenonT(60), <3>1, BytesJoin
      <3> QED BY <2>3, <3>2
    <2> DEFINE t == Text(line - 1) \o Bytes(line, 0, off)
    <2>6. t \in Seq(Byte) /\ Text(line) = t \o Bytes(line, off, LenOf(line))
      <3>1. (Text(line - 1) \o Bytes(line, 0, off)) \o Bytes(line, off, LenOf(line))
              = Text(line - 1) \o (Bytes(line, 0, off) \o Bytes(line, off, LenOf(line)))
        BY <1>2, <2>4, BytesAssociative
      <3> QED BY <1>2, <2>3, <2>4, <2>5, <3>1, ConcatProperties
    <2> HIDE DEF t
    <2>7. IsPrefix(t, Text(line))
      BY <2>4, <2>6, PrefixOfConcat
    <2>8. IsPrefix(Text(line), Text(LastLine))
      BY <1>1, <2>2, TextPrefix
    <2>9. IsPrefix(t, Text(LastLine))
      BY <1>2, <2>3, <2>6, <2>7, <2>8, PrefixTransitive
    <2> QED BY <2>9 DEF t
  <1> QED BY <1>3, <1>4

LEMMA TextKept ==
  ASSUME TextInv, StreamInv',
         UNCHANGED <<stream, faults, line, off, doneHeader, buffer, bufferPos, done, out, hpos>>
  PROVE  TextInv'
  <1>1. Delivered'
    BY DEF TextInv, Delivered, Text, LineBytes, Rest
  <1>2. BeforeMarker'
    <2>1. StreamTypes
      BY DEF TextInv, StreamInv
    <2> QED BY <2>1, MarkerSplitStays DEF TextInv, BeforeMarker, Text, LineBytes
  <1> QED BY <1>1, <1>2 DEF TextInv

(* Where the stream ends, what was delivered is within the table.          *)
LEMMA AlreadyAtEnd ==
  ASSUME TextInv, ~ done, done', out = Text(line - 1) \o Bytes(line, 0, off),
         UNCHANGED <<stream, faults, out>>
  PROVE  BeforeMarker'
  <1>1. StreamTypes
    BY DEF TextInv, StreamInv
  <1>2. (MarkerSplit' <=> MarkerSplit) /\ LastLine' = LastLine
    BY <1>1, MarkerSplitStays
  <1>3. (Text(LastLine))' = Text(LastLine)
    BY <1>2 DEF Text, LineBytes, Bytes
  <1>4. ~ MarkerSplit => IsPrefix(out, Text(LastLine))
    BY TextToPosition
  <1> QED BY <1>2, <1>3, <1>4 DEF BeforeMarker

LEMMA TextNext ==
  ASSUME TextInv, [Next]_vars
  PROVE  TextInv'
  <1>0. StreamInv /\ StreamInv' /\ StreamTypes
    BY StreamNext DEF TextInv, StreamInv
  <1> SUFFICES ASSUME NEW n \in Sizes, asked' = n,
                      \/ ReadDone(n) \/ ReadHeader(n) \/ ReadBuffer(n) \/ ReadFault(n)
                      \/ ReadStreamEnd(n) \/ ReadMarker(n) \/ ReadLine(n)
               PROVE  TextInv'
    BY <1>0, TextKept DEF Next, vars, innerVars
  <1>1. CASE ReadDone(n)
    BY <1>0, <1>1, TextKept DEF ReadDone, innerVars
  <1>2. CASE ReadHeader(n)
    <2>1. ~ doneHeader /\ ~ doneHeader' /\ out = Bytes(0, 0, hpos) /\ ~ done
      BY <1>0, <1>2, FromHeader DEF ReadHeader, TextInv, Delivered, StreamInv, Phases
    <2>2. out' = Bytes(0, 0, hpos')
      <3>1. hpos \in Nat /\ hpos' \in Nat /\ 0 <= hpos /\ hpos <= hpos'
        BY <1>0, <1>2, FromHeader
      <3>2. Bytes(0, 0, hpos) \o Bytes(0, hpos, hpos') = Bytes(0, 0, hpos')
        BY <3>1, BytesJoin
      <3> QED BY <1>2, <2>1, <3>2 DEF ReadHeader
    <2>3. Delivered'
      BY <2>1, <2>2 DEF Delivered, Bytes
    <2>4. BeforeMarker'
      BY <1>0, <1>2, <2>1, MarkerSplitStays DEF ReadHeader, innerVars, TextInv, BeforeMarker
    <2> QED BY <1>0, <2>3, <2>4 DEF TextInv
  <1>3. CASE ReadBuffer(n)
    <2>1. doneHeader /\ doneHeader' /\ ~ done /\ ~ done'
      <3>1. doneHeader' /\ ~ done /\ ~ done'
        BY <1>0, <1>3, FromBuffer DEF ReadBuffer, PastHeader
      <3>2. buffer # <<>>
        BY <1>0, <1>3, StreamFacts, EmptySeq DEF ReadBuffer, Buffered
      <3> QED BY <1>0, <3>1, <3>2 DEF StreamInv, Phases
    <2>2. out' \o Rest' = out \o Rest
      <3> DEFINE q == bufferPos'
                 p == SubSeq(buffer, bufferPos + 1, q)
      <3>1. /\ q \in bufferPos .. Len(buffer) /\ buffer' = buffer /\ out' = out \o p
            /\ p \in Seq(Byte) /\ bufferPos \in 0 .. Len(buffer) /\ buffer \in Seq(Byte)
            /\ out \in Seq(Byte)
        BY <1>0, <1>3, FromBuffer DEF StreamTypes
      <3>2. /\ SubSeq(buffer, q + 1, Len(buffer)) \in Seq(Byte)
            /\ Rest = p \o SubSeq(buffer, q + 1, Len(buffer))
        BY <3>1, RestSplit DEF Rest
      <3>3. Rest' = SubSeq(buffer, q + 1, Len(buffer))
        BY <3>1 DEF Rest
      <3> QED BY <3>1, <3>2, <3>3, BytesAssociative
    <2>3. out' \o Rest' = Text(line - 1) \o Bytes(line, 0, off)
      BY <2>1, <2>2 DEF TextInv, Delivered
    <2>4. Delivered'
      BY <1>3, <2>1, <2>3 DEF ReadBuffer, innerVars, Delivered, Text, LineBytes
    <2>5. BeforeMarker'
      BY <1>0, <1>3, <2>1, MarkerSplitStays DEF ReadBuffer, innerVars, TextInv, BeforeMarker
    <2> QED BY <1>0, <2>4, <2>5 DEF TextInv
  <1>4. CASE ReadFault(n)
    <2>1. /\ out = Text(line - 1) \o Bytes(line, 0, off) /\ ~ done /\ ~ done' /\ doneHeader'
          /\ UNCHANGED <<stream, line, out>>
      BY <1>4, NothingHeld DEF ReadFault, Fetching, PastHeader
    <2>2. PICK k \in Nat :
             /\ off <= k /\ off' = k /\ bufferPos' = 0 /\ faults' = Append(faults, <<line, k>>)
             /\ buffer' = Bytes(line, off, k) /\ buffer' \in Seq(Byte)
      BY <1>0, <1>4, PartFetched
    <2>3. Rest' = Bytes(line, off, k)
      BY <2>2, SubSeqFull DEF Rest
    <2>4. /\ line \in Nat /\ off \in Nat /\ line - 1 \in 0 .. LineCount
          /\ Text(line - 1) \in Seq(Byte)
      BY <1>0, StreamFacts, TextType DEF StreamTypes
    <2>5. out' \o Rest' = Text(line - 1) \o Bytes(line, 0, k)
      <3>1. Bytes(line, 0, off) \in Seq(Byte) /\ Bytes(line, off, k) \in Seq(Byte)
        BY <2>2, <2>4, BytesAre
      <3>2. Bytes(line, 0, off) \o Bytes(line, off, k) = Bytes(line, 0, k)
        <4>1. 0 \in Nat /\ 0 <= off /\ off <= k /\ line \in Nat /\ off \in Nat /\ k \in Nat
          BY <2>2, <2>4
        <4> QED BY ONLY ZenonT(60), <4>1, BytesJoin
      <3>3. (Text(line - 1) \o Bytes(line, 0, off)) \o Bytes(line, off, k)
              = Text(line - 1) \o (Bytes(line, 0, off) \o Bytes(line, off, k))
        BY <2>4, <3>1, BytesAssociative
      <3> QED BY <2>1, <2>3, <3>2, <3>3
    <2>6. Delivered'
      <3>1. (Text(line - 1) \o Bytes(line, 0, off))' = Text(line - 1) \o Bytes(line, 0, k)
        BY <2>1, <2>2 DEF Text, LineBytes, Bytes
      <3> QED BY <2>1, <2>5, <3>1 DEF Delivered
    <2>7. BeforeMarker'
      <3>1. <<line, k>> \in Byte
        BY <2>4 DEF Byte
      <3>2. (MarkerSplit => MarkerSplit') /\ Marked' = Marked
        BY <1>0, <2>1, <2>2, <3>1, MarkerSplitStays
      <3> QED BY <2>1, <3>2 DEF TextInv, BeforeMarker
    <2> QED BY <1>0, <2>6, <2>7 DEF TextInv
  <1>5. CASE ReadStreamEnd(n)
    <2>1. out = Text(line - 1) \o Bytes(line, 0, off) /\ ~ done /\ done' /\ doneHeader'
          /\ UNCHANGED <<stream, faults, out>>
      BY <1>5, NothingHeld DEF ReadStreamEnd, Fetching, PastHeader, innerVars
    <2>2. Delivered' /\ BeforeMarker'
      BY <1>0, <2>1, AlreadyAtEnd DEF Delivered
    <2> QED BY <1>0, <2>2 DEF TextInv
  <1>6. CASE ReadMarker(n)
    <2>1. out = Text(line - 1) \o Bytes(line, 0, off) /\ ~ done /\ done' /\ doneHeader'
          /\ UNCHANGED <<stream, faults, out>>
      BY <1>6, NothingHeld DEF ReadMarker, Fetching, PastHeader
    <2>2. Delivered' /\ BeforeMarker'
      BY <1>0, <2>1, AlreadyAtEnd DEF Delivered
    <2> QED BY <1>0, <2>2 DEF TextInv
  <1>7. CASE ReadLine(n)
    <2>1. out = Text(line - 1) \o Bytes(line, 0, off) /\ ~ done /\ ~ done' /\ doneHeader'
      BY <1>7, NothingHeld DEF ReadLine, Fetching, PastHeader
    <2>2. /\ line \in 1 .. LineCount /\ off \in Nat /\ off < LenOf(line) /\ LenOf(line) \in Nat
          /\ out' = out \o SubSeq(buffer', 1, bufferPos')
          /\ SubSeq(buffer', 1, bufferPos') \in Seq(Byte) /\ Rest' \in Seq(Byte)
          /\ Bytes(line, off, LenOf(line)) = SubSeq(buffer', 1, bufferPos') \o Rest'
      BY <1>0, <1>7, LineFetched, SplitLine
    <2>3. /\ Text(line - 1) \in Seq(Byte) /\ Text(line) = Text(line - 1) \o LineBytes(line)
          /\ Text(line) \in Seq(Byte) /\ LineBytes(line) = Bytes(line, 0, LenOf(line))
      <3>1. line \in 0 .. LineCount
        BY <1>0, <2>2, StreamFacts
      <3> QED BY <1>0, <2>2, <3>1, TextGrows, LineBytesAre
    <2>4. /\ Bytes(line, 0, off) \in Seq(Byte) /\ Bytes(line, off, LenOf(line)) \in Seq(Byte)
          /\ Bytes(line, 0, off) \o Bytes(line, off, LenOf(line)) = Bytes(line, 0, LenOf(line))
      <3>1. line \in Nat /\ 0 <= off /\ off <= LenOf(line)
        BY <2>2, StreamFacts
      <3> QED BY ZenonT(60), <2>2, <3>1, BytesAre, BytesJoin
    <2>5. out' \o Rest' = Text(line)
      <3>1. out' \o Rest' = out \o Bytes(line, off, LenOf(line))
        <4>1. out \in Seq(Byte)
          BY <1>0 DEF StreamTypes
        <4>2. (out \o SubSeq(buffer', 1, bufferPos')) \o Rest'
                = out \o (SubSeq(buffer', 1, bufferPos') \o Rest')
          BY <2>2, <4>1, BytesAssociative
        <4> QED BY <2>2, <4>2
      <3>2. out \o Bytes(line, off, LenOf(line)) = Text(line - 1) \o Bytes(line, 0, LenOf(line))
        <4>1. (Text(line - 1) \o Bytes(line, 0, off)) \o Bytes(line, off, LenOf(line))
                = Text(line - 1) \o (Bytes(line, 0, off) \o Bytes(line, off, LenOf(line)))
          BY <2>3, <2>4, BytesAssociative
        <4> QED BY <2>1, <2>4, <4>1
      <3> QED BY <2>3, <3>1, <3>2
    <2>6. line' = line + 1 /\ line' - 1 = line /\ off' = 0 /\ stream' = stream
      BY <1>0, <1>7, StreamFacts DEF ReadLine
    <2>7. Delivered'
      <3>1. Text(line) \o Bytes(line + 1, 0, 0) = Text(line)
        <4>1. line + 1 \in Nat
          BY <2>2
        <4>2. Bytes(line + 1, 0, 0) = <<>>
          BY <4>1, BytesNone
        <4> QED BY <2>3, <4>2, ConcatEmptySeq
      <3>2. (Text(line - 1) \o Bytes(line, 0, off))' = Text(line) \o Bytes(line + 1, 0, 0)
        BY <2>6 DEF Text, LineBytes, Bytes
      <3> QED BY <2>1, <2>5, <3>1, <3>2 DEF Delivered
    <2>8. BeforeMarker'
      <3>1. off = 0 => line \notin Marked
        BY <1>0, <1>7, <2>2, LastLineIs DEF ReadLine, AtMarker, AtStreamEnd, LineCount
      <3>3. ~ MarkerSplit => line \notin Marked
        BY <2>1, <3>1, WithinTable
      <3>4. ~ MarkerSplit => \A k \in 1 .. line : k \notin Marked
        BY <2>1, <2>2, <3>3 DEF TextInv, BeforeMarker
      <3> QED BY <1>0, <1>7, <2>1, <2>6, <3>4, MarkerSplitStays DEF ReadLine, BeforeMarker
    <2> QED BY <1>0, <2>7, <2>8 DEF TextInv
  <1> QED BY <1>1, <1>2, <1>3, <1>4, <1>5, <1>6, <1>7

LEMMA TextHolds == Spec => []TextInv
  BY InitText, TextNext, PTL DEF Spec

(* Whatever sizes the caller reads with, and wherever the dump's reader    *)
(* failed, TsvStream::read has delivered a prefix of the header row and    *)
(* the lines before the marker.                                            *)
THEOREM OutputCorrect == Spec => []OutputIsPrefix
  <1>1. ASSUME TextInv, ~ MarkerSplit PROVE IsPrefix(out, Text(LastLine))
    <2>1. /\ StreamTypes /\ out \in Seq(Byte) /\ Rest \in Seq(Byte) /\ Text(LastLine) \in Seq(Byte)
          /\ LastLine \in Nat /\ LastLine <= LineCount /\ LineCount \in Nat /\ line \in Nat
      <3>1. Rest \in Seq(Byte)
        BY <1>1, RestSplit DEF TextInv, StreamInv, StreamTypes, Rest
      <3> QED BY <1>1, <3>1, LastLineIs, TextType, StreamFacts DEF TextInv, StreamInv, StreamTypes
    <2>2. CASE ~ doneHeader
      <3>1. /\ out = Bytes(0, 0, hpos) /\ hpos \in Nat /\ hpos <= stream.header
            /\ stream.header \in Nat
        BY <1>1, <2>1, <2>2, StreamFacts DEF TextInv, Delivered, StreamTypes
      <3>2. /\ Text(0) = Bytes(0, 0, hpos) \o Bytes(0, hpos, stream.header)
            /\ Bytes(0, 0, hpos) \in Seq(Byte) /\ Bytes(0, hpos, stream.header) \in Seq(Byte)
        <4>1. 0 <= hpos /\ Text(0) = Bytes(0, 0, stream.header)
          BY <2>1, <3>1, TextZero DEF LineBytes
        <4>2. Bytes(0, 0, hpos) \o Bytes(0, hpos, stream.header) = Bytes(0, 0, stream.header)
          BY <3>1, <4>1, BytesJoin
        <4> QED BY <3>1, <4>1, <4>2, BytesAre
      <3>3. IsPrefix(out, Text(0)) /\ Text(0) \in Seq(Byte)
        BY <2>1, <3>1, <3>2, PrefixOfConcat, TextZero
      <3>4. IsPrefix(Text(0), Text(LastLine))
        BY <2>1, TextPrefix
      <3> QED BY <2>1, <3>3, <3>4, PrefixTransitive
    <2>3. CASE doneHeader /\ done
      BY <1>1, <2>3 DEF TextInv, BeforeMarker
    <2>4. CASE doneHeader /\ ~ done
      <3>1. out \o Rest = Text(line - 1) \o Bytes(line, 0, off) /\ out \o Rest \in Seq(Byte)
            /\ IsPrefix(out, out \o Rest)
        BY <1>1, <2>1, <2>4, PrefixOfConcat, ConcatProperties DEF TextInv, Delivered
      <3>2. IsPrefix(out \o Rest, Text(LastLine))
        BY <1>1, <2>4, <3>1, TextToPosition
      <3> QED BY <2>1, <3>1, <3>2, PrefixTransitive
    <2> QED BY <2>2, <2>3, <2>4
  <1>2. TextInv => OutputIsPrefix
    BY <1>1 DEF OutputIsPrefix
  <1> QED BY TextHolds, <1>2, PTL

-----------------------------------------------------------------------------
(* The line reader.  Its steps are those of the stream, or leave it alone. *)
THEOREM ReaderImplementsStream == ReaderSpec => Spec
  <1>1. ReaderInit => Init
    BY DEF ReaderInit
  <1>2. [ReaderNext]_readerVars => [Next]_vars
    BY DEF ReaderNext, Start, Refill, Take, readerVars
  <1> QED BY <1>1, <1>2, PTL DEF ReaderSpec, Spec

(* A part of a line, cut in two.                                           *)
Cut(l, i, j, p, r) ==
    \E a \in Nat : i <= a /\ a <= j /\ p = Bytes(l, i, a) /\ r = Bytes(l, a, j)

LEMMA BytesSplit ==
  ASSUME NEW l \in Nat, NEW i \in Nat, NEW j \in Nat, i <= j,
         NEW p \in Seq(Byte), NEW r \in Seq(Byte), Bytes(l, i, j) = p \o r
  PROVE  Cut(l, i, j, p, r)
  <1> DEFINE s == p \o r
  <1>1. Len(s) = j - i /\ \A k \in 1 .. j - i : s[k] = <<l, i + k>>
    <2>1. Len(Bytes(l, i, j)) = j - i /\ \A k \in 1 .. j - i : Bytes(l, i, j)[k] = <<l, i + k>>
      BY ONLY l \in Nat, i \in Nat, j \in Nat, i <= j, BytesAre
    <2> QED BY <2>1
  <1>2. /\ Len(p) \in Nat /\ Len(r) \in Nat /\ Len(s) = Len(p) + Len(r)
        /\ \A k \in 1 .. Len(p) + Len(r) : s[k] = IF k <= Len(p) THEN p[k] ELSE r[k - Len(p)]
    BY ConcatProperties, LenProperties
  <1> HIDE DEF s
  <1>3. PICK a \in Nat : a = i + Len(p)
    BY <1>2
  <1>4. a <= j /\ Len(p) = a - i /\ Len(r) = j - a /\ i <= a
    <2>1. /\ Len(p) + Len(r) = j - i /\ Len(p) \in Nat /\ Len(r) \in Nat
          /\ a \in Nat /\ i \in Nat /\ j \in Nat /\ a = i + Len(p)
      BY <1>1, <1>2, <1>3
    <2> QED BY ONLY <2>1
  <1>5. p = Bytes(l, i, a)
    <2>1. /\ Bytes(l, i, a) \in Seq(Byte) /\ Len(Bytes(l, i, a)) = a - i
          /\ \A k \in 1 .. a - i : Bytes(l, i, a)[k] = <<l, i + k>>
      BY ONLY l \in Nat, i \in Nat, a \in Nat, <1>4, BytesAre
    <2>2. ASSUME NEW k \in 1 .. a - i PROVE p[k] = Bytes(l, i, a)[k]
      <3>1. k \in 1 .. j - i /\ k \in 1 .. Len(p) + Len(r) /\ k <= Len(p)
        BY <1>4
      <3> QED BY <1>1, <1>2, <2>1, <3>1
    <2> QED BY <1>4, <2>1, <2>2, SeqEqual
  <1>6. r = Bytes(l, a, j)
    <2>1. /\ Bytes(l, a, j) \in Seq(Byte) /\ Len(Bytes(l, a, j)) = j - a
          /\ \A k \in 1 .. j - a : Bytes(l, a, j)[k] = <<l, a + k>>
      BY ONLY l \in Nat, a \in Nat, j \in Nat, <1>4, BytesAre
    <2>2. ASSUME NEW k \in 1 .. j - a PROVE r[k] = Bytes(l, a, j)[k]
      <3>1. PICK k2 \in Nat : k2 = Len(p) + k
        BY <1>2
      <3>2. /\ k2 \in 1 .. j - i /\ k2 \in 1 .. Len(p) + Len(r) /\ ~ (k2 <= Len(p))
            /\ k2 - Len(p) = k /\ i + k2 = a + k
        <4>1. /\ Len(p) \in Nat /\ Len(r) \in Nat /\ i \in Nat /\ j \in Nat /\ a = i + Len(p)
              /\ Len(p) = a - i /\ Len(r) = j - a /\ a <= j
          BY <1>2, <1>3, <1>4
        <4> QED BY ONLY <3>1, <4>1, k \in 1 .. j - a
      <3>3. s[k2] = r[k]
        BY <1>2, <3>2
      <3> QED BY <1>1, <2>1, <3>2, <3>3
    <2> QED BY <1>4, <2>1, <2>2, SeqEqual
  <1> QED BY <1>3, <1>4, <1>5, <1>6 DEF Cut

(* What a refill adds to the buffer is what was delivered in it.           *)
LEMMA Added ==
  ASSUME NEW s \in Seq(Byte), NEW p \in Seq(Byte)
  PROVE  SubSeq(s \o p, Len(s) + 1, Len(s \o p)) = p
  <1>1. Len(s) \in Nat /\ Len(p) \in Nat /\ s \o p \in Seq(Byte) /\ Len(s \o p) = Len(s) + Len(p)
    BY ConcatProperties, LenProperties
  <1>2. SubSeq(s \o p, 1, Len(s)) = s
    <2>1. IsPrefix(s, s \o p) /\ SubSeq(s, 1, Len(s)) = s
      BY PrefixOfConcat, SubSeqFull
    <2> QED BY <2>1 DEF IsPrefix
  <1>3. PICK m \in Nat : m = Len(s) /\ m \in 0 .. Len(s \o p) /\ 0 \in 0 .. Len(s \o p)
    BY <1>1
  <1>4. /\ SubSeq(s \o p, 0 + 1, Len(s \o p))
             = SubSeq(s \o p, 0 + 1, m) \o SubSeq(s \o p, m + 1, Len(s \o p))
        /\ SubSeq(s \o p, m + 1, Len(s \o p)) \in Seq(Byte)
    BY <1>1, <1>3, RestSplit
  <1>5. SubSeq(s \o p, 1, Len(s \o p)) = s \o p /\ 0 + 1 = 1
    BY <1>1, SubSeqFull
  <1>6. s \o SubSeq(s \o p, m + 1, Len(s \o p)) = s \o p
    BY <1>2, <1>3, <1>4, <1>5
  <1> QED BY <1>3, <1>4, <1>6, ConcatSimplifications

LEMMA InitReader == ReaderInit => ReaderInv
  <1> SUFFICES ASSUME ReaderInit PROVE ReaderInv
    OBVIOUS
  <1>1. TextInv
    BY InitText DEF ReaderInit
  <1>2. ReaderTypes
    BY EmptySeq DEF ReaderInit, ReaderTypes
  <1>3. Whole /\ Ends
    BY <1>1 DEF ReaderInit, Init, Whole, Ends
  <1>4. Accounted
    BY FlattenEmpty DEF ReaderInit, Init, Accounted
  <1>5. At(0, 0, 0, 0)
    <2>1. LineCount \in Nat /\ Bytes(0, 0, 0) = <<>>
      BY <1>1, StreamFacts, BytesNone DEF TextInv, StreamInv
    <2> QED BY <2>1 DEF At, ReaderInit, Init, Taken
  <1> QED BY <1>1, <1>2, <1>3, <1>4, <1>5 DEF ReaderInv

(* Where the stream is left alone, so is what its definitions say.         *)
LEMMA StreamAlone ==
  ASSUME UNCHANGED vars
  PROVE  /\ LineCount' = LineCount /\ Rest' = Rest /\ LastLine' = LastLine
         /\ MarkerSplit' = MarkerSplit /\ Marked' = Marked /\ done' = done
         /\ \A l : (LenOf(l))' = LenOf(l) /\ (LineBytes(l))' = LineBytes(l)
         /\ \A c, j : (Fetched(c, j))' <=> Fetched(c, j)
  BY DEF vars, innerVars, LineCount, Rest, LastLine, MarkerSplit, Marked, LenOf, LineBytes, Fetched,
         Bytes

LEMMA SourceAlone ==
  ASSUME UNCHANGED stream
  PROVE  /\ LineCount' = LineCount /\ LastLine' = LastLine /\ Marked' = Marked
         /\ \A l : (LenOf(l))' = LenOf(l) /\ (LineBytes(l))' = LineBytes(l)
         /\ \A c : (LastOpen(c))' <=> LastOpen(c)
  BY DEF LineCount, LastLine, Marked, LenOf, LineBytes, Bytes, LastOpen

(* What the errors so far have cost is not undone by another one.          *)
LEMMA ErrorsStay ==
  ASSUME StreamTypes, UNCHANGED stream,
         UNCHANGED faults \/ \E f \in Byte : faults' = Append(faults, f)
  PROVE  /\ RowSplit => RowSplit'
         /\ \A c : CutsIn(c) \subseteq (CutsIn(c))'
         /\ LastLineLost => LastLineLost'
         /\ \A c, b : Lost(c, b) => (Lost(c, b))'
         /\ \A c, x : WholeLine(c, x) => (WholeLine(c, x))'
         /\ NothingTorn' => NothingTorn
  <1>1. /\ \A i \in DOMAIN faults : i \in DOMAIN faults' /\ faults'[i] = faults[i]
    BY FaultNoted DEF StreamTypes
  <1>2. RowSplit => RowSplit'
    BY <1>1 DEF RowSplit
  <1>3. \A c : CutsIn(c) \subseteq (CutsIn(c))'
    <2> SUFFICES ASSUME NEW c, NEW k \in CutsIn(c) PROVE k \in (CutsIn(c))'
      OBVIOUS
    <2>1. PICK i \in DOMAIN faults :
             /\ k = faults[i][2] /\ faults[i][1] = c
             /\ \E j \in DOMAIN faults : j > i /\ faults[j][1] = c
      BY DEF CutsIn
    <2>2. PICK j \in DOMAIN faults : j > i /\ faults[j][1] = c
      BY <2>1
    <2>3. /\ i \in DOMAIN faults' /\ k = faults'[i][2] /\ faults'[i][1] = c
          /\ j \in DOMAIN faults' /\ faults'[j][1] = c
      BY <1>1, <2>1, <2>2
    <2> QED BY <2>2, <2>3 DEF CutsIn
  <1>4. LastLineLost => LastLineLost'
    BY <1>1 DEF LastLineLost
  <1>5. \A c, b : Lost(c, b) => (Lost(c, b))'
    BY <1>3, <1>4, SourceAlone DEF Lost
  <1>6. \A c, x : WholeLine(c, x) => (WholeLine(c, x))'
    BY <1>3, SourceAlone DEF WholeLine, Bytes
  <1>7. \A l : Torn(l) => (Torn(l))'
    BY <1>3, <1>4 DEF Torn
  <1>8. NothingTorn' => NothingTorn
    BY <1>7 DEF NothingTorn
  <1> QED BY <1>2, <1>3, <1>4, <1>5, <1>6, <1>8

LEMMA ErrorsAlone ==
  ASSUME UNCHANGED <<stream, faults>>
  PROVE  /\ RowSplit' <=> RowSplit
         /\ \A c, b : Lost(c, b) <=> (Lost(c, b))'
         /\ \A c, x : WholeLine(c, x) <=> (WholeLine(c, x))'
         /\ (NothingTorn' <=> NothingTorn) /\ \A l : Torn(l) <=> (Torn(l))'
         /\ MarkerSplit' <=> MarkerSplit
  BY DEF RowSplit, CutsIn, LastLineLost, Lost, WholeLine, Torn, NothingTorn, MarkerSplit, Marked,
         LineBytes, Bytes, LineCount, LenOf

LEMMA AloneAtEnd ==
  ASSUME UNCHANGED <<stream, faults, lines>>
  PROVE  AtEnd' <=> AtEnd
  BY SourceAlone, ErrorsAlone DEF AtEnd, Torn, CutsIn, LastLineLost

(* What the position says: what is delivered of a line is at most the line.*)
LEMMA PositionBounds ==
  ASSUME ReaderInv, NEW c \in Nat, NEW b \in Nat, NEW i \in Nat, NEW j \in Nat, At(c, b, i, j)
  PROVE  /\ b <= i /\ i <= j /\ c <= LineCount + 1 /\ c \in 0 .. LineCount + 1
         /\ j # 0 /\ ~ done => c \in 0 .. LineCount /\ j <= LenOf(c)
         /\ unread = <<>> => i = j
         /\ done => b = i /\ i = j
  <1>0. StreamTypes /\ Phases
    BY DEF ReaderInv, TextInv, StreamInv
  <1>1. /\ b <= i /\ i <= j /\ c <= LineCount + 1 /\ c \in 0 .. LineCount + 1
        /\ LineCount \in Nat
    BY <1>0, StreamFacts DEF At
  <1>2. ASSUME j # 0, ~ done PROVE c \in 0 .. LineCount /\ j <= LenOf(c)
    <2>2. CASE c = 0
      BY <1>0, <1>1, <1>2, <2>2, StreamFacts DEF At, StreamTypes
    <2>3. CASE c # 0 /\ line = c + 1 /\ j <= LenOf(c)
      BY <1>0, <1>1, <2>3 DEF StreamTypes
    <2>4. CASE c # 0 /\ line = c /\ j <= off
      <3>1. off # 0 /\ off \in Nat
        BY <1>0, <1>2, <2>4 DEF StreamTypes
      <3>2. c <= LineCount /\ off <= LenOf(c)
        BY <1>0, <2>4, <3>1 DEF Phases, AtError
      <3>3. LenOf(c) \in Nat
        BY SMTT(40), <1>0, <1>1, <2>4, <3>2, StreamFacts
      <3> QED BY <1>1, <2>4, <3>1, <3>2, <3>3
    <2> QED BY <1>1, <1>2, <2>2, <2>3, <2>4 DEF At, Fetched
  <1>3. ASSUME unread = <<>> PROVE i = j
    <2>1. Len(Bytes(c, i, j)) = j - i
      <3>1. c \in Nat /\ i \in Nat /\ j \in Nat /\ i <= j
        BY <1>1
      <3> QED BY ONLY <3>1, BytesAre
    <2>2. Bytes(c, i, j) = <<>>
      BY <1>3 DEF At
    <2> QED BY <2>1, <2>2, EmptySeq
  <1>4. ASSUME done PROVE b = i /\ i = j
    BY <1>1, <1>4 DEF At
  <1> QED BY <1>1, <1>2, <1>3, <1>4

(* What is left of a line is as long as it says.                           *)
LEMMA NoneLeft ==
  ASSUME NEW c \in Nat, NEW b \in Nat, NEW j \in Nat, b <= j
  PROVE  /\ Bytes(c, b, j) = <<>> => b = j
         /\ Bytes(c, b, j) # <<>> => b < j /\ j # 0
  <1>1. Len(Bytes(c, b, j)) = j - b
    BY BytesAre
  <1>2. b = j => Bytes(c, b, j) = <<>>
    BY BytesNone
  <1>3. Bytes(c, b, j) = <<>> => b = j
    BY <1>1, EmptySeq
  <1> QED BY <1>2, <1>3

(* The rest of the line under way is the line, or what errors left of it.  *)
LEMMA RestOfLine ==
  ASSUME ReaderInv, ~ done, NEW c \in 0 .. LineCount, NEW b \in Nat, NEW i \in Nat, NEW j \in Nat,
         At(c, b, i, j), b # LenOf(c)
  PROVE  WholeLine(c, Bytes(c, b, LenOf(c)))
  <1>0. StreamTypes /\ Phases
    BY DEF ReaderInv, TextInv, StreamInv
  <1>1. CASE b = 0
    BY <1>0, <1>1, LineBytesAre DEF WholeLine
  <1>2. CASE b # 0
    <2>1. b \in CutsIn(c)
      BY <1>2 DEF At, Lost
    <2>2. c # 0
      <3>1. ASSUME c = 0 PROVE FALSE
        <4>1. faults = <<>>
          BY <1>0, <3>1 DEF At, Phases
        <4> QED BY <2>1, <4>1 DEF CutsIn
      <3> QED BY <3>1
    <2> QED BY <2>1, <2>2 DEF WholeLine, LenOf
  <1> QED BY <1>1, <1>2

(* A line answered: whole, or after the table was ended by a split row.    *)
LEMMA LineAnswered ==
  ASSUME ReaderTypes, StreamTypes, Whole, UNCHANGED <<stream, faults>>, done => done', AnswerLine,
         NEW c \in 0 .. LineCount, Len(lines) = c, lineBuf' \in Seq(Byte), lineBuf' # <<>>,
         (done' /\ RowSplit') \/ (WholeLine(c, lineBuf))', unread' = <<>>
  PROVE  /\ ReaderTypes' /\ Whole' /\ Len(lines') = c + 1
         /\ FlattenSeq(lines') = FlattenSeq(lines) \o lineBuf'
         /\ Taken' = <<>>
  <1>1. lines \in Seq(Seq(Byte)) /\ c \in Nat /\ lines' = Append(lines, lineBuf')
    BY StreamFacts DEF ReaderTypes, AnswerLine
  <1>2. /\ lines' \in Seq(Seq(Byte)) /\ Len(lines') = c + 1
        /\ \A k \in 1 .. c : lines'[k] = lines[k]
        /\ lines'[c + 1] = lineBuf'
    BY <1>1, AppendProperties
  <1>4. ReaderTypes'
    BY <1>1, <1>2, EmptySeq DEF ReaderTypes, AnswerLine
  <1>5. Whole'
    <2> SUFFICES ASSUME ~ (done' /\ RowSplit'), NEW k \in 1 .. c + 1
                 PROVE  (WholeLine(k - 1, lines[k]))'
      BY <1>2 DEF Whole
    <2>0. ~ (done /\ RowSplit)
      BY ErrorsAlone
    <2>1. CASE k = c + 1
      <3>1. k - 1 = c
        BY <1>1, <2>1
      <3> QED BY <1>2, <2>1, <3>1
    <2>2. CASE k # c + 1
      <3>1. k \in 1 .. c
        BY <1>1, <2>2
      <3>2. WholeLine(k - 1, lines[k])
        BY <2>0, <3>1 DEF Whole
      <3>3. (WholeLine(k - 1, lines[k]))' <=> WholeLine(k - 1, lines'[k])
        BY ErrorsAlone DEF WholeLine, CutsIn, LineBytes, Bytes
      <3> QED BY <1>2, <3>1, <3>2, <3>3
    <2> QED BY <2>1, <2>2
  <1>6. FlattenSeq(lines') = FlattenSeq(lines) \o lineBuf'
    BY <1>1, FlattenAppend
  <1> QED BY <1>2, <1>4, <1>5, <1>6 DEF Taken, AnswerLine

LEMMA WholeAlone ==
  ASSUME Whole, UNCHANGED stream, UNCHANGED lines, StreamTypes, done => done',
         UNCHANGED faults \/ \E f \in Byte : faults' = Append(faults, f)
  PROVE  Whole'
  <1> SUFFICES ASSUME ~ (done' /\ RowSplit'), NEW n \in 1 .. Len(lines)
               PROVE  (WholeLine(n - 1, lines[n]))'
    BY DEF Whole
  <1>1. ~ (done /\ RowSplit)
    BY ErrorsStay
  <1>2. PICK x : x = lines[n] /\ WholeLine(n - 1, x)
    BY <1>1 DEF Whole
  <1>3. (WholeLine(n - 1, x))' /\ x = lines'[n]
    BY <1>2, ErrorsStay
  <1> QED BY <1>3 DEF WholeLine

LEMMA StartStep ==
  ASSUME ReaderInv, Start
  PROVE  ReaderInv'
  <1>0. StreamInv /\ TextInv /\ UNCHANGED vars /\ UNCHANGED <<stream, faults>> /\ done' = done
    BY DEF ReaderInv, TextInv, Start, vars, innerVars
  <1>1. PICK c, b, i, j \in Nat : At(c, b, i, j)
    BY DEF ReaderInv
  <1>2. TextInv'
    BY <1>0, TextNext
  <1>3. unread = <<>> /\ unread' = <<>> /\ Taken = <<>> /\ Taken' = <<>> /\ lines' = lines
    BY DEF ReaderInv, Ends, Start, Taken, takenVars
  <1>4. ReaderTypes'
    BY <1>3, EmptySeq DEF ReaderInv, ReaderTypes, Start
  <1>5. Whole'
    BY <1>0, <1>3, WholeAlone DEF ReaderInv, StreamInv
  <1>6. Ends'
    BY <1>0, <1>3, ErrorsAlone, AloneAtEnd DEF ReaderInv, Ends, Start
  <1>7. Accounted'
    BY <1>0, <1>3, ErrorsAlone DEF ReaderInv, Accounted, Start, Taken, vars, NothingTorn
  <1>8. At(c, b, i, j)'
    BY <1>0, <1>1, <1>3, StreamAlone, SourceAlone, ErrorsAlone
      DEF At, Start, vars, innerVars, Bytes
  <1> QED BY <1>2, <1>4, <1>5, <1>6, <1>7, <1>8 DEF ReaderInv

(* consume: the bytes go to the line under way, which ends with the buffer *)
(* if it ends at all.                                                      *)
LEMMA TakeStep ==
  ASSUME ReaderInv, Take
  PROVE  ReaderInv'
  <1>0. /\ StreamInv /\ StreamTypes /\ Phases /\ TextInv /\ ReaderTypes /\ Whole /\ Ends
        /\ Accounted /\ UNCHANGED vars /\ UNCHANGED <<stream, faults>> /\ done' = done
    BY DEF ReaderInv, TextInv, StreamInv, Take, vars, innerVars
  <1>1. PICK c, b, i, j \in Nat : At(c, b, i, j)
    BY DEF ReaderInv
  <1>2. TextInv'
    BY <1>0, TextNext
  <1>3. /\ reading /\ unread # <<>> /\ Taken = lineBuf /\ lineBuf = Bytes(c, b, i)
        /\ unread = Bytes(c, i, j) /\ Len(lines) = c
    BY <1>1 DEF At, Take, Taken
  <1>4. b <= i /\ i < j /\ ~ done /\ c \in 0 .. LineCount /\ j <= LenOf(c) /\ j # 0
    <2>1. i # j
      BY <1>3, BytesNone
    <2> QED BY <1>1, <2>1, PositionBounds
  <1>5. /\ unread \in Seq(Byte) /\ Len(unread) = j - i /\ Len(unread) \in Nat \ {0}
        /\ \A k \in 1 .. j - i : unread[k] = <<c, i + k>>
        /\ lineBuf \o unread = Bytes(c, b, j) /\ lineBuf \o unread # <<>>
        /\ lineBuf \in Seq(Byte) /\ lineBuf \o unread \in Seq(Byte)
    <2>0. /\ c \in Nat /\ b \in Nat /\ i \in Nat /\ j \in Nat /\ b <= i /\ i <= j /\ i < j /\ b <= j
      BY <1>4
    <2>1. lineBuf \o unread = Bytes(c, b, j)
      <3>1. Bytes(c, b, i) \o Bytes(c, i, j) = Bytes(c, b, j)
        BY ONLY ZenonT(60), <2>0, BytesJoin
      <3> QED BY <1>3, <3>1
    <2>2. /\ Bytes(c, i, j) \in Seq(Byte) /\ Len(Bytes(c, i, j)) = j - i
          /\ \A k \in 1 .. j - i : Bytes(c, i, j)[k] = <<c, i + k>>
      BY ONLY <2>0, BytesAre
    <2>3. lineBuf \in Seq(Byte) /\ lineBuf \o unread \in Seq(Byte)
      BY <1>0, ConcatProperties DEF ReaderTypes
    <2>4. Bytes(c, b, j) # <<>>
      <3>1. b # j
        BY ONLY <2>0
      <3> QED BY ONLY <2>0, <3>1, NoneLeft
    <2>5. j - i \in Nat \ {0}
      BY ONLY <2>0
    <2> QED BY <1>3, <2>1, <2>2, <2>3, <2>4, <2>5
  <1>6. ASSUME NEW k \in 1 .. j - i
        PROVE  EndsLine(unread[k]) <=> i + k = LenOf(c) /\ ~ LastOpen(c)
    <2>1. unread[k][1] = c /\ unread[k][2] = i + k
      <3>1. unread[k] = <<c, i + k>>
        BY <1>5
      <3> QED BY ONLY <3>1
    <2> QED BY <2>1 DEF EndsLine, LenOf, LineCount, LastOpen
  <1>7. DOMAIN unread = 1 .. j - i
    BY <1>5, LenProperties
  <1>8. /\ FlattenSeq(lines) \in Seq(Byte) /\ out \in Seq(Byte)
        /\ NothingTorn => out = FlattenSeq(lines) \o (lineBuf \o unread)
    <2>1. FlattenSeq(lines) \in Seq(Byte) /\ out \in Seq(Byte)
      BY <1>0, FlattenType DEF ReaderTypes, StreamTypes
    <2>2. NothingTorn => out = FlattenSeq(lines) \o lineBuf \o unread
      BY <1>0, <1>3 DEF Accounted, NothingTorn
    <2>3. (FlattenSeq(lines) \o lineBuf) \o unread = FlattenSeq(lines) \o (lineBuf \o unread)
      <3>1. FlattenSeq(lines) \in Seq(Byte) /\ lineBuf \in Seq(Byte) /\ unread \in Seq(Byte)
        BY <1>5, <2>1
      <3> QED BY ONLY <3>1, BytesAssociative
    <2> QED BY <2>1, <2>2, <2>3
  <1>9. CASE LineEnds = {}
    <2>1. lineBuf' = lineBuf \o unread /\ unread' = <<>> /\ UNCHANGED <<reading, answer, lines>>
          /\ Taken' = lineBuf \o unread
      BY <1>3, <1>9 DEF Take, Taken
    <2>2. j < LenOf(c) \/ LastOpen(c)
      <3>1. PICK k \in 1 .. j - i : i + k = j
        <4>1. j - i \in 1 .. j - i /\ i + (j - i) = j
          BY <1>4
        <4> QED BY <4>1
      <3>2. ~ EndsLine(unread[k])
        BY <1>7, <1>9 DEF LineEnds
      <3>3. LenOf(c) \in Nat
        BY <1>0, <1>4, LineBytesAre
      <3> QED BY <1>4, <1>6, <3>1, <3>2, <3>3
    <2>3. ReaderTypes'
      BY <1>0, <1>5, <2>1, EmptySeq DEF ReaderTypes
    <2>4. Whole'
      BY <1>0, <2>1, WholeAlone
    <2>5. Ends'
      BY <1>0, <1>3, <1>4, <2>1 DEF Ends
    <2>6. Accounted'
      <3>1. out' = out /\ reading' /\ (NothingTorn' <=> NothingTorn)
        BY <1>0, <1>3, <2>1, ErrorsAlone DEF vars
      <3>2. FlattenSeq(lines) \o (lineBuf \o unread) \in Seq(Byte)
        BY <1>5, <1>8, ConcatProperties
      <3>3. (FlattenSeq(lines) \o (lineBuf \o unread)) \o <<>> = FlattenSeq(lines) \o (lineBuf \o unread)
        BY <3>2, ConcatEmptySeq
      <3> QED BY <1>8, <2>1, <3>1, <3>3 DEF Accounted, NothingTorn
    <2>7. At(c, b, j, j)'
      <3>1. Bytes(c, j, j) = <<>> /\ b <= j /\ (b # 0 => Lost(c, b))
        BY <1>1, <1>4, BytesNone DEF At
      <3> QED BY <1>0, <1>1, <1>4, <1>5, <2>1, <2>2, <3>1, StreamAlone, SourceAlone, ErrorsAlone
                 DEF At, vars, innerVars, Bytes
    <2> QED BY <1>2, <2>3, <2>4, <2>5, <2>6, <2>7 DEF ReaderInv
  <1>10. CASE LineEnds # {}
    <2>1. LineEnds = {j - i} /\ j = LenOf(c) /\ ~ LastOpen(c)
      <3>1. \A k \in LineEnds : k \in 1 .. j - i /\ i + k = LenOf(c) /\ ~ LastOpen(c)
        BY <1>6, <1>7 DEF LineEnds
      <3>2. LenOf(c) \in Nat
        BY <1>0, <1>4, LineBytesAre
      <3>3. \A k \in LineEnds : k = j - i /\ j = LenOf(c) /\ ~ LastOpen(c)
        BY <1>4, <3>1, <3>2
      <3> QED BY <1>10, <3>3
    <2>2. Min(LineEnds) = Len(unread)
      BY <1>5, <2>1 DEF Min
    <2>3. /\ lineBuf' = lineBuf \o unread /\ unread' = <<>> /\ AnswerLine
      <3>1. SubSeq(unread, 1, Len(unread)) = unread
            /\ SubSeq(unread, Len(unread) + 1, Len(unread)) = <<>>
        BY <1>5, SubSeqFull, SubSeqEmpty
      <3> QED BY <1>10, <2>2, <3>1 DEF Take
    <2>4. (WholeLine(c, lineBuf))'
      <3>1. WholeLine(c, Bytes(c, b, LenOf(c)))
        BY <1>1, <1>4, <2>1, RestOfLine
      <3>2. lineBuf' = Bytes(c, b, LenOf(c))
        BY <1>5, <2>1, <2>3
      <3>3. WholeLine(c, lineBuf')
        BY <3>1, <3>2
      <3> QED BY <1>0, <3>3, ErrorsAlone DEF WholeLine
    <2>5. /\ ReaderTypes' /\ Whole' /\ Len(lines') = c + 1
          /\ FlattenSeq(lines') = FlattenSeq(lines) \o lineBuf' /\ Taken' = <<>>
      BY <1>0, <1>3, <1>4, <1>5, <2>3, <2>4, LineAnswered
    <2>6. Ends'
      BY <1>0, <1>4, <1>5, <2>3 DEF Ends, AnswerLine
    <2>7. Accounted'
      <3>1. out' = out /\ (NothingTorn' <=> NothingTorn) /\ ~ reading'
        BY <1>0, <2>3, ErrorsAlone DEF vars, AnswerLine
      <3>2. NothingTorn => out = FlattenSeq(lines')
        BY <1>8, <2>3, <2>5
      <3>3. (out \o <<>>) \o <<>> = out
        BY <1>8, ConcatEmptySeq
      <3> QED BY <2>3, <3>1, <3>2, <3>3 DEF Accounted, NothingTorn
    <2>8. Fetched(c + 1, 0) /\ hpos = stream.header
      <3>1. CASE c = 0
        <4>1. /\ line = 1 /\ off = 0 /\ buffer = <<>> /\ hpos = stream.header /\ bufferPos = 0
          BY <1>0, <1>1, <2>1, <3>1, StreamFacts DEF At, Phases, StreamTypes
        <4>2. Rest = <<>> /\ Bytes(1, 0, 0) = <<>>
          BY <4>1, BytesNone, EmptySeq, SubSeqEmpty DEF Rest
        <4> QED BY <3>1, <4>1, <4>2 DEF Fetched
      <3>2. CASE c # 0 /\ line = c + 1 /\ off = 0 /\ Rest = Bytes(c, j, LenOf(c))
        <4>1. Rest = <<>> /\ Bytes(c + 1, 0, 0) = <<>>
          BY <2>1, <3>2, BytesNone
        <4> QED BY <1>1, <3>2, <4>1 DEF Fetched, At
      <3>3. CASE c # 0 /\ line = c /\ j <= off
        <4>1. off # 0 /\ off \in Nat /\ LenOf(c) \in Nat
          BY <1>0, <1>4, <3>3, LineBytesAre DEF StreamTypes
        <4>2. off <= LenOf(c) /\ (off = LenOf(c) => LastOpen(c))
          BY <1>0, <3>3, <4>1 DEF Phases, AtError, LastOpen
        <4> QED BY <2>1, <3>3, <4>1, <4>2
      <3> QED BY <1>1, <1>4, <3>1, <3>2, <3>3 DEF At, Fetched
    <2>9. At(c + 1, 0, 0, 0)'
      <3>1. Bytes(c + 1, 0, 0) = <<>> /\ c + 1 <= LineCount + 1 /\ c + 1 # 0
            /\ LineCount' = LineCount /\ hpos' = hpos /\ stream' = stream
        BY <1>0, <1>4, BytesNone, StreamFacts DEF vars, innerVars, LineCount
      <3>2. Fetched(c + 1, 0)'
        BY <1>0, <2>8, StreamAlone
      <3>3. Bytes(c + 1, 0, 0)' = <<>>
        BY <3>1 DEF Bytes
      <3> QED BY <2>3, <2>5, <2>8, <3>1, <3>2, <3>3 DEF At
    <2>10. c + 1 \in Nat /\ 0 \in Nat
      OBVIOUS
    <2> QED BY <1>2, <2>5, <2>6, <2>7, <2>9, <2>10 DEF ReaderInv
  <1> QED BY <1>9, <1>10

(* Before a refill all that was delivered of line c is taken.              *)
LEMMA BeforeRefill ==
  ASSUME ReaderInv, Refill
  PROVE  \E c, b, j \in Nat :
            /\ At(c, b, j, j) /\ b <= j /\ lineBuf = Bytes(c, b, j)
            /\ c \in 0 .. LineCount + 1 /\ Len(lines) = c
            /\ j # 0 /\ ~ done => c \in 0 .. LineCount /\ j <= LenOf(c)
            /\ done => b = j
            /\ b # 0 => Lost(c, b)
            /\ j # 0 => j < LenOf(c) \/ LastOpen(c)
  <1>1. PICK c, b, i, j \in Nat : At(c, b, i, j)
    BY DEF ReaderInv
  <1>2. /\ reading /\ unread = <<>> /\ Taken = lineBuf
    BY DEF Refill, Taken
  <1>3. i = j /\ At(c, b, j, j)
    BY <1>1, <1>2, PositionBounds
  <1>4. /\ c \in 0 .. LineCount + 1 /\ b <= j
        /\ j # 0 /\ ~ done => c \in 0 .. LineCount /\ j <= LenOf(c)
        /\ done => b = j
    BY <1>3, PositionBounds
  <1>5. /\ lineBuf = Bytes(c, b, j) /\ Len(lines) = c /\ (b # 0 => Lost(c, b))
        /\ j # 0 => j < LenOf(c) \/ LastOpen(c)
    BY <1>2, <1>3 DEF At
  <1> QED BY <1>3, <1>4, <1>5

(* What is accounted for before a refill, if nothing was lost.             *)
LEMMA AllTaken ==
  ASSUME ReaderInv, Refill
  PROVE  /\ NothingTorn => out = FlattenSeq(lines) \o lineBuf
         /\ FlattenSeq(lines) \in Seq(Byte) /\ out \in Seq(Byte) /\ lineBuf \in Seq(Byte)
         /\ lines \in Seq(Seq(Byte))
  <1>1. /\ reading /\ unread = <<>>
    BY DEF Refill
  <1>2. /\ FlattenSeq(lines) \in Seq(Byte) /\ lineBuf \in Seq(Byte) /\ out \in Seq(Byte)
        /\ lines \in Seq(Seq(Byte))
    BY FlattenType DEF ReaderInv, ReaderTypes, TextInv, StreamInv, StreamTypes
  <1>3. NothingTorn => out = (FlattenSeq(lines) \o lineBuf) \o <<>>
    BY <1>1 DEF ReaderInv, Accounted, NothingTorn
  <1>4. FlattenSeq(lines) \o lineBuf \in Seq(Byte)
    BY <1>2, ConcatProperties
  <1> QED BY <1>2, <1>3, <1>4, ConcatEmptySeq

(* A refill with data p, the bytes of line c from j to k.                  *)
LEMMA DataRefill ==
  ASSUME ReaderInv, Refill, TextInv', last' = "data", UNCHANGED <<stream, faults>>, ~ done, ~ done',
         NEW c \in Nat, NEW b \in Nat, NEW j \in Nat, NEW k \in Nat, At(c, b, j, j), j <= k,
         out' = out \o Bytes(c, j, k),
         c = 0 => ~ doneHeader' /\ k = hpos',
         c # 0 => hpos' = stream.header /\ Fetched(c, k)'
  PROVE  ReaderInv'
  <1>0. /\ Bytes(c, j, k) \in Seq(Byte) /\ out \in Seq(Byte) /\ lines \in Seq(Seq(Byte))
        /\ StreamTypes
    BY BytesAre DEF ReaderInv, ReaderTypes, TextInv, StreamInv, StreamTypes
  <1>1. /\ UNCHANGED <<reading, answer, lines, lineBuf>> /\ reading /\ unread = <<>>
        /\ unread' = Bytes(c, j, k) /\ Taken' = Taken
    BY <1>0, Added DEF Refill, AnswerLine, Taken
  <1>2. ReaderTypes'
    BY <1>0, <1>1 DEF ReaderInv, ReaderTypes
  <1>3. Whole'
    BY <1>0, <1>1, WholeAlone DEF ReaderInv
  <1>4. Ends'
    BY <1>1 DEF ReaderInv, Ends
  <1>5. Accounted'
    <2>1. NothingTorn' <=> NothingTorn
      BY ErrorsAlone
    <2>2. NothingTorn => out' = FlattenSeq(lines') \o lineBuf' \o unread'
      BY <1>1, AllTaken
    <2> QED BY <1>1, <2>1, <2>2 DEF Accounted, NothingTorn
  <1>6. At(c, b, j, k)'
    <2>1. LineCount' = LineCount /\ stream' = stream
      BY SourceAlone
    <2>2. b <= j /\ j <= k /\ (b # 0 => (Lost(c, b))')
      BY ErrorsAlone DEF At
    <2>3. j # 0 => (j < LenOf(c) \/ LastOpen(c))'
      BY SourceAlone DEF At
    <2>4. Taken' = Bytes(c, b, j) /\ Len(lines') = c /\ c <= LineCount + 1
      BY <1>1 DEF At
    <2> QED BY <1>1, <2>1, <2>2, <2>3, <2>4 DEF At, Bytes
  <1> QED BY <1>2, <1>3, <1>4, <1>5, <1>6 DEF ReaderInv

(* A refill that ends read_until without a line: at the end, the buffer    *)
(* being empty, or with an error, to which the part in line_buf is lost.   *)
LEMMA NoRefill ==
  ASSUME ReaderInv, Refill, TextInv', last' \in {"eof", "err"}, UNCHANGED <<stream, out>>,
         UNCHANGED faults \/ \E f \in Byte : faults' = Append(faults, f),
         last' = "eof" => lineBuf = <<>> /\ done', done => done',
         NEW c \in Nat, NEW j \in Nat, Len(lines) = c, c # 0, c <= LineCount + 1,
         j # 0 => (Lost(c, j))' /\ (j < LenOf(c) \/ LastOpen(c)),
         hpos' = stream.header, ~ done' => Fetched(c, j)',
         lineBuf # <<>> => ~ NothingTorn',
         done' /\ ~ MarkerSplit' /\ ~ RowSplit' =>
             c = LastLine + 1 \/ (c = LastLine /\ stream.open /\ (Torn(LineCount))')
  PROVE  ReaderInv'
  <1>0. /\ out \in Seq(Byte) /\ lines \in Seq(Seq(Byte)) /\ StreamTypes /\ lineBuf \in Seq(Byte)
    BY DEF ReaderInv, ReaderTypes, TextInv, StreamInv, StreamTypes
  <1>1. /\ UNCHANGED <<lines, lineBuf>> /\ reading /\ reading' = FALSE /\ unread = <<>>
        /\ answer' = (IF last' = "eof" THEN "end" ELSE "err")
        /\ Taken' = <<>>
    BY DEF Refill, Taken
  <1>2. unread' = <<>>
    <2>1. SubSeq(out, Len(out) + 1, Len(out)) = <<>>
      BY <1>0, LenProperties, SubSeqEmpty
    <2> QED BY <2>1 DEF Refill
  <1>3. ReaderTypes'
    <2>1. unread' \in Seq(Byte) /\ lineBuf' \in Seq(Byte) /\ lines' \in Seq(Seq(Byte))
      BY <1>0, <1>1, <1>2, EmptySeq
    <2>2. reading' \in BOOLEAN /\ answer' \in {"none", "line", "end", "err"}
      <3>1. answer' = "end" \/ answer' = "err"
        BY <1>1
      <3> QED BY <1>1, <3>1
    <2> QED BY <2>1, <2>2 DEF ReaderTypes
  <1>4. Whole'
    BY <1>0, <1>1, WholeAlone DEF ReaderInv
  <1>5. Ends'
    <2>1. LastLine' = LastLine /\ LineCount' = LineCount
      BY SourceAlone
    <2>2. ~ MarkerSplit' /\ ~ RowSplit' /\ done' => AtEnd'
      BY <1>1, <2>1 DEF AtEnd
    <2> QED BY <1>1, <1>2, <2>2 DEF Ends
  <1>6. Accounted'
    <2>1. NothingTorn' => NothingTorn /\ lineBuf = <<>>
      BY <1>0, ErrorsStay
    <2>2. NothingTorn' => out = FlattenSeq(lines) \o <<>>
      BY <2>1, AllTaken
    <2>3. FlattenSeq(lines) \o <<>> = FlattenSeq(lines)
      BY AllTaken, ConcatEmptySeq
    <2> QED BY <1>1, <1>2, <2>2, <2>3 DEF Accounted, NothingTorn
  <1>7. At(c, j, j, j)'
    <2>1. LineCount' = LineCount /\ stream' = stream
      BY SourceAlone
    <2>2. Bytes(c, j, j)' = <<>>
      BY BytesNone DEF Bytes
    <2>3. j # 0 => (Lost(c, j))' /\ (j < LenOf(c) \/ LastOpen(c))'
      BY SourceAlone
    <2> QED BY <1>1, <1>2, <2>1, <2>2, <2>3 DEF At
  <1> QED BY <1>3, <1>4, <1>5, <1>6, <1>7 DEF ReaderInv

(* A refill at the end that makes what is in line_buf the last line.       *)
LEMMA AnswerRefill ==
  ASSUME ReaderInv, Refill, TextInv', last' = "eof", UNCHANGED <<stream, faults, out>>, done',
         lineBuf # <<>>, NEW c \in 1 .. LineCount, Len(lines) = c, hpos' = stream.header,
         RowSplit \/ WholeLine(c, lineBuf),
         ~ MarkerSplit /\ ~ RowSplit => c = LastLine
  PROVE  ReaderInv'
  <1>0. /\ StreamTypes /\ ReaderTypes /\ Whole /\ LineCount \in Nat /\ lineBuf \in Seq(Byte)
        /\ LastLine \in Nat
    BY StreamFacts, LastLineIs DEF ReaderInv, TextInv, StreamInv, ReaderTypes
  <1>1. AnswerLine /\ lineBuf' = lineBuf
    BY DEF Refill
  <1>2. unread' = <<>>
    <2>1. SubSeq(out, Len(out) + 1, Len(out)) = <<>>
      BY AllTaken, LenProperties, SubSeqEmpty
    <2> QED BY <2>1 DEF Refill
  <1>3. /\ ReaderTypes' /\ Whole' /\ Len(lines') = c + 1
        /\ FlattenSeq(lines') = FlattenSeq(lines) \o lineBuf' /\ Taken' = <<>>
    <2>1. (done' /\ RowSplit') \/ (WholeLine(c, lineBuf))'
      <3>1. CASE RowSplit
        BY <3>1, ErrorsAlone
      <3>2. CASE WholeLine(c, lineBuf)
        <4>1. PICK x : x = lineBuf' /\ WholeLine(c, x)
          BY <1>1, <3>2
        <4>2. (WholeLine(c, x))'
          BY <4>1, ErrorsAlone
        <4> QED BY <4>1, <4>2 DEF WholeLine
      <3> QED BY <3>1, <3>2
    <2>2. c \in 0 .. LineCount
      BY <1>0
    <2> QED BY <1>0, <1>1, <1>2, <2>1, <2>2, LineAnswered
  <1>4. Ends'
    <2>1. LastLine' = LastLine /\ (MarkerSplit' <=> MarkerSplit) /\ (RowSplit' <=> RowSplit)
      BY SourceAlone, ErrorsAlone
    <2>2. ~ MarkerSplit' /\ ~ RowSplit' => AtEnd'
      BY <1>3, <2>1 DEF AtEnd
    <2> QED BY <1>1, <1>2, <2>2 DEF Ends, AnswerLine
  <1>5. Accounted'
    <2>1. (NothingTorn' <=> NothingTorn) /\ ~ reading'
      BY <1>1, ErrorsAlone DEF AnswerLine
    <2>2. NothingTorn => out' = FlattenSeq(lines')
      BY <1>1, <1>3, AllTaken
    <2>3. (out \o <<>>) \o <<>> = out
      BY AllTaken, ConcatEmptySeq
    <2> QED BY <1>2, <2>1, <2>2, <2>3 DEF Accounted, NothingTorn
  <1>6. At(c + 1, 0, 0, 0)'
    <2>1. Bytes(c + 1, 0, 0) = <<>> /\ c + 1 <= LineCount + 1 /\ c + 1 # 0 /\ LineCount' = LineCount
      BY <1>0, BytesNone, SourceAlone
    <2>2. Bytes(c + 1, 0, 0)' = <<>>
      BY <2>1 DEF Bytes
    <2> QED BY <1>2, <1>3, <2>1, <2>2 DEF At
  <1>7. c + 1 \in Nat /\ 0 \in Nat
    BY <1>0
  <1> QED BY <1>3, <1>4, <1>5, <1>6, <1>7 DEF ReaderInv

(* Where a line is fetched, the line under way is that line, or the last   *)
(* one, without a newline and not answered yet.                            *)
LEMMA AtFetch ==
  ASSUME ReaderInv, NEW n \in Sizes, Fetching(n), NEW c \in Nat, NEW b \in Nat, NEW j \in Nat,
         At(c, b, j, j)
  PROVE  /\ c # 0 /\ hpos = stream.header /\ doneHeader' /\ ~ done /\ Rest = <<>>
         /\ \/ line = c /\ off = j
            \/ line = c + 1 /\ off = 0 /\ c = LineCount /\ j = LenOf(c) /\ LastOpen(c)
  <1>0. StreamInv /\ StreamTypes /\ Phases
    BY DEF ReaderInv, TextInv, StreamInv
  <1>1. hpos = stream.header /\ doneHeader' /\ ~ done
    BY <1>0, HeaderPassed DEF Fetching
  <1>2. Rest = <<>>
    <2>1. /\ buffer \in Seq(Byte) /\ bufferPos \in Nat /\ Len(buffer) \in Nat
          /\ bufferPos <= Len(buffer) /\ ~ (bufferPos < Len(buffer))
      BY <1>0, StreamFacts DEF Fetching, Buffered, StreamTypes
    <2>2. bufferPos + 1 > Len(buffer) /\ bufferPos + 1 \in Int /\ Len(buffer) \in Int
      BY ONLY <2>1
    <2> QED BY <2>1, <2>2, SubSeqEmpty DEF Rest
  <1>3. c # 0
    <2>1. ASSUME c = 0 PROVE FALSE
      <3>1. j = stream.header /\ j # 0 /\ LenOf(0) = j
        BY <1>0, <1>1, <2>1, StreamFacts DEF At
      <3> QED BY <2>1, <3>1, StreamFacts, <1>0 DEF At, LastOpen
    <2> QED BY <2>1
  <1>4. Fetched(c, j) /\ c <= LineCount + 1
    BY <1>1, <1>3 DEF At
  <1>5. CASE line = c + 1 /\ off = 0 /\ j <= LenOf(c) /\ Rest = Bytes(c, j, LenOf(c))
    <2>1. c \in 1 .. LineCount /\ LenOf(c) \in Nat \ {0}
      BY SMTT(40), <1>0, <1>3, <1>5, StreamFacts DEF StreamTypes
    <2>2. Len(Bytes(c, j, LenOf(c))) = LenOf(c) - j
      BY <1>5, <2>1, BytesAre
    <2>3. j = LenOf(c)
      BY <1>2, <1>5, <2>1, <2>2
    <2>4. c = LineCount /\ LastOpen(c)
      BY <2>1, <2>3 DEF At, LastOpen
    <2> QED BY <1>1, <1>2, <1>3, <1>5, <2>3, <2>4
  <1>6. CASE line = c /\ j <= off /\ Rest = Bytes(c, j, off)
    <2>1. off \in Nat /\ Len(Bytes(c, j, off)) = off - j
      BY <1>0, <1>6, BytesAre DEF StreamTypes
    <2>2. off = j
      BY <1>2, <1>6, <2>1
    <2> QED BY <1>1, <1>2, <1>3, <1>6, <2>2
  <1> QED BY <1>4, <1>5, <1>6 DEF Fetched

(* The ways a refill goes.                                                 *)
LEMMA RefillHeader ==
  ASSUME ReaderInv, Refill, TextInv', NEW n \in Sizes, ReadHeader(n)
  PROVE  ReaderInv'
  <1>0. StreamInv /\ StreamTypes /\ Phases
    BY DEF ReaderInv, TextInv, StreamInv
  <1>1. PICK c, b, j \in Nat : At(c, b, j, j)
    BY BeforeRefill
  <1>2. /\ ~ doneHeader /\ ~ doneHeader' /\ ~ done /\ ~ done' /\ UNCHANGED <<stream, faults>>
        /\ hpos \in Nat /\ hpos' \in Nat /\ hpos < hpos' /\ hpos' <= stream.header
        /\ out' = out \o Bytes(0, hpos, hpos') /\ last' = "data"
    BY <1>0, FromHeader DEF Phases, ReadHeader, innerVars
  <1>3. c = 0 /\ j = hpos
    <2>1. c # 0 => hpos = stream.header
      BY <1>1 DEF At
    <2>2. c = 0
      BY <1>0, <1>2, <2>1, StreamFacts
    <2> QED BY <1>1, <2>2 DEF At
  <1>4. PICK k \in Nat : k = hpos' /\ j <= k
    BY <1>2, <1>3
  <1>5. /\ out' = out \o Bytes(c, j, k)
        /\ c = 0 => ~ doneHeader' /\ k = hpos'
        /\ c # 0 => hpos' = stream.header /\ Fetched(c, k)'
    BY <1>2, <1>3, <1>4
  <1> QED BY <1>1, <1>2, <1>4, <1>5, DataRefill

LEMMA RefillBuffer ==
  ASSUME ReaderInv, Refill, TextInv', NEW n \in Sizes, ReadBuffer(n)
  PROVE  ReaderInv'
  <1>0. StreamInv /\ StreamTypes /\ Phases /\ StreamTypes'
    BY DEF ReaderInv, TextInv, StreamInv
  <1>1. PICK c, b, j \in Nat : At(c, b, j, j)
    BY BeforeRefill
  <1> DEFINE p == SubSeq(buffer, bufferPos + 1, bufferPos')
  <1>2. /\ bufferPos' \in bufferPos .. Len(buffer) /\ buffer' = buffer /\ ~ done /\ ~ done'
        /\ out' = out \o p /\ p \in Seq(Byte) /\ last' = "data"
        /\ UNCHANGED <<stream, faults, hpos, line, off>> /\ doneHeader'
    BY <1>0, FromBuffer DEF ReadBuffer, innerVars, PastHeader
  <1>3. doneHeader /\ hpos = stream.header
    <2>1. buffer # <<>>
      BY <1>0, StreamFacts, EmptySeq DEF ReadBuffer, Buffered
    <2> QED BY <1>0, <2>1 DEF Phases
  <1>4. c # 0 /\ Fetched(c, j) /\ c <= LineCount + 1
    BY <1>1, <1>2, <1>3 DEF At
  <1>5. Rest = p \o Rest' /\ Rest' \in Seq(Byte)
    <2>1. bufferPos \in 0 .. Len(buffer) /\ buffer \in Seq(Byte)
      BY <1>0 DEF StreamTypes
    <2>2. PICK q \in bufferPos .. Len(buffer) : q = bufferPos'
      BY <1>2
    <2>3. /\ SubSeq(buffer, q + 1, Len(buffer)) \in Seq(Byte)
          /\ Rest = p \o SubSeq(buffer, q + 1, Len(buffer))
      BY <2>1, <2>2, RestSplit DEF Rest
    <2>4. Rest' = SubSeq(buffer, q + 1, Len(buffer))
      BY <1>2, <2>2 DEF Rest
    <2> QED BY <2>3, <2>4
  <1> HIDE DEF p
  <1>6. CASE line = c + 1 /\ off = 0 /\ doneHeader /\ j <= LenOf(c) /\ Rest = Bytes(c, j, LenOf(c))
    <2>1. PICK e \in Nat : e = LenOf(c)
      <3>1. c \in 1 .. LineCount
        BY SMTT(40), <1>0, <1>4, <1>6, StreamFacts DEF StreamTypes
      <3> QED BY <1>0, <3>1, StreamFacts
    <2>2. PICK k \in Nat : j <= k /\ k <= e /\ p = Bytes(c, j, k) /\ Rest' = Bytes(c, k, e)
      <3>1. PICK r \in Seq(Byte) : r = Rest' /\ Bytes(c, j, e) = p \o r /\ p \in Seq(Byte) /\ j <= e
        BY <1>2, <1>5, <1>6, <2>1
      <3>2. Cut(c, j, e, p, r)
        BY ONLY <3>1, BytesSplit
      <3> QED BY <3>1, <3>2 DEF Cut
    <2>3. Fetched(c, k)'
      BY <1>2, <1>6, <2>1, <2>2 DEF Fetched, LenOf, Bytes
    <2> QED BY <1>1, <1>2, <1>3, <1>4, <2>2, <2>3, DataRefill
  <1>7. CASE line = c /\ j <= off /\ Rest = Bytes(c, j, off)
    <2>1. PICK e \in Nat : e = off
      BY <1>0 DEF StreamTypes
    <2>2. PICK k \in Nat : j <= k /\ k <= e /\ p = Bytes(c, j, k) /\ Rest' = Bytes(c, k, e)
      <3>1. PICK r \in Seq(Byte) : r = Rest' /\ Bytes(c, j, e) = p \o r /\ p \in Seq(Byte) /\ j <= e
        BY <1>2, <1>5, <1>7, <2>1
      <3>2. Cut(c, j, e, p, r)
        BY ONLY <3>1, BytesSplit
      <3> QED BY <3>1, <3>2 DEF Cut
    <2>3. Fetched(c, k)'
      BY <1>2, <1>7, <2>1, <2>2 DEF Fetched, LenOf, Bytes
    <2> QED BY <1>1, <1>2, <1>3, <1>4, <2>2, <2>3, DataRefill
  <1> QED BY <1>4, <1>6, <1>7 DEF Fetched

LEMMA RefillLine ==
  ASSUME ReaderInv, Refill, TextInv', NEW n \in Sizes, ReadLine(n)
  PROVE  ReaderInv'
  <1>0. StreamInv /\ StreamTypes /\ Phases
    BY DEF ReaderInv, TextInv, StreamInv
  <1>1. PICK c, b, j \in Nat : At(c, b, j, j)
    BY BeforeRefill
  <1>2. /\ Fetching(n) /\ ~ done /\ ~ done' /\ last' = "data" /\ UNCHANGED <<stream, faults, hpos>>
        /\ line' = line + 1 /\ off' = 0
    BY DEF ReadLine, Fetching
  <1> DEFINE p == SubSeq(buffer', 1, bufferPos')
  <1>3. /\ line \in 1 .. LineCount /\ off < LenOf(line) /\ LenOf(line) \in Nat
        /\ out' = out \o p /\ p \in Seq(Byte) /\ Rest' \in Seq(Byte)
        /\ Bytes(line, off, LenOf(line)) = p \o Rest'
    BY <1>0, LineFetched, SplitLine
  <1> HIDE DEF p
  <1>4. c # 0 /\ hpos = stream.header /\ doneHeader' /\ line = c /\ off = j
    <2>1. line <= LineCount /\ LineCount \in Nat
      BY <1>0, <1>3, StreamFacts
    <2>2. /\ c # 0 /\ hpos = stream.header /\ doneHeader'
          /\ (line = c /\ off = j) \/ (line = c + 1 /\ c = LineCount)
      BY <1>1, <1>2, AtFetch
    <2> QED BY <2>1, <2>2
  <1>5. PICK e \in Nat : e = LenOf(c) /\ j <= e /\ Bytes(c, j, e) = p \o Rest'
    <2>1. j <= LenOf(c) /\ LenOf(c) \in Nat /\ Bytes(c, j, LenOf(c)) = p \o Rest'
      BY <1>3, <1>4
    <2> QED BY <2>1
  <1>6. PICK k \in Nat : j <= k /\ k <= e /\ p = Bytes(c, j, k) /\ Rest' = Bytes(c, k, e)
    <2>1. PICK r \in Seq(Byte) : r = Rest' /\ Bytes(c, j, e) = p \o r /\ p \in Seq(Byte) /\ j <= e
      BY <1>3, <1>5
    <2>2. Cut(c, j, e, p, r)
      BY ONLY <2>1, BytesSplit
    <2> QED BY <2>1, <2>2 DEF Cut
  <1>7. Fetched(c, k)'
    BY <1>2, <1>4, <1>5, <1>6 DEF Fetched, LenOf, Bytes
  <1> QED BY <1>1, <1>2, <1>3, <1>4, <1>6, <1>7, DataRefill

(* An error: what is in line_buf already came before an earlier error in   *)
(* the same line, or it is the whole of a last line without a newline.     *)
LEMMA RefillFault ==
  ASSUME ReaderInv, Refill, TextInv', NEW n \in Sizes, ReadFault(n)
  PROVE  ReaderInv'
  <1>0. StreamInv /\ StreamTypes /\ Phases
    BY DEF ReaderInv, TextInv, StreamInv
  <1>1. PICK c, b, j \in Nat :
           /\ At(c, b, j, j) /\ b <= j /\ lineBuf = Bytes(c, b, j) /\ Len(lines) = c
           /\ c \in 0 .. LineCount + 1
           /\ j # 0 => j < LenOf(c) \/ LastOpen(c)
    BY BeforeRefill
  <1>2. /\ Fetching(n) /\ ~ done /\ ~ done' /\ last' = "err" /\ UNCHANGED <<stream, out, hpos, line>>
    BY DEF ReadFault, Fetching
  <1>3. PICK k \in Nat :
           /\ off <= k /\ off' = k /\ bufferPos' = 0
           /\ faults' = Append(faults, <<line, k>>)
           /\ buffer' = Bytes(line, off, k) /\ buffer' \in Seq(Byte)
           /\ line > LineCount => off = 0 /\ k = 0
    BY <1>0, PartFetched
  <1>4. /\ c # 0 /\ hpos = stream.header /\ doneHeader'
        /\ \/ line = c /\ off = j
           \/ line = c + 1 /\ off = 0 /\ c = LineCount /\ j = LenOf(c) /\ LastOpen(c)
    BY <1>1, <1>2, AtFetch
  <1>5. /\ line \in Nat /\ LineCount \in Nat /\ c <= LineCount + 1 /\ faults \in Seq(Byte)
        /\ <<line, k>> \in Byte /\ off \in Nat
    <2>1. /\ line \in Nat /\ LineCount \in Nat /\ faults \in Seq(Byte) /\ off \in Nat
      BY <1>0, StreamFacts DEF StreamTypes
    <2>2. <<line, k>> \in Byte
      BY <2>1 DEF Byte
    <2>3. c <= LineCount + 1
      BY <1>1, <2>1
    <2> QED BY <2>1, <2>2, <2>3
  <1>6. Rest' = Bytes(line, off, k)
    BY <1>3, SubSeqFull DEF Rest
  <1>7. Fetched(c, j)'
    <2>1. CASE line = c /\ off = j
      BY <1>2, <1>3, <1>6, <2>1 DEF Fetched, Bytes
    <2>2. CASE line = c + 1 /\ off = 0 /\ c = LineCount /\ j = LenOf(c)
      <3>1. k = 0 /\ (LenOf(c))' = LenOf(c)
        BY <1>2, <1>3, <1>5, <2>2, SourceAlone
      <3>2. Rest' = <<>> /\ Bytes(c, j, j) = <<>>
        BY <1>5, <1>6, <2>2, <3>1, BytesNone
      <3> QED BY <1>2, <1>3, <1>4, <2>2, <3>1, <3>2 DEF Fetched, Bytes
    <2> QED BY <1>4, <2>1, <2>2
  <1>8. ASSUME j # 0 PROVE (Lost(c, j))' /\ c \in 1 .. LineCount /\ (Torn(c))'
    <2>1. CASE line = c /\ off = j
      <3>1. c <= LineCount /\ \E i \in DOMAIN faults : faults[i] = <<c, j>>
        BY <1>0, <1>8, <2>1 DEF Phases, AtError
      <3>2. PICK i \in DOMAIN faults : faults[i] = <<c, j>>
        BY <3>1
      <3> DEFINE m == Len(faults) + 1
      <3>3. /\ i \in DOMAIN faults' /\ faults'[i] = <<c, j>> /\ m > i
            /\ m \in DOMAIN faults' /\ faults'[m] = <<line, k>>
        BY <1>3, <1>5, <3>2, FaultNoted
      <3>4. j \in (CutsIn(c))'
        <4>1. faults'[i][1] = c /\ faults'[i][2] = j /\ faults'[m][1] = c
          BY <2>1, <3>3
        <4> QED BY <3>3, <4>1 DEF CutsIn
      <3>5. c \in 1 .. LineCount /\ j > 0
        BY <1>4, <1>5, <1>8, <3>1
      <3> QED BY <3>4, <3>5 DEF Lost, Torn
    <2>2. CASE line = c + 1 /\ off = 0 /\ c = LineCount /\ j = LenOf(c) /\ LastOpen(c)
      <3>1. LineCount' = LineCount /\ (LenOf(c))' = LenOf(c)
        BY <1>2, SourceAlone
      <3>2. \E i \in DOMAIN faults' : faults'[i][1] > LineCount
        <4>1. Len(faults) + 1 \in DOMAIN faults' /\ faults'[Len(faults) + 1] = <<line, k>>
          BY <1>3, <1>5, FaultNoted
        <4>2. line > LineCount
          BY <1>5, <2>2
        <4> QED BY <4>1, <4>2
      <3>3. LastLineLost'
        BY <1>2, <2>2, <3>2 DEF LastLineLost, LastOpen, LineCount
      <3>4. c \in 1 .. LineCount
        BY <1>4, <1>5, <2>2
      <3> QED BY <1>4, <2>2, <3>1, <3>3, <3>4 DEF Lost, Torn, LineCount
    <2> QED BY <1>4, <2>1, <2>2
  <1>9. lineBuf # <<>> => ~ NothingTorn'
    <2>1. lineBuf # <<>> => j # 0
      BY <1>1, NoneLeft
    <2> QED BY <1>2, <1>8, <2>1 DEF NothingTorn, LineCount
  <1>10. UNCHANGED faults \/ \E f \in Byte : faults' = Append(faults, f)
    BY <1>3, <1>5
  <1> QED BY <1>1, <1>2, <1>4, <1>5, <1>7, <1>8, <1>9, <1>10, NoRefill

LEMMA RefillDone ==
  ASSUME ReaderInv, Refill, TextInv', NEW n \in Sizes, ReadDone(n)
  PROVE  ReaderInv'
  <1>0. StreamInv /\ StreamTypes /\ Phases /\ LineCount \in Nat
    BY StreamFacts DEF ReaderInv, TextInv, StreamInv
  <1>1. PICK c, b, j \in Nat :
           /\ At(c, b, j, j) /\ lineBuf = Bytes(c, b, j) /\ Len(lines) = c
           /\ c \in 0 .. LineCount + 1 /\ (done => b = j)
           /\ b # 0 => Lost(c, b)
           /\ j # 0 => j < LenOf(c) \/ LastOpen(c)
    BY BeforeRefill
  <1>2. done /\ done' /\ last' = "eof" /\ UNCHANGED <<stream, faults, out, hpos>>
    BY DEF ReadDone, innerVars
  <1>3. c # 0 /\ hpos = stream.header /\ b = j /\ c <= LineCount + 1
    BY <1>0, <1>1, <1>2 DEF At, Phases
  <1>4. lineBuf = <<>>
    BY <1>1, <1>3, BytesNone
  <1>5. j # 0 => (Lost(c, j))'
    BY <1>1, <1>2, <1>3, ErrorsAlone
  <1>6. ~ MarkerSplit' /\ ~ RowSplit' =>
            c = LastLine + 1 \/ (c = LastLine /\ stream.open /\ (Torn(LineCount))')
    <2>1. /\ (MarkerSplit' <=> MarkerSplit) /\ (RowSplit' <=> RowSplit)
          /\ \A l : Torn(l) <=> (Torn(l))'
      BY <1>2, ErrorsAlone
    <2>2. ~ MarkerSplit /\ ~ RowSplit => AtEnd
      BY <1>2 DEF ReaderInv, Ends
    <2>3. Torn(LineCount) => (Torn(LineCount))'
      BY <1>2, <2>1, SourceAlone DEF Torn
    <2> QED BY <1>1, <2>1, <2>2, <2>3 DEF AtEnd
  <1> QED BY <1>1, <1>2, <1>3, <1>4, <1>5, <1>6, NoRefill

(* The end marker, or the rest of a row that an error made look like it.   *)
LEMMA RefillMarker ==
  ASSUME ReaderInv, Refill, TextInv', NEW n \in Sizes, ReadMarker(n)
  PROVE  ReaderInv'
  <1>0. StreamInv /\ StreamTypes /\ Phases /\ TextInv
    BY DEF ReaderInv, TextInv, StreamInv
  <1>1. PICK c, b, j \in Nat :
           /\ At(c, b, j, j) /\ b <= j /\ lineBuf = Bytes(c, b, j) /\ Len(lines) = c
           /\ c \in 0 .. LineCount + 1
           /\ b # 0 => Lost(c, b)
           /\ j # 0 => j < LenOf(c) \/ LastOpen(c)
    BY BeforeRefill
  <1>2. Fetching(n) /\ ~ done /\ done' /\ last' = "eof" /\ UNCHANGED <<stream, faults, out, hpos>>
    BY DEF ReadMarker, Fetching
  <1>3. /\ line \in 1 .. LineCount /\ off = stream.lines[line].tail /\ LineCount \in Nat
        /\ off \in Nat
    <2>1. line \in Nat /\ line >= 1 /\ LineCount \in Nat /\ off \in Nat
      BY <1>0, StreamFacts DEF StreamTypes
    <2>2. line <= LineCount /\ off = stream.lines[line].tail
      BY DEF ReadMarker, AtMarker, AtStreamEnd, LineCount
    <2> QED BY ONLY <2>1, <2>2
  <1>4. c # 0 /\ hpos = stream.header /\ line = c /\ off = j
    <2>1. /\ c # 0 /\ hpos = stream.header
          /\ (line = c /\ off = j) \/ (line = c + 1 /\ c = LineCount)
      BY <1>1, <1>2, AtFetch
    <2>2. line <= LineCount /\ LineCount \in Nat
      BY <1>3
    <2> QED BY ONLY <2>1, <2>2, c \in Nat
  <1>5. ~ MarkerSplit /\ ~ RowSplit => c = LastLine + 1 /\ off = 0
    <2> SUFFICES ASSUME ~ MarkerSplit, ~ RowSplit PROVE c = LastLine + 1 /\ off = 0
      OBVIOUS
    <2>1. off = 0
      <3>1. ASSUME off # 0 PROVE FALSE
        <4>1. PICK i \in DOMAIN faults : faults[i] = <<line, off>>
          BY <1>0, <3>1 DEF Phases, AtError
        <4>2. faults[i] = <<line, stream.lines[line].tail>> /\ faults[i][2] > 0
          BY <1>3, <3>1, <4>1
        <4> QED BY <1>3, <4>2 DEF RowSplit, LineCount
      <3> QED BY <3>1
    <2>2. line \in Marked
      BY <1>0, <1>3, <2>1, LastLineIs
    <2>3. line - 1 \in 0 .. LastLine /\ LastLine \in Nat /\ \A k \in 1 .. LastLine : k \notin Marked
      BY <1>0, <1>2, WithinTable, LastLineIs
    <2>4. line = LastLine + 1
      BY <1>3, <2>2, <2>3
    <2> QED BY <1>4, <2>1, <2>4
  <1>6. (MarkerSplit' <=> MarkerSplit) /\ (RowSplit' <=> RowSplit)
    BY <1>2, ErrorsAlone
  <1>7. CASE lineBuf = <<>>
    <2>1. b = j /\ (j # 0 => (Lost(c, j))')
      <3>1. b = j
        BY <1>1, <1>7, NoneLeft
      <3> QED BY <1>1, <1>2, <3>1, ErrorsAlone
    <2> QED BY <1>1, <1>2, <1>3, <1>4, <1>5, <1>6, <1>7, <2>1, NoRefill
  <1>8. CASE lineBuf # <<>>
    <2>1. off # 0
      BY <1>1, <1>4, <1>8, NoneLeft
    <2>2. RowSplit
      <3>1. PICK i \in DOMAIN faults : faults[i] = <<line, off>>
        BY <1>0, <2>1 DEF Phases, AtError
      <3>2. faults[i] = <<line, stream.lines[line].tail>> /\ faults[i][2] > 0
        BY <1>3, <2>1, <3>1
      <3> QED BY <1>3, <3>2 DEF RowSplit, LineCount
    <2>3. c \in 1 .. LineCount
      BY <1>3, <1>4
    <2> QED BY <1>1, <1>2, <1>4, <1>8, <2>2, <2>3, AnswerRefill
  <1> QED BY <1>7, <1>8

(* The stream is at its end: a line without a newline is answered first.   *)
LEMMA RefillEnd ==
  ASSUME ReaderInv, Refill, TextInv', NEW n \in Sizes, ReadStreamEnd(n)
  PROVE  ReaderInv'
  <1>0. StreamInv /\ StreamTypes /\ Phases /\ TextInv
    BY DEF ReaderInv, TextInv, StreamInv
  <1>1. PICK c, b, j \in Nat :
           /\ At(c, b, j, j) /\ b <= j /\ lineBuf = Bytes(c, b, j) /\ Len(lines) = c
           /\ c \in 0 .. LineCount + 1
           /\ b # 0 => Lost(c, b)
           /\ j # 0 => j < LenOf(c) \/ LastOpen(c)
    BY BeforeRefill
  <1>2. Fetching(n) /\ ~ done /\ done' /\ last' = "eof" /\ UNCHANGED <<stream, faults, out, hpos>>
    BY DEF ReadStreamEnd, Fetching, innerVars
  <1>3. /\ LineCount \in Nat /\ line \in 1 .. LineCount + 1 /\ off \in Nat /\ LastLine \in 0 .. LineCount
        /\ LastLine \in Nat
    BY <1>0, StreamFacts, LastLineIs DEF StreamTypes
  <1>4. /\ c # 0 /\ hpos = stream.header
        /\ \/ line = c /\ off = j
           \/ line = c + 1 /\ off = 0 /\ c = LineCount /\ j = LenOf(c) /\ LastOpen(c)
    BY <1>1, <1>2, AtFetch
  <1>5. (MarkerSplit' <=> MarkerSplit) /\ (RowSplit' <=> RowSplit) /\ \A l : Torn(l) <=> (Torn(l))'
    BY <1>2, ErrorsAlone
  <1>6. CASE line = LineCount + 1 /\ line = c /\ off = j
    <2>1. off = 0
      BY <1>0, <1>3, <1>6 DEF Phases, AtError
    <2>2. lineBuf = <<>>
      BY <1>1, <1>6, <2>1, NoneLeft
    <2>3. ~ MarkerSplit => c = LastLine + 1
      <3>1. ~ MarkerSplit => line - 1 \in 0 .. LastLine
        BY <1>0, <1>2, WithinTable
      <3> QED BY <1>3, <1>6, <3>1
    <2> QED BY <1>1, <1>2, <1>3, <1>4, <1>5, <1>6, <2>1, <2>2, <2>3, NoRefill
  <1>7. CASE ~ (line = LineCount + 1 /\ line = c /\ off = j)
    <2>1. c = LineCount /\ j = LenOf(c) /\ LastOpen(c) /\ c \in 1 .. LineCount /\ LenOf(c) \in Nat \ {0}
      <3>1. CASE line = c /\ off = j
        <4>1. line \in 1 .. LineCount
          BY <1>3, <1>7, <3>1
        <4>2. LenOf(line) \in Nat \ {0} /\ off = LenOf(line)
          BY <1>0, <4>1, StreamFacts DEF ReadStreamEnd, AtStreamEnd, LineCount
        <4>3. line = LineCount /\ stream.open
          BY <1>0, <4>2 DEF Phases, AtError
        <4> QED BY <1>4, <3>1, <4>1, <4>2, <4>3 DEF LastOpen
      <3>2. CASE line = c + 1 /\ c = LineCount /\ j = LenOf(c) /\ LastOpen(c)
        <4>1. c \in 1 .. LineCount
          BY <1>3, <1>4, <3>2
        <4> QED BY <1>0, <3>2, <4>1, StreamFacts
      <3> QED BY <1>4, <3>1, <3>2
    <2>2. ~ MarkerSplit => c = LastLine
      <3> SUFFICES ASSUME ~ MarkerSplit PROVE c = LastLine
        OBVIOUS
      <3>1. line - 1 \in 0 .. LastLine /\ (off # 0 => line \in 1 .. LastLine)
        BY <1>0, <1>2, WithinTable
      <3>2. c <= LastLine
        BY <1>3, <1>4, <2>1, <3>1
      <3> QED BY <1>3, <2>1, <3>2
    <2>3. CASE lineBuf = <<>>
      <3>1. b = j /\ Lost(c, j) /\ (Lost(c, j))'
        <4>1. b = j /\ j # 0
          <5>1. Bytes(c, b, j) = <<>> /\ b <= j
            BY <1>1, <2>3
          <5>2. b = j
            BY ONLY <5>1, c \in Nat, b \in Nat, j \in Nat, NoneLeft
          <5> QED BY <2>1, <5>2
        <4> QED BY <1>1, <1>2, <4>1, ErrorsAlone
      <3>2. stream.open /\ (Torn(LineCount))'
        <4>1. Torn(c)
          BY <2>1, <3>1 DEF Lost, Torn, LineCount
        <4>2. (Torn(c))'
          BY <1>5, <4>1
        <4>3. LineCount' = LineCount
          BY <1>2, SourceAlone
        <4> QED BY <2>1, <4>2, <4>3 DEF LastOpen
      <3> QED BY <1>1, <1>2, <1>3, <1>4, <1>5, <2>1, <2>2, <2>3, <3>1, <3>2, NoRefill
    <2>4. CASE lineBuf # <<>>
      <3>1. b # LenOf(c) /\ c \in 0 .. LineCount
        BY <1>1, <2>1, <2>4, NoneLeft
      <3>2. WholeLine(c, lineBuf)
        BY <1>1, <1>2, <2>1, <3>1, RestOfLine
      <3> QED BY <1>1, <1>2, <1>4, <2>1, <2>2, <2>4, <3>2, AnswerRefill
    <2> QED BY <2>3, <2>4
  <1> QED BY <1>6, <1>7

LEMMA RefillStep ==
  ASSUME ReaderInv, Refill
  PROVE  ReaderInv'
  <1>1. TextInv'
    BY TextNext DEF Refill, ReaderInv
  <1>2. PICK n \in Sizes :
           \/ ReadDone(n) \/ ReadHeader(n) \/ ReadBuffer(n) \/ ReadFault(n)
           \/ ReadStreamEnd(n) \/ ReadMarker(n) \/ ReadLine(n)
    BY DEF Refill, Next
  <1> QED BY <1>1, <1>2, RefillDone, RefillHeader, RefillBuffer, RefillFault, RefillEnd,
             RefillMarker, RefillLine

LEMMA ReaderStutters ==
  ASSUME ReaderInv, UNCHANGED readerVars
  PROVE  ReaderInv'
  <1>1. PICK c, b, i, j \in Nat : At(c, b, i, j)
    BY DEF ReaderInv
  <1>2. /\ UNCHANGED vars /\ UNCHANGED <<unread, reading, lineBuf, answer, lines>> /\ Taken' = Taken
        /\ UNCHANGED <<stream, faults>> /\ done' = done
    BY DEF readerVars, takenVars, Taken, vars, innerVars
  <1>3. TextInv'
    BY <1>2, TextNext DEF ReaderInv
  <1>4. ReaderTypes' /\ Whole' /\ Ends' /\ Accounted'
    <2>1. ReaderTypes'
      BY <1>2 DEF ReaderInv, ReaderTypes
    <2>2. Whole'
      BY <1>2, WholeAlone DEF ReaderInv, TextInv, StreamInv
    <2>3. Ends'
      BY <1>2, ErrorsAlone, AloneAtEnd DEF ReaderInv, Ends
    <2>4. Accounted'
      BY <1>2, ErrorsAlone DEF ReaderInv, Accounted, vars, NothingTorn
    <2> QED BY <2>1, <2>2, <2>3, <2>4
  <1>5. At(c, b, i, j)'
    BY <1>1, <1>2, StreamAlone, SourceAlone, ErrorsAlone DEF At, vars, innerVars, Bytes
  <1> QED BY <1>3, <1>4, <1>5 DEF ReaderInv

LEMMA ReaderHolds == ReaderSpec => []ReaderInv
  <1>1. ReaderInv /\ [ReaderNext]_readerVars => ReaderInv'
    BY StartStep, TakeStep, RefillStep, ReaderStutters DEF ReaderNext
  <1> QED BY InitReader, <1>1, PTL DEF ReaderSpec

(* Types, and a line that was answered is not empty: next_batch takes an  *)
(* empty answer for the end.                                               *)
THEOREM ReaderTypesCorrect == ReaderSpec => []ReaderTypeOK
  <1>1. ReaderInv => ReaderTypeOK
    BY DEF ReaderInv, TextInv, StreamInv, StreamTypes, ReaderTypes, Ends, ReaderTypeOK, TypeOK,
           LineCount
  <1> QED BY ReaderHolds, <1>1, PTL

(* Errors in different lines lose no byte: as long as no line had two, all *)
(* that the stream delivered is in a line answered, in the one under way,  *)
(* or in the buffer.                                                       *)
THEOREM AccountedCorrect == ReaderSpec => []Accounted
  BY ReaderHolds, PTL DEF ReaderInv

(* next_batch gets the header, then each line of the table once, and the   *)
(* end exactly after the last, however the reads were cut and wherever and *)
(* however often the dump's reader failed (short of splitting the marker,  *)
(* or a row where its rest reads as the marker); a line is whole, or lacks *)
(* what came before the first of two errors in it.                         *)
THEOREM LinesCorrect == ReaderSpec => []LinesAreWhole
  <1>1. ASSUME ReaderInv, ~ MarkerSplit, ~ RowSplit
        PROVE  /\ Len(lines) <= LastLine + 1
               /\ \A n \in DOMAIN lines :
                     \/ lines[n] = LineBytes(n - 1)
                     \/ \E k \in CutsIn(n - 1) :
                           lines[n] = Bytes(n - 1, k, stream.lines[n - 1].len)
               /\ answer = "end" =>
                     \/ Len(lines) = LastLine + 1
                     \/ Len(lines) = LastLine /\ stream.open /\ Torn(Len(stream.lines))
    <2>0. /\ StreamInv /\ StreamTypes /\ Phases /\ TextInv /\ lines \in Seq(Seq(Byte)) /\ Whole /\ Ends
          /\ LineCount \in Nat /\ LastLine \in Nat /\ line \in Nat
      BY <1>1, StreamFacts, LastLineIs DEF ReaderInv, TextInv, StreamInv, ReaderTypes
    <2>1. \A n \in DOMAIN lines : WholeLine(n - 1, lines[n])
      BY <1>1, <2>0, LenProperties DEF Whole
    <2>2. answer = "end" => AtEnd
      BY <1>1, <2>0 DEF Ends
    <2>3. Len(lines) <= LastLine + 1
      <3>1. CASE done
        BY <1>1, <2>0, <3>1 DEF Ends, AtEnd
      <3>2. CASE ~ done
        <4>1. PICK c, b, i, j \in Nat : At(c, b, i, j)
          BY <1>1 DEF ReaderInv
        <4>2. Len(lines) = c /\ (c # 0 => Fetched(c, j))
          BY <3>2, <4>1 DEF At
        <4>3. c # 0 => c <= line
          BY <2>0, <4>2 DEF Fetched
        <4>4. line - 1 <= LastLine
          BY <1>1, <2>0, <3>2, WithinTable
        <4> QED BY <2>0, <4>2, <4>3, <4>4
      <3> QED BY <3>1, <3>2
    <2> QED BY <2>1, <2>2, <2>3 DEF WholeLine, AtEnd, LineCount
  <1>2. ReaderInv => LinesAreWhole
    BY <1>1 DEF LinesAreWhole
  <1> QED BY ReaderHolds, <1>2, PTL

-----------------------------------------------------------------------------
(* The end is answered for good.                                           *)
LEMMA NothingAfterDone ==
  ASSUME ReaderInv, done
  PROVE  unread = <<>> /\ (reading => lineBuf = <<>>) /\ ~ Buffered
  <1>1. PICK c, b, i, j \in Nat : At(c, b, i, j)
    BY DEF ReaderInv
  <1>2. b = i /\ i = j
    BY <1>1, PositionBounds
  <1>3. Taken = <<>> /\ unread = <<>>
    BY <1>1, <1>2, BytesNone DEF At
  <1>4. buffer = <<>> /\ bufferPos = 0
    BY EmptySeq DEF ReaderInv, TextInv, StreamInv, StreamTypes, Phases
  <1> QED BY <1>3, <1>4, EmptySeq DEF Taken, Buffered

LEMMA DoneAnswersEnd ==
  ASSUME ReaderInv, Refill, NEW n \in Sizes, ReadDone(n)
  PROVE  answer' = "end"
  <1>1. lineBuf = <<>> /\ last' = "eof"
    BY NothingAfterDone DEF ReadDone, Refill
  <1> QED BY <1>1 DEF Refill

(* A caller that was given the end is given the end again: no error and no *)
(* line of what follows the block comes after it.                          *)
THEOREM EndHolds == ReaderSpec => EndStays
  <1>1. ASSUME ReaderInv, ReaderNext, answer = "end"
        PROVE  answer' = "end"
    <2>1. done /\ unread = <<>> /\ ~ Buffered
      BY <1>1, NothingAfterDone DEF ReaderInv, Ends
    <2>2. CASE Start
      BY <1>1, <2>2 DEF Start
    <2>3. CASE Refill
      <3>1. PICK n \in Sizes :
               \/ ReadDone(n) \/ ReadHeader(n) \/ ReadBuffer(n) \/ ReadFault(n)
               \/ ReadStreamEnd(n) \/ ReadMarker(n) \/ ReadLine(n)
        BY <2>3 DEF Refill, Next
      <3>2. ReadDone(n)
        BY <2>1, <3>1 DEF ReadHeader, ReadBuffer, ReadFault, ReadStreamEnd, ReadMarker, ReadLine,
                          Fetching
      <3> QED BY <1>1, <2>3, <3>2, DoneAnswersEnd
    <2>4. CASE Take
      BY <2>1, <2>4 DEF Take
    <2> QED BY <1>1, <2>2, <2>3, <2>4 DEF ReaderNext
  <1>2. ReaderInv /\ [ReaderNext]_readerVars => (answer = "end" => answer' = "end")
    BY <1>1 DEF readerVars, takenVars
  <1> QED BY ReaderHolds, <1>2, PTL DEF ReaderSpec, EndStays

(* Every step has less of something, and nothing is below zero.            *)
LEMMA MeasuresAreNat ==
  ASSUME ReaderInv
  PROVE  ToFetch \in Nat /\ ToDeliver \in Nat /\ ToTake \in Nat
  <1>1. StreamTypes /\ ReaderTypes
    BY DEF ReaderInv, TextInv, StreamInv
  <1>2. line \in Nat /\ line <= LineCount + 1 /\ LineCount \in Nat
    BY <1>1, StreamFacts DEF StreamTypes
  <1>3. ToFetch \in Nat
    <2>1. LineCount + 1 - line \in Nat /\ MaxFaults - Len(faults) \in Nat
      <3>1. MaxFaults \in Nat /\ Len(faults) \in Nat /\ Len(faults) <= MaxFaults
        BY <1>1, StreamsAssumption, LenProperties DEF StreamTypes
      <3> QED BY ONLY <1>2, <3>1
    <2>2. ToFetch = (LineCount + 1 - line) + (IF done THEN 0 ELSE 1) + (MaxFaults - Len(faults))
      BY DEF ToFetch, LineCount
    <2> HIDE DEF LineCount
    <2> QED BY ONLY <2>1, <2>2
  <1>4. ToDeliver \in Nat
    <2>1. /\ stream.header \in Nat /\ hpos \in 0 .. stream.header
          /\ Len(buffer) \in Nat /\ bufferPos \in 0 .. Len(buffer)
      BY <1>1, StreamFacts DEF StreamTypes
    <2> QED BY ONLY <2>1 DEF ToDeliver
  <1> QED BY <1>1, <1>3, <1>4, LenProperties DEF ReaderTypes, ToTake

(* The stream hands out more of what it holds, or fetches more.            *)
Reads ==
    \/ ToFetch' < ToFetch
    \/ ToFetch' = ToFetch /\ ToDeliver' < ToDeliver

LEMMA ReadAdvances ==
  ASSUME StreamInv, NEW n \in Sizes,
         \/ ReadHeader(n) \/ ReadBuffer(n) \/ ReadFault(n)
         \/ ReadStreamEnd(n) \/ ReadMarker(n) \/ ReadLine(n)
  PROVE  Reads
  <1>0. /\ LineCount \in Nat /\ line \in Nat /\ hpos \in Nat /\ stream.header \in Nat
        /\ Len(buffer) \in Nat /\ bufferPos \in Nat /\ n \in Nat \ {0} /\ done \in BOOLEAN
        /\ Len(faults) \in Nat /\ MaxFaults \in Nat
    BY StreamFacts, StreamsAssumption, BufferAssumption, LenProperties DEF StreamInv, StreamTypes
  <1>a. ToFetch = (LineCount + 1 - line) + (IF done THEN 0 ELSE 1) + (MaxFaults - Len(faults))
    BY DEF ToFetch, LineCount
  <1>b. ASSUME UNCHANGED stream
        PROVE  ToFetch' = (LineCount + 1 - line') + (IF done' THEN 0 ELSE 1)
                                                  + (MaxFaults - Len(faults'))
    BY <1>b DEF ToFetch, LineCount
  <1>1. CASE ReadHeader(n)
    <2>1. hpos' \in Nat /\ hpos < hpos'
      BY <1>1, FromHeader
    <2>2. UNCHANGED <<stream, faults, line, done, buffer, bufferPos>>
      BY <1>1 DEF ReadHeader, innerVars
    <2>3. ToFetch' = ToFetch
      BY <2>2 DEF ToFetch
    <2>4. ToDeliver' < ToDeliver
      <3>1. /\ hpos \in Nat /\ stream.header \in Nat /\ Len(buffer) \in Nat /\ bufferPos \in Nat
        BY <1>0
      <3> QED BY ONLY <2>1, <2>2, <3>1 DEF ToDeliver
    <2> QED BY <2>3, <2>4 DEF Reads
  <1>2. CASE ReadBuffer(n)
    <2>1. bufferPos' \in Nat /\ bufferPos < bufferPos'
      BY <1>0, <1>2 DEF ReadBuffer, Buffered, Smaller
    <2>2. UNCHANGED <<stream, faults, line, done, buffer, hpos>>
      BY <1>2 DEF ReadBuffer, innerVars
    <2>3. ToFetch' = ToFetch
      BY <2>2 DEF ToFetch
    <2>4. ToDeliver' < ToDeliver
      <3>1. /\ hpos \in Nat /\ stream.header \in Nat /\ Len(buffer) \in Nat /\ bufferPos \in Nat
        BY <1>0
      <3> QED BY ONLY <2>1, <2>2, <3>1 DEF ToDeliver
    <2> QED BY <2>3, <2>4 DEF Reads
  <1>3. CASE ReadFault(n)
    <2>1. UNCHANGED <<stream, line, done>> /\ Len(faults') = Len(faults) + 1
      BY <1>3, PartFetched DEF ReadFault
    <2>2. ToFetch' = (LineCount + 1 - line') + (IF done' THEN 0 ELSE 1) + (MaxFaults - Len(faults'))
      BY <1>b, <2>1
    <2> QED BY ONLY <1>0, <1>a, <2>1, <2>2 DEF Reads
  <1>4. CASE ReadStreamEnd(n)
    <2>1. UNCHANGED <<stream, line, faults>> /\ ~ done /\ done'
      BY <1>4 DEF ReadStreamEnd, Fetching, innerVars
    <2>2. ToFetch' = (LineCount + 1 - line') + (IF done' THEN 0 ELSE 1) + (MaxFaults - Len(faults'))
      BY <1>b, <2>1
    <2> QED BY ONLY <1>0, <1>a, <2>1, <2>2 DEF Reads
  <1>5. CASE ReadMarker(n)
    <2>1. UNCHANGED <<stream, faults>> /\ line' = line + 1 /\ ~ done /\ done'
      BY <1>5 DEF ReadMarker, Fetching
    <2>2. ToFetch' = (LineCount + 1 - line') + (IF done' THEN 0 ELSE 1) + (MaxFaults - Len(faults'))
      BY <1>b, <2>1
    <2> QED BY ONLY <1>0, <1>a, <2>1, <2>2 DEF Reads
  <1>6. CASE ReadLine(n)
    <2>1. UNCHANGED <<stream, faults, done>> /\ line' = line + 1
      BY <1>6 DEF ReadLine
    <2>2. ToFetch' = (LineCount + 1 - line') + (IF done' THEN 0 ELSE 1) + (MaxFaults - Len(faults'))
      BY <1>b, <2>1
    <2> QED BY ONLY <1>0, <1>a, <2>1, <2>2 DEF Reads
  <1> QED BY <1>1, <1>2, <1>3, <1>4, <1>5, <1>6

(* Taking from the BufReader leaves it with less.                          *)
LEMMA TakeAdvances ==
  ASSUME ReaderInv, Take
  PROVE  ToTake' < ToTake /\ ToFetch' = ToFetch /\ ToDeliver' = ToDeliver
  <1>1. unread \in Seq(Byte) /\ unread # <<>> /\ Len(unread) \in Nat \ {0}
    BY EmptySeq, LenProperties DEF Take, ReaderInv, ReaderTypes
  <1>2. Len(unread') < Len(unread)
    <2>1. CASE LineEnds = {}
      BY <1>1, <2>1, EmptySeq DEF Take
    <2>2. CASE LineEnds # {}
      <3> DEFINE k == Min(LineEnds)
      <3>1. k \in 1 .. Len(unread)
        <4>1. LineEnds \subseteq 1 .. Len(unread)
          BY <1>1, LenProperties DEF LineEnds
        <4>2. \E m \in LineEnds : \A x \in LineEnds : m <= x
          <5>1. LineEnds \subseteq Nat
            BY <4>1
          <5> QED BY ONLY <2>2, <5>1, LeastExists
        <4> QED BY <4>1, <4>2 DEF Min
      <3>2. unread' = SubSeq(unread, k + 1, Len(unread))
        BY <2>2 DEF Take
      <3> HIDE DEF k
      <3>3. Len(SubSeq(unread, k + 1, Len(unread))) = Len(unread) - k
        BY <1>1, <3>1
      <3> QED BY <1>1, <3>1, <3>2, <3>3
    <2> QED BY <2>1, <2>2
  <1>3. UNCHANGED vars
    BY DEF Take
  <1> QED BY <1>2, <1>3 DEF ToTake, ToFetch, ToDeliver, vars, innerVars

(* Until the end is answered each step of read_until uses up lines, what   *)
(* the stream holds or what the BufReader holds: none is for nothing.      *)
THEOREM ReadsEnd == ReaderSpec => ReadsAdvance
  <1> DEFINE Advance ==
        \/ answer' = "end" \/ ToFetch' < ToFetch
        \/ /\ ToFetch' = ToFetch
           /\ \/ ToDeliver' < ToDeliver
              \/ /\ ToDeliver' = ToDeliver
                 /\ ToTake' < ToTake \/ (ToTake' = ToTake /\ ToAsk' < ToAsk)
  <1>1. ASSUME ReaderInv, ReaderNext PROVE Advance
    <2>1. CASE Start
      <3>1. ToFetch' = ToFetch /\ ToDeliver' = ToDeliver /\ ToTake' = ToTake
        BY <2>1 DEF Start, vars, innerVars, ToFetch, ToDeliver, ToTake
      <3>2. ToAsk' < ToAsk
        BY <2>1 DEF Start, ToAsk
      <3> QED BY <3>1, <3>2
    <2>2. CASE Refill
      <3>1. PICK n \in Sizes :
               \/ ReadDone(n) \/ ReadHeader(n) \/ ReadBuffer(n) \/ ReadFault(n)
               \/ ReadStreamEnd(n) \/ ReadMarker(n) \/ ReadLine(n)
        BY <2>2 DEF Refill, Next
      <3>2. CASE ReadDone(n)
        BY <1>1, <2>2, <3>2, DoneAnswersEnd
      <3>3. CASE ~ ReadDone(n)
        BY <1>1, <3>1, <3>3, ReadAdvances DEF ReaderInv, TextInv, Reads
      <3> QED BY <3>2, <3>3
    <2>3. CASE Take
      <3>1. ToTake' < ToTake /\ ToFetch' = ToFetch /\ ToDeliver' = ToDeliver
        BY <1>1, <2>3, TakeAdvances
      <3> QED BY ONLY <3>1
    <2> QED BY <1>1, <2>1, <2>2, <2>3 DEF ReaderNext
  <1> DEFINE Counted == ToFetch \in Nat /\ ToDeliver \in Nat /\ ToTake \in Nat
  <1>2. ReaderInv => Counted
    BY MeasuresAreNat
  <1>3. ReaderInv /\ Counted' /\ [ReaderNext]_readerVars
          => [ToFetch' \in Nat /\ ToDeliver' \in Nat /\ ToTake' \in Nat /\ Advance]_readerVars
    BY <1>1
  <1> QED BY ReaderHolds, <1>2, <1>3, PTL DEF ReaderSpec, ReadsAdvance

=============================================================================

------------------------- MODULE HttpRangeReaderProof -------------------------
(***************************************************************************)
(* HttpRangeReader reads where it was told to and implements ByteSource,   *)
(* for every sequence of versions of the file, of seeks and of reads.      *)
(***************************************************************************)
EXTENDS HttpRangeReader, FiniteSetTheorems, TLAPS

(* A body is at a place in a version of the file up to the present one.    *)
BodyOf(v, a, b) == [version |-> v, at |-> a, end |-> FileSizes[v], broken |-> b]

(* What is open continues at the position.                                 *)
Open ==
    \/ response = <<>>
    \/ \E v \in 1 .. version, b \in BOOLEAN :
           position <= FileSizes[v] /\ response = <<BodyOf(v, position, b)>>

(* What was read since the last move came from the open response.          *)
Sole == versions = {} \/ (response # <<>> /\ versions = {response[1].version})

Versions == version \in 1 .. Len(FileSizes) /\ ranged \in Ranges /\ position \in Nat

Cached == cachedSize = Unknown \/ \E v \in 1 .. version : cachedSize = FileSizes[v]

HttpInv == Versions /\ Cached /\ Open /\ Sole

-----------------------------------------------------------------------------
LEMMA SizesAreNat ==
    ASSUME NEW v \in 1 .. Len(FileSizes)
    PROVE  FileSizes[v] \in Nat
BY HttpAssumption

LEMMA InitHttp == Init => HttpInv
BY HttpAssumption DEF Init, HttpInv, Versions, Cached, Open, Sole

(* The response a read goes on with is at the position, in one version.    *)
LEMMA CurrentIsOpen ==
    ASSUME HttpInv, CanRead
    PROVE  /\ \E v \in 1 .. version, b \in BOOLEAN :
                  position <= FileSizes[v] /\ Current = <<BodyOf(v, position, b)>>
           /\ \A x \in versions : x = Current[1].version
<1> USE DEF HttpInv
<1>1. CASE response # <<>>
  BY <1>1 DEF Open, Sole, Current
<1>2. CASE response = <<>>
  <2>1. position < FileSize /\ versions = {}
    BY <1>2 DEF CanRead, Serves, Sole
  <2>2. Current = <<BodyOf(version, position, FALSE)>>
    BY <1>2 DEF Current, Body, BodyOf, FileSize
  <2>3. version \in 1 .. version /\ position <= FileSizes[version]
    BY <2>1, SizesAreNat DEF FileSize, Versions
  <2> QED BY <2>1, <2>2, <2>3
<1> QED BY <1>1, <1>2

LEMMA SizeSeenIsCached ==
    ASSUME HttpInv, cachedSize' = SizeSeen, UNCHANGED serverVars
    PROVE  Cached'
BY DEF HttpInv, Versions, Cached, SizeSeen, TotalSize, FileSize, serverVars

LEMMA MoveHttp ==
    ASSUME HttpInv, NEW op, NEW n, NEW target \in Int, Move(op, n, target), UNCHANGED serverVars
    PROVE  Versions' /\ Open' /\ Sole'
<1> USE DEF HttpInv, Versions
<1>1. CASE target < 0
  BY <1>1 DEF Move, Open, Sole, serverVars
<1>2. CASE target >= 0 /\ target = position
  BY <1>2 DEF Move, Open, Sole, serverVars
<1>3. CASE target >= 0 /\ target # position
  BY <1>3 DEF Move, Open, Sole, serverVars
<1> QED BY <1>1, <1>2, <1>3

LEMMA AskedSizeIsOneOf ==
    ASSUME HttpInv
    PROVE  \E v \in 1 .. version : AskedSize = FileSizes[v]
BY DEF HttpInv, Versions, Cached, AskedSize, TotalSize, FileSize

LEMMA StepHttp ==
    ASSUME HttpInv, [Next]_vars
    PROVE  HttpInv'
<1> USE DEF HttpInv
<1>1. ASSUME NEW n \in ReadSizes, ReadBytes(n) PROVE HttpInv'
  <2>1. PICK v \in 1 .. version, b \in BOOLEAN :
            position <= FileSizes[v] /\ Current = <<BodyOf(v, position, b)>>
    BY <1>1, CurrentIsOpen DEF ReadBytes
  <2>2. FileSizes[v] \in Nat /\ position \in Nat /\ n \in Nat
    BY <1>1, SizesAreNat, HttpAssumption DEF Versions
  <2>3. PICK k \in 0 .. n :
            /\ k <= FileSizes[v] - position
            /\ response' = Advance(Current[1], k)
            /\ position' = position + k
            /\ versions' = IF k = 0 THEN versions ELSE versions \cup {v}
    BY <1>1, <2>1 DEF ReadBytes, BodyOf
  <2>4. response' = <<BodyOf(v, position + k, b)>>
    BY <2>1, <2>3 DEF Advance, BodyOf
  <2>5. UNCHANGED serverVars
    BY <1>1 DEF ReadBytes, serverVars
  <2>6. Versions'
    BY <2>2, <2>3, <2>5 DEF Versions, serverVars
  <2>7. Open'
    BY <2>2, <2>3, <2>4, <2>5 DEF Open, BodyOf, serverVars
  <2>8. \A x \in versions : x = v
    BY <1>1, <2>1, CurrentIsOpen DEF ReadBytes, BodyOf
  <2>9. Sole'
    BY <2>3, <2>4, <2>8 DEF Sole, BodyOf
  <2>10. Cached'
    BY <1>1, <2>5, SizeSeenIsCached DEF ReadBytes
  <2> QED BY <2>6, <2>7, <2>9, <2>10
<1>2. ASSUME ReadBreaks PROVE HttpInv'
  <2>1. PICK v \in 1 .. version, b \in BOOLEAN :
            position <= FileSizes[v] /\ Current = <<BodyOf(v, position, b)>>
    BY <1>2, CurrentIsOpen DEF ReadBreaks
  <2>2. PICK c \in BOOLEAN : response' = <<BodyOf(v, position, c)>>
    BY <1>2, <2>1 DEF ReadBreaks, BodyOf
  <2>3. UNCHANGED <<serverVars, position, versions>>
    BY <1>2 DEF ReadBreaks, serverVars
  <2>4. \A x \in versions : x = v
    BY <1>2, <2>1, CurrentIsOpen DEF ReadBreaks, BodyOf
  <2>5. Open'
    BY <2>1, <2>2, <2>3 DEF Open, BodyOf, serverVars
  <2>6. Sole'
    BY <2>2, <2>3, <2>4 DEF Sole, BodyOf
  <2>7. Cached'
    BY <1>2, <2>3, SizeSeenIsCached DEF ReadBreaks
  <2> QED BY <2>3, <2>5, <2>6, <2>7 DEF Versions, serverVars
<1>3. ASSUME ReadFails \/ SeekEndFails PROVE HttpInv'
  BY <1>3 DEF ReadFails, SeekEndFails, serverVars, Versions, Cached, Open, Sole
<1>4. ASSUME NEW offset \in Offsets, SeekStart(offset) PROVE HttpInv'
  <2>1. offset \in Int
    BY HttpAssumption
  <2> QED BY <1>4, <2>1, MoveHttp DEF SeekStart, serverVars, Cached
<1>5. ASSUME NEW delta \in Deltas, SeekCurrent(delta) PROVE HttpInv'
  <2>1. position + delta \in Int
    BY HttpAssumption DEF Versions
  <2> QED BY <1>5, <2>1, MoveHttp DEF SeekCurrent, serverVars, Cached
<1>6. ASSUME NEW delta \in Deltas, SeekEnd(delta) PROVE HttpInv'
  <2>1. PICK v \in 1 .. version : AskedSize = FileSizes[v]
    BY AskedSizeIsOneOf
  <2>2. AskedSize + delta \in Int
    BY <2>1, SizesAreNat, HttpAssumption DEF Versions
  <2>3. Cached' /\ UNCHANGED serverVars
    BY <1>6, <2>1 DEF SeekEnd, serverVars, Cached
  <2> QED BY <1>6, <2>2, <2>3, MoveHttp DEF SeekEnd
<1>7. ASSUME ReplaceFile PROVE HttpInv'
  BY <1>7, HttpAssumption DEF ReplaceFile, Versions, Cached, Open, Sole
<1>8. ASSUME UNCHANGED vars PROVE HttpInv'
  BY <1>8 DEF vars, serverVars, Versions, Cached, Open, Sole
<1> QED BY <1>1, <1>2, <1>3, <1>4, <1>5, <1>6, <1>7, <1>8 DEF Next

(* The strengthened invariant, for every file and every caller.            *)
THEOREM HttpInvariant == Spec => []HttpInv
<1>1. Init => HttpInv
  BY InitHttp
<1>2. HttpInv /\ [Next]_vars => HttpInv'
  BY StepHttp
<1> QED BY <1>1, <1>2, PTL DEF Spec

(* Type correctness.                                                       *)
THEOREM TypeCorrect == Spec => []TypeOK
<1>1. ASSUME HttpInv PROVE TypeOK
  <2>1. ASSUME NEW i \in DOMAIN response
        PROVE  response[i].at <= response[i].end /\ response[i].version <= version
    BY <1>1, <2>1 DEF HttpInv, Versions, Open, BodyOf
  <2> QED BY <1>1, <2>1 DEF HttpInv, Versions, Cached, TypeOK
<1> QED BY <1>1, HttpInvariant, PTL

(* A response never outlives a move: the next byte it holds is the byte at *)
(* the position (ensure_response reuses it without looking).               *)
THEOREM CursorCorrect == Spec => []CursorIsPosition
<1>1. HttpInv => CursorIsPosition
  BY DEF HttpInv, Open, CursorIsPosition, BodyOf
<1> QED BY <1>1, HttpInvariant, PTL

(* Between two moves the bytes read are of one version of the file.        *)
THEOREM OneVersionCorrect == Spec => []OneVersion
<1>1. HttpInv => OneVersion
  <2>1. Cardinality({}) = 0 /\ Cardinality({response[1].version}) = 1
    BY FS_EmptySet, FS_Singleton
  <2>2. HttpInv => Cardinality(versions) \in {0, 1}
    BY <2>1 DEF HttpInv, Sole
  <2> QED BY <2>2 DEF OneVersion
<1> QED BY <1>1, HttpInvariant, PTL

-----------------------------------------------------------------------------
VersionSizes == {FileSizes[v] : v \in DOMAIN FileSizes}

LEMMA SizeIsOneOf ==
    ASSUME HttpInv, NEW v \in 1 .. version
    PROVE  FileSizes[v] \in VersionSizes /\ FileSizes[v] \in Nat
BY HttpAssumption DEF HttpInv, Versions, VersionSizes

(* A seek, whatever it is relative to, is a move or a failure of the       *)
(* abstract source.                                                        *)
LEMMA MoveMaps ==
    ASSUME HttpInv, NEW op \in {"start", "current", "end"}, NEW base \in Source!Bases(op),
           base \in Int, NEW n \in Int, Move(op, n, base + n)
    PROVE  Source!Move \/ Source!Fail
<1>1. CASE base + n < 0
  BY <1>1 DEF Move, Failure, Source!Fail, Source!Call
<1>2. CASE ~ (base + n < 0)
  <2>1. last' = [op |-> op, ok |-> TRUE, first |-> base + n, n |-> n] /\ position' = base + n
    BY <1>2 DEF Move, Answer
  <2>2. last'.op = op /\ last'.n = n /\ position' - last'.n = base
    BY <2>1
  <2>3. position' \in Nat
    BY <1>2, <2>1
  <2> QED BY <2>1, <2>2, <2>3 DEF Source!Move, Source!Call
<1> QED BY <1>1, <1>2

LEMMA StepMaps ==
    ASSUME HttpInv, [Next]_vars
    PROVE  [Source!Deliver \/ Source!ReportEnd \/ Source!Move \/ Source!Fail]_(Source!vars)
<1> USE DEF HttpInv
<1>1. ASSUME NEW n \in ReadSizes, ReadBytes(n) PROVE Source!Deliver \/ Source!ReportEnd
  <2>1. PICK v \in 1 .. version, b \in BOOLEAN :
            position <= FileSizes[v] /\ Current = <<BodyOf(v, position, b)>>
    BY <1>1, CurrentIsOpen DEF ReadBytes
  <2>2. FileSizes[v] \in VersionSizes /\ FileSizes[v] \in Nat /\ position \in Nat /\ n \in Nat
    BY <1>1, SizeIsOneOf, HttpAssumption DEF Versions
  <2>3. PICK k \in 0 .. n :
            /\ k <= FileSizes[v] - position /\ (k = 0 <=> position = FileSizes[v])
            /\ Answer("read", position, k)
            /\ position' = position + k
    BY <1>1, <2>1 DEF ReadBytes, BodyOf
  <2>4. CASE k = 0
    BY <2>2, <2>3, <2>4 DEF Source!ReportEnd, Source!Call, Answer, VersionSizes
  <2>5. CASE k # 0
    <3>1. k \in 1 .. FileSizes[v] - position
      BY <2>2, <2>3, <2>5
    <3> QED BY <2>2, <2>3, <3>1 DEF Source!Deliver, Source!Call, Answer, VersionSizes
  <2> QED BY <2>4, <2>5
<1>2. ASSUME ReadBreaks \/ ReadFails \/ SeekEndFails PROVE Source!Fail
  BY <1>2 DEF ReadBreaks, ReadFails, SeekEndFails, Failure, Source!Fail, Source!Call
<1>3. ASSUME NEW offset \in Offsets, SeekStart(offset) PROVE Source!Move \/ Source!Fail
  <2>1. offset \in Int /\ 0 + offset = offset /\ 0 \in Source!Bases("start")
    BY HttpAssumption DEF Source!Bases
  <2>2. Move("start", offset, 0 + offset)
    BY <1>3, <2>1 DEF SeekStart
  <2> QED BY <2>1, <2>2, MoveMaps
<1>4. ASSUME NEW delta \in Deltas, SeekCurrent(delta) PROVE Source!Move \/ Source!Fail
  <2>1. delta \in Int /\ position \in Int /\ position \in Source!Bases("current")
    BY HttpAssumption DEF Source!Bases, Versions
  <2>2. Move("current", delta, position + delta)
    BY <1>4 DEF SeekCurrent
  <2> QED BY <2>1, <2>2, MoveMaps
<1>5. ASSUME NEW delta \in Deltas, SeekEnd(delta) PROVE Source!Move \/ Source!Fail
  <2>1. delta \in Int /\ AskedSize \in VersionSizes /\ AskedSize \in Int
    BY AskedSizeIsOneOf, SizeIsOneOf, HttpAssumption
  <2>2. AskedSize \in Source!Bases("end")
    BY <2>1 DEF Source!Bases, VersionSizes
  <2>3. Move("end", delta, AskedSize + delta)
    BY <1>5 DEF SeekEnd
  <2> QED BY <2>1, <2>2, <2>3, MoveMaps
<1>6. ASSUME ReplaceFile \/ UNCHANGED vars PROVE UNCHANGED Source!vars
  BY <1>6 DEF ReplaceFile, vars, Source!vars
<1> QED BY <1>1, <1>2, <1>3, <1>4, <1>5, <1>6 DEF Next

(* To libpgdump a URL is a file: the reader implements ByteSource.         *)
THEOREM ImplementsByteSourceCorrect == Spec => ImplementsByteSource
<1>1. Init => Source!Init
  BY DEF Init, Source!Init, Source!Call
<1>2. HttpInv /\ [Next]_vars =>
          [Source!Deliver \/ Source!ReportEnd \/ Source!Move \/ Source!Fail]_(Source!vars)
  BY StepMaps
<1> QED BY <1>1, <1>2, HttpInvariant, PTL DEF Spec, Source!Spec, ImplementsByteSource
=============================================================================

--------------------------- MODULE HttpRangeReader ---------------------------
(***************************************************************************)
(* `HttpRangeReader` (http_range_reader.rs): Read and Seek over a remote   *)
(* file.  One streaming response is kept open and read from until a seek   *)
(* moves away; the file's size is asked for once.  The server may fail,    *)
(* break a response off, ignore ranges, and replace the file.              *)
(*                                                                         *)
(* Targets of seeks stay below 2^64, so `new_position as u64` is exact.    *)
(***************************************************************************)
EXTENDS Integers, Sequences, FiniteSets

CONSTANTS
    FileSizes,   \* the size of each version of the file
    Ranges,      \* the server honours Range: SUBSET BOOLEAN
    Offsets,     \* arguments of SeekFrom::Start
    Deltas,      \* arguments of SeekFrom::Current and SeekFrom::End
    ReadSizes    \* lengths of the buffers passed to read

ASSUME HttpAssumption ==
    /\ FileSizes \in Seq(Nat) /\ FileSizes # <<>>
    /\ Ranges \subseteq BOOLEAN /\ Offsets \subseteq Nat
    /\ Deltas \subseteq Int /\ ReadSizes \subseteq Nat \ {0}

VARIABLES
    version,   \* the version of the file the server has
    ranged,    \* the server honours Range
    position, cachedSize,
    response,  \* <<>> or <<[version, at, end, broken]>>: the next byte of
               \* the body, its end, and whether the connection broke
    last,      \* history: the last call, as in ByteSource
    versions   \* history: versions of the bytes read since the last move

serverVars == <<version, ranged>>
vars == <<serverVars, position, cachedSize, response, last, versions>>

Unknown == -1
FileSize == FileSizes[version]

Init ==
    /\ version = 1 /\ ranged \in Ranges
    /\ position = 0 /\ cachedSize = Unknown /\ response = <<>>
    /\ last = [op |-> "none", ok |-> TRUE, first |-> 0, n |-> 0]
    /\ versions = {}

Answer(op, first, n) == last' = [op |-> op, ok |-> TRUE, first |-> first, n |-> n]
Failure(op) == last' = [op |-> op, ok |-> FALSE, first |-> 0, n |-> 0]

-----------------------------------------------------------------------------
(* The server (external).  A range it can serve is answered with 206, the  *)
(* total in Content-Range and the bytes from there on; beyond the end with *)
(* 416; and with 200 and Content-Length when it ignores ranges.            *)
Serves(from) == ranged /\ from < FileSize

Body(from) == [version |-> version, at |-> from, end |-> FileSize, broken |-> FALSE]

(* Faulty variant: the length of the part is taken for the total.          *)
PartSize(from) == FileSize - from

(* parse_total_size of the answer to a range from there on.                *)
TotalSize(from) == FileSize

ReplaceFile ==
    /\ version < Len(FileSizes)
    /\ version' = version + 1
    /\ UNCHANGED <<ranged, position, cachedSize, response, last, versions>>

-----------------------------------------------------------------------------
(* ensure_response: the open response, or a new one from the position on.  *)
(* Faulty variant: a new one for every read.                               *)
CurrentFresh == <<Body(position)>>

Current == IF response # <<>> THEN response ELSE <<Body(position)>>

CanRead == response # <<>> \/ Serves(position)

SizeSeen ==
    IF response = <<>> /\ cachedSize = Unknown THEN TotalSize(position) ELSE cachedSize

(* External: how the reader is used, a guard that read does not have.  No  *)
(* caller in src/ reads on after a failed read (`?` everywhere), and the   *)
(* broken body is dropped when a seek moves.  read returns 0 for an empty  *)
(* buffer before it does anything, so ReadSizes has no 0.                  *)
Usable == response # <<>> => ~ response[1].broken

Advance(r, k) == <<[r EXCEPT !.at = @ + k]>>

(* Some bytes, or none at the end of the body.                             *)
ReadBytes(n) ==
    /\ Usable /\ CanRead
    /\ LET r == Current[1] IN
       \E k \in 0 .. n :
          /\ k <= r.end - r.at /\ (k = 0 <=> r.at = r.end)
          /\ Answer("read", r.at, k)
          /\ response' = Advance(r, k)
          /\ position' = position + k
          /\ versions' = IF k = 0 THEN versions ELSE versions \cup {r.version}
    /\ cachedSize' = SizeSeen
    /\ UNCHANGED serverVars

(* The body breaks off, for good or until the next read (a timeout).       *)
ReadBreaks ==
    /\ Usable /\ CanRead
    /\ Failure("read")
    /\ \E broken \in BOOLEAN : response' = <<[Current[1] EXCEPT !.broken = broken]>>
    /\ cachedSize' = SizeSeen
    /\ UNCHANGED <<serverVars, position, versions>>

(* No response: sending fails, or the status is not 206.                   *)
ReadFails ==
    /\ response = <<>>
    /\ Failure("read")
    /\ UNCHANGED <<serverVars, position, cachedSize, response, versions>>

-----------------------------------------------------------------------------
(* Faulty variant: the response is kept.                                   *)
MoveKeeps(op, n, target) ==
    IF target < 0
    THEN Failure(op) /\ UNCHANGED <<position, response, versions>>
    ELSE /\ Answer(op, target, n)
         /\ position' = target
         /\ UNCHANGED <<response, versions>>

Move(op, n, target) ==
    IF target < 0
    THEN Failure(op) /\ UNCHANGED <<position, response, versions>>
    ELSE /\ Answer(op, target, n)
         /\ position' = target
         /\ IF target = position THEN UNCHANGED <<response, versions>>
                                 ELSE response' = <<>> /\ versions' = {}

SeekStart(offset) ==
    /\ Move("start", offset, offset)
    /\ UNCHANGED <<serverVars, cachedSize>>

SeekCurrent(delta) ==
    /\ Move("current", delta, position + delta)
    /\ UNCHANGED <<serverVars, cachedSize>>

(* file_size: cached, or asked for with "bytes=0-0".  200 will do, 416 (an *)
(* empty file) will not.                                                   *)
AskedSize == IF cachedSize = Unknown THEN TotalSize(0) ELSE cachedSize

SeekEnd(delta) ==
    /\ cachedSize # Unknown \/ Serves(0) \/ ~ ranged
    /\ cachedSize' = AskedSize
    /\ Move("end", delta, AskedSize + delta)
    /\ UNCHANGED serverVars

SeekEndFails ==
    /\ cachedSize = Unknown
    /\ Failure("end")
    /\ UNCHANGED <<serverVars, position, cachedSize, response, versions>>

-----------------------------------------------------------------------------
Next ==
    \/ \E n \in ReadSizes : ReadBytes(n)
    \/ ReadBreaks \/ ReadFails
    \/ \E offset \in Offsets : SeekStart(offset)
    \/ \E delta \in Deltas : SeekCurrent(delta) \/ SeekEnd(delta)
    \/ SeekEndFails
    \/ ReplaceFile

Spec == Init /\ [][Next]_vars

-----------------------------------------------------------------------------
TypeOK ==
    /\ version \in 1 .. Len(FileSizes) /\ ranged \in Ranges
    /\ position \in Nat
    /\ cachedSize \in {Unknown} \cup {FileSizes[v] : v \in 1 .. version}
    /\ \A i \in DOMAIN response :
          /\ response[i].at <= response[i].end
          /\ response[i].version <= version

(* The open response continues exactly at the position: after any mix of   *)
(* seeks, short reads, failed reads and failed seeks.                      *)
CursorIsPosition == response # <<>> => response[1].at = position

(* Bytes read one after the other are of one version of the file, also     *)
(* when it is replaced while they are read.                                *)
OneVersion == Cardinality(versions) <= 1

(* The reader behaves like any other source of bytes: a seek goes where it *)
(* was told to, relative to the end also when the size was learnt from a   *)
(* range in the middle of the file, and a read goes on from there.  What   *)
(* fails does not move.  The end is that of one of the file's versions.    *)
Source == INSTANCE ByteSource
    WITH Sizes <- {FileSizes[v] : v \in DOMAIN FileSizes}, pos <- position

ImplementsByteSource == Source!Spec
=============================================================================

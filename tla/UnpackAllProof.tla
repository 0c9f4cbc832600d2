--------------------------- MODULE UnpackAllProof ---------------------------
(***************************************************************************)
(* `all` leaves nothing out: proved for every sequence of dumps, every set *)
(* of formats and any number of runs, from what Export promises of each    *)
(* call of read_entry.                                                     *)
(***************************************************************************)
EXTENDS UnpackAll, Lemmas

File(i) == FileName(Dumps[dump][i], format)

(* Between two runs of the command nothing is under way.                   *)
Arguments ==
    /\ dump \in DOMAIN Dumps /\ format \in Formats /\ runs \in 0 .. MaxRuns
    /\ pc \in {"idle", "open", "entries", "toc"}
    /\ status \in {"none", "running", "ok", "err", "killed"}
    /\ status = "running" <=> pc # "idle"
    /\ todo \subseteq DataEntries /\ (pc # "entries" => todo = {})
    /\ faulty \in BOOLEAN

(* The call of read_entry on the current entry, and its file.              *)
CallOK ==
    /\ out \in {"untouched", "partial", "whole"} /\ result \in {"none", "ok", "err"}
    /\ result = "ok" => out = "whole"
    /\ pc = "entries" /\ todo # {} /\ out = "whole" => WholeFile(Current)
    /\ pc \in {"open", "entries"} /\ (pc = "open" \/ todo = {}) =>
           out = "untouched" /\ result = "none"

Contents ==
    {Absent, Partial} \cup
        {Of(d, i) : d \in DOMAIN Dumps, i \in UNION {DOMAIN Dumps[e] : e \in DOMAIN Dumps}}

Directory ==
    /\ files \in [Names -> Contents]
    /\ toc \in {Absent, Partial} \cup {Toc(d) : d \in DOMAIN Dumps}

(* What the loop has passed is whole.                                      *)
Passed == pc \in {"entries", "toc"} => \A i \in DataEntries \ todo : WholeFile(i)

(* A run that ended well left everything whole; in the first run toc.json  *)
(* comes after that.                                                       *)
Ended ==
    /\ status = "ok" => Complete /\ toc = Toc(dump)
    /\ runs = 0 => toc = Absent /\ pc = "idle"
    /\ runs = 1 /\ toc # Absent => pc \in {"toc", "idle"} /\ Complete

UnpackInv == Arguments /\ CallOK /\ Directory /\ Passed /\ Ended

-----------------------------------------------------------------------------
LEMMA PositionsAreNat ==
    ASSUME NEW d \in DOMAIN Dumps
    PROVE  Dumps[d] \in Seq(Entry) /\ DOMAIN Dumps[d] \subseteq Nat
BY UnpackAssumption

LEMMA DataEntriesAreEntries == DataEntries \subseteq DOMAIN Dumps[dump]
BY DEF DataEntries

(* The loop takes an entry that is still to come.                          *)
LEMMA CurrentIsToCome ==
    ASSUME Arguments, todo # {}
    PROVE  Current \in todo
<1>1. todo \subseteq Nat
  BY PositionsAreNat, DataEntriesAreEntries DEF Arguments
<1> QED BY <1>1, LeastExists DEF Current

(* Entries have files of their own: dump ids do not repeat.                *)
LEMMA FilesDiffer ==
    ASSUME Arguments, NEW i \in DataEntries, NEW j \in DataEntries, i # j
    PROVE  File(i) # File(j)
<1>1. Dumps[dump][i].id # Dumps[dump][j].id
  BY UnpackAssumption, DataEntriesAreEntries DEF Arguments
<1> QED BY <1>1 DEF File, FileName

LEMMA FileIsNamed ==
    ASSUME Arguments, NEW i \in DataEntries
    PROVE  File(i) \in Names
BY DataEntriesAreEntries DEF Arguments, Names, File

LEMMA InitUnpack == Init => UnpackInv
<1> SUFFICES ASSUME Init PROVE UnpackInv
  OBVIOUS
<1> USE DEF Init
<1>1. Arguments
  <2>1. 1 \in DOMAIN Dumps
    BY UnpackAssumption
  <2>2. 0 \in 0 .. MaxRuns
    BY UnpackAssumption
  <2> QED BY <2>1, <2>2 DEF Arguments
<1>2. CallOK
  BY DEF CallOK, X!Init
<1>3. Directory
  BY DEF Directory, Contents
<1> QED BY <1>1, <1>2, <1>3 DEF UnpackInv, Passed, Ended, Absent

(* A step that leaves the arguments and the data files alone changes       *)
(* nothing about which of them are whole.                                  *)
LEMMA SameFiles ==
    ASSUME UNCHANGED <<argVars, files>>
    PROVE  /\ DataEntries' = DataEntries
           /\ \A i : WholeFile(i)' = WholeFile(i)
           /\ Complete' = Complete
BY DEF argVars, DataEntries, WholeFile, Complete

-----------------------------------------------------------------------------
LEMMA StartKeepsInv ==
    ASSUME UnpackInv, Start
    PROVE  UnpackInv'
<1> USE DEF UnpackInv, Start
<1>1. Arguments'
  <2>1. todo' = {} /\ runs' \in 0 .. MaxRuns
    BY UnpackAssumption DEF Arguments
  <2> QED BY <2>1 DEF Arguments
<1>2. CallOK'
  BY DEF CallOK, NewCall, Arguments
<1>3. Directory'
  BY DEF Directory, dirVars, Contents
<1>4. Passed'
  BY DEF Passed
<1>5. Ended'
  <2>1. status' = "running" /\ pc' = "open" /\ runs' = runs + 1 /\ toc' = toc
    BY DEF dirVars
  <2>2. runs' = 1 => toc' = Absent
    BY <2>1, UnpackAssumption DEF Ended, Arguments
  <2> QED BY <2>1, <2>2, UnpackAssumption DEF Ended, Arguments
<1> QED BY <1>1, <1>2, <1>3, <1>4, <1>5

LEMMA OpenKeepsInv ==
    ASSUME UnpackInv, Open
    PROVE  UnpackInv'
<1> USE DEF UnpackInv, Open
<1>1. UNCHANGED <<argVars, files>>
  BY DEF dirVars
<1>2. Arguments'
  BY <1>1, SameFiles DEF Arguments, argVars
<1>3. CallOK'
  BY DEF CallOK, callVars
<1>4. Directory' /\ Ended'
  BY <1>1, SameFiles DEF Directory, Contents, Ended, argVars, dirVars, Arguments
<1>5. Passed'
  BY <1>1, SameFiles DEF Passed
<1> QED BY <1>2, <1>3, <1>4, <1>5

(* A run that stops without success.                                       *)
LEMMA StopKeepsInv ==
    ASSUME UnpackInv, NEW s \in {"err", "killed"}, pc # "idle", Stop(s), faulty' \in BOOLEAN,
           UNCHANGED <<argVars, callVars, dirVars>>
    PROVE  UnpackInv'
<1> USE DEF UnpackInv, Stop
<1>1. UNCHANGED <<argVars, files>>
  BY DEF dirVars
<1>2. Arguments'
  BY <1>1, SameFiles DEF Arguments, argVars
<1>3. CallOK'
  BY DEF CallOK, callVars
<1>4. Directory' /\ Ended'
  BY <1>1, SameFiles DEF Directory, Contents, Ended, argVars, dirVars, Arguments
<1> QED BY <1>2, <1>3, <1>4 DEF Passed

LEMMA ReadEntryKeepsInv ==
    ASSUME UnpackInv, ReadEntry
    PROVE  UnpackInv'
<1> USE DEF UnpackInv, ReadEntry, Calling
<1>1. Current \in todo /\ Current \in DataEntries
  BY CurrentIsToCome DEF Arguments
<1>2. UNCHANGED <<dump, format, runs, pc, status, todo, toc>>
  BY DEF argVars
<1>3. DataEntries' = DataEntries /\ Current' = Current /\ \A i : File(i)' = File(i)
  BY <1>2 DEF DataEntries, Current, File
<1>4. /\ out' \in {"untouched", "partial", "whole"} /\ result' \in {"none", "ok", "err"}
      /\ result' = "ok" => out' = "whole"
      /\ out' = "untouched" => out = "untouched"
  BY DEF CallOK, X!Next, X!Work, X!Succeed, X!Fail
<1>5. File(Current) \in Names /\ files \in [Names -> Contents]
  BY <1>1, FileIsNamed DEF Directory
<1>6. files' = [files EXCEPT ![File(Current)] = Content(out')]
  BY DEF File
<1>7. Content(out') \in Contents
  <2>1. Of(dump, Current) \in Contents
    BY <1>1, DataEntriesAreEntries DEF Contents, Arguments
  <2>2. files[File(Current)] \in Contents
    BY <1>5
  <2> QED BY <1>4, <2>1, <2>2 DEF Content, Contents, File
<1>8. Arguments'
  BY <1>2, <1>3 DEF Arguments
<1>9. Directory'
  <2>1. files' \in [Names -> Contents]
    BY <1>5, <1>6, <1>7
  <2>2. Contents' = Contents /\ Names' = Names
    BY DEF Contents, Names
  <2> QED BY <1>2, <2>1, <2>2 DEF Directory
<1>10. files'[File(Current)] = Content(out')
  BY <1>5, <1>6
<1>11. out' = "whole" => WholeFile(Current)'
  <2>1. out' = "whole" => Content(out') = Of(dump, Current)
    BY DEF Content
  <2> QED BY <1>2, <1>3, <1>10, <2>1 DEF WholeFile, File
<1>12. CallOK'
  BY <1>2, <1>3, <1>4, <1>11 DEF CallOK
<1>13. \A i \in DataEntries \ todo : WholeFile(i)' = WholeFile(i)
  <2> SUFFICES ASSUME NEW i \in DataEntries \ todo PROVE WholeFile(i)' = WholeFile(i)
    OBVIOUS
  <2>1. File(i) # File(Current) /\ File(i) \in Names
    BY <1>1, FilesDiffer, FileIsNamed
  <2>2. files'[File(i)] = files[File(i)]
    BY <1>5, <1>6, <2>1
  <2> QED BY <1>2, <2>2 DEF WholeFile, File
<1>14. Passed'
  BY <1>2, <1>3, <1>13 DEF Passed
<1>15. Ended'
  BY <1>2 DEF Ended, Arguments
<1> QED BY <1>8, <1>9, <1>12, <1>14, <1>15

LEMMA ReadEntryRefusesKeepsInv ==
    ASSUME UnpackInv, ReadEntryRefuses
    PROVE  UnpackInv'
<1> USE DEF UnpackInv, ReadEntryRefuses, Calling
<1>1. UNCHANGED <<argVars, files>>
  BY DEF dirVars
<1>2. Arguments'
  BY <1>1, SameFiles DEF Arguments, argVars
<1>3. CallOK'
  <2>1. Current' = Current
    BY DEF Current
  <2> QED BY <1>1, <2>1, SameFiles DEF CallOK
<1>4. Directory' /\ Ended' /\ Passed'
  BY <1>1, SameFiles DEF Directory, Contents, Ended, Passed, argVars, dirVars, Arguments
<1> QED BY <1>2, <1>3, <1>4

LEMMA NextEntryKeepsInv ==
    ASSUME UnpackInv, NextEntry
    PROVE  UnpackInv'
<1> USE DEF UnpackInv, NextEntry
<1>1. UNCHANGED <<argVars, files>>
  BY DEF dirVars
<1>2. todo # {} /\ WholeFile(Current)
  BY DEF CallOK
<1>3. Arguments'
  BY <1>1, SameFiles DEF Arguments, argVars
<1>4. CallOK'
  BY DEF CallOK, NewCall
<1>5. Directory' /\ Ended'
  BY <1>1, SameFiles DEF Directory, Contents, Ended, argVars, dirVars, Arguments
<1>6. Passed'
  BY <1>1, <1>2, SameFiles DEF Passed
<1> QED BY <1>3, <1>4, <1>5, <1>6

LEMMA CreateTocKeepsInv ==
    ASSUME UnpackInv, CreateToc
    PROVE  UnpackInv'
<1> USE DEF UnpackInv, CreateToc
<1>1. UNCHANGED <<argVars, files>>
  OBVIOUS
<1>2. Arguments'
  BY <1>1, SameFiles DEF Arguments, argVars
<1>3. CallOK'
  BY DEF CallOK, callVars
<1>4. Complete
  BY DEF Passed, Complete
<1>5. Passed' /\ Ended'
  BY <1>1, <1>4, SameFiles DEF Passed, Ended, Complete, argVars, Arguments
<1>6. Directory'
  BY DEF Directory, Contents
<1> QED BY <1>2, <1>3, <1>5, <1>6

LEMMA WriteTocKeepsInv ==
    ASSUME UnpackInv, WriteToc
    PROVE  UnpackInv'
<1> USE DEF UnpackInv, WriteToc, Stop
<1>1. UNCHANGED <<argVars, files>>
  OBVIOUS
<1>2. Arguments'
  BY <1>1, SameFiles DEF Arguments, argVars
<1>3. CallOK'
  BY DEF CallOK, callVars
<1>4. Complete
  BY DEF Passed, Complete, Arguments
<1>5. Ended'
  BY <1>1, <1>4, SameFiles DEF Ended, argVars, Arguments, Toc
<1>6. Directory'
  BY DEF Directory, Contents, Arguments
<1> QED BY <1>2, <1>3, <1>5, <1>6 DEF Passed

LEMMA StepUnpack ==
    ASSUME UnpackInv, [Next]_vars
    PROVE  UnpackInv'
<1>1. CASE Start
  BY <1>1, StartKeepsInv
<1>2. CASE Open
  BY <1>2, OpenKeepsInv
<1>3. CASE OpenFails
  BY <1>3, StopKeepsInv DEF OpenFails
<1>4. CASE ReadEntry
  BY <1>4, ReadEntryKeepsInv
<1>5. CASE ReadEntryRefuses
  BY <1>5, ReadEntryRefusesKeepsInv
<1>6. CASE NextEntry
  BY <1>6, NextEntryKeepsInv
<1>7. CASE EntryFailed
  BY <1>7, StopKeepsInv DEF EntryFailed, UnpackInv, Arguments
<1>8. CASE CreateToc
  BY <1>8, CreateTocKeepsInv
<1>9. CASE WriteToc
  BY <1>9, WriteTocKeepsInv
<1>10. CASE TocFails
  BY <1>10, StopKeepsInv DEF TocFails
<1>11. CASE Killed
  BY <1>11, StopKeepsInv DEF Killed
<1>12. CASE UNCHANGED vars
  <2>1. UNCHANGED <<argVars, files>>
    BY <1>12 DEF vars, dirVars
  <2>2. Current' = Current
    BY <1>12 DEF vars, Current
  <2> QED BY <1>12, <2>1, <2>2, SameFiles
        DEF vars, argVars, callVars, dirVars, UnpackInv, Arguments, CallOK, Directory, Contents,
            Passed, Ended
<1> QED BY <1>1, <1>2, <1>3, <1>4, <1>5, <1>6, <1>7, <1>8, <1>9, <1>10, <1>11, <1>12 DEF Next

(* The strengthened invariant of `all`.                                    *)
THEOREM UnpackInvariant == Spec => []UnpackInv
<1>1. Init => UnpackInv
  BY InitUnpack
<1>2. UnpackInv /\ [Next]_vars => UnpackInv'
  BY StepUnpack
<1> QED BY <1>1, <1>2, PTL DEF Spec

(* Type correctness of `all` and its directory.                            *)
THEOREM TypeCorrect == Spec => []TypeOK
<1>1. UnpackInv => TypeOK
  BY DEF UnpackInv, Arguments, CallOK, Directory, Contents, TypeOK
<1> QED BY <1>1, UnpackInvariant, PTL

(* A run of `all` that succeeds leaves the whole data of every entry in a  *)
(* file of its own, and its toc.json: whatever was in the directory, and   *)
(* however earlier runs ended.                                             *)
THEOREM SuccessCorrect == Spec => []SuccessMeansComplete
<1>1. UnpackInv => SuccessMeansComplete
  BY DEF UnpackInv, Ended, SuccessMeansComplete
<1> QED BY <1>1, UnpackInvariant, PTL

(* In a fresh directory toc.json is never there before the data.           *)
THEOREM TocCorrect == Spec => []TocIsLast
<1>1. UnpackInv => TocIsLast
  BY DEF UnpackInv, Ended, TocIsLast
<1> QED BY <1>1, UnpackInvariant, PTL
=============================================================================

------------------------------ MODULE UnpackAll ------------------------------
(***************************************************************************)
(* `pg_dumpster all` (cmd_all in main.rs): every entry of a dump that has  *)
(* data is exported to a file of its own in one directory, then toc.json   *)
(* is written there.  read_entry is taken as what Export promises, which   *)
(* ReadEntry implements.  The command may be killed at any point and run   *)
(* again on the same directory, with another dump or format.               *)
(***************************************************************************)
EXTENDS Integers, Sequences

CONSTANTS
    Dumps,      \* the dumps, each the sequence of its entries
    Formats,    \* subset of {"tsv-raw", "csv", "parquet"}
    MaxRuns     \* runs of the command

(* `id` is dump_id, `set` says data_state is Set, `dumper` is had_dumper,  *)
(* and `columns` says the COPY statement yields column names.              *)
Entry == [id : Nat, tag : STRING, set : BOOLEAN, dumper : BOOLEAN, columns : BOOLEAN]

ASSUME UnpackAssumption ==
    /\ Dumps \in Seq(Seq(Entry)) /\ Dumps # <<>>
    /\ \A d \in DOMAIN Dumps : \A i, j \in DOMAIN Dumps[d] :
           Dumps[d][i].id = Dumps[d][j].id => i = j
    /\ Formats \subseteq {"tsv-raw", "csv", "parquet"} /\ Formats # {}
    /\ MaxRuns \in Nat \ {0}

VARIABLES
    dump, format,  \* the arguments of the run; dump is an index into Dumps
    pc,            \* where the run is; "idle" between runs
    status,        \* how the last run ended
    todo,          \* positions of the data entries not exported yet
    out, result,   \* the call of read_entry under way, as in Export
    files, toc,    \* the directory: the data files and toc.json
    runs,          \* runs started
    faulty         \* history: a call outside this code, or data, failed

argVars == <<dump, format, runs>>
callVars == <<out, result>>
dirVars == <<files, toc>>
vars == <<argVars, pc, status, todo, callVars, dirVars, faulty>>

X == INSTANCE Export

(* The filter of cmd_all.                                                  *)
IsData(e) == e.set /\ e.dumper

DataEntries == {i \in DOMAIN Dumps[dump] : IsData(Dumps[dump][i])}

(* Faulty variant: files named after the tables.                           *)
FileByTag(e, f) == <<e.tag, f>>

FileName(e, f) == <<e.id, f>>

Names == UNION {{FileName(Dumps[d][i], f) : i \in DOMAIN Dumps[d], f \in Formats} :
                d \in DOMAIN Dumps}

Absent == <<"absent">>
Partial == <<"partial">>
Of(d, i) == <<"whole", d, i>>   \* all of entry i of dump d
Toc(d) == <<"whole", d>>

Init ==
    /\ dump = 1 /\ format \in Formats /\ runs = 0
    /\ pc = "idle" /\ status = "none" /\ todo = {}
    /\ X!Init
    /\ files = [n \in Names |-> Absent] /\ toc = Absent
    /\ faulty = FALSE

Stop(s) == pc' = "idle" /\ status' = s /\ todo' = {}

NewCall == out' = "untouched" /\ result' = "none"

-----------------------------------------------------------------------------
Start ==
    /\ pc = "idle" /\ runs < MaxRuns
    /\ dump' \in DOMAIN Dumps /\ format' \in Formats
    /\ runs' = runs + 1
    /\ pc' = "open" /\ status' = "running" /\ faulty' = FALSE
    /\ NewCall
    /\ UNCHANGED <<todo, dirVars>>

(* create_dir_all and open_reader: the TOC is read once, and kept.         *)
Open ==
    /\ pc = "open"
    /\ todo' = DataEntries
    /\ pc' = "entries"
    /\ UNCHANGED <<argVars, status, callVars, dirVars, faulty>>

OpenFails ==
    /\ pc = "open" /\ Stop("err") /\ faulty' = TRUE
    /\ UNCHANGED <<argVars, callVars, dirVars>>

-----------------------------------------------------------------------------
(* The loop: entries in the order of the TOC.                              *)
Current == CHOOSE i \in todo : \A j \in todo : i <= j

Exportable == format = "tsv-raw" \/ Dumps[dump][Current].columns

Calling == pc = "entries" /\ todo # {} /\ result = "none"

Content(o) ==
    CASE o = "untouched" -> files[FileName(Dumps[dump][Current], format)]
      [] o = "partial" -> Partial
      [] o = "whole" -> Of(dump, Current)

(* A step of read_entry on the current entry.                              *)
ReadEntry ==
    /\ Calling /\ Exportable
    /\ X!Next
    /\ files' = [files EXCEPT ![FileName(Dumps[dump][Current], format)] = Content(out')]
    /\ faulty' = (faulty \/ result' = "err")
    /\ UNCHANGED <<argVars, pc, status, todo, toc>>

(* Without column names it fails before it creates the file.               *)
ReadEntryRefuses ==
    /\ Calling /\ ~ Exportable
    /\ result' = "err"
    /\ UNCHANGED <<argVars, pc, status, todo, out, dirVars, faulty>>

(* Faulty variant: an entry that fails is skipped.                         *)
NextEntryAnyway ==
    /\ pc = "entries" /\ result \in {"ok", "err"}
    /\ todo' = todo \ {Current}
    /\ NewCall
    /\ UNCHANGED <<argVars, pc, status, dirVars, faulty>>

NextEntry ==
    /\ pc = "entries" /\ result = "ok"
    /\ todo' = todo \ {Current}
    /\ NewCall
    /\ UNCHANGED <<argVars, pc, status, dirVars, faulty>>

EntryFailed ==
    /\ pc = "entries" /\ result = "err"
    /\ Stop("err")
    /\ UNCHANGED <<argVars, callVars, dirVars, faulty>>

-----------------------------------------------------------------------------
(* fs::write truncates toc.json and then writes it.                        *)
CreateToc ==
    /\ pc = "entries" /\ todo = {}
    /\ toc' = Partial
    /\ pc' = "toc"
    /\ UNCHANGED <<argVars, status, todo, callVars, files, faulty>>

WriteToc ==
    /\ pc = "toc"
    /\ toc' = Toc(dump)
    /\ Stop("ok")
    /\ UNCHANGED <<argVars, callVars, files, faulty>>

TocFails ==
    /\ pc = "toc" \/ (pc = "entries" /\ todo = {})
    /\ Stop("err") /\ faulty' = TRUE
    /\ UNCHANGED <<argVars, callVars, dirVars>>

(* The process is killed.                                                  *)
Killed ==
    /\ pc # "idle" /\ Stop("killed") /\ faulty' = TRUE
    /\ UNCHANGED <<argVars, callVars, dirVars>>

Next ==
    \/ Start \/ Open \/ OpenFails
    \/ ReadEntry \/ ReadEntryRefuses \/ NextEntry \/ EntryFailed
    \/ CreateToc \/ WriteToc \/ TocFails
    \/ Killed

Spec == Init /\ [][Next]_vars

-----------------------------------------------------------------------------
WholeFile(i) == files[FileName(Dumps[dump][i], format)] = Of(dump, i)

Complete == \A i \in DataEntries : WholeFile(i)

TypeOK ==
    /\ dump \in DOMAIN Dumps /\ format \in Formats /\ runs \in 0 .. MaxRuns
    /\ pc \in {"idle", "open", "entries", "toc"}
    /\ status \in {"none", "running", "ok", "err", "killed"}
    /\ todo \subseteq DataEntries /\ (pc # "entries" => todo = {})
    /\ out \in {"untouched", "partial", "whole"} /\ result \in {"none", "ok", "err"}
    /\ \A n \in Names : files[n] \in {Absent, Partial} \cup
           {Of(d, i) : d \in DOMAIN Dumps, i \in UNION {DOMAIN Dumps[e] : e \in DOMAIN Dumps}}
    /\ toc \in {Absent, Partial} \cup {Toc(d) : d \in DOMAIN Dumps}
    /\ faulty \in BOOLEAN

(* When the command succeeds, the directory holds the whole data of every  *)
(* entry of this dump, each in its own file, and the toc.json that goes    *)
(* with them: whatever earlier runs, killed or of other dumps, left there. *)
SuccessMeansComplete == status = "ok" => Complete /\ toc = Toc(dump)

(* In a directory that was not unpacked into before, toc.json is there     *)
(* only if every data file is complete: it can serve as the marker of a    *)
(* finished unpack, also after a kill.  (From the second run on it cannot: *)
(* nothing removes the old toc.json.)                                      *)
TocIsLast == runs = 1 /\ toc # Absent => Complete

(* main.rs: `all` is to "Unpack all tables and the TOC into a directory".  *)
(* It fails only when something outside fails or the data is malformed.    *)
FailsOnlyOnFaults == status = "err" => faulty
=============================================================================

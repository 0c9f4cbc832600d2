---------------------------- MODULE SnapshotStore ----------------------------
(***************************************************************************)
(* Snapshot::assert_matches and the TableComparator                        *)
(* (test_utils/snapshot.rs) on one snapshot file, which several tests      *)
(* share: it is compared, created when it is missing, and rewritten when   *)
(* UPDATE_SNAPSHOTS is set.  It is written line by line; a line is a tuple *)
(* with the columns or the cells.                                          *)
(***************************************************************************)
EXTENDS TestPhases, TableDiff

CONSTANT Key   \* the id column

VARIABLES
    update,   \* update_mode_enabled
    out,      \* the table in the output file of each test
    file,     \* the snapshot
    pos,      \* the next line each test writes, 0 before it opened the file
    seen      \* history: the lines each test compared its output with

storeVars == <<update, out, file, pos, seen>>

IsFile(f) ==
    /\ f.exists \in BOOLEAN
    /\ f.lines # <<>> =>
          /\ f.exists /\ f.lines = <<Head(f.lines)>> \o Tail(f.lines)
          /\ Head(f.lines) \in Seq(STRING) /\ Tail(f.lines) \in Seq(Seq(Nat))

Absent == [exists |-> FALSE, lines |-> <<>>]
File(lines) == [exists |-> TRUE, lines |-> lines]

(* NULs where a writer whose file was truncated by another one goes on;    *)
(* they spoil the line that follows them.                                  *)
Hole == <<>>

(* write_table_snapshot.                                                   *)
SnapshotLines(t) == <<t.columns>> \o SortedRows(t, Key)

(* read_csv of a snapshot.                                                 *)
Readable(lines) ==
    /\ lines # <<>>
    /\ \A k \in DOMAIN lines : lines[k] # Hole /\ Len(lines[k]) = Len(Head(lines))

Snapshot(lines) == [columns |-> Head(lines), rows |-> Tail(lines)]

(* write_all at a place in the file.                                       *)
Put(lines, k, l) ==
    [j \in 1 .. Max({Len(lines), k}) |->
        IF j = k THEN l ELSE IF j <= Len(lines) THEN lines[j] ELSE Hole]

-----------------------------------------------------------------------------
StartUpdate(t) ==
    /\ phase[t] = "read" /\ update
    /\ Turn(t, "updating")
    /\ UNCHANGED storeVars

StartCreate(t) ==
    /\ phase[t] = "read" /\ ~ update /\ ~ file.exists
    /\ Turn(t, "creating")
    /\ UNCHANGED storeVars

StartCompare(t) ==
    /\ phase[t] = "read" /\ ~ update /\ file.exists
    /\ Turn(t, "comparing")
    /\ UNCHANGED storeVars

Writes(t) == phase[t] \in {"updating", "creating"}

(* Faulty variant: the file is opened without truncating it.               *)
CreateFileKeeps(t) ==
    /\ Writes(t) /\ pos[t] = 0 /\ HasColumn(out[t], Key)
    /\ file' = File(file.lines)
    /\ pos' = [pos EXCEPT ![t] = 1]
    /\ UNCHANGED <<phase, update, out, seen>>

CreateFile(t) ==
    /\ Writes(t) /\ pos[t] = 0 /\ HasColumn(out[t], Key)
    /\ file' = File(<<>>)
    /\ pos' = [pos EXCEPT ![t] = 1]
    /\ UNCHANGED <<phase, update, out, seen>>

Ready(t) == pos[t] > Len(SnapshotLines(out[t]))

WriteLine(t) ==
    /\ Writes(t) /\ pos[t] > 0 /\ ~ Ready(t)
    /\ file' = File(Put(file.lines, pos[t], SnapshotLines(out[t])[pos[t]]))
    /\ pos' = [pos EXCEPT ![t] = pos[t] + 1]
    /\ UNCHANGED <<phase, update, out, seen>>

(* Faulty variant: a snapshot just created is good enough.                 *)
WrittenAccepts(t) ==
    /\ Writes(t) /\ pos[t] > 0 /\ Ready(t)
    /\ Turn(t, "passed")
    /\ UNCHANGED storeVars

(* A new snapshot fails the test, so that somebody looks at it.            *)
Written(t) ==
    /\ Writes(t) /\ pos[t] > 0 /\ Ready(t)
    /\ Turn(t, IF phase[t] = "updating" THEN "passed" ELSE "failed")
    /\ UNCHANGED storeVars

(* No id column, found before the file is opened, or an error of the disk. *)
WriteFails(t) ==
    /\ Writes(t)
    /\ Turn(t, "failed")
    /\ UNCHANGED storeVars

Compare(t) ==
    /\ phase[t] = "comparing"
    /\ seen' = [seen EXCEPT ![t] = file.lines]
    /\ Turn(t, IF /\ Readable(file.lines)
                  /\ DiffTables(Snapshot(file.lines), out[t], Key) = {}
               THEN "passed" ELSE "failed")
    /\ UNCHANGED <<update, out, file, pos>>

StoreStep(t) ==
    \/ StartUpdate(t) \/ StartCreate(t) \/ StartCompare(t) \/ Compare(t)
    \/ CreateFile(t) \/ WriteLine(t) \/ Written(t) \/ WriteFails(t)

-----------------------------------------------------------------------------
StoreTypeOK ==
    /\ update \in BOOLEAN
    /\ \A t \in Tests : IsTable(out[t]) /\ pos[t] <= Len(out[t].rows) + 2
    /\ IsFile(file)
=============================================================================

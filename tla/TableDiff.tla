------------------------------ MODULE TableDiff ------------------------------
(***************************************************************************)
(* The comparison of tables in the tests: diff_tables, index_by_id and the *)
(* order of write_table_snapshot (test_utils/snapshot.rs).  A cell is a    *)
(* number, 0 standing for NULL: None is the least in the order of Option.  *)
(***************************************************************************)
EXTENDS Naturals, Sequences, FiniteSets, FiniteSetsExt, SequencesExt

Null == 0

IsTable(t) ==
    /\ t \in [columns : Seq(STRING), rows : Seq(Seq(Nat))]
    /\ \A r \in DOMAIN t.rows : Len(t.rows[r]) = Len(t.columns)

HasColumn(t, c) == c \in ToSet(t.columns)
ColumnIndex(t, c) == Min({k \in DOMAIN t.columns : t.columns[k] = c})
CellOf(t, row, c) == row[ColumnIndex(t, c)]

RowsWith(t, key, id) == {r \in DOMAIN t.rows : CellOf(t, t.rows[r], key) = id}

(* Rows without an id are passed over.                                     *)
Ids(t, key) == {CellOf(t, t.rows[r], key) : r \in DOMAIN t.rows} \ {Null}

IndexById(t, key) == [id \in Ids(t, key) |-> t.rows[Max(RowsWith(t, key, id))]]

Duplicates(t, key) == {id \in Ids(t, key) : Cardinality(RowsWith(t, key, id)) > 1}

ColumnDiffs(e, a) ==
    {<<"missing_column", c>> : c \in ToSet(e.columns) \ ToSet(a.columns)}
    \cup {<<"extra_column", c>> : c \in ToSet(a.columns) \ ToSet(e.columns)}

CellDiffs(e, a, eRow, aRow) ==
    {<<"cell", c>> : c \in {c \in ToSet(e.columns) \cap ToSet(a.columns) :
                                CellOf(e, eRow, c) # CellOf(a, aRow, c)}}

(* Faulty variant: the ids are those of the snapshot.                      *)
RowDiffsOneWay(e, a, key) ==
    LET eRows == IndexById(e, key)
        aRows == IndexById(a, key)
    IN {<<"missing_row", id>> : id \in DOMAIN eRows \ DOMAIN aRows}
       \cup UNION {CellDiffs(e, a, eRows[id], aRows[id]) : id \in DOMAIN eRows \cap DOMAIN aRows}

RowDiffs(e, a, key) ==
    LET eRows == IndexById(e, key)
        aRows == IndexById(a, key)
    IN {<<"missing_row", id>> : id \in DOMAIN eRows \ DOMAIN aRows}
       \cup {<<"extra_row", id>> : id \in DOMAIN aRows \ DOMAIN eRows}
       \cup UNION {CellDiffs(e, a, eRows[id], aRows[id]) : id \in DOMAIN eRows \cap DOMAIN aRows}

(* The diffs of an actual output `a` from a snapshot `e`.                  *)
DiffTables(e, a, key) ==
    ColumnDiffs(e, a) \cup
    IF ~ HasColumn(e, key) THEN {<<"no_id_in_snapshot", key>>}
    ELSE IF ~ HasColumn(a, key) THEN {<<"no_id_in_actual", key>>}
    ELSE {<<"twice_in_snapshot", id>> : id \in Duplicates(e, key)}
         \cup {<<"twice_in_actual", id>> : id \in Duplicates(a, key)}
         \cup RowDiffs(e, a, key)

(* The order of the rows in a snapshot: by id, otherwise as they came.     *)
RowsBefore(t, key, r) ==
    LET Id(s) == CellOf(t, t.rows[s], key)
    IN {s \in DOMAIN t.rows : Id(s) < Id(r) \/ (Id(s) = Id(r) /\ s < r)}

RowAt(t, key, k) == CHOOSE r \in DOMAIN t.rows : Cardinality(RowsBefore(t, key, r)) = k - 1

SortedRows(t, key) == [k \in DOMAIN t.rows |-> t.rows[RowAt(t, key, k)]]

-----------------------------------------------------------------------------
(* The reference: rows as functions of the column names, each as often as  *)
(* it occurs.                                                              *)
Record(t, r) == [c \in ToSet(t.columns) |-> CellOf(t, t.rows[r], c)]

SameRows(e, eKept, a, aKept) ==
    \A x \in {Record(e, r) : r \in eKept} \cup {Record(a, r) : r \in aKept} :
        Cardinality({r \in eKept : Record(e, r) = x}) = Cardinality({r \in aKept : Record(a, r) = x})

WithId(t, key) == {r \in DOMAIN t.rows : CellOf(t, t.rows[r], key) # Null}

SameRecords(e, a, key) == SameRows(e, WithId(e, key), a, WithId(a, key))

SameTables(e, a) == SameRows(e, DOMAIN e.rows, a, DOMAIN a.rows)
=============================================================================

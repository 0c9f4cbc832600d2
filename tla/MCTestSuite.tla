---------------------------- MODULE MCTestSuite ----------------------------
(***************************************************************************)
(* Small instances of TestSuite: two tests that race for one dump and one  *)
(* snapshot, with equal outputs or not, and one test with any two small    *)
(* tables for snapshot and output.                                         *)
(***************************************************************************)
EXTENDS TestSuite

Both(table) == [t \in Tests |-> table]

Short == [columns |-> <<"id", "a">>, rows |-> <<<<1, 1>>>>]
Long == [columns |-> <<"id", "a">>, rows |-> <<<<2, 1>>, <<1, 2>>>>]

Always(table) == [e \in 0 .. MaxEdits |-> Both(table)]
Changing == [e \in 0 .. MaxEdits |-> Both(IF e = 0 THEN Long ELSE Short)]
Differing == [e \in 0 .. MaxEdits |-> [t \in Tests |-> IF t = "csv" THEN Short ELSE Long]]

SnapshotRaces ==
    [tests : {<<Tests, Tests>>}, kinds : {{"committed"}}, updates : {BOOLEAN},
     file : {Absent, File(SnapshotLines(Long))}, outputs : {Always(Long), Always(Short), Differing}]

CacheRaces ==
    [tests : {<<Tests, {"csv"}>>, <<{"csv"}, Tests>>}, kinds : {{"sql", "sh"}}, updates : {{FALSE}},
     file : {File(SnapshotLines(Long))}, outputs : {Changing}]

OneTest ==
    [tests : {<<{"csv"}, {"csv"}>>}, kinds : {{"sql", "sh"}}, updates : {BOOLEAN},
     file : {Absent}, outputs : {Changing}]

TwoColumnRows == {<<i, a>> : i \in 0 .. 2, a \in 1 .. 2}
SmallTables ==
    [columns : {<<"id", "a">>}, rows : SeqOf(TwoColumnRows, 2)]
    \cup [columns : {<<"a", "id">>}, rows : SeqOf(TwoColumnRows, 1)]
    \cup [columns : {<<"id">>, <<"a">>}, rows : SeqOf({<<1>>, <<2>>}, 2)]

Compared ==
    {[tests |-> <<{"csv"}>>, kinds |-> {"committed"}, updates |-> {FALSE},
      file |-> File(<<e.columns>> \o e.rows), outputs |-> Always(a)] :
        e \in SmallTables, a \in SmallTables}

Rewritten ==
    [tests : {<<{"csv"}, {"csv"}>>}, kinds : {{"committed"}}, updates : {BOOLEAN},
     file : {Absent}, outputs : {Always(a) : a \in SmallTables}]

SmallScenarios == SnapshotRaces \cup CacheRaces \cup OneTest \cup Compared \cup Rewritten
=============================================================================

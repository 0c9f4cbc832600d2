------------------------------ MODULE TestSuite ------------------------------
(***************************************************************************)
(* `cargo test` on one fixture (tests/test_table_read.rs): tests that run  *)
(* in parallel, get the dump of the fixture from FixtureCache, export a    *)
(* table from it and compare the output with the snapshot in               *)
(* SnapshotStore.  A run may be killed, its generators may outlive it, the *)
(* fixture is edited, and the tests are run again.                         *)
(***************************************************************************)
EXTENDS FixtureCache, SnapshotStore

CONSTANTS
    Scenarios,   \* what the fixture, its tests and the snapshot may be
    MaxEdits

VARIABLES
    scenario,
    before,      \* history: the snapshot and `edits` when the run began
    overtaken    \* history: the fixture was edited under tests or generators

vars == <<cacheVars, run, phase, storeVars, scenario, before, overtaken>>

(* The tests that are run each time, the kinds of fixture, whether the     *)
(* runs may update, the snapshot at first, and the table that each test    *)
(* exports after so many edits.                                            *)
ASSUME SuiteAssumption ==
    /\ MaxRuns \in Nat \ {0} /\ MaxEdits \in Nat
    /\ \A s \in Scenarios :
           /\ s.tests \in Seq((SUBSET Tests) \ {{}}) /\ Len(s.tests) <= MaxRuns
           /\ s.kinds \subseteq {"committed", "sql", "sh"} /\ s.updates \subseteq BOOLEAN
           /\ IsFile(s.file)
           /\ \A e \in 0 .. MaxEdits, t \in Tests : IsTable(s.outputs[e][t])

NoTable == [columns |-> <<>>, rows |-> <<>>]

Init ==
    /\ scenario \in Scenarios
    /\ CacheInit /\ kind \in scenario.kinds
    /\ run = 0 /\ phase = [t \in Tests |-> "idle"]
    /\ update = FALSE /\ out = [t \in Tests |-> NoTable]
    /\ file = scenario.file /\ pos = [t \in Tests |-> 0] /\ seen = [t \in Tests |-> <<>>]
    /\ before = [file |-> file, edits |-> edits] /\ overtaken = FALSE

-----------------------------------------------------------------------------
StartRun ==
    /\ Quiet /\ run < Len(scenario.tests)
    /\ run' = run + 1
    /\ update' \in scenario.updates
    /\ phase' = [t \in Tests |-> IF t \in scenario.tests[run'] THEN "started" ELSE "idle"]
    /\ out' = [t \in Tests |-> NoTable]
    /\ pos' = [t \in Tests |-> 0] /\ seen' = [t \in Tests |-> <<>>]
    /\ before' = [file |-> file, edits |-> edits]
    /\ UNCHANGED <<cacheVars, file, scenario, overtaken>>

Exports(t, table) == out' = [out EXCEPT ![t] = table] /\ Turn(t, "read")

(* Faulty variant: the row where the dump is cut off is taken as it is.    *)
FirstRowsCut(table, n) == [table EXCEPT !.rows = SubSeq(table.rows, 1, n) \o <<<<>>>>]

FirstRows(table, n) == [table EXCEPT !.rows = SubSeq(table.rows, 1, n)]

(* run_read: a partial dump is an error, or the table in it comes short.   *)
(* The page of an error of the server is no dump, and only fails.          *)
ReadWhole(t) ==
    /\ phase[t] = "found" /\ dump.state = "whole"
    /\ Exports(t, scenario.outputs[dump.of][t])
    /\ UNCHANGED <<cacheVars, run, update, file, pos, seen, scenario, before, overtaken>>

ReadPartial(t) ==
    /\ phase[t] = "found" /\ dump.state = "partial"
    /\ LET table == scenario.outputs[dump.of][t] IN
       \E n \in 0 .. Len(table.rows) : Exports(t, FirstRows(table, n))
    /\ UNCHANGED <<cacheVars, run, update, file, pos, seen, scenario, before, overtaken>>

ReadFails(t) ==
    /\ phase[t] = "found"
    /\ Turn(t, "failed")
    /\ UNCHANGED <<cacheVars, run, storeVars, scenario, before, overtaken>>

CacheUses(t) == TestStep(t) /\ UNCHANGED <<run, storeVars, scenario, before, overtaken>>
Generate(g) == GeneratorStep(g) /\ UNCHANGED <<run, storeVars, scenario, before, overtaken>>
Asserts(t) == StoreStep(t) /\ UNCHANGED <<cacheVars, run, scenario, before, overtaken>>

Kill ==
    /\ ~ Quiet
    /\ phase' = [t \in Tests |-> IF Idle(t) THEN phase[t] ELSE "killed"]
    /\ UNCHANGED <<cacheVars, run, storeVars, scenario, before, overtaken>>

Edit ==
    /\ kind = "sql" /\ edits < MaxEdits
    /\ edits' = edits + 1
    /\ overtaken' = (overtaken \/ ~ Quiet \/ \E g \in Generator : Running(g))
    /\ UNCHANGED <<kind, dump, gens, run, phase, storeVars, scenario, before>>

Work ==
    \/ \E t \in Tests :
          CacheUses(t) \/ ReadWhole(t) \/ ReadPartial(t) \/ ReadFails(t) \/ Asserts(t)
    \/ \E g \in Generator : Generate(g)

Next == StartRun \/ Kill \/ Edit \/ Work

Spec == Init /\ [][Next]_vars

(* Some thread or script goes on while there is one that can: the commands *)
(* in the scripts come to an end, the wait for the server after 60 tries.  *)
FairSpec == Spec /\ WF_vars(Work)

-----------------------------------------------------------------------------
Chosen == IF run = 0 THEN {} ELSE scenario.tests[run]

TypeOK ==
    /\ CacheTypeOK /\ StoreTypeOK
    /\ run \in 0 .. Len(scenario.tests)
    /\ \A t \in Tests \ Chosen : phase[t] = "idle"

Green == run > 0 /\ \A t \in Chosen : phase[t] = "passed"

(* A test passes only if the snapshot it read has the rows of its output:  *)
(* never against a snapshot that is half written or has a hole, and not    *)
(* with a row missing, added, changed or given twice.  Rows without an id  *)
(* are not compared.                                                       *)
PassedMeansSame ==
    \A t \in Chosen : phase[t] = "passed" /\ ~ update =>
        /\ Readable(seen[t])
        /\ ToSet(Head(seen[t])) = ToSet(out[t].columns)
        /\ SameRecords(Snapshot(seen[t]), out[t], Key)

(* Comparator: "Returns one diff message per mismatch. Empty vec =         *)
(* snapshot matches."  A test that passes has all the rows of the          *)
(* snapshot, those without an id too.                                      *)
PassedMeansMatches ==
    \A t \in Chosen : phase[t] = "passed" /\ ~ update => SameTables(Snapshot(seen[t]), out[t])

(* "review its contents and commit it": a run in which a snapshot came     *)
(* into being, or was written at all, is not green unless it was to be     *)
(* updated.                                                                *)
NewSnapshotsAreReviewed == Green /\ ~ update => file = before.file /\ file.exists

(* After a green run that updates, the tests pass as long as nothing       *)
(* changes, if they export the same table and it has no id twice: two of   *)
(* them that rewrite one file at once leave it whole.                      *)
UpdatedIsAccepted ==
    Green /\ update /\ (\A t, u \in Chosen : out[t] = out[u]) =>
        \A t \in Chosen :
            Duplicates(out[t], Key) = {} =>
                /\ Readable(file.lines)
                /\ DiffTables(Snapshot(file.lines), out[t], Key) = {}

(* A green run says that the fixture exports the snapshot, whatever was    *)
(* cached and killed before, unless it was edited while tests or a         *)
(* generator of a killed run were still at work.                           *)
GreenMeansCurrent ==
    Green /\ kind = "sql" /\ ~ overtaken /\ ~ update =>
        \A t \in Chosen :
            SameRecords(Snapshot(file.lines), scenario.outputs[before.edits][t], Key)

(* Every run ends: no test waits forever for a generator that failed.      *)
RunsEnd == []<>Quiet

-----------------------------------------------------------------------------
(* Why runs end, as far as single states and steps show it.  The script    *)
(* that a test waits for was started, and has not ended yet, has failed,   *)
(* or has left a dump to go on with, its own or the one of another test.   *)
WaitEnds(t) ==
    phase[t] = "generating" =>
        LET pc == gens[<<run, t>>].pc IN pc # "none" /\ (pc = "ended" => dump.state # "absent")

NoTestWaits == \A t \in Tests : WaitEnds(t)

(* How far a test and a generator are from their ends.                     *)
PhasesLeft(t) ==
    CASE phase[t] = "started" -> 5 [] phase[t] = "generating" -> 4 [] phase[t] = "found" -> 3
      [] phase[t] = "read" -> 2 [] phase[t] \in {"updating", "creating", "comparing"} -> 1
      [] Idle(t) -> 0

LinesLeft(t) == Len(out[t].rows) + 2 - pos[t]

PlacesLeft(g) ==
    CASE gens[g].pc = "begun" -> 3 [] gens[g].pc \in {"loaded", "downloading"} -> 2
      [] gens[g].pc = "dumped" -> 1 [] ~ Running(g) -> 0

StaysPut(t) == phase'[t] = phase[t] /\ LinesLeft(t)' = LinesLeft(t)

TestAdvances(t) ==
    /\ \/ PhasesLeft(t)' < PhasesLeft(t)
       \/ PhasesLeft(t)' = PhasesLeft(t) /\ 0 <= LinesLeft(t)' /\ LinesLeft(t)' < LinesLeft(t)
    /\ \A u \in Tests \ {t} : StaysPut(u)
    /\ \A g \in Generator :
           \/ gens'[g] = gens[g]
           \/ phase[t] = "started" /\ g = <<run, t>> /\ gens[g].pc = "none"

GeneratorAdvances(g) ==
    /\ PlacesLeft(g)' < PlacesLeft(g)
    /\ \A h \in Generator \ {g} : gens'[h] = gens[h]
    /\ \A t \in Tests : StaysPut(t)

(* No thread or script works for ever: a step brings one test, or one      *)
(* generator, nearer to its end, and none of the others further away from  *)
(* it; a test starts one generator, when it leaves its first phase.        *)
WorkAdvances ==
    [][Work => \/ \E t \in Tests : TestAdvances(t)
               \/ \E g \in Generator : GeneratorAdvances(g)]_vars
=============================================================================

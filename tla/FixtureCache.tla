---------------------------- MODULE FixtureCache ----------------------------
(***************************************************************************)
(* TestCase::src_dump (test_utils/case.rs): the dump of a fixture is       *)
(* committed, or a cached one that scripts/gen_dump.sh makes from src.sql  *)
(* or that src.sh downloads.  Tests run in parallel, share the cached file *)
(* and may each regenerate it; a generator may outlive the tests that      *)
(* started it.                                                             *)
(***************************************************************************)
EXTENDS TestPhases

CONSTANT MaxRuns   \* runs of the tests

VARIABLES
    kind,    \* "committed", "sql" or "sh"
    edits,   \* how often src.sql or gen_dump.sh was edited
    dump,    \* the file: src.dump, or else src.gen.dump
    gens,    \* the generator started by each test in each run of the tests
    run      \* the number of the run

(* The file was made `of` the fixture after so many edits; its time of     *)
(* modification is `at` so many.  `by` opened it last.                     *)
NoOne == <<0, "none">>
Generator == (1 .. MaxRuns) \X Tests
Dump(state, of, at, by) == [state |-> state, of |-> of, at |-> at, by |-> by]
Gen(pc) == [pc |-> pc, of |-> 0, at |-> 0]

cacheVars == <<kind, edits, dump, gens>>

CacheInit ==
    /\ kind \in {"committed", "sql", "sh"}
    /\ edits = 0
    /\ dump = Dump(IF kind = "committed" THEN "whole" ELSE "absent", 0, 0, NoOne)
    /\ gens = [g \in Generator |-> Gen("none")]

-----------------------------------------------------------------------------
(* Faulty variant: a cached dump is never renewed.                         *)
CachedForever == dump.state # "absent"

(* is_stale for src.sql; src.dump and the file of src.sh need only exist.  *)
Cached == dump.state # "absent" /\ (kind = "sql" => dump.at >= edits)

UseCached(t) ==
    /\ phase[t] = "started" /\ Cached
    /\ Turn(t, "found")
    /\ UNCHANGED cacheVars

(* Faulty variant: a test waits for the generator of another one, but only *)
(* asks for its own.                                                       *)
StartGeneratorOnce(t) ==
    /\ phase[t] = "started" /\ ~ Cached
    /\ Turn(t, "generating")
    /\ gens' = IF \E u \in Tests : phase[u] = "generating" THEN gens
               ELSE [gens EXCEPT ![<<run, t>>] = Gen("begun")]
    /\ UNCHANGED <<kind, edits, dump>>

StartGenerator(t) ==
    /\ phase[t] = "started" /\ ~ Cached
    /\ Turn(t, "generating")
    /\ gens' = [gens EXCEPT ![<<run, t>>] = Gen("begun")]
    /\ UNCHANGED <<kind, edits, dump>>

Generated(t) ==
    /\ phase[t] = "generating" /\ gens[<<run, t>>].pc = "ended"
    /\ dump.state # "absent"
    /\ Turn(t, "found")
    /\ UNCHANGED cacheVars

(* The test panics.                                                        *)
GenerationFails(t) ==
    /\ phase[t] = "generating" /\ gens[<<run, t>>].pc = "failed"
    /\ Turn(t, "failed")
    /\ UNCHANGED cacheVars

TestStep(t) == UseCached(t) \/ StartGenerator(t) \/ Generated(t) \/ GenerationFails(t)

-----------------------------------------------------------------------------
Running(g) == gens[g].pc \notin {"none", "ended", "failed"}

Proceed(g, from, to) == gens[g].pc = from /\ gens' = [gens EXCEPT ![g] = Gen(to)]

(* gen_dump.sh: psql reads src.sql; pg_dump writes a file of its own; mv.  *)
Load(g) ==
    /\ kind = "sql" /\ gens[g].pc = "begun"
    /\ gens' = [gens EXCEPT ![g] = [pc |-> "loaded", of |-> edits, at |-> 0]]
    /\ UNCHANGED <<kind, edits, dump, phase>>

(* Faulty variant: pg_dump writes to the cached file.                      *)
PgDumpInPlace(g) ==
    /\ gens[g].pc = "loaded"
    /\ gens' = [gens EXCEPT ![g] = [pc |-> "dumped", of |-> gens[g].of, at |-> edits]]
    /\ dump' = Dump("partial", gens[g].of, edits, g)
    /\ UNCHANGED <<kind, edits, phase>>

PgDump(g) ==
    /\ gens[g].pc = "loaded"
    /\ gens' = [gens EXCEPT ![g] = [pc |-> "dumped", of |-> gens[g].of, at |-> edits]]
    /\ UNCHANGED <<kind, edits, dump, phase>>

Move(g) ==
    /\ Proceed(g, "dumped", "ended")
    /\ dump' = Dump("whole", gens[g].of, gens[g].at, g)
    /\ UNCHANGED <<kind, edits, phase>>

(* src.sh: curl writes to the cached file.  Of two at a time, only the one *)
(* that opened it last leaves all of its bytes there.                      *)
Download(g) ==
    /\ kind = "sh"
    /\ Proceed(g, "begun", "downloading")
    /\ dump' = Dump("partial", 0, 0, g)
    /\ UNCHANGED <<kind, edits, phase>>

(* curl ends well after an error of the server too: src.sh does not ask    *)
(* for --fail, and the page of the error is taken for the dump.  It may    *)
(* also lie over what another download has written.                        *)
Downloaded(g) ==
    /\ Proceed(g, "downloading", "ended")
    /\ \/ dump' = IF dump.by = g THEN [dump EXCEPT !.state = "whole"] ELSE dump
       \/ dump' = [dump EXCEPT !.state = "page"]
    /\ UNCHANGED <<kind, edits, phase>>

(* No docker, no network, an SQL error, or the script is killed.           *)
Breaks(g) ==
    /\ Running(g)
    /\ gens' = [gens EXCEPT ![g] = Gen("failed")]
    /\ UNCHANGED <<kind, edits, dump, phase>>

GeneratorStep(g) ==
    Load(g) \/ PgDump(g) \/ Move(g) \/ Download(g) \/ Downloaded(g) \/ Breaks(g)

-----------------------------------------------------------------------------
CacheTypeOK ==
    /\ kind \in {"committed", "sql", "sh"} /\ edits \in Nat
    /\ dump.state \in {"absent", "partial", "page", "whole"}
    /\ dump.by \in Generator \cup {NoOne}
    /\ dump.of <= dump.at /\ dump.at <= edits
    /\ \A g \in Generator :
           gens[g].pc \in {"none", "begun", "loaded", "dumped", "downloading", "ended", "failed"}

(* gen_dump.sh never leaves a spoilt dump at the path that the tests open, *)
(* whichever of them race and whatever is killed.  With src.sh a dump is   *)
(* cut off only while the download that opened it last goes on, or was     *)
(* broken off; the page of an error is there only if some download ended   *)
(* well, so a test has been told, or will be, that it has its dump.        *)
SpoiltOnlyByDownloads ==
    /\ dump.state = "partial" =>
           kind = "sh" /\ gens[dump.by].pc \in {"downloading", "failed"}
    /\ dump.state = "page" => kind = "sh" /\ \E g \in Generator : gens[g].pc = "ended"
=============================================================================

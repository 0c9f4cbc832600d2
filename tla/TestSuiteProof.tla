--------------------------- MODULE TestSuiteProof ---------------------------
(***************************************************************************)
(* For any tests, scenarios and number of runs: a cached dump is spoilt    *)
(* only because of a download; a run that was not to update has written no *)
(* snapshot if it is green; a test that passed read a snapshot with the    *)
(* same records; a green run saw the fixture as it is; a snapshot that a   *)
(* green run updated has the table of its tests; and no test waits or      *)
(* works for ever.                                                         *)
(***************************************************************************)
EXTENDS TestSuite, Lemmas, FiniteSetTheorems

Places == {"none", "begun", "loaded", "dumped", "downloading", "ended", "failed"}
GenState == [pc : Places, of : Nat, at : Nat]
GenType == [Generator -> GenState]
DumpType ==
    [state : {"absent", "partial", "page", "whole"}, of : Nat, at : Nat, by : Generator \cup {NoOne}]

(* A generator is started once: by its test, in its run.                   *)
Fresh ==
    /\ run \in Nat /\ run <= MaxRuns
    /\ DOMAIN phase = Tests
    /\ \A g \in Generator : g[1] > run => gens[g].pc = "none"
    /\ \A t \in Tests : run > 0 /\ phase[t] = "started" => gens[<<run, t>>].pc = "none"
    /\ run = 0 => \A t \in Tests : phase[t] = "idle"

(* gen_dump.sh works on an SQL fixture only, and curl on one with src.sh.  *)
Scripts ==
    \A g \in Generator :
        /\ gens[g].pc \in {"loaded", "dumped"} => kind = "sql"
        /\ gens[g].pc = "downloading" => kind = "sh"

(* Who left the dump partial is still at it, or broke off.  Who downloaded *)
(* the page of an error ended well.                                        *)
Partly ==
    /\ dump.state = "partial" =>
           /\ kind = "sh" /\ dump.by \in Generator
           /\ gens[dump.by].pc \in {"downloading", "failed"}
    /\ dump.state = "page" => kind = "sh" /\ \E g \in Generator : gens[g].pc = "ended"

CacheInv ==
    /\ scenario \in Scenarios
    /\ gens \in GenType /\ dump \in DumpType /\ edits \in Nat
    /\ Fresh /\ Scripts /\ Partly

-----------------------------------------------------------------------------
InScenario == scenario \in Scenarios /\ run \in 0 .. Len(scenario.tests)

(* Tests that were not chosen are idle.                                    *)
ByChosen == \A t \in Tests : phase[t] # "idle" => t \in Chosen

(* A run that may not update writes only in tests that create, and those   *)
(* do not pass; who compares, or passed, has found a snapshot.             *)
Reviewed ==
    run > 0 /\ ~ update =>
        /\ \A t \in Tests : phase[t] # "updating"
        /\ file # before.file => \E t \in Chosen : phase[t] \in {"creating", "failed", "killed"}
        /\ \A t \in Tests : phase[t] \in {"comparing", "passed"} => file.exists

ReviewInv == InScenario /\ DOMAIN phase = Tests /\ ByChosen /\ Reviewed

-----------------------------------------------------------------------------
LEMMA TurnOne ==
    ASSUME DOMAIN phase = Tests, NEW t \in Tests, NEW p, Turn(t, p)
    PROVE  /\ DOMAIN phase' = Tests /\ phase'[t] = p
           /\ \A u \in Tests : u # t => phase'[u] = phase[u]
BY DEF Turn

LEMMA InitCache == Init => CacheInv
<1> SUFFICES ASSUME Init PROVE CacheInv
  OBVIOUS
<1> USE DEF Init, CacheInit, Gen, Dump
<1>1. gens \in GenType /\ \A g \in Generator : gens[g].pc = "none"
  BY DEF GenType, GenState, Places
<1>2. dump \in DumpType /\ dump.state \notin {"partial", "page"}
  BY DEF DumpType
<1>3. MaxRuns \in Nat
  BY SuiteAssumption
<1>4. Fresh
  BY <1>1, <1>3 DEF Fresh
<1> QED BY <1>1, <1>2, <1>4 DEF CacheInv, Scripts, Partly

(* What leaves the cache and the run alone, and starts no test.            *)
LEMMA ElsewhereKeepsCache ==
    ASSUME CacheInv, UNCHANGED <<cacheVars, run, scenario>>, DOMAIN phase' = Tests,
           \A t \in Tests : phase'[t] = "started" => phase[t] = "started",
           run = 0 => \A t \in Tests : phase'[t] = phase[t]
    PROVE  CacheInv'
BY DEF CacheInv, GenType, GenState, DumpType, Generator, Fresh, Scripts, Partly, cacheVars

LEMMA StartedInARun ==
    ASSUME CacheInv, NEW t \in Tests, phase[t] # "idle"
    PROVE  run > 0 /\ <<run, t>> \in Generator
BY SuiteAssumption DEF CacheInv, Fresh, Generator

LEMMA TurnKeepsCache ==
    ASSUME CacheInv, UNCHANGED <<cacheVars, run, scenario>>, NEW t \in Tests,
           NEW p, p # "started", Turn(t, p), phase[t] # "idle"
    PROVE  CacheInv'
<1>1. run # 0
  BY StartedInARun DEF CacheInv, Fresh
<1>2. /\ DOMAIN phase' = Tests /\ phase'[t] = p
      /\ \A u \in Tests : u # t => phase'[u] = phase[u]
  BY TurnOne DEF CacheInv, Fresh
<1> QED BY <1>1, <1>2, ElsewhereKeepsCache

LEMMA StartGeneratorKeepsCache ==
    ASSUME CacheInv, NEW t \in Tests, StartGenerator(t), UNCHANGED <<run, scenario>>
    PROVE  CacheInv'
<1> DEFINE g == <<run, t>>
<1> DEFINE x == [pc |-> "begun", of |-> 0, at |-> 0]
<1>1. g \in Generator /\ run > 0 /\ gens[g].pc = "none"
  BY StartedInARun DEF CacheInv, Fresh, StartGenerator
<1>2. gens' = [gens EXCEPT ![g] = x] /\ UNCHANGED <<kind, edits, dump>>
  BY DEF Gen, StartGenerator
<1>3. x \in GenState
  BY DEF GenState, Places
<1> HIDE DEF g, x
<1>4. gens' \in GenType /\ gens'[g] = x /\ \A h \in Generator : h # g => gens'[h] = gens[h]
  BY <1>1, <1>2, <1>3 DEF CacheInv, GenType
<1>5. x.pc = "begun" /\ g = <<run, t>>
  BY DEF x, g
<1>6. /\ DOMAIN phase' = Tests /\ phase'[t] = "generating"
      /\ \A u \in Tests : u # t => phase'[u] = phase[u]
  BY TurnOne DEF CacheInv, Fresh, StartGenerator
<1>7. \A u \in Tests : <<run, u>> \in Generator
  BY <1>1, SuiteAssumption DEF CacheInv, Fresh, Generator
<1>8. g[1] <= run
  BY <1>5 DEF CacheInv, Fresh
<1>9. \A h \in Generator : h[1] > run => gens'[h].pc = "none"
  BY <1>4, <1>8 DEF CacheInv, Fresh, Generator
<1>10. Fresh'
  BY <1>1, <1>4, <1>5, <1>6, <1>7, <1>9 DEF CacheInv, Fresh, Generator
<1>11. Scripts' /\ Partly'
  BY <1>1, <1>2, <1>4, <1>5 DEF CacheInv, Scripts, Partly, Generator
<1> QED BY <1>2, <1>4, <1>10, <1>11 DEF CacheInv, GenType, DumpType, Generator

(* A generator goes on from a place past "none".                           *)
LEMMA GeneratorKeepsCache ==
    ASSUME CacheInv, NEW g \in Generator, GeneratorStep(g), UNCHANGED <<run, scenario>>
    PROVE  CacheInv'
<1> USE DEF CacheInv
<1>0. /\ gens[g] \in GenState /\ gens[g].pc # "none"
      /\ UNCHANGED <<kind, phase, edits>>
  BY DEF GenType, GeneratorStep, Load, PgDump, Move, Download, Downloaded, Breaks, Running, Proceed
<1>1. Generator' = Generator /\ GenType' = GenType /\ DumpType' = DumpType
  BY DEF GenType, DumpType, Generator
<1>2. ASSUME NEW x \in GenState, gens' = [gens EXCEPT ![g] = x],
             x.pc \in {"loaded", "dumped"} => kind = "sql",
             x.pc = "downloading" => kind = "sh"
      PROVE  /\ gens' \in GenType /\ gens'[g] = x
             /\ \A h \in Generator : h # g => gens'[h] = gens[h]
             /\ Fresh' /\ Scripts'
  <2>1. gens' \in GenType /\ gens'[g] = x /\ \A h \in Generator : h # g => gens'[h] = gens[h]
    BY <1>2 DEF GenType
  <2>2. \A t \in Tests : phase[t] = "started" /\ run > 0 => g # <<run, t>>
    BY <1>0 DEF Fresh
  <2>3. ~ (g[1] > run)
    BY <1>0 DEF Fresh
  <2>4. \A t \in Tests : run > 0 => <<run, t>> \in Generator
    BY SuiteAssumption DEF Fresh, Generator
  <2>5. \A h \in Generator : h[1] > run => gens'[h].pc = "none"
    BY <2>1, <2>3 DEF Fresh
  <2>6. \A t \in Tests : run > 0 /\ phase[t] = "started" => gens'[<<run, t>>].pc = "none"
    BY <2>1, <2>2, <2>4 DEF Fresh
  <2>7. Fresh'
    BY <1>0, <2>5, <2>6 DEF Fresh, Generator
  <2>8. Scripts'
    BY <1>0, <1>1, <1>2, <2>1 DEF Scripts
  <2> QED BY <2>1, <2>7, <2>8
<1>3. ASSUME NEW x \in GenState, gens' = [gens EXCEPT ![g] = x],
             x.pc \in {"loaded", "dumped"} => kind = "sql",
             x.pc = "downloading" => kind = "sh",
             dump' \in DumpType, Partly'
      PROVE  CacheInv'
  BY <1>0, <1>1, <1>2, <1>3
<1>4. ASSUME NEW of \in Nat, NEW at \in Nat, NEW pc \in Places
      PROVE  [pc |-> pc, of |-> of, at |-> at] \in GenState
  BY DEF GenState
<1>5. CASE Load(g)
  <2> DEFINE x == [pc |-> "loaded", of |-> edits, at |-> 0]
  <2>1. gens' = [gens EXCEPT ![g] = x] /\ kind = "sql" /\ dump' = dump
    BY <1>5 DEF Load
  <2>2. x \in GenState
    BY <1>0 DEF GenState, Places
  <2>3. Partly'
    BY <1>0, <2>1 DEF Partly
  <2> QED BY <1>3, <2>1, <2>2, <2>3
<1>6. CASE PgDump(g)
  <2> DEFINE x == [pc |-> "dumped", of |-> gens[g].of, at |-> edits]
  <2>1. gens' = [gens EXCEPT ![g] = x] /\ kind = "sql" /\ dump' = dump
    BY <1>6 DEF PgDump, Scripts
  <2>2. x \in GenState
    BY <1>0 DEF GenState, Places
  <2>3. Partly'
    BY <1>0, <2>1 DEF Partly
  <2> QED BY <1>3, <2>1, <2>2, <2>3
<1>7. CASE Move(g)
  <2> DEFINE x == [pc |-> "ended", of |-> 0, at |-> 0]
  <2>1. /\ gens' = [gens EXCEPT ![g] = x]
        /\ dump' = [state |-> "whole", of |-> gens[g].of, at |-> gens[g].at, by |-> g]
    BY <1>7 DEF Move, Proceed, Gen, Dump
  <2>2. x \in GenState
    BY DEF GenState, Places
  <2>3. dump' \in DumpType /\ Partly'
    BY <1>0, <2>1 DEF DumpType, GenState, Partly
  <2> QED BY <1>3, <2>1, <2>2, <2>3
<1>8. CASE Download(g)
  <2> DEFINE x == [pc |-> "downloading", of |-> 0, at |-> 0]
  <2>1. /\ gens' = [gens EXCEPT ![g] = x] /\ kind = "sh"
        /\ dump' = [state |-> "partial", of |-> 0, at |-> 0, by |-> g]
    BY <1>8 DEF Download, Proceed, Gen, Dump
  <2>2. x \in GenState
    BY DEF GenState, Places
  <2>3. gens'[g] = x
    BY <2>1 DEF GenType
  <2>4. dump' \in DumpType
    BY <2>1 DEF DumpType
  <2>5. Partly'
    BY <1>0, <1>1, <2>1, <2>3 DEF Partly
  <2> QED BY <1>3, <2>1, <2>2, <2>4, <2>5
<1>9. CASE Downloaded(g)
  <2> DEFINE x == [pc |-> "ended", of |-> 0, at |-> 0]
  <2>1. gens' = [gens EXCEPT ![g] = x]
    BY <1>9 DEF Downloaded, Proceed, Gen
  <2>2. x \in GenState
    BY DEF GenState, Places
  <2>3. gens'[g] = x /\ \A h \in Generator : h # g => gens'[h] = gens[h]
    BY <1>2, <2>1, <2>2
  <2>4. kind' = "sh" /\ kind = "sh"
    BY <1>0, <1>9 DEF Downloaded, Proceed, Scripts
  <2>5. \E h \in Generator' : gens'[h].pc = "ended"
    BY <1>1, <2>3
  <2>6. dump' \in DumpType /\ Partly'
    <3>1. CASE dump' = [dump EXCEPT !.state = "page"]
      <4>1. dump'.state = "page" /\ dump' \in DumpType
        BY <3>1 DEF DumpType
      <4> QED BY <2>4, <2>5, <4>1 DEF Partly
    <3>2. CASE dump.by = g /\ dump' = [dump EXCEPT !.state = "whole"]
      <4>1. dump'.state = "whole" /\ dump' \in DumpType
        BY <3>2 DEF DumpType
      <4> QED BY <4>1 DEF Partly
    <3>3. CASE dump.by # g /\ dump' = dump
      BY <1>0, <1>1, <2>3, <2>4, <2>5, <3>3 DEF Partly
    <3> QED BY <1>9, <3>1, <3>2, <3>3 DEF Downloaded
  <2> QED BY <1>3, <2>1, <2>2, <2>6
<1>10. CASE Breaks(g)
  <2> DEFINE x == [pc |-> "failed", of |-> 0, at |-> 0]
  <2>1. gens' = [gens EXCEPT ![g] = x] /\ dump' = dump
    BY <1>10 DEF Breaks, Gen
  <2>2. x \in GenState
    BY DEF GenState, Places
  <2>3. gens'[g] = x /\ \A h \in Generator : h # g => gens'[h] = gens[h]
    BY <1>2, <2>1, <2>2
  <2>4. gens[g].pc # "ended" /\ kind' = kind
    BY <1>10 DEF Breaks, Running
  <2>5. \A h \in Generator : gens[h].pc = "ended" => gens'[h].pc = "ended"
    BY <2>3, <2>4
  <2>6. ASSUME dump.state = "page"
        PROVE  kind' = "sh" /\ \E h \in Generator' : gens'[h].pc = "ended"
    <3>1. kind = "sh" /\ \E h \in Generator : gens[h].pc = "ended"
      BY <1>0, <2>6 DEF Partly
    <3> QED BY <1>1, <2>4, <2>5, <3>1
  <2>7. ASSUME dump.state = "partial"
        PROVE  /\ kind' = "sh" /\ dump.by \in Generator
               /\ gens'[dump.by].pc \in {"downloading", "failed"}
    BY <1>0, <2>3, <2>4, <2>7 DEF Partly
  <2>8. Partly'
    BY <1>1, <2>1, <2>6, <2>7 DEF Partly
  <2> QED BY <1>3, <2>1, <2>2, <2>8
<1> QED BY <1>5, <1>6, <1>7, <1>8, <1>9, <1>10 DEF GeneratorStep

LEMMA StartRunKeepsCache ==
    ASSUME CacheInv, StartRun
    PROVE  CacheInv'
<1> USE DEF CacheInv, StartRun
<1>1. UNCHANGED <<kind, edits, dump, gens, scenario>> /\ run' = run + 1 /\ run \in Nat
  BY DEF cacheVars, Fresh
<1>2. run' <= MaxRuns
  <2>1. scenario.tests \in Seq((SUBSET Tests) \ {{}}) /\ Len(scenario.tests) <= MaxRuns
    BY SuiteAssumption
  <2> QED BY <1>1, <2>1, SuiteAssumption
<1>3. DOMAIN phase' = Tests
  OBVIOUS
<1>4. \A t \in Tests : <<run + 1, t>> \in Generator
  BY <1>1, <1>2, SuiteAssumption DEF Generator
<1>5. \A t \in Tests : <<run + 1, t>>[1] > run => gens[<<run + 1, t>>].pc = "none"
  BY <1>4 DEF Fresh
<1>6. \A g \in Generator : g[1] > run + 1 => gens[g].pc = "none"
  BY <1>1 DEF Fresh, Generator
<1>7. Fresh'
  BY <1>1, <1>2, <1>3, <1>5, <1>6 DEF Fresh, Generator
<1> QED BY <1>1, <1>7 DEF GenType, DumpType, Generator, Scripts, Partly

LEMMA KillKeepsCache ==
    ASSUME CacheInv, Kill
    PROVE  CacheInv'
<1>1. PICK t \in Tests : phase[t] # "idle"
  BY DEF Kill, Quiet, Idle
<1>2. run # 0
  BY <1>1, StartedInARun DEF CacheInv, Fresh
<1>3. DOMAIN phase' = Tests /\ \A u \in Tests : phase'[u] = phase[u] \/ phase'[u] = "killed"
  BY DEF Kill
<1> QED BY <1>2, <1>3, ElsewhereKeepsCache DEF Kill

LEMMA EditKeepsCache ==
    ASSUME CacheInv, Edit
    PROVE  CacheInv'
BY DEF CacheInv, Edit, Fresh, Scripts, Partly, GenType, GenState, DumpType, Generator

LEMMA WorkKeepsCache ==
    ASSUME CacheInv, Work
    PROVE  CacheInv'
<1>1. ASSUME NEW t \in Tests, CacheUses(t) PROVE CacheInv'
  <2>1. UNCHANGED <<run, scenario>>
    BY <1>1 DEF CacheUses
  <2>2. CASE UseCached(t)
    BY <2>1, <2>2, TurnKeepsCache DEF UseCached
  <2>3. CASE StartGenerator(t)
    BY <2>1, <2>3, StartGeneratorKeepsCache
  <2>4. CASE Generated(t)
    BY <2>1, <2>4, TurnKeepsCache DEF Generated
  <2>5. CASE GenerationFails(t)
    BY <2>1, <2>5, TurnKeepsCache DEF GenerationFails
  <2> QED BY <1>1, <2>2, <2>3, <2>4, <2>5 DEF CacheUses, TestStep
<1>2. ASSUME NEW t \in Tests, ReadWhole(t) \/ ReadPartial(t) \/ ReadFails(t) PROVE CacheInv'
  <2>1. /\ phase[t] = "found" /\ (Turn(t, "read") \/ Turn(t, "failed"))
        /\ UNCHANGED <<cacheVars, run, scenario>>
    BY <1>2 DEF ReadWhole, ReadPartial, ReadFails, Exports
  <2> QED BY <2>1, TurnKeepsCache
<1>3. ASSUME NEW t \in Tests, Asserts(t) PROVE CacheInv'
  <2>1. UNCHANGED <<cacheVars, run, scenario>>
    BY <1>3 DEF Asserts
  <2>2. CASE CreateFile(t) \/ WriteLine(t)
    <3>1. UNCHANGED phase
      BY <2>2 DEF CreateFile, WriteLine
    <3> QED BY <2>1, <3>1, ElsewhereKeepsCache DEF CacheInv, Fresh
  <2>3. CASE ~ (CreateFile(t) \/ WriteLine(t))
    <3>1. /\ phase[t] \in {"read", "updating", "creating", "comparing"}
          /\ \E p \in {"updating", "creating", "comparing", "passed", "failed"} : Turn(t, p)
      BY <1>3, <2>3 DEF Asserts, StoreStep, StartUpdate, StartCreate, StartCompare, Compare,
                        Written, WriteFails, Writes
    <3> QED BY <2>1, <3>1, TurnKeepsCache
  <2> QED BY <2>2, <2>3
<1>4. ASSUME NEW g \in Generator, Generate(g) PROVE CacheInv'
  BY <1>4, GeneratorKeepsCache DEF Generate
<1> QED BY <1>1, <1>2, <1>3, <1>4 DEF Work

(* Every state satisfies CacheInv.                                         *)
LEMMA CacheInvariant == Spec => []CacheInv
<1>1. CacheInv /\ [Next]_vars => CacheInv'
  <2> SUFFICES ASSUME CacheInv, [Next]_vars PROVE CacheInv'
    OBVIOUS
  <2>1. CASE UNCHANGED vars
    BY <2>1, ElsewhereKeepsCache DEF vars, CacheInv, Fresh
  <2> QED BY <2>1, StartRunKeepsCache, KillKeepsCache, EditKeepsCache, WorkKeepsCache DEF Next
<1> QED BY InitCache, <1>1, PTL DEF Spec

(* SpoiltOnlyByDownloads, for any tests and any number of runs: a dump cut *)
(* off at the path that the tests open is a download of src.sh, and so is  *)
(* the page of an error, whichever tests and generators race and whatever  *)
(* is killed.                                                              *)
THEOREM SpoiltCorrect == Spec => []SpoiltOnlyByDownloads
<1>1. CacheInv => SpoiltOnlyByDownloads
  BY DEF CacheInv, Partly, SpoiltOnlyByDownloads
<1> QED BY CacheInvariant, <1>1, PTL

-----------------------------------------------------------------------------
LEMMA InitReview == Init => ReviewInv
BY DEF Init, ReviewInv, InScenario, ByChosen, Reviewed, Chosen

(* Every run has tests.                                                    *)
LEMMA ChosenTests ==
    ASSUME InScenario, run > 0
    PROVE  Chosen \subseteq Tests /\ Chosen # {}
<1>1. scenario.tests \in Seq((SUBSET Tests) \ {{}})
  BY SuiteAssumption DEF InScenario
<1> QED BY <1>1 DEF InScenario, Chosen

(* A test that takes its turn, with the snapshot left as it is.            *)
LEMMA TurnKeepsReview ==
    ASSUME ReviewInv, UNCHANGED <<run, scenario, update, file, before>>,
           NEW t \in Tests, NEW p, Turn(t, p),
           phase[t] \notin {"idle", "failed", "killed"},
           phase[t] = "creating" => p \in {"creating", "failed"},
           ~ update => p # "updating",
           p \in {"comparing", "passed"} /\ ~ update => file.exists
    PROVE  ReviewInv'
<1>1. /\ DOMAIN phase' = Tests /\ phase'[t] = p
      /\ \A u \in Tests : u # t => phase'[u] = phase[u]
  BY TurnOne DEF ReviewInv
<1>2. Chosen' = Chosen /\ InScenario'
  BY DEF Chosen, ReviewInv, InScenario
<1>3. ByChosen'
  BY <1>1, <1>2 DEF ReviewInv, ByChosen
<1>4. ASSUME run > 0, ~ update PROVE Reviewed'
  <2>1. \A u \in Tests : phase'[u] # "updating"
    BY <1>1, <1>4 DEF ReviewInv, Reviewed
  <2>2. \A u \in Tests : phase'[u] \in {"comparing", "passed"} => file.exists
    BY <1>1, <1>4 DEF ReviewInv, Reviewed
  <2>3. file # before.file => \E u \in Chosen : phase'[u] \in {"creating", "failed", "killed"}
    <3>1. SUFFICES ASSUME file # before.file
                   PROVE  \E u \in Chosen : phase'[u] \in {"creating", "failed", "killed"}
      OBVIOUS
    <3>2. PICK u \in Chosen : phase[u] \in {"creating", "failed", "killed"}
      BY <1>4, <3>1 DEF ReviewInv, Reviewed
    <3>3. u \in Tests
      BY <1>4, <3>2, ChosenTests DEF ReviewInv
    <3> QED BY <1>1, <3>2, <3>3
  <2> QED BY <1>2, <2>1, <2>2, <2>3 DEF Reviewed
<1> QED BY <1>1, <1>2, <1>3, <1>4 DEF ReviewInv, Reviewed

(* A test that creates the snapshot writes to it.                          *)
LEMMA WritingKeepsReview ==
    ASSUME ReviewInv, NEW t \in Tests, Writes(t), UNCHANGED <<run, scenario, phase, update, before>>,
           file'.exists
    PROVE  ReviewInv'
<1>1. Chosen' = Chosen /\ InScenario' /\ ByChosen'
  BY DEF Chosen, ReviewInv, InScenario, ByChosen
<1>2. t \in Chosen
  BY DEF Writes, ReviewInv, ByChosen
<1>3. ASSUME run > 0, ~ update PROVE phase[t] = "creating"
  BY <1>3 DEF Writes, ReviewInv, Reviewed
<1> QED BY <1>1, <1>2, <1>3 DEF ReviewInv, Reviewed

LEMMA StartRunKeepsReview ==
    ASSUME ReviewInv, StartRun
    PROVE  ReviewInv'
<1>1. run \in Nat /\ run' = run + 1 /\ run' # 0 /\ scenario' = scenario /\ InScenario'
  <2>1. scenario.tests \in Seq((SUBSET Tests) \ {{}})
    BY SuiteAssumption DEF ReviewInv, InScenario
  <2> QED BY <2>1 DEF StartRun, ReviewInv, InScenario
<1>2. Chosen' = scenario.tests[run']
  BY <1>1 DEF Chosen
<1>3. DOMAIN phase' = Tests /\ ByChosen'
  BY <1>2 DEF StartRun, ByChosen
<1>4. file' = before'.file /\ \A t \in Tests : phase'[t] \in {"idle", "started"}
  BY DEF StartRun
<1> QED BY <1>1, <1>3, <1>4 DEF ReviewInv, Reviewed

LEMMA KillKeepsReview ==
    ASSUME ReviewInv, Kill
    PROVE  ReviewInv'
<1>1. Chosen' = Chosen /\ InScenario' /\ UNCHANGED <<run, update, file, before>>
  BY DEF Chosen, ReviewInv, InScenario, Kill, storeVars
<1>2. /\ DOMAIN phase' = Tests
      /\ \A t \in Tests : IF Idle(t) THEN phase'[t] = phase[t] ELSE phase'[t] = "killed"
  BY DEF Kill
<1>3. ByChosen'
  BY <1>1, <1>2 DEF ReviewInv, ByChosen, Idle
<1>4. ASSUME run > 0 PROVE Chosen \subseteq Tests
  BY <1>4, ChosenTests DEF ReviewInv
<1>5. Reviewed'
  BY <1>1, <1>2, <1>4 DEF ReviewInv, Reviewed, Idle
<1> QED BY <1>1, <1>2, <1>3, <1>5 DEF ReviewInv

LEMMA WorkKeepsReview ==
    ASSUME ReviewInv, CacheInv, Work
    PROVE  ReviewInv'
<1>1. ASSUME NEW t \in Tests, CacheUses(t) PROVE ReviewInv'
  <2>1. UNCHANGED <<run, scenario, update, file, before>>
    BY <1>1 DEF CacheUses, storeVars
  <2>2. /\ phase[t] \in {"started", "generating"}
        /\ \E p \in {"found", "generating", "failed"} : Turn(t, p)
    BY <1>1 DEF CacheUses, TestStep, UseCached, StartGenerator, Generated, GenerationFails
  <2> QED BY <2>1, <2>2, TurnKeepsReview
<1>2. ASSUME NEW t \in Tests, ReadWhole(t) \/ ReadPartial(t) \/ ReadFails(t) PROVE ReviewInv'
  <2>1. /\ phase[t] = "found" /\ (Turn(t, "read") \/ Turn(t, "failed"))
        /\ UNCHANGED <<run, scenario, update, file, before>>
    BY <1>2 DEF ReadWhole, ReadPartial, ReadFails, Exports, storeVars
  <2> QED BY <2>1, TurnKeepsReview
<1>3. ASSUME NEW t \in Tests, Asserts(t) PROVE ReviewInv'
  <2>1. UNCHANGED <<run, scenario, before>> /\ StoreStep(t)
    BY <1>3 DEF Asserts
  <2>2. CASE StartUpdate(t)
    BY <2>1, <2>2, TurnKeepsReview DEF StartUpdate, storeVars
  <2>3. CASE StartCreate(t)
    BY <2>1, <2>3, TurnKeepsReview DEF StartCreate, storeVars
  <2>4. CASE StartCompare(t)
    BY <2>1, <2>4, TurnKeepsReview DEF StartCompare, storeVars
  <2>5. CASE Compare(t)
    <3>1. /\ phase[t] = "comparing" /\ UNCHANGED <<update, file>>
          /\ (Turn(t, "passed") \/ Turn(t, "failed"))
      BY <2>5 DEF Compare
    <3>2. ~ update => file.exists
      BY <3>1, StartedInARun DEF ReviewInv, Reviewed
    <3> QED BY <2>1, <3>1, <3>2, TurnKeepsReview
  <2>6. CASE CreateFile(t) \/ WriteLine(t)
    <3>1. Writes(t) /\ file'.exists /\ UNCHANGED <<phase, update>>
      BY <2>6 DEF CreateFile, WriteLine, File
    <3> QED BY <2>1, <3>1, WritingKeepsReview
  <2>7. CASE Written(t)
    <3>1. CASE phase[t] = "updating"
      <4>1. update
        BY <3>1, StartedInARun DEF ReviewInv, Reviewed
      <4> QED BY <2>1, <2>7, <3>1, <4>1, TurnKeepsReview DEF Written, storeVars
    <3>2. CASE phase[t] = "creating"
      BY <2>1, <2>7, <3>2, TurnKeepsReview DEF Written, storeVars
    <3> QED BY <2>7, <3>1, <3>2 DEF Written, Writes
  <2>8. CASE WriteFails(t)
    BY <2>1, <2>8, TurnKeepsReview DEF WriteFails, Writes, storeVars
  <2> QED BY <2>1, <2>2, <2>3, <2>4, <2>5, <2>6, <2>7, <2>8 DEF StoreStep
<1>4. ASSUME NEW g \in Generator, Generate(g) PROVE ReviewInv'
  <2>1. UNCHANGED <<phase, run, scenario, update, file, before>>
    BY <1>4 DEF Generate, storeVars, GeneratorStep, Load, PgDump, Move, Download, Downloaded, Breaks
  <2> QED BY <2>1 DEF ReviewInv, InScenario, ByChosen, Reviewed, Chosen
<1> QED BY <1>1, <1>2, <1>3, <1>4 DEF Work

LEMMA ReviewInvariant == Spec => []ReviewInv
<1>1. ReviewInv /\ CacheInv /\ [Next]_vars => ReviewInv'
  <2> SUFFICES ASSUME ReviewInv, CacheInv, [Next]_vars PROVE ReviewInv'
    OBVIOUS
  <2>1. CASE UNCHANGED vars \/ Edit
    <3>1. UNCHANGED <<phase, run, scenario, update, file, before>>
      BY <2>1 DEF vars, Edit, storeVars
    <3> QED BY <3>1 DEF ReviewInv, InScenario, ByChosen, Reviewed, Chosen
  <2> QED BY <2>1, StartRunKeepsReview, KillKeepsReview, WorkKeepsReview DEF Next
<1> QED BY InitReview, CacheInvariant, <1>1, PTL DEF Spec

(* NewSnapshotsAreReviewed, for any tests and any number of runs: a run    *)
(* that was not to update is green only if it found the snapshot and wrote *)
(* nothing to it, whichever of its tests race.                             *)
THEOREM ReviewCorrect == Spec => []NewSnapshotsAreReviewed
<1>1. ReviewInv => NewSnapshotsAreReviewed
  <2> SUFFICES ASSUME ReviewInv, Green, ~ update PROVE file = before.file /\ file.exists
    BY DEF NewSnapshotsAreReviewed
  <2>1. Chosen \subseteq Tests /\ Chosen # {} /\ run > 0
    BY ChosenTests DEF ReviewInv, Green
  <2> QED BY <2>1 DEF ReviewInv, Reviewed, Green
<1> QED BY ReviewInvariant, <1>1, PTL

-----------------------------------------------------------------------------
(* Tables.  Column names are only compared.                                *)
Name == STRING

LEMMA TableTypes ==
    ASSUME NEW t, IsTable(t)
    PROVE  /\ t \in [columns : Seq(Name), rows : Seq(Seq(Nat))]
           /\ \A r \in DOMAIN t.rows : Len(t.rows[r]) = Len(t.columns)
           /\ Len(t.rows) \in Nat /\ DOMAIN t.rows = 1 .. Len(t.rows)
           /\ Len(t.columns) \in Nat /\ DOMAIN t.columns = 1 .. Len(t.columns)
<1>1. /\ t \in [columns : Seq(Name), rows : Seq(Seq(Nat))]
      /\ \A r \in DOMAIN t.rows : Len(t.rows[r]) = Len(t.columns)
  BY DEF IsTable, Name
<1> QED BY <1>1, LenProperties

LEMMA TableMade ==
    ASSUME NEW c \in Seq(Name), NEW s \in Seq(Seq(Nat)), \A r \in DOMAIN s : Len(s[r]) = Len(c)
    PROVE  IsTable([columns |-> c, rows |-> s])
BY DEF IsTable, Name

LEMMA NoTableIsTable == IsTable(NoTable)
<1>1. <<>> \in Seq(Name) /\ <<>> \in Seq(Seq(Nat)) /\ DOMAIN <<>> = {}
  BY EmptySeq
<1> QED BY <1>1, TableMade DEF NoTable

LEMMA FirstRowsTable ==
    ASSUME NEW t, IsTable(t), NEW n \in 0 .. Len(t.rows)
    PROVE  IsTable(FirstRows(t, n)) /\ FirstRows(t, n).columns = t.columns
<1>1. /\ t \in [columns : Seq(Name), rows : Seq(Seq(Nat))] /\ Len(t.rows) \in Nat
      /\ \A r \in 1 .. Len(t.rows) : Len(t.rows[r]) = Len(t.columns)
  BY TableTypes
<1> DEFINE s == SubSeq(t.rows, 1, n)
<1>2. s \in Seq(Seq(Nat)) /\ Len(s) = n /\ \A r \in 1 .. n : s[r] = t.rows[r]
  <2>1. t.rows \in Seq(Seq(Nat)) /\ 1 \in 1 .. Len(t.rows) + 1 /\ n \in 1 - 1 .. Len(t.rows)
    BY <1>1
  <2>2. \A i \in 1 .. n : t.rows[i] \in Seq(Nat)
    BY <1>1, <2>1, ElementOfSeq
  <2>3. /\ s \in Seq(Seq(Nat)) /\ Len(s) = IF 1 <= n THEN n - 1 + 1 ELSE 0
        /\ \A i \in 1 .. n - 1 + 1 : s[i] = t.rows[1 + i - 1]
    <3>1. 1 \in Int /\ n \in Int
      BY <1>1
    <3> QED BY <2>1, <2>2, <3>1, SubSeqProperties
  <2> QED BY <1>1, <2>3
<1> HIDE DEF s
<1>3. FirstRows(t, n) = [columns |-> t.columns, rows |-> s]
  <2>1. FirstRows(t, n) = [t EXCEPT !.rows = s]
    BY DEF FirstRows, s
  <2> QED BY <1>1, <2>1
<1>4. \A r \in DOMAIN s : Len(s[r]) = Len(t.columns)
  <2>1. DOMAIN s = 1 .. n
    BY <1>2, LenProperties
  <2>2. ASSUME NEW r \in 1 .. n PROVE Len(s[r]) = Len(t.columns)
    <3>1. r \in 1 .. Len(t.rows) /\ s[r] = t.rows[r]
      BY <1>1, <1>2
    <3>2. Len(t.rows[r]) = Len(t.columns)
      BY <1>1, <3>1
    <3> QED BY <3>1, <3>2
  <2> QED BY <2>1, <2>2
<1>5. t.columns \in Seq(Name)
  BY <1>1
<1>6. IsTable([columns |-> t.columns, rows |-> s])
  BY <1>2, <1>4, <1>5, TableMade
<1> QED BY <1>3, <1>6

(* A column has an index, and a cell in every row.                         *)
LEMMA CellTypes ==
    ASSUME NEW t, IsTable(t), NEW c, HasColumn(t, c)
    PROVE  /\ ColumnIndex(t, c) \in DOMAIN t.columns /\ t.columns # <<>>
           /\ \A r \in DOMAIN t.rows : CellOf(t, t.rows[r], c) \in Nat
<1> DEFINE K == {k \in DOMAIN t.columns : t.columns[k] = c}
<1>1. /\ t \in [columns : Seq(Name), rows : Seq(Seq(Nat))]
      /\ \A r \in DOMAIN t.rows : Len(t.rows[r]) = Len(t.columns)
      /\ Len(t.columns) \in Nat /\ DOMAIN t.columns = 1 .. Len(t.columns)
      /\ DOMAIN t.rows = 1 .. Len(t.rows) /\ Len(t.rows) \in Nat
  BY TableTypes
<1>2. K \subseteq Nat /\ K # {}
  BY <1>1 DEF HasColumn, ToSet
<1>3. ColumnIndex(t, c) \in K
  <2>1. \E k \in K : \A j \in K : k <= j
    BY <1>2, LeastExists
  <2> QED BY <2>1 DEF ColumnIndex, Min
<1>4. ASSUME NEW r \in DOMAIN t.rows PROVE CellOf(t, t.rows[r], c) \in Nat
  <2>1. t.rows[r] \in Seq(Nat) /\ ColumnIndex(t, c) \in 1 .. Len(t.rows[r])
    BY <1>1, <1>3, ElementOfSeq
  <2>2. t.rows[r][ColumnIndex(t, c)] \in Nat
    BY <2>1, ElementOfSeq
  <2> QED BY <2>2 DEF CellOf
<1>5. t.columns # <<>>
  BY <1>1, <1>3, EmptySeq
<1> QED BY <1>3, <1>4, <1>5

SameCells(e, a, key) ==
    \A id \in Ids(e, key), c \in ToSet(e.columns) :
        CellOf(e, IndexById(e, key)[id], c) = CellOf(a, IndexById(a, key)[id], c)

SameIds(e, a, key) ==
    /\ ToSet(e.columns) = ToSet(a.columns) /\ HasColumn(e, key)
    /\ Duplicates(e, key) = {} /\ Duplicates(a, key) = {} /\ Ids(e, key) = Ids(a, key)

(* What a comparison without differences has found.                        *)
LEMMA NoDiffs ==
    ASSUME NEW e, NEW a, NEW key, DiffTables(e, a, key) = {}
    PROVE  SameIds(e, a, key) /\ SameIds(a, e, key) /\ SameCells(e, a, key) /\ SameCells(a, e, key)
<1>1. ColumnDiffs(e, a) = {} /\ HasColumn(e, key) /\ HasColumn(a, key)
  BY DEF DiffTables
<1>2. ToSet(e.columns) = ToSet(a.columns)
  BY <1>1 DEF ColumnDiffs
<1>3. Duplicates(e, key) = {} /\ Duplicates(a, key) = {} /\ RowDiffs(e, a, key) = {}
  BY <1>1 DEF DiffTables
<1>4. DOMAIN IndexById(e, key) = Ids(e, key) /\ DOMAIN IndexById(a, key) = Ids(a, key)
  BY DEF IndexById
<1>5. Ids(e, key) = Ids(a, key)
  <2>1. {<<"missing_row", id>> : id \in Ids(e, key) \ Ids(a, key)} = {}
    BY <1>3, <1>4 DEF RowDiffs
  <2>2. {<<"extra_row", id>> : id \in Ids(a, key) \ Ids(e, key)} = {}
    BY <1>3, <1>4 DEF RowDiffs
  <2> QED BY <2>1, <2>2
<1>6. \A id \in Ids(e, key) : CellDiffs(e, a, IndexById(e, key)[id], IndexById(a, key)[id]) = {}
  BY <1>3, <1>4, <1>5 DEF RowDiffs
<1>7. SameCells(e, a, key)
  BY <1>2, <1>6 DEF CellDiffs, SameCells
<1>8. SameCells(a, e, key)
  BY <1>2, <1>5, <1>7 DEF SameCells
<1> QED BY <1>1, <1>2, <1>3, <1>5, <1>7, <1>8 DEF SameIds

Rowed(t) == \E n \in Nat : DOMAIN t.rows = 1 .. n

(* Without duplicates an id has one row, and the index has that row.       *)
LEMMA OneRow ==
    ASSUME NEW t, Rowed(t), NEW key, Duplicates(t, key) = {},
           NEW id, id # Null, NEW r \in RowsWith(t, key, id)
    PROVE  /\ id \in Ids(t, key) /\ RowsWith(t, key, id) = {r}
           /\ IndexById(t, key)[id] = t.rows[r]
<1>0. /\ r \in DOMAIN t.rows /\ CellOf(t, t.rows[r], key) = id
      /\ \E n \in Nat : DOMAIN t.rows = 1 .. n
  BY DEF RowsWith, Rowed
<1>1. id \in Ids(t, key)
  BY <1>0 DEF Ids
<1>2. IsFiniteSet(RowsWith(t, key, id)) /\ Cardinality(RowsWith(t, key, id)) \in Nat
  <2>1. PICK n \in Nat : DOMAIN t.rows = 1 .. n
    BY <1>0
  <2>2. IsFiniteSet(1 .. n) /\ RowsWith(t, key, id) \in SUBSET (1 .. n)
    BY <2>1, FS_Interval DEF RowsWith
  <2> QED BY <2>2, FS_Subset, FS_CardinalityType
<1>3. r \in RowsWith(t, key, id)
  OBVIOUS
<1>4. Cardinality(RowsWith(t, key, id)) = 1
  <2>1. ~ (Cardinality(RowsWith(t, key, id)) > 1)
    BY <1>1 DEF Duplicates
  <2>2. Cardinality(RowsWith(t, key, id)) # 0
    BY <1>2, <1>3, FS_EmptySet
  <2> QED BY <1>2, <2>1, <2>2
<1>5. RowsWith(t, key, id) = {r}
  <2>1. \E x : RowsWith(t, key, id) = {x}
    BY <1>2, <1>4, FS_Singleton
  <2> QED BY <1>3, <2>1
<1>6. Max({r}) = r
  <2>1. r \in Nat
    BY <1>0
  <2> QED BY <2>1 DEF Max
<1>7. IndexById(t, key)[id] = t.rows[Max(RowsWith(t, key, id))]
  BY <1>1 DEF IndexById
<1> QED BY <1>1, <1>5, <1>6, <1>7

(* A row of one table, and the row of the other that has its id.           *)
LEMMA SameRecord ==
    ASSUME NEW e, NEW a, Rowed(e), Rowed(a), NEW key, SameIds(e, a, key), SameCells(e, a, key),
           NEW r \in WithId(e, key)
    PROVE  \E s \in WithId(a, key) :
              /\ Record(a, s) = Record(e, r)
              /\ {i \in WithId(e, key) : Record(e, i) = Record(e, r)} = {r}
              /\ {i \in WithId(a, key) : Record(a, i) = Record(e, r)} = {s}
<1> DEFINE id == CellOf(e, e.rows[r], key)
<1>1. r \in DOMAIN e.rows /\ id # Null /\ r \in RowsWith(e, key, id)
  BY DEF WithId, RowsWith
<1> HIDE DEF id
<1>2. /\ id \in Ids(e, key) /\ RowsWith(e, key, id) = {r}
      /\ IndexById(e, key)[id] = e.rows[r]
  BY <1>1, OneRow DEF SameIds
<1>3. PICK s \in DOMAIN a.rows : CellOf(a, a.rows[s], key) = id
  BY <1>2 DEF Ids, SameIds
<1>4. RowsWith(a, key, id) = {s} /\ IndexById(a, key)[id] = a.rows[s]
  <2>1. s \in RowsWith(a, key, id)
    BY <1>3 DEF RowsWith
  <2> QED BY <1>1, <2>1, OneRow DEF SameIds
<1>5. s \in WithId(a, key)
  BY <1>1, <1>3 DEF WithId
<1>6. Record(a, s) = Record(e, r)
  BY <1>2, <1>4 DEF Record, SameIds, SameCells
<1>7. key \in ToSet(e.columns) /\ key \in ToSet(a.columns)
  BY DEF HasColumn, SameIds
<1>8. Record(e, r)[key] = id
  BY <1>7 DEF Record, id
<1>9. \A i \in WithId(e, key) : Record(e, i) = Record(e, r) => i \in RowsWith(e, key, id)
  BY <1>7, <1>8 DEF Record, RowsWith, WithId
<1>10. \A i \in WithId(a, key) : Record(a, i) = Record(e, r) => i \in RowsWith(a, key, id)
  BY <1>7, <1>8 DEF Record, RowsWith, WithId
<1>11. {i \in WithId(e, key) : Record(e, i) = Record(e, r)} = {r}
  BY <1>2, <1>9
<1>12. {i \in WithId(a, key) : Record(a, i) = Record(e, r)} = {s}
  BY <1>4, <1>5, <1>6, <1>10
<1> QED BY <1>5, <1>6, <1>11, <1>12

(* diff_tables finds no difference: the tables have the same records.      *)
LEMMA NoDiffsSameRecords ==
    ASSUME NEW e, NEW a, Rowed(e), Rowed(a), NEW key, DiffTables(e, a, key) = {}
    PROVE  SameRecords(e, a, key)
<1>1. SameIds(e, a, key) /\ SameIds(a, e, key) /\ SameCells(e, a, key) /\ SameCells(a, e, key)
  BY NoDiffs
<1> DEFINE Es(x) == {r \in WithId(e, key) : Record(e, r) = x}
<1> DEFINE As(x) == {r \in WithId(a, key) : Record(a, r) = x}
<1>2. ASSUME NEW r \in WithId(e, key)
      PROVE  Cardinality(Es(Record(e, r))) = 1 /\ Cardinality(As(Record(e, r))) = 1
  <2>1. \E s \in WithId(a, key) : Es(Record(e, r)) = {r} /\ As(Record(e, r)) = {s}
    BY <1>1, SameRecord
  <2> QED BY <2>1, FS_Singleton
<1>3. ASSUME NEW r \in WithId(a, key)
      PROVE  Cardinality(Es(Record(a, r))) = 1 /\ Cardinality(As(Record(a, r))) = 1
  <2>1. \E s \in WithId(e, key) : As(Record(a, r)) = {r} /\ Es(Record(a, r)) = {s}
    BY <1>1, SameRecord
  <2> QED BY <2>1, FS_Singleton
<1>4. \A x \in {Record(e, r) : r \in WithId(e, key)} \cup {Record(a, r) : r \in WithId(a, key)} :
         Cardinality(Es(x)) = Cardinality(As(x))
  BY <1>2, <1>3
<1> QED BY <1>4 DEF SameRecords, SameRows

-----------------------------------------------------------------------------
(* The order of the rows in a snapshot: each place has one row, and each   *)
(* row one place.                                                          *)
LEMMA RowsBeforeAre ==
    ASSUME NEW t, IsTable(t), NEW key, HasColumn(t, key), NEW n \in Nat, n = Len(t.rows),
           NEW r \in 1 .. n
    PROVE  /\ RowsBefore(t, key, r) \in SUBSET (1 .. n) /\ r \notin RowsBefore(t, key, r)
           /\ IsFiniteSet(RowsBefore(t, key, r)) /\ Cardinality(RowsBefore(t, key, r)) \in 0 .. n - 1
           /\ \A s \in 1 .. n : s # r =>
                 s \in RowsBefore(t, key, r) \/ r \in RowsBefore(t, key, s)
           /\ \A s \in RowsBefore(t, key, r) : RowsBefore(t, key, s) \in SUBSET RowsBefore(t, key, r)
<1> DEFINE Id(s) == CellOf(t, t.rows[s], key)
<1>1. DOMAIN t.rows = 1 .. n /\ \A s \in 1 .. n : Id(s) \in Nat
  BY TableTypes, CellTypes
<1> HIDE DEF Id
<1>2. ASSUME NEW s \in 1 .. n
      PROVE  RowsBefore(t, key, s) = {u \in 1 .. n : Id(u) < Id(s) \/ (Id(u) = Id(s) /\ u < s)}
  BY <1>1 DEF RowsBefore, Id
<1> DEFINE B(s) == {u \in 1 .. n : Id(u) < Id(s) \/ (Id(u) = Id(s) /\ u < s)}
<1>3. B(r) \in SUBSET (1 .. n) /\ r \notin B(r)
  BY <1>1
<1>4. \A s \in 1 .. n : s # r => s \in B(r) \/ r \in B(s)
  BY <1>1
<1>5. \A s \in B(r) : B(s) \in SUBSET B(r)
  BY <1>1
<1>6. IsFiniteSet(B(r)) /\ Cardinality(B(r)) \in 0 .. n - 1
  <2>1. IsFiniteSet(1 .. n) /\ Cardinality(1 .. n) = n
    <3>1. 1 \in Int /\ n \in Int
      OBVIOUS
    <3>2. IsFiniteSet(1 .. n) /\ Cardinality(1 .. n) = IF 1 > n THEN 0 ELSE n - 1 + 1
      BY <3>1, FS_Interval
    <3> QED BY <3>2
  <2>2. IsFiniteSet((1 .. n) \ {r}) /\ Cardinality((1 .. n) \ {r}) = n - 1
    BY <2>1, FS_RemoveElement
  <2>3. B(r) \in SUBSET ((1 .. n) \ {r})
    BY <1>3
  <2> HIDE DEF B
  <2>4. IsFiniteSet(B(r)) /\ Cardinality(B(r)) <= n - 1 /\ Cardinality(B(r)) \in Nat
    BY <2>2, <2>3, FS_Subset, FS_CardinalityType
  <2> QED BY <2>4
<1>7. \A s \in 1 .. n : RowsBefore(t, key, s) = B(s)
  BY <1>2
<1> HIDE DEF B
<1> QED BY <1>3, <1>4, <1>5, <1>6, <1>7

LEMMA Ranks ==
    ASSUME NEW t, IsTable(t), NEW key, HasColumn(t, key), NEW n \in Nat, n = Len(t.rows)
    PROVE  /\ \A k \in 1 .. n : RowAt(t, key, k) \in 1 .. n
           /\ \A j, k \in 1 .. n : RowAt(t, key, j) = RowAt(t, key, k) => j = k
           /\ \A r \in 1 .. n : \E k \in 1 .. n : RowAt(t, key, k) = r
<1> DEFINE B(r) == RowsBefore(t, key, r)
           rank == [r \in 1 .. n |-> Cardinality(B(r)) + 1]
<1>1. \A r \in 1 .. n : /\ B(r) \in SUBSET (1 .. n) /\ r \notin B(r)
                        /\ IsFiniteSet(B(r)) /\ Cardinality(B(r)) \in 0 .. n - 1
                        /\ \A s \in 1 .. n : s # r => s \in B(r) \/ r \in B(s)
                        /\ \A s \in B(r) : B(s) \in SUBSET B(r)
  BY RowsBeforeAre
<1>2. ASSUME NEW r \in 1 .. n, NEW s \in 1 .. n, s \in B(r)
      PROVE  Cardinality(B(s)) < Cardinality(B(r))
  <2>1. /\ IsFiniteSet(B(r)) /\ B(s) \in SUBSET B(r) /\ B(s) # B(r)
        /\ Cardinality(B(r)) \in Nat /\ Cardinality(B(s)) \in Nat
    BY <1>1, <1>2
  <2> HIDE DEF B
  <2>2. Cardinality(B(s)) <= Cardinality(B(r)) /\ Cardinality(B(s)) # Cardinality(B(r))
    BY <2>1, FS_Subset
  <2> QED BY <2>1, <2>2
<1>3. rank \in [1 .. n -> 1 .. n] /\ \A r, s \in 1 .. n : r # s => rank[r] # rank[s]
  <2>1. \A r \in 1 .. n : rank[r] = Cardinality(B(r)) + 1 /\ rank[r] \in 1 .. n
    BY <1>1
  <2>2. ASSUME NEW r \in 1 .. n, NEW s \in 1 .. n, r # s PROVE rank[r] # rank[s]
    <3>1. Cardinality(B(r)) # Cardinality(B(s)) /\ Cardinality(B(r)) \in Nat /\ Cardinality(B(s)) \in Nat
      BY <1>1, <1>2, <2>2
    <3> QED BY <2>1, <3>1
  <2> QED BY <2>1, <2>2
<1>4. \A k \in 1 .. n : \E r \in 1 .. n : rank[r] = k
  <2>1. rank \in Injection(1 .. n, 1 .. n)
    BY ZenonT(60), <1>3 DEF Injection, IsInjective
  <2>2. IsFiniteSet(1 .. n)
    BY FS_Interval
  <2>3. rank \in Surjection(1 .. n, 1 .. n)
    BY <2>1, <2>2, FS_Injection
  <2> QED BY <2>3 DEF Surjection
<1>5. ASSUME NEW k \in 1 .. n PROVE RowAt(t, key, k) \in 1 .. n /\ rank[RowAt(t, key, k)] = k
  <2>1. PICK r \in 1 .. n : rank[r] = k
    BY <1>4
  <2>2. Cardinality(B(r)) = k - 1
    BY <1>1, <2>1
  <2>3. DOMAIN t.rows = 1 .. n
    BY TableTypes
  <2>4. RowAt(t, key, k) \in 1 .. n /\ Cardinality(B(RowAt(t, key, k))) = k - 1
    BY <2>2, <2>3 DEF RowAt
  <2> QED BY <2>4
<1> HIDE DEF rank, B
<1>6. \A j, k \in 1 .. n : RowAt(t, key, j) = RowAt(t, key, k) => j = k
  BY <1>5
<1>7. \A r \in 1 .. n : \E k \in 1 .. n : RowAt(t, key, k) = r
  <2> SUFFICES ASSUME NEW r \in 1 .. n PROVE \E k \in 1 .. n : RowAt(t, key, k) = r
    OBVIOUS
  <2>1. rank[r] \in 1 .. n /\ RowAt(t, key, rank[r]) = r
    BY <1>3, <1>5
  <2> QED BY <2>1
<1> QED BY <1>5, <1>6, <1>7

-----------------------------------------------------------------------------
(* The lines of a snapshot: the first has columns, the others cells.       *)
Line == Seq(Name) \cup Seq(Nat)
LineAt(l, j) == IF j = 1 THEN l \in Seq(Name) ELSE l \in Seq(Nat)
Lined(s) == s \in Seq(Line) /\ \A j \in 1 .. Len(s) : LineAt(s[j], j)

LEMMA LinedLength ==
    ASSUME NEW s, Lined(s)
    PROVE  Len(s) \in Nat /\ DOMAIN s = 1 .. Len(s) /\ (s # <<>> => Len(s) > 0)
BY LenProperties, EmptySeq DEF Lined

LEMMA NoLines == Lined(<<>>)
<1>1. <<>> \in Seq(Line) /\ Len(<<>>) = 0
  BY EmptySeq
<1> QED BY <1>1 DEF Lined

LEMMA HeadAndTail ==
    ASSUME NEW s, Lined(s), s # <<>>
    PROVE  /\ Head(s) \in Seq(Name) /\ Tail(s) \in Seq(Seq(Nat)) /\ s = <<Head(s)>> \o Tail(s)
           /\ Len(Tail(s)) = Len(s) - 1 /\ Head(s) = s[1]
           /\ \A j \in 1 .. Len(s) - 1 : Tail(s)[j] = s[j + 1]
<1>1. s \in Seq(Line) /\ Len(s) \in Nat /\ Len(s) > 0
  BY LinedLength DEF Lined
<1>2. /\ Head(s) \in Line /\ Tail(s) \in Seq(Line) /\ Len(Tail(s)) = Len(s) - 1
      /\ \A j \in 1 .. Len(s) - 1 : Tail(s)[j] = s[j + 1]
  BY <1>1, HeadTailProperties
<1>3. Head(s) = s[1]
  BY <1>1
<1>4. LineAt(s[1], 1) /\ s[1] \in Seq(Name)
  BY <1>1 DEF Lined, LineAt
<1>5. Tail(s) \in Seq(Seq(Nat))
  <2>1. \A j \in 1 .. Len(s) - 1 : Tail(s)[j] \in Seq(Nat)
    <3> SUFFICES ASSUME NEW j \in 1 .. Len(s) - 1 PROVE Tail(s)[j] \in Seq(Nat)
      OBVIOUS
    <3>1. j + 1 \in 1 .. Len(s) /\ j + 1 # 1
      BY <1>1
    <3>2. s[j + 1] \in Seq(Nat)
      BY <3>1 DEF Lined, LineAt
    <3> QED BY <1>2, <3>2
  <2>2. Tail(s) \in [1 .. Len(s) - 1 -> Line] /\ Len(s) - 1 \in Nat
    BY <1>1, <1>2, LenProperties
  <2> DEFINE w == Tail(s)
  <2>3. \E n \in Nat : w \in [1 .. n -> Seq(Nat)]
    BY <2>1, <2>2
  <2> HIDE DEF w
  <2>4. w \in Seq(Seq(Nat))
    BY ONLY <2>3, SeqDef
  <2> QED BY <2>4 DEF w
<1>6. s = <<Head(s)>> \o Tail(s)
  <2>1. <<Head(s)>> \in Seq(Line) /\ Len(<<Head(s)>>) = 1 /\ <<Head(s)>>[1] = Head(s)
    BY <1>2
  <2> DEFINE u == <<Head(s)>> \o Tail(s)
  <2>2. /\ u \in Seq(Line) /\ Len(u) = 1 + (Len(s) - 1)
        /\ \A i \in 1 .. 1 + (Len(s) - 1) : u[i] = IF i <= 1 THEN <<Head(s)>>[i] ELSE Tail(s)[i - 1]
    BY <1>2, <2>1, ConcatProperties
  <2> HIDE DEF u
  <2>3. Len(u) = Len(s)
    BY <1>1, <2>2
  <2>4. \A i \in 1 .. Len(s) : s[i] = u[i]
    <3> SUFFICES ASSUME NEW i \in 1 .. Len(s) PROVE s[i] = u[i]
      OBVIOUS
    <3>1. CASE i = 1
      BY <1>1, <1>3, <2>1, <2>2, <3>1
    <3>2. CASE i # 1
      <4>1. i - 1 \in 1 .. Len(s) - 1 /\ i \in 1 .. 1 + (Len(s) - 1) /\ ~ (i <= 1) /\ i - 1 + 1 = i
        BY <1>1, <3>2
      <4>2. Tail(s)[i - 1] = s[i - 1 + 1]
        BY <1>2, <4>1
      <4> QED BY <2>2, <4>1, <4>2
    <3> QED BY <3>1, <3>2
  <2> QED BY <1>1, <2>2, <2>3, <2>4, SeqEqual DEF u
<1> QED BY <1>2, <1>3, <1>4, <1>5, <1>6

LEMMA LinedFile ==
    ASSUME NEW s, Lined(s)
    PROVE  IsFile(File(s))
<1>1. s # <<>> =>
         /\ Head(s) \in Seq(Name) /\ Tail(s) \in Seq(Seq(Nat))
         /\ s = <<Head(s)>> \o Tail(s)
  BY HeadAndTail
<1>2. File(s).exists = TRUE /\ File(s).lines = s
  BY DEF File
<1> QED BY <1>1, <1>2 DEF IsFile, Name

LEMMA FileIsLined ==
    ASSUME NEW f, IsFile(f)
    PROVE  f.exists \in BOOLEAN /\ Lined(f.lines) /\ (f.lines # <<>> => f.exists)
<1>1. CASE f.lines = <<>>
  BY <1>1, NoLines DEF IsFile
<1>2. CASE f.lines # <<>>
  <2> DEFINE s == f.lines
             h == Head(s)
             w == Tail(s)
  <2>1. /\ f.exists \in BOOLEAN /\ f.exists
        /\ h \in Seq(Name) /\ w \in Seq(Seq(Nat)) /\ s = <<h>> \o w
    BY <1>2 DEF IsFile, Name
  <2> HIDE DEF h, w
  <2>2. <<h>> \in Seq(Line) /\ w \in Seq(Line) /\ Len(<<h>>) = 1 /\ <<h>>[1] = h
    <3>1. h \in Line /\ Seq(Nat) \subseteq Line
      BY <2>1 DEF Line
    <3> QED BY <2>1, <3>1, SeqMonotonic
  <2>3. /\ s \in Seq(Line) /\ Len(s) = 1 + Len(w) /\ Len(w) \in Nat
        /\ \A i \in 1 .. 1 + Len(w) : s[i] = IF i <= 1 THEN <<h>>[i] ELSE w[i - 1]
    BY <2>1, <2>2, ConcatProperties, LenProperties
  <2> HIDE DEF s
  <2>4. ASSUME NEW j \in 1 .. Len(s) PROVE LineAt(s[j], j)
    <3>1. CASE j = 1
      BY <2>1, <2>2, <2>3, <3>1 DEF LineAt
    <3>2. CASE j # 1
      <4>1. j - 1 \in 1 .. Len(w) /\ s[j] = w[j - 1]
        BY <2>3, <3>2
      <4>2. w[j - 1] \in Seq(Nat)
        BY <2>1, <4>1, ElementOfSeq
      <4> QED BY <3>2, <4>1, <4>2 DEF LineAt
    <3> QED BY <3>1, <3>2
  <2>5. Lined(s)
    BY <2>3, <2>4 DEF Lined
  <2> QED BY <2>1, <2>5 DEF s
<1> QED BY <1>1, <1>2

(* What can be read as a table is one.                                     *)
LEMMA ReadableIsTable ==
    ASSUME NEW s, Lined(s), Readable(s)
    PROVE  /\ IsTable(Snapshot(s)) /\ Len(Snapshot(s).rows) = Len(s) - 1 /\ Len(s) \in Nat \ {0}
           /\ Snapshot(s).columns = s[1]
           /\ \A k \in 1 .. Len(s) - 1 : Snapshot(s).rows[k] = s[k + 1]
<1> DEFINE c == Head(s)
           w == Tail(s)
<1>1. /\ c \in Seq(Name) /\ w \in Seq(Seq(Nat)) /\ Len(w) = Len(s) - 1 /\ c = s[1]
      /\ \A j \in 1 .. Len(s) - 1 : w[j] = s[j + 1]
  BY HeadAndTail DEF Readable
<1>2. DOMAIN s = 1 .. Len(s) /\ Len(s) \in Nat /\ DOMAIN w = 1 .. Len(w) /\ Len(s) > 0
  BY <1>1, LinedLength, LenProperties DEF Readable
<1>3. Snapshot(s) = [columns |-> c, rows |-> w]
  BY DEF Snapshot
<1>4. \A k \in DOMAIN s : Len(s[k]) = Len(c)
  BY DEF Readable
<1> HIDE DEF c, w
<1>5. ASSUME NEW r \in DOMAIN w PROVE Len(w[r]) = Len(c)
  <2>1. r \in 1 .. Len(s) - 1 /\ r + 1 \in DOMAIN s
    <3>1. r \in 1 .. Len(w)
      BY <1>2
    <3>2. r \in 1 .. Len(s) - 1
      BY <1>1, <3>1
    <3>3. r + 1 \in 1 .. Len(s)
      BY <1>2, <3>2
    <3> QED BY <1>2, <3>2, <3>3
  <2>2. w[r] = s[r + 1] /\ Len(s[r + 1]) = Len(c)
    BY <1>1, <1>4, <2>1
  <2> QED BY <2>2
<1>6. IsTable([columns |-> c, rows |-> w])
  BY <1>1, <1>5, TableMade
<1> QED BY <1>1, <1>2, <1>3, <1>6

LEMMA TableIsRowed ==
    ASSUME NEW t, IsTable(t)
    PROVE  Rowed(t)
BY TableTypes DEF Rowed

(* The lines that a table makes, in the order of the ids.                  *)
LEMMA LinesOfTable ==
    ASSUME NEW t, IsTable(t), HasColumn(t, Key), NEW n \in Nat, n = Len(t.rows)
    PROVE  /\ Lined(SnapshotLines(t)) /\ Len(SnapshotLines(t)) = n + 1
           /\ SnapshotLines(t)[1] = t.columns
           /\ \A k \in 1 .. n : SnapshotLines(t)[k + 1] = t.rows[RowAt(t, Key, k)]
<1> DEFINE w == SortedRows(t, Key)
           s == SnapshotLines(t)
           c == t.columns
<1>1. /\ c \in Seq(Name) /\ t.rows \in Seq(Seq(Nat)) /\ DOMAIN t.rows = 1 .. n
  BY TableTypes
<1>2. \A k \in 1 .. n : RowAt(t, Key, k) \in 1 .. n
  BY Ranks
<1>3. \A k \in 1 .. n : t.rows[RowAt(t, Key, k)] \in Seq(Nat)
  BY <1>1, <1>2, ElementOfSeq
<1>4. w = [k \in 1 .. n |-> t.rows[RowAt(t, Key, k)]]
  BY <1>1 DEF SortedRows
<1>5. w \in Seq(Seq(Nat)) /\ Len(w) = n /\ \A k \in 1 .. n : w[k] = t.rows[RowAt(t, Key, k)]
  <2>1. w \in [1 .. n -> Seq(Nat)]
    BY <1>3, <1>4
  <2>2. w \in Seq(Seq(Nat))
    BY <2>1, SeqDef
  <2>3. Len(w) = n
    BY <1>4, <2>2, LenProperties
  <2> QED BY <1>4, <2>2, <2>3
<1> HIDE DEF w
<1>6. <<c>> \in Seq(Line) /\ w \in Seq(Line) /\ Len(<<c>>) = 1 /\ <<c>>[1] = c
  <2>1. c \in Line /\ Seq(Nat) \subseteq Line
    BY <1>1 DEF Line
  <2> QED BY <1>5, <2>1, SeqMonotonic
<1>7. s = <<c>> \o w
  BY DEF SnapshotLines, w
<1> HIDE DEF s, c
<1>8. /\ s \in Seq(Line) /\ Len(s) = 1 + n
      /\ \A i \in 1 .. 1 + n : s[i] = IF i <= 1 THEN <<c>>[i] ELSE w[i - 1]
  BY <1>5, <1>6, <1>7, ConcatProperties
<1>9. \A k \in 1 .. n : s[k + 1] = w[k]
  BY <1>8
<1>10. s[1] = c
  BY <1>6, <1>8
<1>11. ASSUME NEW j \in 1 .. n + 1 PROVE LineAt(s[j], j)
  <2>1. CASE j = 1
    BY <1>1, <1>10, <2>1 DEF LineAt, c
  <2>2. CASE j # 1
    <3>1. j - 1 \in 1 .. n /\ s[j] = w[j - 1]
      BY <1>8, <2>2
    <3> QED BY <1>3, <1>5, <2>2, <3>1 DEF LineAt
  <2> QED BY <2>1, <2>2
<1>12. Lined(s)
  BY <1>8, <1>11 DEF Lined
<1>13. \A k \in 1 .. n : s[k + 1] = t.rows[RowAt(t, Key, k)]
  BY <1>5, <1>9
<1>14. Len(s) = n + 1
  BY <1>8
<1> QED BY <1>10, <1>12, <1>13, <1>14 DEF s, c

(* One line is written at a place.                                         *)
LEMMA PutLine ==
    ASSUME NEW s, Lined(s), NEW k \in Nat \ {0}, NEW l, LineAt(l, k)
    PROVE  /\ Lined(Put(s, k, l)) /\ Put(s, k, l) # <<>>
           /\ Len(Put(s, k, l)) = IF k > Len(s) THEN k ELSE Len(s)
           /\ \A j \in 1 .. Len(Put(s, k, l)) :
                 Put(s, k, l)[j] = IF j = k THEN l ELSE IF j <= Len(s) THEN s[j] ELSE Hole
<1> DEFINE n == Len(s)
           m == IF k > n THEN k ELSE n
           e(j) == IF j = k THEN l ELSE IF j <= n THEN s[j] ELSE Hole
           p == Put(s, k, l)
<1>1. n \in Nat /\ m \in Nat \ {0} /\ k \in 1 .. m
  BY LinedLength
<1>2. p = [j \in 1 .. m |-> e(j)]
  <2>1. Max({n, k}) = m
    BY <1>1 DEF Max
  <2> QED BY <2>1 DEF Put
<1>3. ASSUME NEW j \in 1 .. m PROVE LineAt(e(j), j)
  <2>1. CASE j = k
    BY <2>1
  <2>2. CASE j # k /\ j <= n
    BY <1>1, <2>2 DEF Lined
  <2>3. CASE j # k /\ ~ (j <= n)
    <3>1. Hole \in Seq(Nat) /\ Hole \in Seq(Name)
      BY EmptySeq DEF Hole
    <3> QED BY <2>3, <3>1 DEF LineAt
  <2> QED BY <2>1, <2>2, <2>3
<1>4. \A j \in 1 .. m : p[j] = e(j)
  BY <1>2
<1>5. p \in Seq(Line) /\ Len(p) = m
  <2>1. \A j \in 1 .. m : e(j) \in Line
    BY <1>3 DEF LineAt, Line
  <2> HIDE DEF e
  <2>2. p \in [1 .. m -> Line]
    BY <1>2, <2>1
  <2>3. p \in Seq(Line)
    BY <1>1, <2>2, SeqDef
  <2> HIDE DEF p, m
  <2>4. Len(p) = m
    BY <1>1, <2>2, <2>3, LenProperties
  <2> QED BY <2>3, <2>4
<1> HIDE DEF p
<1>6. p # <<>>
  BY <1>1, <1>5, EmptySeq
<1>7. Lined(p)
  BY <1>3, <1>4, <1>5 DEF Lined
<1> QED BY <1>4, <1>5, <1>6, <1>7 DEF p

-----------------------------------------------------------------------------
(* What the store holds, and that the places of the writers are within     *)
(* what they write: a table with an id column, which no longer changes.    *)
Stored ==
    /\ update \in BOOLEAN /\ IsFile(file)
    /\ DOMAIN out = Tests /\ DOMAIN pos = Tests /\ DOMAIN seen = Tests
    /\ \A t \in Tests :
          /\ IsTable(out[t]) /\ pos[t] \in Nat /\ pos[t] <= Len(out[t].rows) + 2
          /\ pos[t] # 0 =>
                /\ phase[t] \in {"updating", "creating", "passed", "failed", "killed"}
                /\ HasColumn(out[t], Key)

(* A dump is made of the fixture before it gets its time, and neither is   *)
(* ahead of the fixture.                                                   *)
Dated ==
    /\ kind \in {"committed", "sql", "sh"} /\ edits <= MaxEdits
    /\ dump.of <= dump.at /\ dump.at <= edits
    /\ \A g \in Generator :
          /\ gens[g].pc = "loaded" => gens[g].of <= edits
          /\ gens[g].pc = "dumped" => gens[g].of <= gens[g].at /\ gens[g].at <= edits

TypeInv == Stored /\ Dated

(* A test that passed had compared its output with a snapshot that can be  *)
(* read: with the one of the beginning, unless some test will be seen to   *)
(* fail.                                                                   *)
Agreed ==
    run > 0 /\ ~ update =>
        \A t \in Tests : phase[t] = "passed" =>
            /\ Readable(seen[t]) /\ IsTable(Snapshot(seen[t]))
            /\ DiffTables(Snapshot(seen[t]), out[t], Key) = {}
            /\ \/ seen[t] = before.file.lines
               \/ \E u \in Chosen : phase[u] \in {"creating", "failed", "killed"}

(* An SQL fixture that was not edited under anyone: what the generators    *)
(* loaded, dumped and moved is the fixture as it is, and what the tests    *)
(* found and read is what it was when the run began.                       *)
AtWork == {"started", "generating", "found", "read", "updating", "creating", "comparing"}

GensCurrent ==
    \A g \in Generator :
        /\ gens[g].pc = "loaded" => gens[g].of = edits
        /\ gens[g].pc = "dumped" => gens[g].of = edits /\ gens[g].at = edits
        /\ gens[g].pc # "downloading"

DumpCurrent == dump.state = "whole" => dump.of = dump.at

TestCurrent(t) ==
    /\ phase[t] \in AtWork => before.edits = edits
    /\ \/ phase[t] = "found"
       \/ phase[t] = "generating" /\ gens[<<run, t>>].pc = "ended"
       => dump.state = "whole" /\ dump.of = edits
    /\ phase[t] \in {"read", "updating", "creating", "comparing", "passed"} =>
          out[t] = scenario.outputs[before.edits][t]

Current ==
    kind = "sql" /\ ~ overtaken =>
        GensCurrent /\ DumpCurrent /\ (run > 0 => \A t \in Tests : TestCurrent(t))

(* Tests that update write the lines of one table: the file has no others, *)
(* and the last of them to open it has all of its lines there so far.      *)
Holds(lines, L) ==
    Len(lines) <= Len(L) /\ \A j \in 1 .. Len(lines) : lines[j] = L[j] \/ lines[j] = Hole

WrittenTo(lines, L, n) == \A j \in 1 .. n - 1 : j <= Len(lines) /\ lines[j] = L[j]

Writers == {t \in Tests : pos[t] > 0}
OneTable == \A t, u \in Writers : out[t] = out[u]

WriterHolds(w) ==
    /\ Holds(file.lines, SnapshotLines(out[w]))
    /\ WrittenTo(file.lines, SnapshotLines(out[w]), pos[w])

Ended ==
    \A t \in Tests :
        /\ phase[t] \notin {"creating", "comparing"}
        /\ phase[t] = "passed" => t \in Writers /\ Ready(t)

Updated ==
    run > 0 /\ update =>
        Ended /\ (OneTable /\ Writers # {} => \E w \in Writers : WriterHolds(w))

-----------------------------------------------------------------------------
LEMMA InitTypes == Init => TypeInv
<1> SUFFICES ASSUME Init PROVE TypeInv
  OBVIOUS
<1> USE DEF Init, CacheInit, Gen, Dump
<1>1. IsFile(file)
  BY SuiteAssumption
<1>2. IsTable(NoTable) /\ Len(NoTable.rows) \in Nat
  BY NoTableIsTable, TableTypes
<1>3. (\A t \in Tests : out[t] = NoTable) /\ \A t \in Tests : pos[t] \in Nat /\ pos[t] = 0
  OBVIOUS
<1>4. Stored
  <2>1. update = FALSE /\ DOMAIN out = Tests /\ DOMAIN pos = Tests /\ DOMAIN seen = Tests
    OBVIOUS
  <2>2. 0 <= Len(NoTable.rows) + 2
    BY ONLY <1>2
  <2>3. \A t \in Tests : IsTable(out[t]) /\ pos[t] <= Len(out[t].rows) + 2
    BY <1>2, <1>3, <2>2, Zenon
  <2>4. update \in BOOLEAN
    BY <2>1
  <2> QED BY ONLY <1>1, <1>3, <2>1, <2>3, <2>4 DEF Stored
<1>5. Dated
  <2>1. MaxEdits \in Nat /\ edits = 0 /\ dump.of = 0 /\ dump.at = 0
    BY SuiteAssumption
  <2>2. \A g \in Generator : gens[g].pc = "none"
    OBVIOUS
  <2> QED BY <2>1, <2>2 DEF Dated
<1> QED BY <1>4, <1>5 DEF TypeInv

(* A test whose place stays, or that has none, takes its turn.             *)
LEMMA TurnKeepsStored ==
    ASSUME CacheInv, Stored, NEW t \in Tests, NEW p, Turn(t, p),
           UNCHANGED <<update, out, file, pos>>, DOMAIN seen' = Tests,
           pos[t] # 0 => p \in {"updating", "creating", "passed", "failed", "killed"}
    PROVE  Stored'
<1>1. phase'[t] = p /\ \A u \in Tests : u # t => phase'[u] = phase[u]
  BY TurnOne DEF CacheInv, Fresh
<1>2. \A u \in Tests :
         pos[u] # 0 => phase'[u] \in {"updating", "creating", "passed", "failed", "killed"}
  BY <1>1 DEF Stored
<1> QED BY <1>2 DEF Stored

LEMMA ReadKeepsStored ==
    ASSUME CacheInv, Stored, NEW t \in Tests, NEW x, IsTable(x), Exports(t, x), phase[t] = "found",
           UNCHANGED <<update, file, pos, seen>>
    PROVE  Stored'
<1>1. phase'[t] = "read" /\ \A u \in Tests : u # t => phase'[u] = phase[u]
  BY TurnOne DEF CacheInv, Fresh, Exports
<1>2. pos[t] = 0
  BY DEF Stored
<1>3. DOMAIN out' = Tests /\ out'[t] = x /\ \A u \in Tests : u # t => out'[u] = out[u]
  BY DEF Exports, Stored
<1>4. Len(x.rows) \in Nat
  BY TableTypes
<1>5. ASSUME NEW u \in Tests
      PROVE  /\ IsTable(out'[u]) /\ pos[u] \in Nat /\ pos[u] <= Len(out'[u].rows) + 2
             /\ pos[u] # 0 =>
                   /\ phase'[u] \in {"updating", "creating", "passed", "failed", "killed"}
                   /\ HasColumn(out'[u], Key)
  <2>1. CASE u = t
    BY <1>2, <1>3, <1>4, <2>1
  <2>2. CASE u # t
    BY <1>1, <1>3, <2>2 DEF Stored
  <2> QED BY <2>1, <2>2
<1> QED BY <1>3, <1>5 DEF Stored

(* The dump that a test reads has one of the tables of the fixture.        *)
LEMMA DumpHasTable ==
    ASSUME CacheInv, Dated, NEW t \in Tests
    PROVE  IsTable(scenario.outputs[dump.of][t]) /\ dump.of \in Nat /\ dump.of <= MaxEdits
<1>1. dump.of \in Nat /\ dump.at \in Nat /\ edits \in Nat /\ MaxEdits \in Nat
  BY SuiteAssumption DEF CacheInv, DumpType
<1>2. dump.of \in 0 .. MaxEdits
  BY <1>1 DEF Dated
<1>3. IsTable(scenario.outputs[dump.of][t])
  BY <1>2, SuiteAssumption DEF CacheInv
<1> QED BY <1>2, <1>3, <1>1

(* A writer at its place: it has a table with an id column, and the line   *)
(* for that place.                                                         *)
LEMMA LineToWrite ==
    ASSUME Stored, NEW t \in Tests, pos[t] > 0
    PROVE  /\ IsTable(out[t]) /\ HasColumn(out[t], Key) /\ Lined(SnapshotLines(out[t]))
           /\ pos[t] \in Nat \ {0} /\ Len(out[t].rows) \in Nat
           /\ Len(SnapshotLines(out[t])) = Len(out[t].rows) + 1
           /\ ~ Ready(t) => /\ LineAt(SnapshotLines(out[t])[pos[t]], pos[t])
                            /\ pos[t] <= Len(SnapshotLines(out[t]))
<1>1. IsTable(out[t]) /\ HasColumn(out[t], Key) /\ pos[t] \in Nat \ {0}
  BY DEF Stored
<1>2. Len(out[t].rows) \in Nat
  BY <1>1, TableTypes
<1>3. Lined(SnapshotLines(out[t])) /\ Len(SnapshotLines(out[t])) = Len(out[t].rows) + 1
  BY <1>1, <1>2, LinesOfTable
<1>4. ~ Ready(t) => pos[t] \in 1 .. Len(SnapshotLines(out[t]))
  BY <1>1, <1>2, <1>3 DEF Ready
<1> QED BY <1>1, <1>2, <1>3, <1>4 DEF Lined

LEMMA WriteLineKeepsStored ==
    ASSUME Stored, NEW t \in Tests, WriteLine(t)
    PROVE  Stored'
<1> DEFINE l == SnapshotLines(out[t])[pos[t]]
           s == Put(file.lines, pos[t], l)
<1>1. /\ Writes(t) /\ pos[t] > 0 /\ ~ Ready(t) /\ UNCHANGED <<phase, update, out, seen>>
      /\ file' = File(s) /\ pos' = [pos EXCEPT ![t] = pos[t] + 1]
  BY DEF WriteLine
<1>2. /\ LineAt(l, pos[t]) /\ pos[t] \in Nat \ {0} /\ HasColumn(out[t], Key)
      /\ pos[t] <= Len(out[t].rows) + 1 /\ Len(out[t].rows) \in Nat
  BY <1>1, LineToWrite
<1>3. Lined(file.lines)
  BY FileIsLined DEF Stored
<1> HIDE DEF l
<1>4. Lined(s)
  BY <1>2, <1>3, PutLine
<1> HIDE DEF s
<1>5. IsFile(file')
  BY <1>1, <1>4, LinedFile
<1>6. DOMAIN pos' = Tests /\ pos'[t] = pos[t] + 1 /\ \A u \in Tests : u # t => pos'[u] = pos[u]
  BY <1>1 DEF Stored
<1>7. ASSUME NEW u \in Tests
      PROVE  /\ pos'[u] \in Nat /\ pos'[u] <= Len(out[u].rows) + 2
             /\ pos'[u] # 0 =>
                   /\ phase[u] \in {"updating", "creating", "passed", "failed", "killed"}
                   /\ HasColumn(out[u], Key)
  <2>1. CASE u = t
    BY <1>1, <1>2, <1>6, <2>1 DEF Writes
  <2>2. CASE u # t
    BY <1>6, <2>2 DEF Stored
  <2> QED BY <2>1, <2>2
<1> QED BY <1>1, <1>5, <1>6, <1>7 DEF Stored

LEMMA CreateFileKeepsStored ==
    ASSUME Stored, NEW t \in Tests, CreateFile(t)
    PROVE  Stored'
<1>1. /\ Writes(t) /\ HasColumn(out[t], Key) /\ UNCHANGED <<phase, update, out, seen>>
      /\ file' = File(<<>>) /\ pos' = [pos EXCEPT ![t] = 1]
  BY DEF CreateFile
<1>2. IsFile(file')
  BY <1>1, NoLines, LinedFile
<1>3. DOMAIN pos' = Tests /\ pos'[t] = 1 /\ \A u \in Tests : u # t => pos'[u] = pos[u]
  BY <1>1 DEF Stored
<1>4. Len(out[t].rows) \in Nat
  BY TableTypes DEF Stored
<1>5. ASSUME NEW u \in Tests
      PROVE  /\ pos'[u] \in Nat /\ pos'[u] <= Len(out[u].rows) + 2
             /\ pos'[u] # 0 =>
                   /\ phase[u] \in {"updating", "creating", "passed", "failed", "killed"}
                   /\ HasColumn(out[u], Key)
  <2>1. CASE u = t
    BY <1>1, <1>3, <1>4, <2>1 DEF Writes
  <2>2. CASE u # t
    BY <1>3, <2>2 DEF Stored
  <2> QED BY <2>1, <2>2
<1> QED BY <1>1, <1>2, <1>3, <1>5 DEF Stored

LEMMA StoreKeepsStored ==
    ASSUME CacheInv, Stored, NEW t \in Tests, StoreStep(t)
    PROVE  Stored'
<1>1. CASE CreateFile(t)
  BY <1>1, CreateFileKeepsStored
<1>2. CASE WriteLine(t)
  BY <1>2, WriteLineKeepsStored
<1>3. CASE Compare(t)
  <2>1. /\ Turn(t, "passed") \/ Turn(t, "failed")
        /\ UNCHANGED <<update, out, file, pos>> /\ DOMAIN seen' = Tests
    BY <1>3 DEF Compare, Stored
  <2> QED BY <2>1, TurnKeepsStored
<1>4. CASE ~ (CreateFile(t) \/ WriteLine(t) \/ Compare(t))
  <2>1. /\ UNCHANGED storeVars
        /\ \E p \in {"updating", "creating", "comparing", "passed", "failed"} :
              Turn(t, p) /\ (p = "comparing" => phase[t] = "read")
    BY <1>4 DEF StoreStep, StartUpdate, StartCreate, StartCompare, Written, WriteFails
  <2>2. phase[t] = "read" => pos[t] = 0
    BY DEF Stored
  <2>3. UNCHANGED <<update, out, file, pos>> /\ DOMAIN seen' = Tests
    BY <2>1 DEF storeVars, Stored
  <2> QED BY <2>1, <2>2, <2>3, TurnKeepsStored
<1> QED BY <1>1, <1>2, <1>3, <1>4

LEMMA StartRunKeepsStored ==
    ASSUME CacheInv, Stored, StartRun
    PROVE  Stored'
<1>1. update' \in BOOLEAN /\ file' = file
  BY SuiteAssumption DEF StartRun, CacheInv
<1>2. /\ DOMAIN out' = Tests /\ DOMAIN pos' = Tests /\ DOMAIN seen' = Tests
      /\ \A t \in Tests : out'[t] = NoTable /\ pos'[t] = 0
  BY DEF StartRun
<1>3. IsTable(NoTable) /\ Len(NoTable.rows) \in Nat
  BY NoTableIsTable, TableTypes
<1> QED BY <1>1, <1>2, <1>3 DEF Stored

LEMMA NextKeepsStored ==
    ASSUME CacheInv, TypeInv, [Next]_vars
    PROVE  Stored'
<1> USE DEF TypeInv
<1>1. CASE StartRun
  BY <1>1, StartRunKeepsStored
<1>2. CASE Kill
  <2>1. /\ \A t \in Tests : phase'[t] = IF Idle(t) THEN phase[t] ELSE "killed"
        /\ UNCHANGED storeVars
    BY <1>2 DEF Kill
  <2>2. \A t \in Tests :
           pos[t] # 0 => phase'[t] \in {"updating", "creating", "passed", "failed", "killed"}
    BY <2>1 DEF Stored
  <2> QED BY <2>1, <2>2 DEF Stored, storeVars
<1>3. CASE Edit \/ UNCHANGED vars \/ \E g \in Generator : Generate(g)
  <2>1. UNCHANGED <<phase, storeVars>>
    BY <1>3 DEF Edit, vars, Generate, GeneratorStep, Load, PgDump, Move, Download, Downloaded, Breaks
  <2> QED BY <2>1 DEF Stored, storeVars
<1>4. ASSUME NEW t \in Tests, CacheUses(t) PROVE Stored'
  <2>1. /\ phase[t] \in {"started", "generating"} /\ UNCHANGED storeVars
        /\ \E p : Turn(t, p)
    BY <1>4 DEF CacheUses, TestStep, UseCached, StartGenerator, Generated, GenerationFails
  <2>2. pos[t] = 0 /\ UNCHANGED <<update, out, file, pos>> /\ DOMAIN seen' = Tests
    BY <2>1 DEF storeVars, Stored
  <2> QED BY <2>1, <2>2, TurnKeepsStored
<1>5. ASSUME NEW t \in Tests, ReadWhole(t) \/ ReadPartial(t) PROVE Stored'
  <2>1. phase[t] = "found" /\ UNCHANGED <<update, file, pos, seen>>
    BY <1>5 DEF ReadWhole, ReadPartial
  <2> DEFINE x == scenario.outputs[dump.of][t]
  <2>2. IsTable(x)
    BY DumpHasTable
  <2>3. Exports(t, x) \/ \E n \in 0 .. Len(x.rows) : Exports(t, FirstRows(x, n))
    BY <1>5 DEF ReadWhole, ReadPartial
  <2> HIDE DEF x
  <2>4. CASE Exports(t, x)
    BY <2>1, <2>2, <2>4, ReadKeepsStored
  <2>5. ASSUME NEW n \in 0 .. Len(x.rows), Exports(t, FirstRows(x, n)) PROVE Stored'
    <3>1. IsTable(FirstRows(x, n))
      BY <2>2, FirstRowsTable
    <3> QED BY <2>1, <2>5, <3>1, ReadKeepsStored
  <2> QED BY <2>3, <2>4, <2>5
<1>6. ASSUME NEW t \in Tests, ReadFails(t) PROVE Stored'
  <2>1. Turn(t, "failed") /\ UNCHANGED <<update, out, file, pos, seen>>
    BY <1>6 DEF ReadFails, storeVars
  <2> QED BY <2>1, TurnKeepsStored DEF Stored
<1>7. ASSUME NEW t \in Tests, Asserts(t) PROVE Stored'
  BY <1>7, StoreKeepsStored DEF Asserts
<1> QED BY <1>1, <1>2, <1>3, <1>4, <1>5, <1>6, <1>7 DEF Next, Work

LEMMA GeneratorKeepsDated ==
    ASSUME CacheInv, Dated, NEW g \in Generator, GeneratorStep(g)
    PROVE  Dated'
<1>1. edits \in Nat /\ gens[g] \in GenState /\ DOMAIN gens = Generator /\ UNCHANGED <<kind, edits>>
  BY DEF CacheInv, GenType, GeneratorStep, Load, PgDump, Move, Download, Downloaded, Breaks
<1>2. gens[g].of \in Nat /\ gens[g].at \in Nat /\ dump.of \in Nat /\ dump.at \in Nat
  BY <1>1 DEF CacheInv, GenState, DumpType
<1>3. ASSUME NEW x, gens' = [gens EXCEPT ![g] = x],
             x.pc = "loaded" => x.of <= edits,
             x.pc = "dumped" => x.of <= x.at /\ x.at <= edits,
             dump'.of <= dump'.at, dump'.at <= edits
      PROVE  Dated'
  <2>1. gens'[g] = x /\ \A h \in Generator : h # g => gens'[h] = gens[h]
    BY <1>1, <1>3
  <2>2. \A h \in Generator :
          /\ gens'[h].pc = "loaded" => gens'[h].of <= edits
          /\ gens'[h].pc = "dumped" => gens'[h].of <= gens'[h].at /\ gens'[h].at <= edits
    BY <1>3, <2>1 DEF Dated
  <2>3. kind' = kind /\ edits' = edits /\ Generator' = Generator
    BY <1>1 DEF Generator
  <2> QED BY <1>3, <2>2, <2>3 DEF Dated
<1>4. CASE Load(g)
  <2> DEFINE x == [pc |-> "loaded", of |-> edits, at |-> 0]
  <2>1. gens' = [gens EXCEPT ![g] = x] /\ dump' = dump
    BY <1>4 DEF Load
  <2>2. x.of <= edits /\ x.pc = "loaded"
    BY <1>1
  <2> HIDE DEF x
  <2> QED BY <1>3, <2>1, <2>2 DEF Dated
<1>5. CASE PgDump(g)
  <2> DEFINE x == [pc |-> "dumped", of |-> gens[g].of, at |-> edits]
  <2>1. gens' = [gens EXCEPT ![g] = x] /\ dump' = dump /\ gens[g].pc = "loaded"
    BY <1>5 DEF PgDump
  <2>2. x.of <= x.at /\ x.at <= edits /\ x.pc = "dumped"
    BY <1>1, <2>1 DEF Dated
  <2> HIDE DEF x
  <2> QED BY <1>3, <2>1, <2>2 DEF Dated
<1>6. CASE Move(g)
  <2> DEFINE x == [pc |-> "ended", of |-> 0, at |-> 0]
  <2>1. /\ gens' = [gens EXCEPT ![g] = x] /\ gens[g].pc = "dumped"
        /\ dump'.of = gens[g].of /\ dump'.at = gens[g].at
    BY <1>6 DEF Move, Proceed, Gen, Dump
  <2>2. x.pc = "ended"
    OBVIOUS
  <2> HIDE DEF x
  <2>3. dump'.of <= dump'.at /\ dump'.at <= edits
    BY <2>1 DEF Dated
  <2> QED BY <1>3, <2>1, <2>2, <2>3
<1>7. CASE Download(g) \/ Downloaded(g) \/ Breaks(g)
  <2>1. PICK q \in {"ended", "failed", "downloading"} :
           gens' = [gens EXCEPT ![g] = [pc |-> q, of |-> 0, at |-> 0]]
    BY <1>7 DEF Download, Downloaded, Breaks, Proceed, Gen
  <2>2. \/ dump'.of = dump.of /\ dump'.at = dump.at
        \/ dump'.of = 0 /\ dump'.at = 0
    <3>1. CASE Download(g)
      BY <3>1 DEF Download, Dump
    <3>2. CASE Downloaded(g)
      <4>1. dump' = dump \/ \E x \in {"whole", "page"} : dump' = [dump EXCEPT !.state = x]
        BY <3>2 DEF Downloaded
      <4> QED BY <4>1 DEF CacheInv, DumpType
    <3>3. CASE Breaks(g)
      BY <3>3 DEF Breaks
    <3> QED BY <1>7, <3>1, <3>2, <3>3
  <2>3. dump'.of <= dump'.at /\ dump'.at <= edits
    BY <1>1, <1>2, <2>2 DEF Dated
  <2> DEFINE x == [pc |-> q, of |-> 0, at |-> 0]
  <2>4. x.pc = q
    OBVIOUS
  <2>5. gens' = [gens EXCEPT ![g] = x]
    BY <2>1
  <2> HIDE DEF x
  <2> QED BY <1>3, <2>3, <2>4, <2>5
<1> QED BY <1>4, <1>5, <1>6, <1>7 DEF GeneratorStep

LEMMA NextKeepsDated ==
    ASSUME CacheInv, TypeInv, [Next]_vars
    PROVE  Dated'
<1> USE DEF TypeInv
<1>0. Generator' = Generator
  BY DEF Generator
<1>1. CASE UNCHANGED cacheVars
  BY <1>0, <1>1 DEF Dated, cacheVars
<1>2. CASE Edit
  <2>1. /\ edits \in Nat /\ edits' = edits + 1 /\ edits' <= MaxEdits /\ MaxEdits \in Nat
        /\ UNCHANGED <<kind, dump, gens>> /\ dump.at \in Nat
        /\ \A g \in Generator : gens[g].of \in Nat /\ gens[g].at \in Nat
    BY <1>2, SuiteAssumption DEF Edit, CacheInv, DumpType, GenType, GenState
  <2> QED BY <1>0, <2>1 DEF Dated
<1>3. ASSUME NEW t \in Tests, StartGenerator(t) PROVE Dated'
  <2> DEFINE x == [pc |-> "begun", of |-> 0, at |-> 0]
  <2>1. gens' = [gens EXCEPT ![<<run, t>>] = x] /\ UNCHANGED <<kind, edits, dump>>
    BY <1>3 DEF StartGenerator, Gen
  <2>2. x.pc = "begun"
    OBVIOUS
  <2> HIDE DEF x
  <2>3. \A g \in Generator : gens'[g] = gens[g] \/ gens'[g].pc = "begun"
    BY <2>1, <2>2 DEF CacheInv, GenType
  <2> QED BY <1>0, <2>1, <2>3 DEF Dated
<1>4. ASSUME NEW g \in Generator, Generate(g) PROVE Dated'
  BY <1>4, GeneratorKeepsDated DEF Generate
<1>5. UNCHANGED cacheVars \/ Edit \/ (\E t \in Tests : StartGenerator(t)) \/ \E g \in Generator : Generate(g)
  BY DEF Next, StartRun, Kill, Work, CacheUses, TestStep, UseCached, Generated, GenerationFails,
         ReadWhole, ReadPartial, ReadFails, Asserts, vars
<1> QED BY <1>1, <1>2, <1>3, <1>4, <1>5

(* Every state satisfies TypeInv.                                          *)
LEMMA TypeInvariant == Spec => []TypeInv
<1>1. CacheInv /\ TypeInv /\ [Next]_vars => TypeInv'
  BY NextKeepsStored, NextKeepsDated DEF TypeInv
<1> QED BY InitTypes, CacheInvariant, <1>1, PTL DEF Spec

(* TypeOK, for any tests, scenarios and number of runs: among others, no   *)
(* dump is newer than the fixture, the snapshot is lines of columns and    *)
(* cells however the writers race, no writer goes past its last line, and  *)
(* only the tests of the run do anything.                                  *)
THEOREM TypeCorrect == Spec => []TypeOK
<1>1. CacheInv /\ ReviewInv /\ TypeInv => TypeOK
  <2> SUFFICES ASSUME CacheInv, ReviewInv, TypeInv PROVE TypeOK
    OBVIOUS
  <2>1. CacheTypeOK
    BY DEF CacheInv, TypeInv, Dated, CacheTypeOK, GenType, GenState, DumpType, Places
  <2>2. StoreTypeOK
    BY DEF TypeInv, Stored, StoreTypeOK
  <2> QED BY <2>1, <2>2 DEF TypeOK, ReviewInv, InScenario, ByChosen
<1> QED BY <1>1, CacheInvariant, ReviewInvariant, TypeInvariant, PTL

-----------------------------------------------------------------------------
SeenFirst(s) == s = before.file.lines \/ \E u \in Chosen : phase[u] \in {"creating", "failed", "killed"}

MatchesOutput(s, a) ==
    Readable(s) /\ IsTable(Snapshot(s)) /\ DiffTables(Snapshot(s), a, Key) = {}

(* The phases of the others stay, and a test that creates fails.           *)
LEMMA TurnKeepsAgreed ==
    ASSUME ReviewInv, Agreed, NEW t \in Tests, NEW p, Turn(t, p),
           UNCHANGED <<run, scenario, update, before>>,
           \A u \in Tests : phase[u] = "passed" => out'[u] = out[u] /\ seen'[u] = seen[u],
           phase[t] = "passed" => p = "passed",
           phase[t] \in {"creating", "failed", "killed"} => p \in {"creating", "failed", "killed"},
           run > 0 /\ ~ update /\ p = "passed" =>
               MatchesOutput(seen'[t], out'[t]) /\ SeenFirst(seen'[t])
    PROVE  Agreed'
<1> SUFFICES ASSUME run > 0, ~ update PROVE Agreed'
  BY DEF Agreed
<1>1. phase'[t] = p /\ \A u \in Tests : u # t => phase'[u] = phase[u]
  BY TurnOne DEF ReviewInv
<1>2. Chosen' = Chosen /\ Chosen \subseteq Tests
  BY ChosenTests DEF Chosen, ReviewInv
<1>3. ASSUME NEW s, SeenFirst(s)
      PROVE  s = before.file.lines \/ \E u \in Chosen : phase'[u] \in {"creating", "failed", "killed"}
  BY <1>1, <1>2, <1>3 DEF SeenFirst
<1>4. ASSUME NEW v \in Tests, phase'[v] = "passed"
      PROVE  MatchesOutput(seen'[v], out'[v]) /\ SeenFirst(seen'[v])
  <2>1. CASE phase[v] = "passed"
    BY <2>1 DEF Agreed, MatchesOutput, SeenFirst
  <2>2. CASE phase[v] # "passed"
    BY <1>1, <1>4, <2>2
  <2> QED BY <2>1, <2>2
<1>5. \A v \in Tests : phase'[v] = "passed" =>
         /\ Readable(seen'[v]) /\ IsTable(Snapshot(seen'[v]))
         /\ DiffTables(Snapshot(seen'[v]), out'[v], Key) = {}
         /\ \/ seen'[v] = before.file.lines
            \/ \E u \in Chosen : phase'[u] \in {"creating", "failed", "killed"}
  BY <1>3, <1>4 DEF MatchesOutput
<1> QED BY <1>2, <1>5 DEF Agreed

LEMMA StoreKeepsAgreed ==
    ASSUME CacheInv, ReviewInv, TypeInv, Agreed, NEW t \in Tests, Asserts(t)
    PROVE  Agreed'
<1>1. UNCHANGED <<run, scenario, before>> /\ StoreStep(t)
  BY DEF Asserts
<1>2. CASE CreateFile(t) \/ WriteLine(t)
  <2>1. UNCHANGED <<phase, update, out, seen>>
    BY <1>2 DEF CreateFile, WriteLine
  <2> QED BY <1>1, <2>1 DEF Agreed, Chosen
<1>3. CASE Compare(t)
  <2>1. /\ phase[t] = "comparing" /\ UNCHANGED <<update, out>>
        /\ seen' = [seen EXCEPT ![t] = file.lines]
        /\ \E p \in {"passed", "failed"} :
              /\ Turn(t, p)
              /\ p = "passed" =>
                    Readable(file.lines) /\ DiffTables(Snapshot(file.lines), out[t], Key) = {}
    BY <1>3 DEF Compare
  <2>2. DOMAIN seen = Tests /\ Lined(file.lines)
    BY FileIsLined DEF TypeInv, Stored
  <2>3. seen'[t] = file.lines /\ \A u \in Tests : u # t => seen'[u] = seen[u]
    BY <2>1, <2>2
  <2>4. PICK p \in {"passed", "failed"} :
           /\ Turn(t, p)
           /\ p = "passed" =>
                 Readable(file.lines) /\ DiffTables(Snapshot(file.lines), out[t], Key) = {}
    BY <2>1
  <2>5. p = "passed" => MatchesOutput(seen'[t], out'[t])
    BY <2>1, <2>2, <2>3, <2>4, ReadableIsTable DEF MatchesOutput
  <2>6. run > 0 /\ ~ update => SeenFirst(file.lines)
    BY DEF ReviewInv, Reviewed, SeenFirst
  <2>7. \A u \in Tests : phase[u] = "passed" => out'[u] = out[u] /\ seen'[u] = seen[u]
    BY <2>1, <2>3
  <2>8. UNCHANGED <<run, scenario, update, before>>
    BY <1>1, <2>1
  <2> QED BY <2>1, <2>3, <2>4, <2>5, <2>6, <2>7, <2>8, TurnKeepsAgreed
<1>4. CASE ~ (CreateFile(t) \/ WriteLine(t) \/ Compare(t))
  <2>1. /\ UNCHANGED storeVars
        /\ phase[t] \notin {"failed", "killed", "passed"}
        /\ \E p \in {"updating", "creating", "comparing", "passed", "failed"} :
              /\ Turn(t, p)
              /\ p = "passed" => phase[t] = "updating"
              /\ phase[t] = "creating" => p = "failed"
    BY <1>1, <1>4 DEF StoreStep, StartUpdate, StartCreate, StartCompare, Written, WriteFails, Writes
  <2>2. run > 0 /\ ~ update => phase[t] # "updating"
    BY DEF ReviewInv, Reviewed
  <2>3. UNCHANGED <<run, scenario, update, before, out, seen>>
    BY <1>1, <2>1 DEF storeVars
  <2> QED BY <2>1, <2>2, <2>3, TurnKeepsAgreed
<1> QED BY <1>2, <1>3, <1>4

LEMMA NextKeepsAgreed ==
    ASSUME CacheInv, ReviewInv, TypeInv, Agreed, [Next]_vars
    PROVE  Agreed'
<1>1. CASE StartRun
  <2>1. \A t \in Tests : phase'[t] # "passed"
    BY <1>1 DEF StartRun
  <2> QED BY <2>1 DEF Agreed
<1>2. CASE Kill
  <2>1. /\ UNCHANGED <<run, scenario, update, before, out, seen>>
        /\ \A t \in Tests : phase'[t] = IF Idle(t) THEN phase[t] ELSE "killed"
    BY <1>2 DEF Kill, storeVars
  <2>2. run > 0 => Chosen \subseteq Tests
    BY ChosenTests DEF ReviewInv
  <2>3. Chosen' = Chosen
    BY <2>1 DEF Chosen
  <2>4. \A u \in Tests : phase[u] \in {"creating", "failed", "killed"} =>
           phase'[u] \in {"creating", "failed", "killed"}
    BY <2>1 DEF Idle
  <2>5. \A u \in Tests : phase'[u] = "passed" => phase[u] = "passed"
    BY <2>1
  <2> QED BY <2>1, <2>2, <2>3, <2>4, <2>5 DEF Agreed
<1>3. CASE Edit \/ UNCHANGED vars \/ \E g \in Generator : Generate(g)
  <2>1. UNCHANGED <<phase, run, scenario, update, before, out, seen>>
    BY <1>3 DEF Edit, vars, storeVars, Generate, GeneratorStep, Load, PgDump, Move, Download,
                Downloaded, Breaks
  <2> QED BY <2>1 DEF Agreed, Chosen
<1>4. ASSUME NEW t \in Tests, CacheUses(t) PROVE Agreed'
  <2>1. /\ phase[t] \in {"started", "generating"} /\ UNCHANGED <<run, scenario, update, before, out, seen>>
        /\ \E p \in {"found", "generating", "failed"} : Turn(t, p)
    BY <1>4 DEF CacheUses, TestStep, UseCached, StartGenerator, Generated, GenerationFails, storeVars
  <2> QED BY <2>1, TurnKeepsAgreed
<1>5. ASSUME NEW t \in Tests, ReadWhole(t) \/ ReadPartial(t) \/ ReadFails(t) PROVE Agreed'
  <2>1. /\ phase[t] = "found" /\ UNCHANGED <<run, scenario, update, before, seen>>
        /\ \E p \in {"read", "failed"} : Turn(t, p)
        /\ out' = out \/ \E x : out' = [out EXCEPT ![t] = x]
    BY <1>5 DEF ReadWhole, ReadPartial, ReadFails, Exports, storeVars
  <2>2. \A u \in Tests : phase[u] = "passed" => out'[u] = out[u] /\ seen'[u] = seen[u]
    BY <2>1 DEF TypeInv, Stored
  <2> QED BY <2>1, <2>2, TurnKeepsAgreed
<1>6. ASSUME NEW t \in Tests, Asserts(t) PROVE Agreed'
  BY <1>6, StoreKeepsAgreed
<1> QED BY <1>1, <1>2, <1>3, <1>4, <1>5, <1>6 DEF Next, Work

LEMMA AgreedInvariant == Spec => []Agreed
<1>1. Init => Agreed
  BY DEF Init, Agreed
<1>2. CacheInv /\ ReviewInv /\ TypeInv /\ Agreed /\ [Next]_vars => Agreed'
  BY NextKeepsAgreed
<1> QED BY CacheInvariant, ReviewInvariant, TypeInvariant, <1>1, <1>2, PTL DEF Spec

(* PassedMeansSame, for any tests, tables and number of runs: a test       *)
(* passes only against a snapshot that was whole, with the same columns    *)
(* and, among the rows with an id, the same rows as often.                 *)
THEOREM PassedCorrect == Spec => []PassedMeansSame
<1>1. ReviewInv /\ TypeInv /\ Agreed => PassedMeansSame
  <2> SUFFICES ASSUME ReviewInv, TypeInv, Agreed, NEW t \in Chosen, phase[t] = "passed", ~ update
               PROVE  /\ Readable(seen[t])
                      /\ ToSet(Head(seen[t])) = ToSet(out[t].columns)
                      /\ SameRecords(Snapshot(seen[t]), out[t], Key)
    BY DEF PassedMeansSame
  <2>1. run > 0 /\ t \in Tests
    <3>1. run \in Nat /\ run # 0
      BY DEF Chosen, ReviewInv, InScenario
    <3>2. run > 0
      BY <3>1
    <3> QED BY <3>2, ChosenTests DEF ReviewInv
  <2>2. /\ Readable(seen[t]) /\ IsTable(Snapshot(seen[t]))
        /\ DiffTables(Snapshot(seen[t]), out[t], Key) = {}
    BY <2>1 DEF Agreed
  <2>3. Rowed(Snapshot(seen[t])) /\ Rowed(out[t])
    BY <2>1, <2>2, TableIsRowed DEF TypeInv, Stored
  <2>4. SameRecords(Snapshot(seen[t]), out[t], Key)
    BY <2>2, <2>3, NoDiffsSameRecords
  <2>5. ToSet(Snapshot(seen[t]).columns) = ToSet(out[t].columns)
    BY <2>2, NoDiffs DEF SameIds
  <2> QED BY <2>2, <2>4, <2>5 DEF Snapshot
<1> QED BY <1>1, ReviewInvariant, TypeInvariant, AgreedInvariant, PTL

-----------------------------------------------------------------------------
(* What one test does, with the generators and the dump as they are.       *)
LEMMA TurnKeepsCurrent ==
    ASSUME ReviewInv, Current, NEW t \in Tests, NEW p, Turn(t, p),
           UNCHANGED <<cacheVars, run, scenario, before, overtaken>>,
           \A u \in Tests : u # t => out'[u] = out[u],
           run > 0 /\ kind = "sql" /\ ~ overtaken /\ TestCurrent(t) =>
               /\ p \in AtWork => phase[t] \in AtWork
               /\ p # "generating"
               /\ p = "found" => dump.state = "whole" /\ dump.of = edits
               /\ p \in {"read", "updating", "creating", "comparing", "passed"} =>
                     out'[t] = scenario.outputs[before.edits][t]
    PROVE  Current'
<1> SUFFICES ASSUME kind = "sql", ~ overtaken, UNCHANGED <<kind, overtaken>> PROVE Current'
  BY DEF Current, cacheVars
<1>1. phase'[t] = p /\ \A u \in Tests : u # t => phase'[u] = phase[u]
  BY TurnOne DEF ReviewInv
<1>2. GensCurrent' /\ DumpCurrent'
  BY DEF Current, GensCurrent, DumpCurrent, cacheVars, Generator
<1>3. ASSUME run > 0, NEW u \in Tests PROVE TestCurrent(u)'
  <2>1. TestCurrent(u) /\ TestCurrent(t)
    BY <1>3 DEF Current
  <2>2. CASE u = t
    BY <1>1, <1>3, <2>1, <2>2 DEF TestCurrent, cacheVars
  <2>3. CASE u # t
    BY <1>1, <2>1, <2>3 DEF TestCurrent, cacheVars
  <2> QED BY <2>2, <2>3
<1> QED BY <1>2, <1>3 DEF Current

LEMMA StartGeneratorKeepsCurrent ==
    ASSUME CacheInv, ReviewInv, Current, NEW t \in Tests, CacheUses(t), StartGenerator(t)
    PROVE  Current'
<1> DEFINE x == [pc |-> "begun", of |-> 0, at |-> 0]
<1>1. /\ UNCHANGED <<kind, edits, dump, run, scenario, before, overtaken, out>>
      /\ phase[t] = "started" /\ Turn(t, "generating") /\ gens' = [gens EXCEPT ![<<run, t>>] = x]
  BY DEF CacheUses, StartGenerator, Gen, storeVars
<1> SUFFICES ASSUME kind = "sql", ~ overtaken PROVE Current'
  BY <1>1 DEF Current
<1>2. x.pc = "begun"
  OBVIOUS
<1> HIDE DEF x
<1>3. run > 0 /\ <<run, t>> \in Generator
  BY <1>1, StartedInARun
<1>4. /\ gens'[<<run, t>>].pc = "begun"
      /\ \A g \in Generator : g # <<run, t>> => gens'[g] = gens[g]
  BY <1>1, <1>2, <1>3 DEF CacheInv, GenType
<1>5. phase'[t] = "generating" /\ \A u \in Tests : u # t => phase'[u] = phase[u]
  BY <1>1, TurnOne DEF ReviewInv
<1>6. GensCurrent' /\ DumpCurrent'
  <2>1. \A g \in Generator : gens'[g] = gens[g] \/ gens'[g].pc = "begun"
    BY <1>4
  <2> QED BY <1>1, <2>1 DEF Current, GensCurrent, DumpCurrent, Generator
<1>7. ASSUME NEW u \in Tests PROVE TestCurrent(u)'
  <2>1. TestCurrent(u)
    BY <1>3 DEF Current
  <2>2. CASE u = t
    BY <1>1, <1>4, <1>5, <2>1, <2>2 DEF TestCurrent, AtWork
  <2>3. CASE u # t
    <3>1. phase[u] = "generating" => gens'[<<run, u>>] = gens[<<run, u>>]
      <4>1. phase[u] # "idle" => <<run, u>> \in Generator
        BY StartedInARun
      <4> QED BY <1>4, <2>3, <4>1
    <3> QED BY <1>1, <1>5, <2>1, <2>3, <3>1 DEF TestCurrent
  <2> QED BY <2>2, <2>3
<1> QED BY <1>6, <1>7 DEF Current

LEMMA GeneratorKeepsCurrent ==
    ASSUME CacheInv, Current, NEW g \in Generator, Generate(g)
    PROVE  Current'
<1>1. /\ UNCHANGED <<kind, edits, phase, run, scenario, before, overtaken, out>>
      /\ Generator' = Generator
  BY DEF Generate, GeneratorStep, Load, PgDump, Move, Download, Downloaded, Breaks, storeVars, Generator
<1> SUFFICES ASSUME kind = "sql", ~ overtaken PROVE Current'
  BY <1>1 DEF Current
<1>2. GensCurrent /\ DumpCurrent /\ (run > 0 => \A t \in Tests : TestCurrent(t))
  BY DEF Current
<1>3. ASSUME NEW x, gens' = [gens EXCEPT ![g] = x],
             x.pc = "loaded" => x.of = edits,
             x.pc = "dumped" => x.of = edits /\ x.at = edits,
             x.pc # "downloading",
             \/ dump' = dump /\ x.pc # "ended"
             \/ dump'.state = "whole" /\ dump'.of = edits /\ dump'.at = edits
      PROVE  Current'
  <2>1. gens'[g] = x /\ \A h \in Generator : h # g => gens'[h] = gens[h]
    BY <1>3 DEF CacheInv, GenType
  <2>2. GensCurrent'
    BY <1>1, <1>2, <1>3, <2>1 DEF GensCurrent
  <2>3. DumpCurrent'
    BY <1>2, <1>3 DEF DumpCurrent
  <2>4. ASSUME run > 0, NEW t \in Tests PROVE TestCurrent(t)'
    <3>1. TestCurrent(t)
      BY <1>2, <2>4
    <3>2. phase[t] = "generating" =>
             gens'[<<run, t>>] = gens[<<run, t>>] \/ gens'[<<run, t>>] = x
      <4>1. phase[t] # "idle" => <<run, t>> \in Generator
        BY StartedInARun
      <4> QED BY <2>1, <4>1
    <3> QED BY <1>1, <1>3, <3>1, <3>2 DEF TestCurrent
  <2> QED BY <1>1, <2>2, <2>3, <2>4 DEF Current
<1>4. CASE Load(g)
  <2> DEFINE x == [pc |-> "loaded", of |-> edits, at |-> 0]
  <2>1. gens' = [gens EXCEPT ![g] = x] /\ dump' = dump
    BY <1>4 DEF Load
  <2>2. x.of = edits /\ x.pc = "loaded"
    OBVIOUS
  <2> HIDE DEF x
  <2> QED BY <1>3, <2>1, <2>2
<1>5. CASE PgDump(g)
  <2> DEFINE x == [pc |-> "dumped", of |-> gens[g].of, at |-> edits]
  <2>1. gens' = [gens EXCEPT ![g] = x] /\ dump' = dump /\ gens[g].pc = "loaded"
    BY <1>5 DEF PgDump
  <2>2. x.of = edits /\ x.at = edits /\ x.pc = "dumped"
    BY <1>2, <2>1 DEF GensCurrent
  <2> HIDE DEF x
  <2> QED BY <1>3, <2>1, <2>2
<1>6. CASE Move(g)
  <2> DEFINE x == [pc |-> "ended", of |-> 0, at |-> 0]
  <2>1. /\ gens' = [gens EXCEPT ![g] = x] /\ gens[g].pc = "dumped"
        /\ dump'.state = "whole" /\ dump'.of = gens[g].of /\ dump'.at = gens[g].at
    BY <1>6 DEF Move, Proceed, Gen, Dump
  <2>2. x.pc = "ended"
    OBVIOUS
  <2> HIDE DEF x
  <2> QED BY <1>2, <1>3, <2>1, <2>2 DEF GensCurrent
<1>7. CASE Breaks(g)
  <2> DEFINE x == [pc |-> "failed", of |-> 0, at |-> 0]
  <2>1. gens' = [gens EXCEPT ![g] = x] /\ dump' = dump
    BY <1>7 DEF Breaks, Gen
  <2>2. x.pc = "failed"
    OBVIOUS
  <2> HIDE DEF x
  <2> QED BY <1>3, <2>1, <2>2
<1>8. ~ Download(g) /\ ~ Downloaded(g)
  BY <1>2 DEF Download, Downloaded, Proceed, GensCurrent
<1> QED BY <1>4, <1>5, <1>6, <1>7, <1>8 DEF Generate, GeneratorStep

LEMMA EditKeepsCurrent ==
    ASSUME CacheInv, ReviewInv, Current, Edit
    PROVE  Current'
<1>1. /\ UNCHANGED <<kind, dump, gens, run, phase, out, scenario, before>>
      /\ overtaken' = (overtaken \/ ~ Quiet \/ \E g \in Generator : Running(g))
  BY DEF Edit, storeVars
<1> SUFFICES ASSUME kind = "sql", ~ overtaken'  PROVE Current'
  BY <1>1 DEF Current
<1>2. ~ overtaken /\ Quiet /\ \A g \in Generator : ~ Running(g)
  BY <1>1
<1>3. GensCurrent'
  BY <1>1, <1>2 DEF Running, GensCurrent, Generator
<1>4. DumpCurrent'
  BY <1>1, <1>2 DEF Current, DumpCurrent
<1>5. ASSUME run > 0, NEW t \in Tests PROVE TestCurrent(t)'
  <2>1. TestCurrent(t) /\ phase[t] \in {"idle", "passed", "failed", "killed"}
    BY <1>2, <1>5 DEF Current, Quiet, Idle
  <2> QED BY <1>1, <2>1 DEF TestCurrent, AtWork
<1> QED BY <1>1, <1>3, <1>4, <1>5 DEF Current

LEMMA WorkKeepsCurrent ==
    ASSUME CacheInv, ReviewInv, TypeInv, Current, Work
    PROVE  Current'
<1>1. ASSUME NEW t \in Tests, CacheUses(t) PROVE Current'
  <2>1. UNCHANGED <<run, scenario, before, overtaken, out>>
    BY <1>1 DEF CacheUses, storeVars
  <2>2. CASE UseCached(t)
    <3>1. phase[t] = "started" /\ Cached /\ Turn(t, "found") /\ UNCHANGED cacheVars
      BY <2>2 DEF UseCached
    <3>2. kind = "sql" /\ ~ overtaken => dump.state = "whole" /\ dump.of = edits
      <4> SUFFICES ASSUME kind = "sql", ~ overtaken PROVE dump.state = "whole" /\ dump.of = edits
        OBVIOUS
      <4>1. dump.state = "whole" /\ dump.at >= edits
        BY <3>1 DEF Cached, CacheInv, DumpType, Partly
      <4>2. dump.of = dump.at /\ dump.at <= edits
        BY <4>1 DEF Current, DumpCurrent, TypeInv, Dated
      <4> QED BY <4>1, <4>2 DEF CacheInv, DumpType
    <3> QED BY <2>1, <3>1, <3>2, TurnKeepsCurrent DEF AtWork
  <2>3. CASE StartGenerator(t)
    BY <1>1, <2>3, StartGeneratorKeepsCurrent
  <2>4. CASE Generated(t)
    <3>1. /\ phase[t] = "generating" /\ gens[<<run, t>>].pc = "ended"
          /\ Turn(t, "found") /\ UNCHANGED cacheVars
      BY <2>4 DEF Generated
    <3>2. TestCurrent(t) => dump.state = "whole" /\ dump.of = edits
      BY <3>1 DEF TestCurrent
    <3> QED BY <2>1, <3>1, <3>2, TurnKeepsCurrent DEF AtWork
  <2>5. CASE GenerationFails(t)
    <3>1. Turn(t, "failed") /\ UNCHANGED cacheVars
      BY <2>5 DEF GenerationFails
    <3> QED BY <2>1, <3>1, TurnKeepsCurrent DEF AtWork
  <2> QED BY <1>1, <2>2, <2>3, <2>4, <2>5 DEF CacheUses, TestStep
<1>2. ASSUME NEW t \in Tests, ReadWhole(t) PROVE Current'
  <2>1. /\ phase[t] = "found" /\ Turn(t, "read") /\ out' = [out EXCEPT ![t] = scenario.outputs[dump.of][t]]
        /\ UNCHANGED <<cacheVars, run, scenario, before, overtaken>>
    BY <1>2 DEF ReadWhole, Exports
  <2>2. /\ out'[t] = scenario.outputs[dump.of][t]
        /\ \A u \in Tests : u # t => out'[u] = out[u]
    BY <2>1 DEF TypeInv, Stored
  <2>3. TestCurrent(t) => dump.of = before.edits
    BY <2>1 DEF TestCurrent, AtWork
  <2> QED BY <2>1, <2>2, <2>3, TurnKeepsCurrent DEF AtWork
<1>3. ASSUME NEW t \in Tests, ReadPartial(t) PROVE Current'
  <2>1. kind' = kind /\ kind # "sql"
    BY <1>3 DEF ReadPartial, CacheInv, Partly, cacheVars
  <2> QED BY <2>1 DEF Current
<1>4. ASSUME NEW t \in Tests, ReadFails(t) PROVE Current'
  <2>1. Turn(t, "failed") /\ UNCHANGED <<cacheVars, run, scenario, before, overtaken, out>>
    BY <1>4 DEF ReadFails, storeVars
  <2> QED BY <2>1, TurnKeepsCurrent DEF AtWork
<1>5. ASSUME NEW t \in Tests, Asserts(t) PROVE Current'
  <2>1. UNCHANGED <<cacheVars, run, scenario, before, overtaken, out>> /\ StoreStep(t)
    BY <1>5 DEF Asserts, StoreStep, StartUpdate, StartCreate, StartCompare, Compare, CreateFile,
                WriteLine, Written, WriteFails, storeVars
  <2>2. phase[t] \in {"read", "updating", "creating", "comparing"}
    BY <2>1 DEF StoreStep, StartUpdate, StartCreate, StartCompare, Compare, CreateFile,
                WriteLine, Written, WriteFails, Writes
  <2>3. CASE UNCHANGED phase
    BY <2>1, <2>3 DEF Current, GensCurrent, DumpCurrent, TestCurrent, cacheVars, Generator
  <2>4. CASE \E p \in {"updating", "creating", "comparing", "passed", "failed"} : Turn(t, p)
    <3>1. TestCurrent(t) => out'[t] = scenario.outputs[before.edits][t]
      BY <2>1, <2>2 DEF TestCurrent
    <3>2. phase[t] \in AtWork
      BY <2>2 DEF AtWork
    <3> QED BY <2>1, <2>4, <3>1, <3>2, TurnKeepsCurrent
  <2> QED BY <2>1, <2>3, <2>4 DEF StoreStep, StartUpdate, StartCreate, StartCompare, Compare,
             CreateFile, WriteLine, Written, WriteFails
<1>6. ASSUME NEW g \in Generator, Generate(g) PROVE Current'
  BY <1>6, GeneratorKeepsCurrent
<1> QED BY <1>1, <1>2, <1>3, <1>4, <1>5, <1>6 DEF Work

LEMMA CurrentInvariant == Spec => []Current
<1>1. Init => Current
  BY DEF Init, CacheInit, Gen, Dump, Current, GensCurrent, DumpCurrent
<1>2. CacheInv /\ ReviewInv /\ TypeInv /\ Current /\ [Next]_vars => Current'
  <2> SUFFICES ASSUME CacheInv, ReviewInv, TypeInv, Current, [Next]_vars PROVE Current'
    OBVIOUS
  <2>1. CASE StartRun
    <3>1. /\ UNCHANGED <<kind, edits, dump, gens, overtaken>> /\ before'.edits = edits
          /\ \A t \in Tests : phase'[t] \in {"idle", "started"}
      BY <2>1 DEF StartRun, cacheVars
    <3> QED BY <3>1 DEF Current, GensCurrent, DumpCurrent, TestCurrent, Generator
  <2>2. CASE Kill
    <3>1. /\ UNCHANGED <<kind, edits, dump, gens, run, scenario, before, overtaken, out>>
          /\ \A t \in Tests :
                \/ phase'[t] = "killed"
                \/ phase'[t] = phase[t] /\ phase[t] \in {"idle", "passed", "failed", "killed"}
      BY <2>2 DEF Kill, cacheVars, storeVars, Idle
    <3> QED BY <3>1 DEF Current, GensCurrent, DumpCurrent, TestCurrent, Generator, AtWork
  <2>3. CASE UNCHANGED vars
    BY <2>3 DEF vars, cacheVars, storeVars, Current, GensCurrent, DumpCurrent, TestCurrent, Generator
  <2> QED BY <2>1, <2>2, <2>3, EditKeepsCurrent, WorkKeepsCurrent DEF Next
<1> QED BY CacheInvariant, ReviewInvariant, TypeInvariant, <1>1, <1>2, PTL DEF Spec

(* GreenMeansCurrent, for any tests, tables and number of runs: a green    *)
(* run that was not to update says that the fixture exports the snapshot,  *)
(* whichever dumps were cached, unless it was edited under the tests or    *)
(* under a generator.                                                      *)
THEOREM CurrentCorrect == Spec => []GreenMeansCurrent
<1>1. ReviewInv /\ TypeInv /\ Agreed /\ Current => GreenMeansCurrent
  <2> SUFFICES ASSUME ReviewInv, TypeInv, Agreed, Current, Green, kind = "sql", ~ overtaken, ~ update,
                      NEW t \in Chosen
               PROVE  SameRecords(Snapshot(file.lines), scenario.outputs[before.edits][t], Key)
    BY DEF GreenMeansCurrent
  <2>1. run > 0 /\ Chosen \subseteq Tests /\ \A u \in Chosen : phase[u] = "passed"
    BY ChosenTests DEF Green, ReviewInv
  <2>2. file = before.file
    BY <2>1 DEF ReviewInv, Reviewed
  <2>3. /\ IsTable(Snapshot(seen[t])) /\ DiffTables(Snapshot(seen[t]), out[t], Key) = {}
        /\ seen[t] = before.file.lines
    BY <2>1 DEF Agreed
  <2>4. out[t] = scenario.outputs[before.edits][t]
    BY <2>1 DEF Current, TestCurrent
  <2>5. Rowed(Snapshot(seen[t])) /\ Rowed(out[t])
    BY <2>1, <2>3, TableIsRowed DEF TypeInv, Stored
  <2>6. SameRecords(Snapshot(seen[t]), out[t], Key)
    BY <2>3, <2>5, NoDiffsSameRecords
  <2> QED BY <2>2, <2>3, <2>4, <2>6
<1> QED BY <1>1, ReviewInvariant, TypeInvariant, AgreedInvariant, CurrentInvariant, PTL

-----------------------------------------------------------------------------
(* A line written where it belongs.                                        *)
LEMMA HoldsPut ==
    ASSUME NEW s, Lined(s), NEW L, Len(L) \in Nat, Holds(s, L),
           NEW k \in Nat \ {0}, k <= Len(L), LineAt(L[k], k)
    PROVE  /\ Holds(Put(s, k, L[k]), L)
           /\ \A n \in Nat : WrittenTo(s, L, n) =>
                 /\ WrittenTo(Put(s, k, L[k]), L, n)
                 /\ n = k => WrittenTo(Put(s, k, L[k]), L, n + 1)
<1> DEFINE p == Put(s, k, L[k])
<1>1. /\ Len(p) = IF k > Len(s) THEN k ELSE Len(s)
      /\ \A j \in 1 .. Len(p) : p[j] = IF j = k THEN L[k] ELSE IF j <= Len(s) THEN s[j] ELSE Hole
  BY PutLine
<1>2. Len(s) \in Nat /\ Len(s) <= Len(L) /\ \A j \in 1 .. Len(s) : s[j] = L[j] \/ s[j] = Hole
  BY LinedLength DEF Holds
<1> HIDE DEF p
<1>3. Len(p) \in Nat /\ Len(p) <= Len(L) /\ k <= Len(p) /\ Len(s) <= Len(p)
  BY <1>1, <1>2
<1>4. ASSUME NEW j \in 1 .. Len(p) PROVE p[j] = L[j] \/ p[j] = Hole
  <2>1. CASE j = k
    BY <1>1, <2>1
  <2>2. CASE j # k /\ j <= Len(s)
    <3>1. j \in 1 .. Len(s) /\ p[j] = s[j]
      BY <1>1, <1>2, <1>3, <2>2
    <3> QED BY <1>2, <3>1
  <2>3. CASE j # k /\ ~ (j <= Len(s))
    BY <1>1, <2>3
  <2> QED BY <2>1, <2>2, <2>3
<1>5. Holds(p, L)
  BY <1>3, <1>4 DEF Holds
<1>6. ASSUME NEW n \in Nat, WrittenTo(s, L, n), NEW j \in 1 .. n - 1
      PROVE  j <= Len(p) /\ p[j] = L[j]
  <2>1. j <= Len(s) /\ s[j] = L[j]
    BY <1>6 DEF WrittenTo
  <2>2. j \in 1 .. Len(p)
    BY <1>2, <1>3, <2>1
  <2>3. p[j] = L[j]
    <3>1. CASE j = k
      BY <1>1, <2>2, <3>1
    <3>2. CASE j # k
      BY <1>1, <2>1, <2>2, <3>2
    <3> QED BY <3>1, <3>2
  <2> QED BY <2>2, <2>3
<1>7. k \in 1 .. Len(p) /\ p[k] = L[k]
  BY <1>1, <1>3
<1>8. ASSUME NEW n \in Nat, WrittenTo(s, L, n) PROVE WrittenTo(p, L, n)
  BY <1>6, <1>8 DEF WrittenTo
<1>9. ASSUME NEW n \in Nat, WrittenTo(s, L, n), n = k PROVE WrittenTo(p, L, n + 1)
  <2>1. ASSUME NEW j \in 1 .. n PROVE j <= Len(p) /\ p[j] = L[j]
    <3>1. CASE j = k
      BY <1>3, <1>7, <3>1
    <3>2. CASE j # k
      <4>1. j \in 1 .. n - 1
        BY <1>9, <3>2
      <4> QED BY <1>6, <1>9, <4>1
    <3> QED BY <3>1, <3>2
  <2>2. n + 1 - 1 = n
    OBVIOUS
  <2> QED BY <2>1, <2>2 DEF WrittenTo
<1> QED BY <1>5, <1>8, <1>9 DEF p

(* What a turn, or reading an output, leaves to the writers.               *)
LEMMA TurnKeepsUpdated ==
    ASSUME CacheInv, TypeInv, Updated, NEW t \in Tests, NEW p, Turn(t, p),
           UNCHANGED <<run, update, file, pos>>, \A u \in Tests : pos[u] # 0 => out'[u] = out[u],
           update => p \notin {"creating", "comparing"},
           phase[t] = "passed" => p = "passed",
           update /\ p = "passed" => pos[t] > 0 /\ Ready(t)
    PROVE  Updated'
<1> SUFFICES ASSUME run > 0, update PROVE Updated'
  BY DEF Updated
<1>1. phase'[t] = p /\ \A u \in Tests : u # t => phase'[u] = phase[u]
  BY TurnOne DEF CacheInv, Fresh
<1>2. Writers' = Writers /\ \A u \in Writers : out'[u] = out[u] /\ u \in Tests
  BY DEF Writers, TypeInv, Stored
<1>3. Ended /\ (OneTable /\ Writers # {} => \E w \in Writers : WriterHolds(w))
  BY DEF Updated
<1>4. \A u \in Writers : Ready(u) => Ready(u)'
  BY <1>2 DEF Ready
<1>5. \A u \in Writers : WriterHolds(u) => WriterHolds(u)'
  BY <1>2 DEF WriterHolds
<1>6. OneTable' => OneTable
  BY <1>2 DEF OneTable
<1>7. t \in Writers <=> pos[t] > 0
  BY DEF Writers
<1>8. Ended'
  BY <1>1, <1>2, <1>3, <1>4, <1>7 DEF Ended
<1> QED BY <1>2, <1>3, <1>5, <1>6, <1>8 DEF Updated

LEMMA CreateFileKeepsUpdated ==
    ASSUME TypeInv, Updated, NEW t \in Tests, CreateFile(t), UNCHANGED run
    PROVE  Updated'
<1> SUFFICES ASSUME run > 0, update PROVE Updated'
  BY DEF Updated, CreateFile
<1>1. /\ Writes(t) /\ HasColumn(out[t], Key) /\ pos[t] = 0 /\ UNCHANGED <<phase, update, out>>
      /\ file'.lines = <<>> /\ pos' = [pos EXCEPT ![t] = 1]
  BY DEF CreateFile, File
<1>2. pos'[t] = 1 /\ \A u \in Tests : u # t => pos'[u] = pos[u]
  BY <1>1 DEF TypeInv, Stored
<1>3. Ended'
  <2>1. \A u \in Tests : u \in Writers => u \in Writers' /\ u # t
    BY <1>1, <1>2 DEF Writers
  <2>2. \A u \in Tests : u # t /\ Ready(u) => Ready(u)'
    BY <1>1, <1>2 DEF Ready
  <2>3. Ended
    BY DEF Updated
  <2> QED BY <1>1, <2>1, <2>2, <2>3 DEF Ended
<1>4. t \in Writers'
  BY <1>2 DEF Writers
<1>5. Len(SnapshotLines(out[t])) \in Nat
  <2>1. IsTable(out[t]) /\ Len(out[t].rows) \in Nat
    BY TableTypes DEF TypeInv, Stored
  <2>2. Len(SnapshotLines(out[t])) = Len(out[t].rows) + 1
    BY <1>1, <2>1, LinesOfTable
  <2> QED BY <2>1, <2>2
<1>6. WriterHolds(t)'
  <2>1. Len(<<>>) = 0
    BY EmptySeq
  <2>2. Holds(<<>>, SnapshotLines(out[t]))
    BY <1>5, <2>1 DEF Holds
  <2>3. WrittenTo(<<>>, SnapshotLines(out[t]), 1)
    BY DEF WrittenTo
  <2> QED BY <1>1, <1>2, <2>2, <2>3 DEF WriterHolds
<1> QED BY <1>3, <1>4, <1>6 DEF Updated

LEMMA WriteLineKeepsUpdated ==
    ASSUME TypeInv, Updated, NEW t \in Tests, WriteLine(t), UNCHANGED run
    PROVE  Updated'
<1> SUFFICES ASSUME run > 0, update PROVE Updated'
  BY DEF Updated, WriteLine
<1> DEFINE L == SnapshotLines(out[t])
           s == Put(file.lines, pos[t], L[pos[t]])
<1>1. /\ pos[t] > 0 /\ ~ Ready(t) /\ UNCHANGED <<phase, update, out>>
      /\ file'.lines = s /\ pos' = [pos EXCEPT ![t] = pos[t] + 1]
  BY DEF WriteLine, File
<1>2. pos'[t] = pos[t] + 1 /\ \A u \in Tests : u # t => pos'[u] = pos[u]
  BY <1>1 DEF TypeInv, Stored
<1>3. /\ LineAt(L[pos[t]], pos[t]) /\ pos[t] \in Nat \ {0} /\ pos[t] <= Len(L)
      /\ Len(L) \in Nat
  <2>1. Stored
    BY DEF TypeInv
  <2>2. /\ LineAt(L[pos[t]], pos[t]) /\ pos[t] \in Nat \ {0} /\ pos[t] <= Len(L)
        /\ Len(out[t].rows) \in Nat /\ Len(L) = Len(out[t].rows) + 1
    BY <1>1, <2>1, LineToWrite
  <2> QED BY <2>2
<1>4. Lined(file.lines)
  BY FileIsLined DEF TypeInv, Stored
<1>5. Writers' = Writers /\ t \in Writers
  BY <1>1, <1>2, <1>3 DEF Writers
<1>6. Ended'
  <2>1. \A u \in Writers : u # t /\ Ready(u) => Ready(u)'
    BY <1>1, <1>2 DEF Ready, Writers
  <2>2. Ended
    BY DEF Updated
  <2> QED BY <1>1, <1>5, <2>1, <2>2 DEF Ended
<1>7. ASSUME OneTable PROVE \E w \in Writers : WriterHolds(w)'
  <2>1. PICK w \in Writers : WriterHolds(w)
    BY <1>5, <1>7 DEF Updated
  <2>2. SnapshotLines(out[w]) = L /\ w \in Tests
    BY <1>5, <1>7 DEF OneTable, Writers
  <2>3. Holds(file.lines, L) /\ WrittenTo(file.lines, L, pos[w])
    BY <2>1, <2>2 DEF WriterHolds
  <2>4. pos[w] \in Nat
    BY <2>2 DEF TypeInv, Stored
  <2> HIDE DEF L
  <2>5. /\ Holds(s, L) /\ WrittenTo(s, L, pos[w])
        /\ pos[w] = pos[t] => WrittenTo(s, L, pos[w] + 1)
    <3>1. /\ Lined(file.lines) /\ Len(L) \in Nat /\ Holds(file.lines, L)
          /\ pos[t] \in Nat \ {0} /\ pos[t] <= Len(L) /\ LineAt(L[pos[t]], pos[t])
      BY <1>3, <1>4, <2>3
    <3>2. /\ Holds(s, L)
          /\ \A n \in Nat : WrittenTo(file.lines, L, n) =>
                WrittenTo(s, L, n) /\ (n = pos[t] => WrittenTo(s, L, n + 1))
      BY ONLY <3>1, HoldsPut
    <3> HIDE DEF s
    <3> QED BY ONLY <2>3, <2>4, <3>2
  <2> HIDE DEF s
  <2>6. pos'[w] = pos[w] \/ (pos'[w] = pos[w] + 1 /\ pos[w] = pos[t])
    BY <1>2, <2>2
  <2>7. WrittenTo(s, L, pos'[w])
    BY <2>5, <2>6
  <2>8. SnapshotLines(out'[w]) = L /\ file'.lines = s
    BY <1>1, <2>2
  <2> QED BY <2>5, <2>7, <2>8 DEF WriterHolds
<1>8. OneTable' => OneTable
  BY <1>1, <1>5 DEF OneTable
<1> QED BY <1>5, <1>6, <1>7, <1>8 DEF Updated

LEMMA NextKeepsUpdated ==
    ASSUME CacheInv, ReviewInv, TypeInv, Updated, [Next]_vars
    PROVE  Updated'
<1>1. CASE StartRun
  <2>1. /\ \A t \in Tests : phase'[t] \in {"idle", "started"}
        /\ \A t \in Tests : pos'[t] = 0
    BY <1>1 DEF StartRun
  <2>2. Writers' = {}
    BY <2>1 DEF Writers
  <2> QED BY <2>1, <2>2 DEF Updated, Ended
<1>2. CASE Kill
  <2>1. /\ UNCHANGED <<run, update, file, pos, out>>
        /\ \A t \in Tests : phase'[t] = phase[t] \/ phase'[t] = "killed"
    BY <1>2 DEF Kill, storeVars
  <2>2. Writers' = Writers /\ \A t \in Tests : Ready(t)' = Ready(t)
    BY <2>1 DEF Writers, Ready
  <2>3. Ended => Ended'
    BY <2>1, <2>2 DEF Ended
  <2>4. (OneTable' => OneTable) /\ \A w \in Writers : WriterHolds(w) => WriterHolds(w)'
    BY <2>1, <2>2 DEF OneTable, WriterHolds
  <2> QED BY <2>1, <2>2, <2>3, <2>4 DEF Updated
<1>3. CASE Edit \/ UNCHANGED vars \/ \E g \in Generator : Generate(g)
  <2>1. UNCHANGED <<phase, run, update, file, pos, out>>
    BY <1>3 DEF Edit, vars, storeVars, Generate, GeneratorStep, Load, PgDump, Move, Download,
                Downloaded, Breaks
  <2>2. Writers' = Writers /\ \A t \in Tests : Ready(t)' = Ready(t)
    BY <2>1 DEF Writers, Ready
  <2>3. Ended => Ended'
    BY <2>1, <2>2 DEF Ended
  <2>4. (OneTable' => OneTable) /\ \A w \in Writers : WriterHolds(w) => WriterHolds(w)'
    BY <2>1, <2>2 DEF OneTable, WriterHolds
  <2> QED BY <2>1, <2>2, <2>3, <2>4 DEF Updated
<1>4. ASSUME NEW t \in Tests, CacheUses(t) PROVE Updated'
  <2>1. /\ phase[t] \in {"started", "generating"} /\ UNCHANGED <<run, update, file, pos, out>>
        /\ \E p \in {"found", "generating", "failed"} : Turn(t, p)
    BY <1>4 DEF CacheUses, TestStep, UseCached, StartGenerator, Generated, GenerationFails, storeVars
  <2> QED BY <2>1, TurnKeepsUpdated
<1>5. ASSUME NEW t \in Tests, ReadWhole(t) \/ ReadPartial(t) \/ ReadFails(t) PROVE Updated'
  <2>1. /\ phase[t] = "found" /\ UNCHANGED <<run, update, file, pos>>
        /\ \E p \in {"read", "failed"} : Turn(t, p)
        /\ out' = out \/ \E x : out' = [out EXCEPT ![t] = x]
    BY <1>5 DEF ReadWhole, ReadPartial, ReadFails, Exports, storeVars
  <2>2. \A u \in Tests : pos[u] # 0 => out'[u] = out[u]
    BY <2>1 DEF TypeInv, Stored
  <2> QED BY <2>1, <2>2, TurnKeepsUpdated
<1>6. ASSUME NEW t \in Tests, Asserts(t) PROVE Updated'
  <2>1. UNCHANGED run /\ StoreStep(t)
    BY <1>6 DEF Asserts
  <2>2. CASE CreateFile(t)
    BY <2>1, <2>2, CreateFileKeepsUpdated
  <2>3. CASE WriteLine(t)
    BY <2>1, <2>3, WriteLineKeepsUpdated
  <2>4. CASE ~ (CreateFile(t) \/ WriteLine(t))
    <3>1. /\ UNCHANGED <<run, update, file, pos, out>> /\ phase[t] \in AtWork
          /\ \E p \in {"updating", "creating", "comparing", "passed", "failed"} :
                /\ Turn(t, p)
                /\ p \in {"creating", "comparing"} => ~ update
                /\ p = "passed" => phase[t] = "comparing" \/ (pos[t] > 0 /\ Ready(t))
      BY <2>1, <2>4 DEF StoreStep, StartUpdate, StartCreate, StartCompare, Compare, Written,
                        WriteFails, Writes, storeVars, AtWork
    <3>2. phase[t] # "passed" /\ run > 0
      BY <3>1, StartedInARun DEF AtWork
    <3>3. update => phase[t] # "comparing"
      BY <3>2 DEF Updated, Ended
    <3> QED BY <3>1, <3>2, <3>3, TurnKeepsUpdated
  <2> QED BY <2>2, <2>3, <2>4
<1> QED BY <1>1, <1>2, <1>3, <1>4, <1>5, <1>6 DEF Next, Work

LEMMA UpdatedInvariant == Spec => []Updated
<1>1. Init => Updated
  BY DEF Init, Updated
<1>2. CacheInv /\ ReviewInv /\ TypeInv /\ Updated /\ [Next]_vars => Updated'
  BY NextKeepsUpdated
<1> QED BY CacheInvariant, ReviewInvariant, TypeInvariant, <1>1, <1>2, PTL DEF Spec

(* What a table writes can be read.                                        *)
LEMMA WrittenIsReadable ==
    ASSUME NEW t, IsTable(t), HasColumn(t, Key)
    PROVE  Readable(SnapshotLines(t))
<1> DEFINE s == SnapshotLines(t)
           n == Len(t.rows)
<1>1. /\ n \in Nat /\ t.columns # <<>> /\ t.columns \in Seq(Name)
      /\ \A r \in 1 .. n : Len(t.rows[r]) = Len(t.columns)
  BY TableTypes, CellTypes
<1>2. /\ Lined(s) /\ Len(s) = n + 1 /\ s[1] = t.columns
      /\ \A k \in 1 .. n : s[k + 1] = t.rows[RowAt(t, Key, k)]
  BY <1>1, LinesOfTable
<1>3. \A k \in 1 .. n : RowAt(t, Key, k) \in 1 .. n
  BY <1>1, Ranks
<1>4. Len(t.columns) \in Nat \ {0} /\ Len(<<>>) = 0
  BY <1>1, EmptySeq
<1> HIDE DEF s, n
<1>5. s # <<>> /\ DOMAIN s = 1 .. n + 1
  <2>1. DOMAIN s = 1 .. Len(s)
    BY <1>2, LinedLength
  <2> QED BY <1>1, <1>2, <1>4, <2>1
<1>6. Head(s) = t.columns
  BY <1>2, <1>5, HeadAndTail
<1>7. ASSUME NEW k \in 1 .. n + 1 PROVE s[k] # Hole /\ Len(s[k]) = Len(t.columns)
  <2>1. CASE k = 1
    BY <1>1, <1>2, <2>1 DEF Hole
  <2>2. CASE k # 1
    <3>1. k - 1 \in 1 .. n /\ k - 1 + 1 = k
      BY <1>1, <2>2
    <3>2. s[k] = t.rows[RowAt(t, Key, k - 1)] /\ RowAt(t, Key, k - 1) \in 1 .. n
      BY <1>2, <1>3, <3>1
    <3>3. Len(s[k]) = Len(t.columns)
      BY <1>1, <3>2
    <3> QED BY <1>4, <3>3 DEF Hole
  <2> QED BY <2>1, <2>2
<1>8. Readable(s)
  BY <1>5, <1>6, <1>7 DEF Readable
<1> QED BY <1>8 DEF s

(* A table e with the columns of t, and its rows in the order that f says. *)
Reordered(e, t, n, f) ==
    /\ e.columns = t.columns
    /\ DOMAIN e.rows = 1 .. n /\ DOMAIN t.rows = 1 .. n
    /\ \A k \in 1 .. n : f[k] \in 1 .. n /\ e.rows[k] = t.rows[f[k]]
    /\ \A j, k \in 1 .. n : f[j] = f[k] => j = k
    /\ \A r \in 1 .. n : \E k \in 1 .. n : f[k] = r

LEMMA ReorderedMatches ==
    ASSUME NEW e, NEW t, NEW n \in Nat, NEW f, Reordered(e, t, n, f),
           HasColumn(t, Key), Duplicates(t, Key) = {}
    PROVE  DiffTables(e, t, Key) = {}
<1> DEFINE E(k) == CellOf(e, e.rows[k], Key)
           T(r) == CellOf(t, t.rows[r], Key)
<1>1. /\ e.columns = t.columns /\ DOMAIN e.rows = 1 .. n /\ DOMAIN t.rows = 1 .. n
      /\ \A k \in 1 .. n : e.rows[k] = t.rows[f[k]]
  BY DEF Reordered
<1>2. \A row, c : CellOf(e, row, c) = CellOf(t, row, c)
  BY <1>1 DEF CellOf, ColumnIndex
<1>3. Rowed(e) /\ Rowed(t)
  BY <1>1 DEF Rowed
<1>4. \A k \in 1 .. n : f[k] \in 1 .. n
  BY DEF Reordered
<1>5. \A j, k \in 1 .. n : f[j] = f[k] => j = k
  BY DEF Reordered
<1>6. \A r \in 1 .. n : \E k \in 1 .. n : f[k] = r
  BY DEF Reordered
<1>7. \A k \in 1 .. n : E(k) = T(f[k])
  BY <1>1, <1>2
<1>8. \A id : /\ RowsWith(e, Key, id) = {k \in 1 .. n : E(k) = id}
              /\ RowsWith(t, Key, id) = {r \in 1 .. n : T(r) = id}
  BY <1>1 DEF RowsWith
<1>9. /\ Ids(e, Key) = {E(k) : k \in 1 .. n} \ {Null}
      /\ Ids(t, Key) = {T(r) : r \in 1 .. n} \ {Null}
  BY <1>1 DEF Ids
<1> HIDE DEF E, T
<1>10. Ids(e, Key) = Ids(t, Key)
  <2>1. ASSUME NEW id \in Ids(e, Key) PROVE id \in Ids(t, Key)
    <3>1. PICK k \in 1 .. n : id = E(k) /\ id # Null
      BY <1>9
    <3>2. f[k] \in 1 .. n /\ id = T(f[k])
      BY <1>4, <1>7, <3>1
    <3> QED BY <1>9, <3>1, <3>2
  <2>2. ASSUME NEW id \in Ids(t, Key) PROVE id \in Ids(e, Key)
    <3>1. PICK r \in 1 .. n : id = T(r) /\ id # Null
      BY <1>9
    <3>2. PICK k \in 1 .. n : f[k] = r
      BY <1>6
    <3> QED BY <1>7, <1>9, <3>1, <3>2
  <2> QED BY <2>1, <2>2
<1>11. ASSUME NEW id, id # Null, NEW k, k \in RowsWith(e, Key, id)
      PROVE  /\ k \in 1 .. n /\ RowsWith(t, Key, id) = {f[k]} /\ IndexById(t, Key)[id] = t.rows[f[k]]
             /\ RowsWith(e, Key, id) = {k}
  <2>1. ASSUME NEW j \in RowsWith(e, Key, id) PROVE j \in 1 .. n /\ f[j] \in RowsWith(t, Key, id)
    <3>1. j \in 1 .. n /\ E(j) = id
      BY <1>8
    <3>2. f[j] \in 1 .. n /\ T(f[j]) = id
      BY <1>4, <1>7, <3>1
    <3> QED BY <1>8, <3>1, <3>2
  <2>2. k \in 1 .. n /\ f[k] \in RowsWith(t, Key, id)
    BY <1>11, <2>1
  <2>3. RowsWith(t, Key, id) = {f[k]} /\ IndexById(t, Key)[id] = t.rows[f[k]]
    <3>1. PICK r \in RowsWith(t, Key, id) : r = f[k]
      BY <2>2
    <3>2. RowsWith(t, Key, id) = {r} /\ IndexById(t, Key)[id] = t.rows[r]
      BY <1>3, <1>11, OneRow
    <3> QED BY <3>1, <3>2
  <2>4. ASSUME NEW j \in RowsWith(e, Key, id) PROVE j = k
    <3>1. j \in 1 .. n /\ f[j] = f[k]
      BY <2>1, <2>3
    <3> QED BY <1>5, <2>2, <3>1
  <2>5. RowsWith(e, Key, id) = {k}
    BY <1>11, <2>4
  <2> QED BY <2>2, <2>3, <2>5
<1>12. Duplicates(e, Key) = {}
  <2>1. ASSUME NEW id \in Ids(e, Key) PROVE ~ (Cardinality(RowsWith(e, Key, id)) > 1)
    <3>1. id # Null /\ \E k : k \in RowsWith(e, Key, id)
      BY DEF Ids, RowsWith
    <3>2. PICK k : RowsWith(e, Key, id) = {k}
      BY <1>11, <3>1
    <3>3. Cardinality(RowsWith(e, Key, id)) = 1
      BY <3>2, FS_Singleton
    <3> QED BY <3>3
  <2> QED BY <2>1 DEF Duplicates
<1>13. ASSUME NEW id \in Ids(e, Key) PROVE IndexById(e, Key)[id] = IndexById(t, Key)[id]
  <2>1. id # Null /\ \E k : k \in RowsWith(e, Key, id)
    BY DEF Ids, RowsWith
  <2>2. PICK k \in RowsWith(e, Key, id) : TRUE
    BY <2>1
  <2>3. IndexById(e, Key)[id] = e.rows[k]
    BY <1>3, <1>12, <2>1, <2>2, OneRow
  <2>4. IndexById(t, Key)[id] = t.rows[f[k]] /\ k \in 1 .. n
    BY <1>11, <2>1, <2>2
  <2> QED BY <1>1, <2>3, <2>4
<1>14. RowDiffs(e, t, Key) = {}
  <2>1. DOMAIN IndexById(e, Key) = Ids(e, Key) /\ DOMAIN IndexById(t, Key) = Ids(e, Key)
    BY <1>10 DEF IndexById
  <2>2. ASSUME NEW id \in Ids(e, Key)
        PROVE  CellDiffs(e, t, IndexById(e, Key)[id], IndexById(t, Key)[id]) = {}
    <3>1. \A c : CellOf(e, IndexById(e, Key)[id], c) = CellOf(t, IndexById(t, Key)[id], c)
      BY <1>2, <1>13
    <3> QED BY <3>1 DEF CellDiffs
  <2> DEFINE I == IndexById(e, Key)
             J == IndexById(t, Key)
             C(id) == CellDiffs(e, t, I[id], J[id])
  <2>3. RowDiffs(e, t, Key) =
           {<<"missing_row", id>> : id \in DOMAIN I \ DOMAIN J}
           \cup {<<"extra_row", id>> : id \in DOMAIN J \ DOMAIN I}
           \cup UNION {C(id) : id \in DOMAIN I \cap DOMAIN J}
    BY DEF RowDiffs
  <2>4. \A id \in DOMAIN I \cap DOMAIN J : C(id) = {}
    BY <2>1, <2>2
  <2>5. DOMAIN I = DOMAIN J
    BY <2>1
  <2> HIDE DEF I, J, C
  <2>6. {<<"missing_row", id>> : id \in DOMAIN I \ DOMAIN J} = {}
    BY <2>5
  <2>7. {<<"extra_row", id>> : id \in DOMAIN J \ DOMAIN I} = {}
    BY <2>5
  <2>8. UNION {C(id) : id \in DOMAIN I \cap DOMAIN J} = {}
    BY <2>4
  <2> QED BY <2>3, <2>6, <2>7, <2>8
<1>15. HasColumn(e, Key) /\ ColumnDiffs(e, t) = {}
  <2>1. ToSet(e.columns) = ToSet(t.columns)
    BY <1>1
  <2>2. {<<"missing_column", c>> : c \in ToSet(e.columns) \ ToSet(t.columns)} = {}
    BY <2>1
  <2>3. {<<"extra_column", c>> : c \in ToSet(t.columns) \ ToSet(e.columns)} = {}
    BY <2>1
  <2> QED BY <2>1, <2>2, <2>3 DEF HasColumn, ColumnDiffs
<1> QED BY <1>12, <1>14, <1>15 DEF DiffTables

(* write_table_snapshot and diff_tables fit together: what a table without *)
(* an id twice writes compares as equal to it.                             *)
LEMMA WrittenMatches ==
    ASSUME NEW t, IsTable(t), HasColumn(t, Key), Duplicates(t, Key) = {}
    PROVE  DiffTables(Snapshot(SnapshotLines(t)), t, Key) = {}
<1> DEFINE s == SnapshotLines(t)
           n == Len(t.rows)
           e == Snapshot(s)
<1>1. n \in Nat /\ DOMAIN t.rows = 1 .. n
  BY TableTypes
<1>2. /\ Lined(s) /\ Len(s) = n + 1 /\ s[1] = t.columns
      /\ \A k \in 1 .. n : s[k + 1] = t.rows[RowAt(t, Key, k)]
  BY <1>1, LinesOfTable
<1>3. /\ \A k \in 1 .. n : RowAt(t, Key, k) \in 1 .. n
      /\ \A j, k \in 1 .. n : RowAt(t, Key, j) = RowAt(t, Key, k) => j = k
      /\ \A r \in 1 .. n : \E k \in 1 .. n : RowAt(t, Key, k) = r
  BY <1>1, Ranks
<1>4. Readable(s)
  BY WrittenIsReadable
<1> HIDE DEF s, n
<1>5. /\ IsTable(e) /\ Len(e.rows) = Len(s) - 1 /\ e.columns = s[1]
      /\ \A k \in 1 .. Len(s) - 1 : e.rows[k] = s[k + 1]
  BY <1>2, <1>4, ReadableIsTable
<1> HIDE DEF e
<1>6. Len(s) - 1 = n
  BY <1>1, <1>2
<1>7. DOMAIN e.rows = 1 .. n
  BY <1>5, <1>6, TableTypes
<1>8. \A k \in 1 .. n : e.rows[k] = t.rows[RowAt(t, Key, k)]
  BY <1>2, <1>5, <1>6
<1> DEFINE f == [k \in 1 .. n |-> RowAt(t, Key, k)]
<1>9. Reordered(e, t, n, f)
  BY <1>1, <1>2, <1>3, <1>5, <1>7, <1>8 DEF Reordered
<1> HIDE DEF f
<1> QED BY <1>1, <1>9, ReorderedMatches DEF s, e

(* UpdatedIsAccepted, for any tests, tables and number of runs: however    *)
(* the tests that rewrite the snapshot race, a green run that updates      *)
(* leaves a snapshot that a comparison accepts.                            *)
THEOREM UpdatedCorrect == Spec => []UpdatedIsAccepted
<1>1. ReviewInv /\ TypeInv /\ Updated => UpdatedIsAccepted
  <2> SUFFICES ASSUME ReviewInv, TypeInv, Updated, Green, update,
                      \A u, v \in Chosen : out[u] = out[v],
                      NEW t \in Chosen, Duplicates(out[t], Key) = {}
               PROVE  Readable(file.lines) /\ DiffTables(Snapshot(file.lines), out[t], Key) = {}
    BY DEF UpdatedIsAccepted
  <2> DEFINE s == file.lines
             L == SnapshotLines(out[t])
  <2>1. run > 0 /\ Chosen \subseteq Tests /\ \A u \in Chosen : phase[u] = "passed"
    BY ChosenTests DEF Green, ReviewInv
  <2>2. /\ \A u \in Chosen : u \in Writers /\ Ready(u)
        /\ OneTable /\ Writers # {} => \E w \in Writers : WriterHolds(w)
    BY <2>1 DEF Updated, Ended
  <2>3. Writers \subseteq Chosen
    BY DEF Writers, TypeInv, Stored, ReviewInv, ByChosen
  <2>4. PICK w \in Writers : WriterHolds(w)
    BY <2>2, <2>3 DEF OneTable
  <2>5. SnapshotLines(out[w]) = L /\ Ready(w) /\ pos[w] \in Nat
    BY <2>1, <2>2, <2>3 DEF TypeInv, Stored
  <2>6. /\ Stored /\ t \in Tests /\ pos[t] > 0
    BY <2>1, <2>2 DEF Writers, TypeInv
  <2>7. /\ IsTable(out[t]) /\ HasColumn(out[t], Key) /\ Lined(L)
        /\ Len(out[t].rows) \in Nat /\ Len(L) = Len(out[t].rows) + 1
    BY <2>6, LineToWrite
  <2>8. Lined(s) /\ Len(s) \in Nat
    BY FileIsLined, LinedLength DEF TypeInv, Stored
  <2>9. pos[w] > Len(L) /\ Holds(s, L) /\ WrittenTo(s, L, pos[w])
    BY <2>4, <2>5 DEF WriterHolds, Ready
  <2> HIDE DEF s, L
  <2>10. \A j \in 1 .. Len(L) : j <= Len(s) /\ s[j] = L[j]
    BY <2>5, <2>7, <2>9 DEF WrittenTo
  <2>11. Len(s) = Len(L)
    <3>1. Len(s) <= Len(L) /\ Len(L) \in 1 .. Len(L)
      BY <2>7, <2>9 DEF Holds
    <3> QED BY <2>7, <2>8, <2>10, <3>1
  <2>12. s = L
    BY <2>7, <2>8, <2>10, <2>11, SeqEqual DEF Lined
  <2> QED BY <2>7, <2>12, WrittenIsReadable, WrittenMatches DEF s, L
<1> QED BY <1>1, ReviewInvariant, TypeInvariant, UpdatedInvariant, PTL

-----------------------------------------------------------------------------
(* A generator that ended, or downloads, has left a file, and no file is   *)
(* taken away again; who waits for a generator has started it.             *)
Awaited ==
    /\ \A g \in Generator : gens[g].pc \in {"downloading", "ended"} => dump.state # "absent"
    /\ \A t \in Tests : phase[t] = "generating" => gens[<<run, t>>].pc # "none"

LEMMA InitAwaited == Init => Awaited
BY DEF Init, CacheInit, Gen, Awaited

(* No test starts to wait, and the cache is left alone.                    *)
LEMMA TurnKeepsAwaited ==
    ASSUME Awaited, UNCHANGED <<gens, dump>>,
           \A t \in Tests : phase'[t] = "generating" => phase[t] = "generating" /\ run' = run
    PROVE  Awaited'
BY DEF Awaited, Generator

LEMMA StartGeneratorKeepsAwaited ==
    ASSUME CacheInv, Awaited, NEW t \in Tests, StartGenerator(t), run' = run
    PROVE  Awaited'
<1> DEFINE g == <<run, t>>
           x == Gen("begun")
<1>1. g \in Generator /\ DOMAIN gens = Generator
  BY StartedInARun DEF StartGenerator, CacheInv, GenType
<1>2. x.pc = "begun"
  BY DEF Gen
<1>3. gens' = [gens EXCEPT ![g] = x] /\ dump' = dump
  BY DEF StartGenerator
<1> HIDE DEF g, x
<1>4. gens'[g] = x /\ \A h \in Generator : h # g => gens'[h] = gens[h]
  BY <1>1, <1>3
<1>5. \A u \in Tests : u # t => phase'[u] = phase[u]
  BY TurnOne DEF CacheInv, Fresh, StartGenerator
<1>6. \A u \in Tests : phase[u] = "generating" => <<run, u>> \in Generator
  BY StartedInARun
<1>7. \A u \in Tests : phase'[u] = "generating" => gens'[<<run, u>>].pc # "none"
  BY <1>2, <1>4, <1>5, <1>6 DEF Awaited, g
<1>8. \A h \in Generator : gens'[h].pc \in {"downloading", "ended"} => dump.state # "absent"
  BY <1>2, <1>4 DEF Awaited
<1> QED BY <1>3, <1>7, <1>8 DEF Awaited, Generator

LEMMA GeneratorKeepsAwaited ==
    ASSUME CacheInv, Awaited, NEW g \in Generator, GeneratorStep(g), run' = run
    PROVE  Awaited'
<1>1. DOMAIN gens = Generator /\ phase' = phase /\ dump \in DumpType
  BY DEF CacheInv, GenType, GeneratorStep, Load, PgDump, Move, Download, Downloaded, Breaks
<1>2. ASSUME NEW x, gens' = [gens EXCEPT ![g] = x], x.pc # "none",
             x.pc \in {"downloading", "ended"} => dump'.state # "absent",
             dump'.state = "absent" => dump.state = "absent"
      PROVE  Awaited'
  <2>1. gens'[g] = x /\ \A h \in Generator : h # g => gens'[h] = gens[h]
    BY <1>1, <1>2
  <2>2. \A t \in Tests : phase[t] = "generating" => <<run, t>> \in Generator
    BY StartedInARun
  <2> QED BY <1>1, <1>2, <2>1, <2>2 DEF Awaited, Generator
<1>3. CASE Load(g)
  <2> DEFINE x == [pc |-> "loaded", of |-> edits, at |-> 0]
  <2>1. x.pc = "loaded" /\ gens' = [gens EXCEPT ![g] = x] /\ dump' = dump
    BY <1>3 DEF Load
  <2> HIDE DEF x
  <2> QED BY <1>2, <2>1
<1>4. CASE PgDump(g)
  <2> DEFINE x == [pc |-> "dumped", of |-> gens[g].of, at |-> edits]
  <2>1. x.pc = "dumped" /\ gens' = [gens EXCEPT ![g] = x] /\ dump' = dump
    BY <1>4 DEF PgDump
  <2> HIDE DEF x
  <2> QED BY <1>2, <2>1
<1>5. CASE Move(g) \/ Download(g) \/ Downloaded(g) \/ Breaks(g)
  <2>1. PICK q \in {"ended", "failed", "downloading"} : gens' = [gens EXCEPT ![g] = Gen(q)]
    BY <1>5 DEF Move, Download, Downloaded, Breaks, Proceed
  <2>2. Gen(q).pc = q
    BY DEF Gen
  <2>3. dump'.state # "absent" \/ Breaks(g)
    <3>1. CASE Move(g)
      BY <3>1 DEF Move, Dump
    <3>2. CASE Download(g)
      BY <3>2 DEF Download, Dump
    <3>3. CASE Downloaded(g)
      <4>1. dump.state # "absent"
        BY <3>3 DEF Downloaded, Proceed, Awaited
      <4>2. dump' = dump \/ \E x \in {"whole", "page"} : dump' = [dump EXCEPT !.state = x]
        BY <3>3 DEF Downloaded
      <4> QED BY <1>1, <4>1, <4>2 DEF DumpType
    <3> QED BY <1>5, <3>1, <3>2, <3>3
  <2>4. CASE Breaks(g)
    <3>1. gens' = [gens EXCEPT ![g] = Gen("failed")] /\ dump' = dump
      BY <2>4 DEF Breaks
    <3>2. Gen("failed").pc = "failed"
      BY DEF Gen
    <3> QED BY <1>2, <3>1, <3>2
  <2>5. CASE dump'.state # "absent"
    BY <1>2, <2>1, <2>2, <2>5
  <2> QED BY <2>3, <2>4, <2>5
<1> QED BY <1>3, <1>4, <1>5 DEF GeneratorStep

LEMMA NextKeepsAwaited ==
    ASSUME CacheInv, Awaited, [Next]_vars
    PROVE  Awaited'
<1>1. CASE StartRun
  BY <1>1, TurnKeepsAwaited DEF StartRun, cacheVars
<1>2. CASE Kill
  BY <1>2, TurnKeepsAwaited DEF Kill, cacheVars
<1>3. CASE Edit \/ UNCHANGED vars
  BY <1>3, TurnKeepsAwaited DEF Edit, vars, cacheVars
<1>4. ASSUME NEW t \in Tests, CacheUses(t) PROVE Awaited'
  <2>1. CASE StartGenerator(t)
    BY <1>4, <2>1, StartGeneratorKeepsAwaited DEF CacheUses
  <2>2. CASE ~ StartGenerator(t)
    <3>1. UNCHANGED <<gens, dump, run>> /\ (Turn(t, "found") \/ Turn(t, "failed"))
      BY <1>4, <2>2 DEF CacheUses, TestStep, UseCached, Generated, GenerationFails, cacheVars
    <3> QED BY <3>1, TurnOne, TurnKeepsAwaited DEF CacheInv, Fresh
  <2> QED BY <2>1, <2>2
<1>5. ASSUME NEW t \in Tests, ReadWhole(t) \/ ReadPartial(t) \/ ReadFails(t) PROVE Awaited'
  <2>1. UNCHANGED <<gens, dump, run>> /\ (Turn(t, "read") \/ Turn(t, "failed"))
    BY <1>5 DEF ReadWhole, ReadPartial, ReadFails, Exports, cacheVars
  <2> QED BY <2>1, TurnOne, TurnKeepsAwaited DEF CacheInv, Fresh
<1>6. ASSUME NEW t \in Tests, Asserts(t) PROVE Awaited'
  <2>1. /\ UNCHANGED <<gens, dump, run>>
        /\ \/ UNCHANGED phase
           \/ \E p \in {"updating", "creating", "comparing", "passed", "failed"} : Turn(t, p)
    BY <1>6 DEF Asserts, StoreStep, StartUpdate, StartCreate, StartCompare, Compare,
                CreateFile, WriteLine, Written, WriteFails, cacheVars
  <2> QED BY <2>1, TurnOne, TurnKeepsAwaited DEF CacheInv, Fresh
<1>7. ASSUME NEW g \in Generator, Generate(g) PROVE Awaited'
  BY <1>7, GeneratorKeepsAwaited DEF Generate
<1> QED BY <1>1, <1>2, <1>3, <1>4, <1>5, <1>6, <1>7 DEF Next, Work

(* A test never waits for what does not come: the script it waits for was  *)
(* started in this run, and when it has ended there is a dump, for any     *)
(* tests, scenarios, kills and edits.                                      *)
THEOREM WaitsEnd == Spec => []NoTestWaits
<1>1. CacheInv /\ Awaited /\ [Next]_vars => Awaited'
  BY NextKeepsAwaited
<1>2. CacheInv /\ Awaited => NoTestWaits
  <2> SUFFICES ASSUME CacheInv, Awaited, NEW t \in Tests, phase[t] = "generating"
               PROVE  /\ gens[<<run, t>>].pc # "none"
                      /\ gens[<<run, t>>].pc = "ended" => dump.state # "absent"
    BY DEF NoTestWaits, WaitEnds
  <2>1. <<run, t>> \in Generator
    BY StartedInARun
  <2> QED BY <2>1 DEF Awaited
<1> QED BY InitAwaited, CacheInvariant, <1>1, <1>2, PTL DEF Spec

-----------------------------------------------------------------------------
LEMMA OthersStayPut ==
    ASSUME NEW u \in Tests, phase'[u] = phase[u], out'[u] = out[u], pos'[u] = pos[u]
    PROVE  StaysPut(u)
BY DEF StaysPut, LinesLeft

(* What is left for a test that comes from one phase to another.           *)
Order(p) ==
    CASE p = "started" -> 5 [] p = "generating" -> 4 [] p = "found" -> 3 [] p = "read" -> 2
      [] p \in {"updating", "creating", "comparing"} -> 1
      [] p \in {"idle", "passed", "failed", "killed"} -> 0

LEMMA PhasesLeftIs ==
    ASSUME NEW t \in Tests
    PROVE  PhasesLeft(t) = Order(phase[t]) /\ PhasesLeft(t)' = Order(phase'[t])
BY DEF PhasesLeft, Order, Idle

(* A test takes its turn; the rows it writes do not change, or are read.   *)
LEMMA TurnAdvances ==
    ASSUME CacheInv, NEW t \in Tests, NEW p, Turn(t, p), Order(p) < Order(phase[t]),
           \A u \in Tests : u # t => out'[u] = out[u] /\ pos'[u] = pos[u],
           \A g \in Generator :
               \/ gens'[g] = gens[g]
               \/ phase[t] = "started" /\ g = <<run, t>> /\ gens[g].pc = "none"
    PROVE  TestAdvances(t)
<1>1. phase'[t] = p /\ \A u \in Tests : u # t => phase'[u] = phase[u]
  BY TurnOne DEF CacheInv, Fresh
<1>2. PhasesLeft(t)' < PhasesLeft(t)
  BY <1>1, PhasesLeftIs
<1>3. \A u \in Tests \ {t} : StaysPut(u)
  BY <1>1, OthersStayPut
<1> QED BY <1>2, <1>3 DEF TestAdvances

LEMMA CacheUsesAdvances ==
    ASSUME CacheInv, NEW t \in Tests, CacheUses(t)
    PROVE  TestAdvances(t)
<1>1. \A u \in Tests : out'[u] = out[u] /\ pos'[u] = pos[u]
  BY DEF CacheUses, storeVars
<1>2. \A g \in Generator :
          \/ gens'[g] = gens[g]
          \/ phase[t] = "started" /\ g = <<run, t>> /\ gens[g].pc = "none"
  <2>1. CASE StartGenerator(t)
    <3>1. /\ phase[t] = "started" /\ gens[<<run, t>>].pc = "none"
          /\ \A g \in Generator : g # <<run, t>> => gens'[g] = gens[g]
      BY <2>1, StartedInARun DEF StartGenerator, CacheInv, Fresh, GenType
    <3> QED BY <3>1
  <2>2. CASE ~ StartGenerator(t)
    BY <2>2 DEF CacheUses, TestStep, UseCached, Generated, GenerationFails, cacheVars
  <2> QED BY <2>1, <2>2
<1>3. \E p : Turn(t, p) /\ Order(p) < Order(phase[t])
  BY DEF CacheUses, TestStep, UseCached, StartGenerator, Generated, GenerationFails, Order
<1> QED BY <1>1, <1>2, <1>3, TurnAdvances

LEMMA ReadAdvances ==
    ASSUME CacheInv, Stored, NEW t \in Tests, ReadWhole(t) \/ ReadPartial(t) \/ ReadFails(t)
    PROVE  TestAdvances(t)
<1>1. /\ phase[t] = "found" /\ gens' = gens /\ pos' = pos
      /\ \/ Turn(t, "failed") /\ out' = out
         \/ Turn(t, "read") /\ \E x : out' = [out EXCEPT ![t] = x]
  BY DEF ReadWhole, ReadPartial, ReadFails, Exports, storeVars, cacheVars
<1>2. \A u \in Tests : u # t => out'[u] = out[u]
  BY <1>1 DEF Stored
<1>3. \E p : Turn(t, p) /\ Order(p) < Order(phase[t])
  BY <1>1 DEF Order
<1> QED BY <1>1, <1>2, <1>3, TurnAdvances

LEMMA AssertsAdvances ==
    ASSUME CacheInv, Stored, NEW t \in Tests, Asserts(t)
    PROVE  TestAdvances(t)
<1>1. gens' = gens /\ out' = out
  BY DEF Asserts, StoreStep, StartUpdate, StartCreate, StartCompare, Compare, CreateFile,
         WriteLine, Written, WriteFails, storeVars, cacheVars
<1>2. CASE CreateFile(t) \/ WriteLine(t)
  <2>1. /\ phase' = phase /\ pos' = [pos EXCEPT ![t] = pos[t] + 1]
        /\ pos[t] > 0 => pos[t] <= Len(out[t].rows) + 1
    <3>1. CASE CreateFile(t)
      BY <3>1 DEF CreateFile, Stored
    <3>2. CASE WriteLine(t)
      BY <3>2, LineToWrite DEF WriteLine, Stored
    <3> QED BY <1>2, <3>1, <3>2
  <2>2. /\ pos[t] \in Nat /\ Len(out[t].rows) \in Nat /\ pos'[t] = pos[t] + 1
        /\ \A u \in Tests : u # t => pos'[u] = pos[u]
    BY <2>1, TableTypes DEF Stored
  <2>3. 0 <= LinesLeft(t)' /\ LinesLeft(t)' < LinesLeft(t)
    <3> DEFINE n == Len(out[t].rows)
    <3>1. LinesLeft(t) = n + 2 - pos[t] /\ LinesLeft(t)' = n + 2 - (pos[t] + 1)
      BY <1>1, <2>2 DEF LinesLeft
    <3>2. n \in Nat /\ pos[t] \in Nat /\ (pos[t] > 0 => pos[t] <= n + 1)
      BY <2>1, <2>2
    <3> HIDE DEF n
    <3>3. 0 <= n + 2 - (pos[t] + 1) /\ n + 2 - (pos[t] + 1) < n + 2 - pos[t]
      BY ONLY <3>2
    <3> QED BY ONLY <3>1, <3>3, Zenon
  <2>4. PhasesLeft(t)' = PhasesLeft(t)
    BY <2>1, PhasesLeftIs
  <2>5. \A u \in Tests \ {t} : StaysPut(u)
    BY <1>1, <2>1, <2>2, OthersStayPut
  <2> QED BY <1>1, <2>3, <2>4, <2>5 DEF TestAdvances
<1>3. CASE ~ (CreateFile(t) \/ WriteLine(t))
  <2>1. pos' = pos /\ \E p : Turn(t, p) /\ Order(p) < Order(phase[t])
    <3>1. CASE phase[t] = "read"
      <4>1. pos' = pos /\ \E p \in {"updating", "creating", "comparing"} : Turn(t, p)
        BY <1>3, <3>1 DEF Asserts, StoreStep, StartUpdate, StartCreate, StartCompare, Compare,
                          Written, WriteFails, Writes, storeVars
      <4> QED BY <3>1, <4>1 DEF Order
    <3>2. CASE phase[t] # "read"
      <4>1. /\ pos' = pos /\ phase[t] \in {"updating", "creating", "comparing"}
            /\ \E p \in {"passed", "failed"} : Turn(t, p)
        BY <1>3, <3>2 DEF Asserts, StoreStep, StartUpdate, StartCreate, StartCompare, Compare,
                          Written, WriteFails, Writes, storeVars
      <4> QED BY <4>1 DEF Order
    <3> QED BY <3>1, <3>2
  <2> QED BY <1>1, <2>1, TurnAdvances
<1> QED BY <1>2, <1>3

LEMMA GeneratesAdvances ==
    ASSUME CacheInv, NEW g \in Generator, Generate(g)
    PROVE  GeneratorAdvances(g)
<1>1. DOMAIN gens = Generator /\ UNCHANGED <<phase, out, pos>>
  BY DEF CacheInv, GenType, Generate, GeneratorStep, Load, PgDump, Move, Download, Downloaded,
         Breaks, storeVars
<1>2. \E x : /\ gens' = [gens EXCEPT ![g] = x]
             /\ \/ gens[g].pc = "begun" /\ x.pc \in {"loaded", "downloading"}
                \/ gens[g].pc = "loaded" /\ x.pc = "dumped"
                \/ gens[g].pc \in {"dumped", "downloading"} /\ x.pc = "ended"
                \/ Running(g) /\ x.pc = "failed"
  <2>1. \A q : Gen(q).pc = q
    BY DEF Gen
  <2>2. CASE Load(g)
    <3> DEFINE x == [pc |-> "loaded", of |-> edits, at |-> 0]
    <3>1. x.pc = "loaded" /\ gens[g].pc = "begun" /\ gens' = [gens EXCEPT ![g] = x]
      BY <2>2 DEF Load
    <3> HIDE DEF x
    <3> QED BY <3>1
  <2>3. CASE PgDump(g)
    <3> DEFINE x == [pc |-> "dumped", of |-> gens[g].of, at |-> edits]
    <3>1. x.pc = "dumped" /\ gens[g].pc = "loaded" /\ gens' = [gens EXCEPT ![g] = x]
      BY <2>3 DEF PgDump
    <3> HIDE DEF x
    <3> QED BY <3>1
  <2>4. CASE Move(g) \/ Download(g) \/ Downloaded(g) \/ Breaks(g)
    BY <2>1, <2>4 DEF Move, Download, Downloaded, Breaks, Proceed
  <2> QED BY <2>2, <2>3, <2>4 DEF Generate, GeneratorStep
<1>3. gens[g].pc \in Places
  BY DEF CacheInv, GenType, GenState
<1>4. PICK x : /\ gens'[g] = x /\ \A h \in Generator \ {g} : gens'[h] = gens[h]
               /\ \/ gens[g].pc = "begun" /\ x.pc \in {"loaded", "downloading"}
                  \/ gens[g].pc = "loaded" /\ x.pc = "dumped"
                  \/ gens[g].pc \in {"dumped", "downloading"} /\ x.pc = "ended"
                  \/ Running(g) /\ x.pc = "failed"
  BY <1>1, <1>2
<1>5. PlacesLeft(g)' < PlacesLeft(g)
  BY <1>3, <1>4 DEF PlacesLeft, Running, Places
<1>6. \A t \in Tests : StaysPut(t)
  BY <1>1, OthersStayPut
<1> QED BY <1>4, <1>5, <1>6 DEF GeneratorAdvances

(* No thread or script works for ever: with WaitsEnd, what RunsEnd needs   *)
(* besides fairness.                                                       *)
THEOREM WorkEnds == Spec => WorkAdvances
<1>1. CacheInv /\ TypeInv /\ [Next]_vars =>
          [Work => \/ \E t \in Tests : TestAdvances(t)
                   \/ \E g \in Generator : GeneratorAdvances(g)]_vars
  <2> SUFFICES ASSUME CacheInv, TypeInv, Work
               PROVE  \/ \E t \in Tests : TestAdvances(t)
                      \/ \E g \in Generator : GeneratorAdvances(g)
    OBVIOUS
  <2> QED BY CacheUsesAdvances, ReadAdvances, AssertsAdvances, GeneratesAdvances DEF Work, TypeInv
<1> QED BY CacheInvariant, TypeInvariant, <1>1, PTL DEF Spec, WorkAdvances
=============================================================================

--------------------------- MODULE PythonTestMain ---------------------------
(***************************************************************************)
(* The main program of Python tests: it loads the tests that its arguments *)
(* name, lets unittest run them, and turns what unittest calls on its      *)
(* result object into the results file and the exit code. unittest itself  *)
(* is external: the order of fixtures and of the calls about a test, and   *)
(* a suite that forgets tests as they run. Threads may outlive their test. *)
(***************************************************************************)
EXTENDS Naturals, Sequences, FiniteSets, Functions, SequencesExt, Subsequences

CONSTANTS Programs  \* modules, arguments and options, see ProgramAssumption

Outcomes == {"ok", "fail", "skip"}

\* A test has the outcome of its parts; subfail and subskip are in a subTest.
\* regex: the tests that it matches; files: what coverage can tell of, with the
\* lines that can be, were not to be, and were executed.
ASSUME ProgramAssumption == \A p \in Programs :
  /\ {p.coverage, p.everything, p.show, p.list, p.interrupted} \subseteq BOOLEAN
  /\ \A f \in p.files :
       /\ {f.included, f.omitted} \subseteq BOOLEAN /\ (p.everything => f.included)
       /\ f.executed \subseteq f.statements /\ f.statements \cap f.excluded = {}
       /\ f.statements \cup f.excluded \subseteq Nat \ {0}
       /\ IsFiniteSet(f.statements \cup f.excluded)
  /\ p.args \in Seq(Seq(STRING)) /\ p.modules \in Seq(Range(p.modules))
  /\ \A i, j \in DOMAIN p.modules : i # j => p.modules[i].name # p.modules[j].name
  /\ \A m \in Range(p.modules) :
       /\ m.imports \in BOOLEAN /\ {m.setUp, m.tearDown} \subseteq Outcomes
       /\ m.name \in Seq(STRING) /\ m.classes \in Seq(Range(m.classes))
       /\ \A c \in Range(m.classes) :
            /\ {c.setUp, c.tearDown} \subseteq Outcomes
            /\ c.name \in STRING /\ c.tests \in Seq(Range(c.tests))
            /\ \A t \in Range(c.tests) :
                 /\ {t.setUp, t.tearDown} \subseteq Outcomes /\ {t.skipped, t.expected, t.thread} \subseteq BOOLEAN
                 /\ t.name \in STRING /\ t.method \in Outcomes \cup {"subfail", "subskip"}
                 /\ t.expected => t.method \in Outcomes

VARIABLES
  program,
  stage,
  suite,     \* the tests to run, with the number of the suite each is in
  number,    \* number of the next one
  gone,      \* those that the suite has forgotten
  fixtures,  \* the fixtures that come before the next step
  prev,      \* the class before
  setUpFailed,  \* its setUpClass did not end well, or that of its module
  stop,      \* shouldStop
  calls,     \* what unittest has still to say of the test that runs
  threads,   \* tests whose threads may still print
  res,       \* the BuckTestResult
  exit       \* <<>>, or the exit code

mainVars == <<program, stage, suite, number, gone, fixtures, prev, setUpFailed, stop, calls, threads, res, exit>>
order == <<program, suite>>

None == <<>>
FAILURE == "FAILURE"
SUCCESS == "SUCCESS"
SKIPPED == "ASSUMPTION_VIOLATION"

\* A test is the numbers of its module, its class and itself.
Module(p, t) == p.modules[t[1]]
Class(p, t) == Module(p, t).classes[t[2]]
Case(p, t) == Class(p, t).tests[t[3]]
ClassOf(t) == <<t[1], t[2]>>

NewResult == [current |-> None, status |-> FAILURE, output |-> <<>>, results |-> <<>>, failed |-> FALSE,
              listed |-> <<>>, coverage |-> {}]

MainInit ==
  /\ program \in Programs /\ stage = "load" /\ suite = <<>> /\ number = 1 /\ gone = {}
  /\ fixtures = <<>> /\ prev = None /\ setUpFailed = [class |-> FALSE, module |-> FALSE]
  /\ stop = FALSE /\ calls = <<>> /\ threads = {} /\ res = NewResult /\ exit = <<>>

-----------------------------------------------------------------------------
(* Loading: a suite is a sequence of suites of tests *)

\* getTestCaseNames
TestsOf(p, i, j) ==
  LET all == [k \in DOMAIN p.modules[i].classes[j].tests |-> <<i, j, k>>]
  IN  Only(all, {t \in Range(all) : Case(p, t).name \in p.regex})
FromModule(p, i) == [j \in DOMAIN p.modules[i].classes |-> TestsOf(p, i, j)]

Tests(p) == UNION {UNION {{<<i, j, k>> : k \in DOMAIN p.modules[i].classes[j].tests}
                          : j \in DOMAIN p.modules[i].classes} : i \in DOMAIN p.modules}
Classes(p) == UNION {{<<i, j>> : j \in DOMAIN p.modules[i].classes} : i \in DOMAIN p.modules}
ClassName(p, c) == Append(Module(p, c).name, Class(p, c).name)
FullName(p, t) == Module(p, t).name \o <<Class(p, t).name, Case(p, t).name>>

\* loadTestsFromName: a module, a class, a test, or a package that has none.
Named(p, name) ==
  [modules |-> {i \in DOMAIN p.modules : p.modules[i].name = name},
   classes |-> {c \in Classes(p) : ClassName(p, c) = name},
   tests |-> {t \in Tests(p) : FullName(p, t) = name},
   inside |-> Only([i \in DOMAIN p.modules |-> i],
                   {i \in DOMAIN p.modules : IsStrictPrefix(name, p.modules[i].name)})]

\* load_args: modules inside of what has no tests are looked for, too.
Own(p, name) ==
  LET of == Named(p, name)
  IN  IF of.modules # {} THEN FromModule(p, CHOOSE i \in of.modules : TRUE)
      ELSE IF of.classes # {} THEN LET c == CHOOSE c \in of.classes : TRUE IN <<TestsOf(p, c[1], c[2])>>
      ELSE IF of.tests # {} THEN <<<<CHOOSE t \in of.tests : TRUE>>>> ELSE <<>>
Inside(p, name) == IF FlattenSeq(Own(p, name)) = <<>> THEN Named(p, name).inside ELSE <<>>
LoadArg(p, name) ==
  IF Inside(p, name) = <<>> THEN Own(p, name)
  ELSE FlattenSeq([k \in DOMAIN Inside(p, name) |-> FromModule(p, Inside(p, name)[k])])

\* A module is imported after the packages it is in.
CanImport(p, i) == \A m \in Range(p.modules) : IsPrefix(m.name, p.modules[i].name) => m.imports
Imported(p, name) ==
  LET of == Named(p, name)
  IN  of.modules \cup {c[1] : c \in of.classes} \cup {t[1] : t \in of.tests} \cup Range(Inside(p, name))
CanLoad(p) ==
  IF p.args = <<>> THEN \A i \in DOMAIN p.modules : CanImport(p, i)
  ELSE \A a \in Range(p.args) : Imported(p, a) # {} /\ \A i \in Imported(p, a) : CanImport(p, i)

Suites(p) ==
  IF p.args = <<>> THEN FlattenSeq([i \in DOMAIN p.modules |-> FromModule(p, i)])
  ELSE FlattenSeq([k \in DOMAIN p.args |-> LoadArg(p, p.args[k])])
Numbered(suites) == FlattenSeq([g \in DOMAIN suites |-> [k \in DOMAIN suites[g] |-> <<suites[g][k], g>>]])

\* A test or module that cannot be imported ends the program, as a list does.
Load ==
  /\ stage = "load"
  /\ IF ~CanLoad(program) THEN stage' = "ended" /\ exit' = <<1>> /\ UNCHANGED <<suite, res>>
     ELSE IF program.list
     THEN stage' = "ended" /\ exit' = <<0>> /\ res' = [res EXCEPT !.listed = FlattenSeq(Suites(program))] /\ UNCHANGED suite
     ELSE /\ stage' = "next" /\ UNCHANGED <<exit, res>>
          /\ suite' = Numbered(Suites(program))
  /\ UNCHANGED <<program, number, gone, fixtures, prev, setUpFailed, stop, calls, threads>>

-----------------------------------------------------------------------------
(* BuckTestResult *)

Bug_StartTest(r, t) == [r EXCEPT !.current = t, !.status = SUCCESS, !.output = <<>>]
StartTest(r, t) == [r EXCEPT !.current = t, !.status = FAILURE, !.output = <<>>]

\* _setStatus, but for the assertion that it is about the current test.
Status(call) == CASE call \in {"success", "expected"} -> SUCCESS
                  [] call = "skip" -> SKIPPED
                  [] OTHER -> FAILURE

StopTest(r, name, fixture) ==
  [r EXCEPT !.current = None,
            !.results = Append(@, [of |-> name, type |-> r.status, output |-> r.output, fixture |-> fixture])]

\* _find_next_test
Bug_FindNextTest == IF suite = <<>> THEN None ELSE suite[1][1]
FindNextTest ==
  LET left == DOMAIN suite \ gone
  IN  IF left = {} THEN None ELSE suite[CHOOSE i \in left : \A j \in left : i <= j][1]

\* setStatus outside of a test, for the fixture that did not end well.
AddHolder(r, fixture) ==
  LET name == IF FindNextTest = None THEN fixture.id ELSE <<"test", FindNextTest>>
      call == IF fixture.outcome = "skip" THEN "skip" ELSE "failure"
  IN  StopTest([StartTest(r, None) EXCEPT !.status = Status(call),
                                         !.failed = (@ \/ call = "failure")], name, TRUE)

-----------------------------------------------------------------------------
(* unittest: the loop over the tests *)

TearDowns ==
  LET class == [id |-> <<"tearDownClass", prev>>, outcome |-> Class(program, prev).tearDown]
      module == [id |-> <<"tearDownModule", <<prev[1]>>>>, outcome |-> Module(program, prev).tearDown]
  IN  IF prev = None \/ setUpFailed.module THEN <<>>
      ELSE IF setUpFailed.class THEN <<module>> ELSE <<class, module>>
SetUps(t) == <<[id |-> <<"setUpModule", <<t[1]>>>>, outcome |-> Module(program, t).setUp],
               [id |-> <<"setUpClass", ClassOf(t)>>, outcome |-> Class(program, t).setUp]>>

\* The fixtures before test t: those of a module that goes on are left out.
Before(t) ==
  LET sameModule == prev # None /\ prev[1] = t[1]
      ofClass(f) == f.id[1] \in {"tearDownClass", "setUpClass"}
  IN  IF prev = ClassOf(t) \/ (sameModule /\ setUpFailed.module) THEN <<>>
      ELSE IF sameModule THEN SelectSeq(TearDowns \o SetUps(t), ofClass)
      ELSE TearDowns \o SetUps(t)

Entered == number > 1 /\ number <= Len(suite) /\ suite[number - 1][2] = suite[number][2]
Siblings(i) == {j \in DOMAIN suite : suite[j][2] = suite[i][2]}
NextTest ==
  /\ stage = "next"
  /\ IF stop \/ number > Len(suite)
     THEN /\ stage' = "finish" /\ fixtures' = TearDowns
          /\ gone' = IF Entered THEN gone \cup Siblings(number) ELSE gone
     ELSE stage' = "enter" /\ fixtures' = Before(suite[number][1]) /\ UNCHANGED gone
  /\ UNCHANGED <<order, number, prev, setUpFailed, stop, calls, threads, res, exit>>

\* The first fixture runs; a setUpModule that fails goes before the class.
Fixture ==
  /\ stage \in {"enter", "finish"} /\ fixtures # <<>>
  /\ LET f == Head(fixtures) bad == f.outcome # "ok"
     IN  /\ res' = IF bad THEN AddHolder(res, f) ELSE res
         /\ fixtures' = IF bad /\ f.id[1] = "setUpModule" THEN <<>> ELSE Tail(fixtures)
         /\ setUpFailed' = CASE f.id[1] = "setUpModule" -> [setUpFailed EXCEPT !.module = bad]
                             [] f.id[1] = "setUpClass" -> [setUpFailed EXCEPT !.class = bad]
                             [] OTHER -> setUpFailed
  /\ UNCHANGED <<order, stage, number, gone, prev, stop, calls, threads, exit>>

\* What unittest says of a test, in order; the test says it in between.
Part(outcome) == CASE outcome = "ok" -> <<>>
                   [] outcome = "fail" -> <<"failure">>
                   [] OTHER -> <<outcome>>
Calls(c) ==
  LET expected == c.expected /\ c.method = "fail"
      method == IF expected THEN <<>> ELSE Part(c.method)
      parts == method \o Part(c.tearDown)
  IN  IF c.skipped THEN <<"skip">>
      ELSE IF c.setUp # "ok" THEN Part(c.setUp)
      ELSE IF parts # <<>> THEN parts
      ELSE IF expected THEN <<"expected">> ELSE IF c.expected THEN <<"unexpected">> ELSE <<"success">>

\* After the last test of its suite the suite forgets the others, too.
Forgotten(i, ran) ==
  gone \cup (IF ran THEN {i} ELSE {})
       \cup (IF i = Len(suite) \/ suite[i + 1][2] # suite[i][2] THEN Siblings(i) ELSE {})

Begin ==
  /\ stage = "enter" /\ fixtures = <<>>
  /\ LET t == suite[number][1]
     IN  /\ prev' = ClassOf(t)
         /\ IF setUpFailed.class \/ setUpFailed.module
            THEN stage' = "next" /\ number' = number + 1 /\ gone' = Forgotten(number, FALSE) /\ UNCHANGED <<res, calls>>
            ELSE stage' = "test" /\ res' = StartTest(res, t) /\ calls' = <<"prints">> \o Calls(Case(program, t))
                 /\ UNCHANGED <<number, gone>>
  /\ UNCHANGED <<order, fixtures, setUpFailed, stop, threads, exit>>

\* A call of unittest. addSubTest is not overridden; the skip of a subTest is
\* not about the current test, so the assertion fails within that test.
Call ==
  /\ stage = "test" /\ calls # <<>>
  /\ LET call == Head(calls)
     IN  CASE call = "prints" ->
                /\ res' = [res EXCEPT !.output = Append(@, res.current)] /\ calls' = Tail(calls)
                /\ threads' = IF Case(program, res.current).thread THEN threads \cup {res.current} ELSE threads
           [] call = "subskip" -> calls' = <<"failure">> \o Tail(calls) /\ UNCHANGED <<res, threads>>
           [] call = "subfail" ->
                res' = [res EXCEPT !.failed = TRUE] /\ calls' = Tail(calls) /\ UNCHANGED threads
           [] OTHER ->
                /\ res' = [res EXCEPT !.status = Status(call),
                                      !.failed = (@ \/ call \in {"failure", "unexpected"})]
                /\ calls' = Tail(calls) /\ UNCHANGED threads
  /\ UNCHANGED <<order, stage, number, gone, fixtures, prev, setUpFailed, stop, exit>>

EndTest ==
  /\ stage = "test" /\ calls = <<>> /\ stage' = "next"
  /\ res' = StopTest(res, <<"test", res.current>>, FALSE)
  /\ number' = number + 1 /\ gone' = Forgotten(number, TRUE)
  /\ UNCHANGED <<order, fixtures, prev, setUpFailed, stop, calls, threads, exit>>

\* A thread has the stream of its test, which leads to the result object.
ThreadPrints(t) ==
  /\ stage \in {"next", "enter", "test", "finish"} /\ t \in threads /\ threads' = threads \ {t}
  /\ res' = [res EXCEPT !.output = Append(@, t)]
  /\ UNCHANGED <<order, stage, number, gone, fixtures, prev, setUpFailed, stop, calls, exit>>

\* The handler of an interrupt, which tells the loop to stop.
Interrupt ==
  /\ stage \in {"next", "enter", "test"} /\ program.interrupted /\ ~stop /\ stop' = TRUE
  /\ UNCHANGED <<order, stage, number, gone, fixtures, prev, setUpFailed, calls, threads, res, exit>>

-----------------------------------------------------------------------------
(* The results *)

\* PathMatcher.omit, with what its patterns match; no debug information, and
\* so no lines, remain of what is loaded and left out.
Omit(f) == f.omitted \/ ~f.included
Wiped(f) == ~program.everything /\ Omit(f)

\* What coverage reports, files of which something was executed.
Reported == {f \in program.files : f.included /\ ~f.omitted /\ f.executed # {}}
Analysis(f) == IF Wiped(f) THEN [statements |-> {}, excluded |-> {}, missing |-> {}]
               ELSE [statements |-> f.statements, excluded |-> f.excluded,
                     missing |-> f.statements \ f.executed]

\* convert_to_diff_cov_str, where what is written last counts.
CovStr(a) ==
  LET of == a.statements \cup a.excluded \cup a.missing
      line(k) == IF k \in a.missing THEN "U" ELSE IF k \in a.excluded THEN "X"
                 ELSE IF k \in a.statements THEN "C" ELSE "N"
  IN  IF of = {} THEN <<>> ELSE [k \in 1..(CHOOSE x \in of : \A y \in of : y <= x) |-> line(k)]

GetCoverage == {<<f.name, CovStr(Analysis(f))>> : f \in {g \in Reported : CovStr(Analysis(g)) # <<>>}}

\* stopTestRun, run_tests and run: coverage is reported once more, and that
\* raises when there is nothing to report.
Report ==
  /\ stage = "finish" /\ fixtures = <<>> /\ stage' = "ended"
  /\ res' = IF program.coverage THEN [res EXCEPT !.coverage = GetCoverage] ELSE res
  /\ exit' = IF program.coverage /\ program.show /\ Reported = {} THEN <<1>>
             ELSE IF res.failed THEN <<70>> ELSE <<0>>
  /\ UNCHANGED <<order, number, gone, fixtures, prev, setUpFailed, stop, calls, threads>>

MainNext ==
  \/ Load \/ NextTest \/ Fixture \/ Begin \/ Call \/ EndTest
  \/ \E t \in threads : ThreadPrints(t)
  \/ Interrupt \/ Report

MainSpec == MainInit /\ [][MainNext]_mainVars

-----------------------------------------------------------------------------
(* Properties *)

\* The arguments that ask for a test, by any part of its name; a package that
\* has tests of its own does not stand for what is in it.
AskedBy(p, t) ==
  LET suits(a) == Case(p, t).name \in p.regex \/ a = FullName(p, t)
      other(a) == \E u \in Tests(p) : Module(p, u).name = a /\ u[1] # t[1] /\ Case(p, u).name \in p.regex
  IN  {k \in DOMAIN p.args : LET a == p.args[k] IN IsPrefix(a, FullName(p, t)) /\ suits(a) /\ ~other(a)}
Asked(p) == {t \in Tests(p) : IF p.args = <<>> THEN Case(p, t).name \in p.regex ELSE AskedBy(p, t) # {}}

\* What a test's parts amount to, and where the code hides it: what fails and
\* then skips in its tearDown is a skipped test.
CaseFails(c) ==
  LET runs == ~c.skipped /\ c.setUp = "ok"
      body == runs /\ c.method \in {"fail", "subfail", "subskip"} /\ ~c.expected
  IN  \/ ~c.skipped /\ (c.setUp = "fail" \/ body \/ (runs /\ c.tearDown = "fail"))
      \/ runs /\ c.expected /\ c.method = "ok" /\ c.tearDown = "ok"
Skips(c) == c.skipped \/ "skip" \in {c.setUp, c.method, c.tearDown}
Hidden(c) == ~c.skipped /\ c.setUp = "ok" /\ c.tearDown = "skip" /\ CaseFails(c)
Verdict(c) == IF CaseFails(c) THEN FAILURE ELSE IF Skips(c) THEN SKIPPED ELSE SUCCESS

MayRun(t) == Module(program, t).setUp = "ok" /\ Class(program, t).setUp = "ok"
Results == Range(res.results)
Finished == stage = "ended" /\ exit # <<1>> /\ ~stop /\ ~program.list

\* What a run that was not interrupted leaves in its results.
ToldByResults == Finished =>
  /\ \A t \in Asked(program) :
       LET own == {k \in DOMAIN res.results :
                     res.results[k].of = <<"test", t>> /\ ~res.results[k].fixture}
       IN  IF MayRun(t)
           THEN /\ Cardinality(own) = IF program.args = <<>> THEN 1 ELSE Cardinality(AskedBy(program, t))
                /\ Hidden(Case(program, t)) \/ \A k \in own : res.results[k].type = Verdict(Case(program, t))
           ELSE /\ own = {}
                /\ \E r \in Results :
                     /\ r.fixture /\ r.of[1] = "test" /\ r.of[2][1] = t[1]
                     /\ Module(program, t).setUp = "ok" => ClassOf(r.of[2]) = ClassOf(t)
                     /\ LET what == IF Module(program, t).setUp = "ok" THEN Class(program, t).setUp ELSE Module(program, t).setUp
                        IN  r.type = IF what = "skip" THEN SKIPPED ELSE FAILURE
  /\ \A t \in Asked(program) : MayRun(t) /\ Class(program, t).tearDown = "fail" =>
       \E r \in Results : /\ r.fixture /\ r.type = FAILURE
                         /\ \/ r.of = <<"tearDownClass", ClassOf(t)>>
                            \/ r.of[1] = "test" /\ ClassOf(r.of[2]) # ClassOf(t)
  /\ \A r \in Results : r.of[1] = "test" => r.of[2] \in Asked(program)

\* Each test that the arguments and the regex ask for has a result of its own
\* for each time it is asked for, which says what became of it; when a fixture
\* did not let it run, a test of its class or module tells so
\* (__test_main__.py:252-256), and a failed tearDownClass is told elsewhere; no
\* result is of a test nobody asked for. A list names the same tests.
EveryTestIsTold ==
  /\ ToldByResults
  /\ program.list /\ exit = <<0>> => Range(res.listed) = Asked(program)

\* The exit code and the results agree, whatever fails and in whichever order,
\* but for tests that skip after they failed; without results the program could
\* not load its tests, or had no coverage to report. The output of a test is in
\* its result, next to that of threads that earlier tests left; and of every
\* file that is to be covered each line is told as it was executed.
ExitTells == stage = "ended" =>
  LET failures == {r \in Results : r.type = FAILURE}
  IN  /\ exit = <<0>> => failures = {}
      /\ exit = <<70>> => failures # {} \/ \E t \in Asked(program) : Hidden(Case(program, t))
      /\ exit = <<1>> => ~CanLoad(program) \/ (program.coverage /\ Reported = {})
      /\ program.coverage /\ CanLoad(program) /\ ~program.list => \A f \in Reported : \E c \in res.coverage :
           /\ c[1] = f.name /\ f.executed = {k \in DOMAIN c[2] : c[2][k] = "C"}
           /\ f.statements \ f.executed = {k \in DOMAIN c[2] : c[2][k] = "U"}
      /\ \A r \in Results : ~r.fixture =>
           /\ r.of[2] \in Range(r.output)
           /\ \A t \in Range(r.output) \ {r.of[2]} : Case(program, t).thread
=============================================================================

-------------------------- MODULE MCPythonTestMain ---------------------------
(* A package with a module of its own and modules in it, whose classes and   *)
(* tests have every outcome; each program has a few parts that do not pass.  *)
EXTENDS PythonTestMain

Test(name) == [name |-> name, skipped |-> FALSE, expected |-> FALSE, setUp |-> "ok",
               method |-> "ok", tearDown |-> "ok", thread |-> FALSE]
Cls(name, tests) == [name |-> name, setUp |-> "ok", tearDown |-> "ok", tests |-> tests]
Mod(name, classes) == [name |-> name, imports |-> TRUE, setUp |-> "ok", tearDown |-> "ok",
                       classes |-> classes]

\* Every way a test may go.
Ways ==
  {[Test("a") EXCEPT !.setUp = s, !.method = m, !.tearDown = d, !.thread = th] :
     s \in Outcomes, m \in Outcomes \cup {"subfail", "subskip"}, d \in Outcomes, th \in BOOLEAN}
  \cup {[Test("a") EXCEPT !.expected = TRUE, !.method = m, !.tearDown = d] : m, d \in Outcomes}
  \cup {[Test("a") EXCEPT !.skipped = TRUE]}

TwoTests == <<Cls("C", <<Test("a"), Test("b")>>)>>
TwoClasses == <<Cls("C", <<Test("a")>>), Cls("D", <<Test("a"), Test("b")>>)>>

Base == [modules |-> <<Mod(<<"p">>, TwoTests), Mod(<<"p", "m">>, TwoClasses)>>, args |-> <<>>,
         regex |-> {"a", "b"}, coverage |-> FALSE, everything |-> TRUE, files |-> {},
         show |-> TRUE, list |-> FALSE, interrupted |-> FALSE]

WithTest(w) == [Base EXCEPT !.modules[1].classes[1].tests[1] = w]
SetC(p, i, j, up, down) == [p EXCEPT !.modules[i].classes[j].setUp = up, !.modules[i].classes[j].tearDown = down]
SetM(p, i, up, down) == [p EXCEPT !.modules[i].setUp = up, !.modules[i].tearDown = down]

Fixtures ==
  {SetC(SetC(Base, 1, 1, u, d), 2, 1, v, e) : u, v, d, e \in {"ok", "fail"}}
  \cup {SetC(SetC(Base, 2, 1, u, d), 2, 2, v, e) : u, v, d, e \in {"ok", "skip", "fail"}}
  \cup {SetM(SetC(Base, 1, 1, v, e), 1, u, d) : u, d \in Outcomes, v, e \in {"ok", "fail"}}
  \cup {SetM(SetC(Base, 2, 2, v, "fail"), 2, u, d) : u, v, d \in Outcomes}

Names == {<<"p">>, <<"p", "m">>, <<"p", "C">>, <<"p", "m", "D">>, <<"p", "m", "D", "b">>,
          <<"p", "C", "b">>, <<"q">>, <<"p", "m", "E">>}
ArgLists == {<<a>> : a \in Names} \cup {<<a, b>> : a, b \in Names}

F(name, statements, excluded, executed) == [name |-> name, included |-> TRUE, omitted |-> FALSE,
  statements |-> statements, excluded |-> excluded, executed |-> executed]
Files == {F("f", {1, 2, 4}, {3}, {1, 4}), [F("g", {1, 2}, {}, {1}) EXCEPT !.omitted = TRUE], F("h", {2}, {}, {})}

MCPrograms ==
  {WithTest(w) : w \in Ways} \cup Fixtures
  \cup {[f EXCEPT !.args = l, !.list = li] : l \in ArgLists, li \in BOOLEAN, f \in {Base, SetC(Base, 2, 2, "fail", "ok"),
          [Base EXCEPT !.regex = {"a"}], [Base EXCEPT !.modules[1].classes = <<>>],
          [Base EXCEPT !.modules[2].imports = FALSE], [Base EXCEPT !.modules[1].imports = FALSE],
          [Base EXCEPT !.modules[1].classes = <<>>, !.modules[2].imports = FALSE]}}
  \cup {[Base EXCEPT !.modules[2].imports = FALSE], [Base EXCEPT !.regex = {"b"}]}
  \cup {[WithTest([Test("a") EXCEPT !.method = m]) EXCEPT !.coverage = TRUE, !.files = f, !.everything = e, !.show = s] :
          m \in {"ok", "fail"}, f \in SUBSET Files, e, s \in BOOLEAN}
  \cup {[Base EXCEPT !.coverage = TRUE, !.everything = FALSE, !.files = Files \cup {[F("i", {1}, {}, {1}) EXCEPT !.included = FALSE]}]}
  \cup {[f EXCEPT !.interrupted = TRUE] : f \in {WithTest([Test("a") EXCEPT !.thread = TRUE]),
          SetC(Base, 1, 1, "ok", "fail"), SetC(Base, 2, 1, "fail", "ok")}}
=============================================================================

------------------------------- MODULE CthTpx -------------------------------
(***************************************************************************)
(* How the results of one suite are recorded and reported. Common Test     *)
(* runs the requested tests and calls the hook cth_tpx around everything   *)
(* it runs; the hook keeps a stack of the groups it believes to be in and  *)
(* registers each result under it; at the end test_runner collects, for    *)
(* each requested test, its result with the inits and ends around it.      *)
(*                                                                         *)
(* The tree of results is the nested map of TestTree; the history `table`  *)
(* remembers the same registrations without any tree. Group stacks are     *)
(* written from the root to the leaf. What Common Test does is external:   *)
(* it opens the groups of an entry of the test specification, runs its     *)
(* cases and closes the groups; when a group or the suite does not         *)
(* initialise it skips what is inside and calls no end function for it.    *)
(***************************************************************************)
EXTENDS TestTree, Subsequences

CONSTANTS Group, Case,
          TestSpecs   \* sequences of entries [groups, cases], see build_test_spec

\* A name that no case has, for the inits and ends of groups.
ASSUME CaseAssumption == NoCase \notin Case

Path == Seq(Group)

ASSUME TestSpecsAssumption ==
  \A s \in TestSpecs : s \in Seq([groups : Path, cases : Seq(Case)])

VARIABLES
  spec,         \* the entries of the test specification
  pc,           \* where Common Test is: "start", "run" or "ended"
  entry,        \* the entry it works on
  opened,       \* how many groups of the entry are open
  caseNo,       \* how many cases of the entry are dealt with
  skip,         \* "no", or who caused the rest of the entry to be skipped
  suiteSkip,    \* the same for the whole suite
  groups,       \* the hook's stack of groups
  prevFailed,   \* previous_group_failed
  tree,         \* the root node of the registered results
  table,        \* history: where a method was registered last -> its outcome
  truth,        \* history: what really became of each test
  displaced     \* history: keys whose result went elsewhere or was overwritten

ctVars   == <<spec, pc, entry, opened, caseNo, skip, suiteSkip>>
hookVars == <<groups, prevFailed, tree>>
vars     == <<ctVars, hookVars, table, truth, displaced>>

-----------------------------------------------------------------------------
Outcome == {"passed", "failed", "skipped"}
Skip    == {"no", "auto", "user"}

Here    == spec[entry]
Opened  == SubSeq(Here.groups, 1, opened)   \* the groups Common Test is in
Parent(path) == SubSeq(path, 1, Len(path) - 1)

\* A method: init or end of a group (NoCase), or of a case, or its main.
Key(path, case, phase) == [path |-> path, case |-> case, phase |-> phase]

\* The methods the report on one test is collected from.
Chain(path, case) ==
  (UNION {{Key(q, NoCase, "init"), Key(q, NoCase, "end")} : q \in Prefixes(path)})
    \cup {Key(path, case, phase) : phase \in {"init", "main", "end"}}

Report(path, case) == CollectResult(tree, path, case).main.outcome

-----------------------------------------------------------------------------
(* cth_tpx: the handlers of the hook, on groups, prevFailed and tree. *)

\* The tree and the table after some results under gs.
Registered(t, known, gs, rs) ==
  LET after[n \in 0..Len(rs)] ==
        IF n = 0 THEN [tree |-> t, table |-> known]
        ELSE [tree  |-> Insert(after[n - 1].tree, gs, rs[n]),
              table |-> Put(after[n - 1].table, Key(gs, rs[n].case, rs[n].phase), rs[n].outcome)]
  IN  after[Len(rs)]

\* add_result for results rs under the stack gs, while Common Test is at the path.
Register(rs, gs, path) ==
  LET keys(p) == {Key(p, rs[n].case, rs[n].phase) : n \in DOMAIN rs}
      after == Registered(tree, table, gs, rs)
  IN  /\ tree' = after.tree /\ table' = after.table
      /\ displaced' = displaced \cup (IF gs = path THEN {} ELSE keys(path) \cup keys(gs))
                                \cup {k \in keys(gs) \cap DOMAIN table : table[k] # table'[k]}

\* pre_init_per_group: forget a group that failed to initialise.
Bug_KeepFailed == groups
StackForInit == IF prevFailed /\ groups # <<>> THEN Parent(groups) ELSE groups

\* pre_init_per_group, then post_init_per_group: the group is pushed in any case.
InitGroup(g, outcome, path) ==
  LET gs == Append(StackForInit, g)
  IN  /\ groups' = gs
      /\ prevFailed' = (outcome # "passed")
      /\ Register(<<Result(NoCase, "init", outcome)>>, gs, path)

\* post_end_per_group: tl(Groups), whatever it is.
EndGroup(outcome) ==
  /\ Register(<<Result(NoCase, "end", outcome)>>, groups, Opened)
  /\ groups' = Parent(groups)
  /\ UNCHANGED prevFailed

\* What on_tc_skip records for a case that was not run.
SkipOutcome == IF skip = "user" THEN "skipped" ELSE "failed"

\* The results of a case that ran: init, main and end as post_init_per_testcase,
\* post_end_per_testcase, on_tc_fail and on_tc_skip leave them.
CaseMethods(c, i, m, e) ==
  IF i # "passed"
    THEN <<Result(c, "init", i), Result(c, "main", i)>>
    ELSE <<Result(c, "init", "passed"), Result(c, "main", m),
           Result(c, "end", IF m = "passed" THEN e ELSE "passed")>>

-----------------------------------------------------------------------------
(* Common Test *)

Init ==
  /\ spec \in TestSpecs
  /\ pc = "start" /\ entry = 1 /\ opened = 0 /\ caseNo = 0
  /\ skip = "no" /\ suiteSkip = "no"
  /\ groups = <<>> /\ prevFailed = FALSE /\ tree = NewNode
  /\ table = <<>> /\ truth = <<>> /\ displaced = {}

SkipFor(outcome) == CASE outcome = "passed"  -> "no"
                      [] outcome = "skipped" -> "user"
                      [] outcome = "failed"  -> "auto"

\* init_per_suite. That it asked for a skip is recorded as passed.
InitSuite(outcome) ==
  /\ pc = "start" /\ pc' = "run"
  /\ suiteSkip' = SkipFor(outcome) /\ skip' = suiteSkip'
  /\ groups' = <<>> /\ prevFailed' = FALSE
  /\ Register(<<Result(NoCase, "init", IF outcome = "failed" THEN "failed" ELSE "passed")>>, <<>>, <<>>)
  /\ UNCHANGED <<spec, entry, opened, caseNo, truth>>

OpenGroup(outcome) ==
  /\ pc = "run" /\ entry <= Len(spec) /\ skip = "no" /\ caseNo = 0
  /\ opened < Len(Here.groups)
  /\ InitGroup(Here.groups[opened + 1], outcome, SubSeq(Here.groups, 1, opened + 1))
  /\ opened' = IF outcome = "passed" THEN opened + 1 ELSE opened
  /\ skip' = SkipFor(outcome)
  /\ UNCHANGED <<spec, pc, entry, caseNo, suiteSkip, truth>>

NextCase == Here.cases[caseNo + 1]
MoreCases == pc = "run" /\ entry <= Len(spec) /\ caseNo < Len(Here.cases)

\* The case is skipped because a group or the suite did not initialise.
SkipCase ==
  /\ MoreCases /\ skip # "no"
  /\ Register(<<Result(NextCase, "main", SkipOutcome)>>, groups, Here.groups)
  /\ truth' = Put(truth, <<Here.groups, NextCase>>, IF skip = "user" THEN "skipped" ELSE "failed")
  /\ caseNo' = caseNo + 1
  /\ UNCHANGED <<spec, pc, entry, opened, skip, suiteSkip, groups, prevFailed>>

\* init_per_testcase, the test and end_per_testcase; Common Test does not let
\* the end of a case change that it failed or was skipped.
RunCase(i, m, e) ==
  /\ MoreCases /\ skip = "no" /\ opened = Len(Here.groups)
  /\ Register(CaseMethods(NextCase, i, m, e), groups, Here.groups)
  /\ truth' = Put(truth, <<Here.groups, NextCase>>,
                  IF i # "passed" THEN i ELSE IF m # "passed" THEN m
                  ELSE IF e = "failed" THEN "failed" ELSE "passed")
  /\ caseNo' = caseNo + 1
  /\ UNCHANGED <<spec, pc, entry, opened, skip, suiteSkip, groups, prevFailed>>

\* A failing end function fails the tests it closes.
FailTests(paths) ==
  truth' = [pt \in DOMAIN truth |-> IF pt[1] \in paths THEN "failed" ELSE truth[pt]]

CloseGroup(outcome) ==
  /\ pc = "run" /\ entry <= Len(spec) /\ caseNo = Len(Here.cases) /\ opened > 0
  /\ EndGroup(outcome)
  /\ opened' = opened - 1
  /\ IF outcome = "failed" THEN FailTests({Here.groups}) ELSE UNCHANGED truth
  /\ UNCHANGED <<spec, pc, entry, caseNo, skip, suiteSkip>>

NextEntry ==
  /\ pc = "run" /\ entry <= Len(spec) /\ caseNo = Len(Here.cases) /\ opened = 0
  /\ entry' = entry + 1 /\ caseNo' = 0 /\ skip' = suiteSkip
  /\ UNCHANGED <<spec, pc, opened, suiteSkip, hookVars, table, truth, displaced>>

\* end_per_suite, which is not called when init_per_suite did not succeed.
EndSuite(outcome) ==
  /\ pc = "run" /\ entry > Len(spec) /\ pc' = "ended"
  /\ IF suiteSkip = "no"
       THEN /\ Register(<<Result(NoCase, "end", outcome)>>, groups, <<>>)
            /\ groups' = <<>>
            /\ IF outcome = "failed"
                 THEN FailTests({pt[1] : pt \in DOMAIN truth}) ELSE UNCHANGED truth
       ELSE UNCHANGED <<groups, tree, table, truth, displaced>>
  /\ UNCHANGED <<spec, entry, opened, caseNo, skip, suiteSkip, prevFailed>>

Next ==
  \/ \E o \in Outcome : InitSuite(o) \/ OpenGroup(o) \/ CloseGroup(o) \/ EndSuite(o)
  \/ \E i, m, e \in Outcome : RunCase(i, m, e)
  \/ SkipCase \/ NextEntry

Spec == Init /\ [][Next]_vars

-----------------------------------------------------------------------------
Requested == UNION {{<<spec[n].groups, spec[n].cases[j]>> : j \in 1..Len(spec[n].cases)}
                      : n \in 1..Len(spec)}

(***************************************************************************)
(* The hook's stack is where Common Test is, or, after a group that did    *)
(* not initialise, one group deeper: previous_group_failed tells the two   *)
(* apart in every sequence of groups that pass, fail and are closed, so    *)
(* pre_init_per_group always puts it right and tl(Groups) never fails.     *)
(***************************************************************************)
GroupsTracked ==
  pc = "run" =>
    LET here == IF entry <= Len(spec) THEN Opened ELSE <<>>
    IN  IF prevFailed THEN groups # <<>> /\ Parent(groups) = here ELSE groups = here

(***************************************************************************)
(* What is reported for a requested test is what became of it, with the    *)
(* failures of every init before it and every end after it, unless one of  *)
(* the results it depends on was registered in another group or replaced   *)
(* by a later run of the same group.                                       *)
(***************************************************************************)
ReportsFaithful ==
  pc = "ended" =>
    \A pt \in Requested :
      Report(pt[1], pt[2]) = truth[pt] \/ Chain(pt[1], pt[2]) \cap displaced # {}

-----------------------------------------------------------------------------
(* The same report, read off the table. *)

\* The results of one phase at the nodes of a test, in the order Common Test
\* enters them, the leaf last; those that are there.
InTable(path, case, phase) ==
  LET At(q, c) == Found(q, c, Get(table, Key(q, c, phase), "none"))
      levels   == [n \in 1..(Len(path) + 1) |-> At(SubSeq(path, 1, n - 1), NoCase)]
      all      == Append(levels, At(path, case))
  IN  Only(all, {r \in Range(all) : r.outcome # "none"})

(***************************************************************************)
(* At any time the report on a requested test lists the inits registered   *)
(* for it in the order they ran, from the suite to the case, and the ends  *)
(* from the case to the suite, whichever of its groups have no results;    *)
(* and the message of a test that fails for want of a result is about the  *)
(* init that failed, or about none if none did.                            *)
(***************************************************************************)
CollectedInOrder ==
  \A pt \in Requested :
    LET r      == CollectResult(tree, pt[1], pt[2])
        inits  == InTable(pt[1], pt[2], "init")
        failed == Failing(inits)
    IN  /\ r.inits = inits
        /\ r.ends = Reverse(InTable(pt[1], pt[2], "end"))
        /\ r.main.blames = IF failed = {} THEN <<>> ELSE <<inits[Max(failed)].path>>
=============================================================================

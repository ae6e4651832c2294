------------------------------ MODULE TestTree ------------------------------
(***************************************************************************)
(* cth_tpx_test_tree: the nested maps results are registered in, and how   *)
(* the report on one test is collected from them. A module of operators on *)
(* trees; CthTpx fills one.                                                *)
(*                                                                         *)
(* A node has its init and end results, leaves by case and nodes by group. *)
(* A leaf has init, main and end results. "none" is a missing result. The  *)
(* recursion over the path is written with functions of its positions.     *)
(***************************************************************************)
EXTENDS Naturals, Sequences, SequencesExt

NewNode == [init |-> "none", end |-> "none", cases |-> <<>>, groups |-> <<>>]
NewLeaf == [init |-> "none", main |-> "none", end |-> "none"]

\* maps:get with a default.
Get(map, key, default) == IF key \in DOMAIN map THEN map[key] ELSE default
Put(map, key, value)   == [k \in DOMAIN map \cup {key} |-> IF k = key THEN value ELSE map[k]]

\* A result as it is registered; the init or end of a group is of no case.
NoCase == ""
Result(case, phase, outcome) == [case |-> case, phase |-> phase, outcome |-> outcome]

\* insert_result at the end of the path: into the node, or the leaf of a case.
WithResult(node, r) ==
  IF r.case = NoCase
    THEN [node EXCEPT ![r.phase] = r.outcome]
    ELSE [node EXCEPT !.cases = Put(@, r.case, [Get(@, r.case, NewLeaf) EXCEPT ![r.phase] = r.outcome])]

\* The nodes along a path, nodes that are not there being empty (get_child).
Nodes(root, path) ==
  LET at[k \in 0..Len(path)] == IF k = 0 THEN root ELSE Get(at[k - 1].groups, path[k], NewNode)
  IN  at
NodeAt(root, path) == Nodes(root, path)[Len(path)]

\* insert_result: down the path, creating groups; written from the end upwards.
Changed(nodes, path, r) ==
  LET new[k \in 0..Len(path)] ==
        IF k = Len(path) THEN WithResult(nodes[k], r)
        ELSE [nodes[k] EXCEPT !.groups = Put(@, path[k + 1], new[k + 1])]
  IN  new
Insert(root, path, r) == Changed(Nodes(root, path), path, r)[0]

\* A result that was found on the way, with the path of its node and its case.
Found(path, case, outcome) == [path |-> path, case |-> case, outcome |-> outcome]

\* adds_if_present
Bug_AddLast(found, list) == IF found.outcome = "none" THEN list ELSE Append(list, found)
AddIfPresent(found, list) == IF found.outcome = "none" THEN list ELSE <<found>> \o list

\* Of results from the root to the leaf those that are there, the last first.
Gathered(results) ==
  LET list[n \in 0..Len(results)] ==
        IF n = 0 THEN <<>> ELSE AddIfPresent(results[n], list[n - 1])
  IN  list[Len(results)]

Failing(list) == {n \in DOMAIN list : list[n].outcome = "failed"}

\* What the message of a test without result of its own is about: the init it
\* finds first, going from the leaf to the root (handle_missing_results and
\* handle_skipped_result), or nothing.
Blame(inits) == IF Failing(inits) = {} THEN <<>> ELSE <<inits[Min(Failing(inits))].path>>

\* collect_node of a leaf: main counts if no init failed; a missing result is
\* a failure (get_missing_result); a skipped one stays skipped.
Main(leaf, inits) ==
  IF Failing(inits) # {} \/ leaf.main = "none"
    THEN [outcome |-> "failed", blames |-> Blame(inits)]
    ELSE [outcome |-> leaf.main, blames |-> <<>>]

\* collect_result/6: from the root to the leaf, with the inits and ends so far.
Collect(root, path, case) ==
  LET leaf  == Get(NodeAt(root, path).cases, case, NewLeaf)
      above(phase) == [n \in 1..(Len(path) + 1) |->
                         LET here == SubSeq(path, 1, n - 1)
                         IN  Found(here, NoCase, NodeAt(root, here)[phase])]
      inits == Gathered(Append(above("init"), Found(path, case, leaf.init)))
  IN  [inits |-> Reverse(inits), main |-> Main(leaf, inits),
       ends |-> Gathered(Append(above("end"), Found(path, case, leaf.end)))]

\* report_end_failure over all ends: merge_outcome with those that failed.
Bug_NoEndFailure(ends, outcome) == outcome
WithEndFailure(ends, outcome) == IF Failing(ends) = {} THEN outcome ELSE "failed"

\* collect_result/3
CollectResult(root, path, case) ==
  LET r == Collect(root, path, case)
  IN  [r EXCEPT !.main.outcome = WithEndFailure(r.ends, @)]
=============================================================================

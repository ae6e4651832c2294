---------------------------- MODULE MergeSequence ----------------------------
(***************************************************************************)
(* The merge sequence of an Android binary: each entry takes the targets   *)
(* that its roots reach and no earlier entry took, splits them into split  *)
(* groups, those into layers, and each layer becomes one library with a    *)
(* name of its own. Steps are the loops of get_native_linkables_by_merge_  *)
(* sequence and of assign_names; names are sequences of the parts that     *)
(* are joined by underscores.                                              *)
(***************************************************************************)
EXTENDS Naturals, Sequences, FiniteSets, Functions, SequencesExt

CONSTANTS Inputs  \* a linkable graph with a merge sequence, see InputAssumption

Root == "dex"

\* order: the targets as the file lists them; deps: of each, a sequence; module:
\* what the module graph maps them to, empty when there is none;
\* sequence: the entries, sets of specs with a name and the roots that its
\* patterns match; merge: the option --merge-non-asset-libs.
ASSUME InputAssumption == \A i \in Inputs :
  /\ DOMAIN i.deps = Range(i.order) /\ DOMAIN i.module \in {{}, Range(i.order)}
  /\ \A t \in Range(i.order) : Range(i.deps[t]) \subseteq Range(i.order)
  /\ \A e \in Range(i.sequence) : \A s \in e : s.roots \subseteq Range(i.order)
  /\ i.assets \cup i.blocked \subseteq Range(i.order) /\ i.merge \in BOOLEAN

VARIABLES
  input,
  pc,
  group,    \* current_merge_group
  ordered,  \* post_ordered_targets of the group
  dependents, \* dependents_in_current_merge_group_map
  subgroup, \* the specs of the entry that reach a target
  modules,  \* transitive_module_deps_map
  next,     \* how many targets, then libraries, are still to do
  node,     \* node_data: what is known of the targets that have a library
  graph,    \* the final libraries that each depends on
  sorted,   \* their order for naming
  counters, \* name_counters
  names     \* final_lib_names

vars == <<input, pc, group, ordered, dependents, subgroup, modules, next,
          node, graph, sorted, counters, names>>

Targets == Range(input.order)
Deps(t) == Range(input.deps[t])
\* module_for_target, of read_apk_module_graph.
ModuleForTarget(t) == IF input.module = <<>> THEN Root ELSE input.module[t]
Entry == input.sequence[group]

Init ==
  /\ input \in Inputs /\ pc = "group" /\ group = 1
  /\ ordered = <<>> /\ dependents = <<>> /\ subgroup = <<>> /\ modules = <<>> /\ next = 0
  /\ node = <<>> /\ graph = <<>> /\ sorted = <<>> /\ counters = <<>> /\ names = <<>>

-----------------------------------------------------------------------------
\* post_order_traversal_by: a stack of visits and outputs. It raises when a
\* node depends on one that is being visited.
PostOrder(roots, deps) ==
  LET Visit(n) == <<"visit", n>>
      Step(s) ==
        LET top == Last(s.work) n == top[2] rest == Front(s.work)
        IN  IF top[1] = "output"
            THEN [s EXCEPT !.work = rest, !.ordered = Append(@, n), !.parents = Front(@)]
            ELSE IF n \in s.visited THEN [s EXCEPT !.work = rest]
            ELSE LET visited == s.visited \cup {n}
                     new == SelectSeq(deps[n], LAMBDA d : d \notin visited)
                 IN  [s EXCEPT !.visited = visited, !.parents = Append(@, n),
                               !.cycle = Range(deps[n]) \cap Range(Append(s.parents, n)) # {},
                               !.work = Append(rest, <<"output", n>>)
                                        \o [i \in DOMAIN new |-> Visit(new[i])]]
      Nodes == DOMAIN deps
      Traversal == [work : Seq({"visit", "output"} \X Nodes), visited : SUBSET Nodes,
                    parents : Seq(Nodes), ordered : Seq(Nodes), cycle : BOOLEAN]
      walk[s \in Traversal] == IF s.cycle \/ s.work = <<>> THEN s ELSE walk[Step(s)]
  IN  walk[[work |-> [i \in DOMAIN roots |-> Visit(roots[i])], visited |-> {},
            parents |-> <<>>, ordered |-> <<>>, cycle |-> FALSE]]

\* get_rooted_specs
RootedSpecs(t) == {s.name : s \in {x \in Entry : t \in x.roots}}

\* Children without a merge group, and who depends on a target in this one.
Remaining == [t \in Targets |-> SelectSeq(input.deps[t], LAMBDA d : d \notin DOMAIN node)]
DependentsIn(targets, remaining) ==
  [t \in targets |-> {d \in targets : t \in Range(remaining[d])}]

\* compute_merge_subgroup_mapping, from dependents to dependencies.
Reaching(roots, order) ==
  FoldLeft(LAMBDA reached, t : [u \in Targets |-> IF u \in Deps(t) THEN reached[u] \cup reached[t]
                                                  ELSE reached[u]],
           [t \in Targets |-> IF t \in roots THEN RootedSpecs(t) ELSE {}], Reverse(order))

\* The bottom-up traversal.
Bug_ModulesOfGroup(order) ==
  FoldLeft(LAMBDA known, t :
             (t :> {ModuleForTarget(t)} \cup UNION {known[d] : d \in Deps(t) \ DOMAIN node}) @@ known,
           modules, order)
TransitiveModules(order) ==
  FoldLeft(LAMBDA known, t : (t :> {ModuleForTarget(t)} \cup UNION {known[d] : d \in Deps(t)}) @@ known,
           modules, order)

StartGroup ==
  /\ pc = "group" /\ group <= Len(input.sequence)
  /\ LET roots == SelectSeq(input.order, LAMBDA t : t \notin DOMAIN node /\ RootedSpecs(t) # {})
         walk == PostOrder(roots, Remaining)
     IN  IF walk.cycle
         THEN pc' = "raised" /\ UNCHANGED <<ordered, dependents, subgroup, modules, next>>
         ELSE /\ pc' = "layers" /\ ordered' = walk.ordered /\ next' = Len(walk.ordered)
              /\ dependents' = DependentsIn(Range(walk.ordered), Remaining)
              /\ subgroup' = Reaching(Range(roots), walk.ordered)
              /\ modules' = TransitiveModules(walk.ordered)
  /\ UNCHANGED <<input, group, node, graph, sorted, counters, names>>

-----------------------------------------------------------------------------
\* check_is_excluded
Excluded(t) == (~input.merge /\ t \notin input.assets) \/ t \in input.blocked

\* get_split_group; the keys stand for the numbers they are given.
SplitGroup(t) ==
  [excluded |-> IF Excluded(t) THEN {t} ELSE {}, module |-> ModuleForTarget(t), group |-> group,
   subgroup |-> subgroup[t], modules |-> IF ModuleForTarget(t) = Root THEN modules[t] ELSE {}]

\* An edge from a target that is merged into another split group.
Bug_Within(split, d) == ~Excluded(d)
Enters(split, d) == split # node[d].split /\ ~Excluded(d)

\* What a dependent tells of the entries into split group g above a target.
Bug_EntriesVia(split, d, g) ==
  IF g \in DOMAIN node[d].entries THEN node[d].entries[g]
  ELSE IF g = node[d].split /\ Enters(split, d) THEN 1 ELSE 0
EntriesVia(split, d, g) ==
  LET known == g \in DOMAIN node[d].entries
      leaves == g = node[d].split /\ Enters(split, d)
  IN  IF known THEN node[d].entries[g] + (IF leaves THEN 1 ELSE 0)
      ELSE IF leaves THEN 1 ELSE 0

\* dependent_included_split_group_entry_counts
Entries(split, ds) ==
  LET groups == (UNION {DOMAIN node[d].entries : d \in ds})
                \cup {node[d].split : d \in {x \in ds : Enters(split, x)}}
      count(g) == {EntriesVia(split, d, g) : d \in ds}
  IN  [g \in groups |-> CHOOSE n \in count(g) : \A k \in count(g) : n >= k]

\* One round of the top-down traversal.
AssignLayer ==
  /\ pc = "layers" /\ next > 0 /\ next' = next - 1
  /\ LET t == ordered[next]
         split == SplitGroup(t)
         entries == Entries(split, dependents[t])
         layer == IF split \in DOMAIN entries THEN entries[split] ELSE 0
     IN  node' = (t :> [split |-> split, entries |-> entries, key |-> <<split, layer>>]) @@ node
  /\ UNCHANGED <<input, pc, group, ordered, dependents, subgroup, modules, graph, sorted, counters, names>>

\* add_node for the targets of the group: the edges between libraries.
LibraryDeps(key) == {node[d].key : d \in UNION {Deps(t) : t \in {x \in DOMAIN node : node[x].key = key}}}
AddNodes ==
  /\ pc = "layers" /\ next = 0 /\ pc' = "group" /\ group' = group + 1
  /\ graph' = [k \in {node[t].key : t \in DOMAIN node} |-> LibraryDeps(k) \ {k}]
  /\ UNCHANGED <<input, ordered, dependents, subgroup, modules, next, node, sorted, counters, names>>

-----------------------------------------------------------------------------
\* topo_sort, from the libraries that none depends on: a cycle below one of
\* them raises, and other cycles are never come across.
TopoSort ==
  /\ pc = "group" /\ group > Len(input.sequence)
  /\ LET roots == {k \in DOMAIN graph : \A l \in DOMAIN graph : k \notin graph[l]}
         walk == PostOrder(SetToSeq(roots), [k \in DOMAIN graph |-> SetToSeq(graph[k])])
     IN  IF walk.cycle THEN pc' = "raised" /\ UNCHANGED <<sorted, next>>
         ELSE pc' = "name" /\ sorted' = walk.ordered /\ next' = Len(walk.ordered)
  /\ UNCHANGED <<input, group, ordered, dependents, subgroup, modules, node, graph, counters, names>>

\* get_base_name
BaseName(split) ==
  IF split.excluded # {} THEN SetToSeq(split.excluded)
  ELSE IF Cardinality(split.subgroup) = 1 THEN CHOOSE n \in split.subgroup : TRUE
  ELSE <<"shared">> \o FlattenSeq(SetToSeq(split.subgroup))

Constituents(g) == {ModuleForTarget(t) : t \in {x \in DOMAIN node : node[x].split.group = g}}

\* The name before it is counted.
LibraryName(split) ==
  IF Cardinality(Constituents(split.group)) > 1 /\ split.module # Root
  THEN Append(BaseName(split), split.module) ELSE BaseName(split)

Number == <<"0", "1", "2", "3", "4">>
AssignName ==
  /\ pc = "name" /\ next > 0 /\ next' = next - 1
  /\ LET key == sorted[next] split == key[1]
         name == LibraryName(split)
         count == IF name \in DOMAIN counters THEN counters[name] ELSE 0
     IN  IF split.excluded # {}
         THEN names' = (key :> BaseName(split)) @@ names /\ UNCHANGED counters
         ELSE /\ counters' = (name :> count + 1) @@ counters
              /\ names' = (key :> (IF count = 0 THEN name ELSE Append(name, Number[count + 1]))) @@ names
  /\ UNCHANGED <<input, pc, group, ordered, dependents, subgroup, modules, node, graph, sorted>>

\* main looks up the name of each library, which raises if one was not sorted.
Write ==
  /\ pc = "name" /\ next = 0
  /\ pc' = IF DOMAIN names = DOMAIN graph THEN "written" ELSE "raised"
  /\ UNCHANGED <<input, group, ordered, dependents, subgroup, modules, next, node, graph,
                 sorted, counters, names>>

Next == StartGroup \/ AssignLayer \/ AddNodes \/ TopoSort \/ AssignName \/ Write

Spec == Init /\ [][Next]_vars

-----------------------------------------------------------------------------
(* Properties *)

\* Targets and libraries that a set of them reaches, itself included.
Closure(deps, start) ==
  LET more[s \in SUBSET DOMAIN deps] ==
        LET t == s \cup UNION {deps[n] : n \in s} IN IF t = s THEN s ELSE more[t]
  IN  more[start]
Reached(t) == Closure([u \in Targets |-> Deps(u)], {t})
ModulesOf(t) == {ModuleForTarget(d) : d \in Reached(t)}

\* What the module graph promises: the modules but the root have no cycle,
\* and what could be an asset and is reached from a module that it leads back
\* to is part of that module (merge_sequence.py:63-67).
ModulesAreLayered == \A t \in Targets : \A u \in Reached(t) :
  LET m == ModuleForTarget(t) n == ModuleForTarget(u)
  IN  m # Root /\ m # n /\ m \in ModulesOf(u) => n = Root /\ u \notin input.assets

\* Merging ends with a library for each target it took, of libraries that do
\* not depend on one another in a circle, for any graph and any sequence that
\* the modules are layered for (merge_sequence.py:54-68).
MergesWithoutCycle ==
  ModulesAreLayered /\ ~input.merge =>
    /\ pc # "raised"
    /\ pc = "written" => \A k \in DOMAIN graph : \A l \in graph[k] : k \notin Closure(graph, {l})

Reaches(i, t) == {s \in input.sequence[i] : \E r \in s.roots : t \in Reached(r)}

\* A target is in the group of the first entry that reaches it; targets are in
\* one library only if the same specs reach them, they are in one module, in
\* the root module lead to the same modules, and none of them is excluded
\* (merge_sequence.py:33-49).
LibrariesAreValid == pc = "written" =>
  /\ \A t \in Targets : LET by == {i \in DOMAIN input.sequence : Reaches(i, t) # {}}
                        IN  IF by = {} THEN t \notin DOMAIN node
                            ELSE node[t].split.group \in by /\ \A i \in by : i >= node[t].split.group
  /\ \A t, u \in DOMAIN node : t # u /\ node[t].key = node[u].key =>
       /\ ~Excluded(t) /\ ~Excluded(u) /\ ModuleForTarget(t) = ModuleForTarget(u)
       /\ ModuleForTarget(t) = Root => ModulesOf(t) = ModulesOf(u)
       /\ LET by(x) == {s.name : s \in Reaches(node[x].split.group, x)} IN by(t) = by(u)

\* No two libraries could have been one: of two layers of a split group one
\* leads to the other through a third library (merge_sequence.py:70-73).
LayersAreMinimal == pc = "written" => \A k, l \in DOMAIN graph :
  k # l /\ k[1] = l[1] =>
    \E a \in {k, l} : \E b \in {k, l} \ {a} : \E m \in graph[a] \ {b} : b \in Closure(graph, {m})

=============================================================================

------------------------------- MODULE ThinLto -------------------------------
(***************************************************************************)
(* A link with distributed ThinLTO, from the archives that are unpacked to *)
(* the final link: each action of the build is a step. The thin link, the  *)
(* compiler and the linker are not of this code and stand as what it reads *)
(* of them. A file is the set of the translation units whose code it has,  *)
(* a path a kind, the index of the linkable and a file name, which is a    *)
(* sequence: file_1.o is <<"file", 1>>.                                    *)
(***************************************************************************)
EXTENDS Naturals, FiniteSets, Functions, SequencesExt, Subsequences

CONSTANTS Links  \* links, see LinkAssumption

\* linkables: objects and archives, with pairs of a file name and a unit; a
\* thin archive names files elsewhere, and an unknown one is no archive;
\* lto: the units that are bitcode; loaded: those the linker takes; imports:
\* the units that each takes code from; into: the unit that absorbs each; flags:
\* of the linker, a form and an option each; cc1: flags the compiler adds.
ASSUME LinkAssumption == \A i \in Links :
  /\ i.darwin \in BOOLEAN /\ i.premerger \in BOOLEAN /\ (i.premerger => i.darwin)
  /\ i.linkables \in Seq(Range(i.linkables))
  /\ \A l \in Range(i.linkables) :
       /\ l.kind \in {"object", "archive", "thin", "unknown"} /\ l.members \in Seq(Range(l.members))
       /\ l.kind = "object" => Len(l.members) = 1
       /\ l.kind = "thin" => \A j, k \in DOMAIN l.members : l.members[j][1] = l.members[k][1] => j = k
  /\ DOMAIN i.imports = i.lto /\ DOMAIN i.into = i.lto
  /\ \A u \in i.lto : i.imports[u] \in Seq(i.lto)
  /\ \A u \in i.lto : LET r == i.into[u] IN r # u => {u, r} \subseteq i.loaded /\ i.into[r] = r
  /\ ~i.premerger => \A u \in i.lto : i.into[u] = u

VARIABLES
  link,
  phase,
  prepared,  \* objects_dir and manifest of the archives that were unpacked
  plan,      \* plans of the objects, .imports, link plan, final link index
  opt,       \* the optimised objects, by their paths
  lost,      \* the units the compiler dropped without an exit code
  undeclared, \* what an action read and had not declared
  linked     \* the files of the final link

linkVars == <<link, phase, prepared, plan, opt, lost, undeclared, linked>>

Linkables == DOMAIN link.linkables
IsArchive(i) == link.linkables[i].kind # "object"
IsThin(i) == link.linkables[i].kind = "thin"
Members(i) == link.linkables[i].members
ArchiveIds == {i \in Linkables : IsArchive(i)}
Units == UNION {{m[2] : m \in Range(Members(i))} : i \in Linkables}

LinkInit ==
  /\ link \in Links /\ phase = "prepare" /\ prepared = <<>> /\ plan = <<>>
  /\ opt = <<>> /\ lost = {} /\ undeclared = {} /\ linked = <<>>

-----------------------------------------------------------------------------
(* dist_lto_prepare.py *)

Names(i) == [k \in DOMAIN Members(i) |-> Members(i)[k][1]]
Firsts(s) == LET at == Only([k \in DOMAIN s |-> k], {k \in DOMAIN s : \A l \in 1..k - 1 : s[l] # s[k]})
             IN  [n \in DOMAIN at |-> s[at[n]]]
Instances(i, name) == Only(Members(i), {m \in Range(Members(i)) : m[1] = name})

\* _gen_filename
GenFilename(name, k) == IF k > 1 THEN Append(name, k - 1) ELSE name

\* Every instance of a name that occurs again, in the order it is moved.
Moves(i) ==
  FlattenSeq([n \in DOMAIN Firsts(Names(i)) |->
    LET all == Instances(i, Firsts(Names(i))[n])
    IN  IF Len(all) = 1 THEN <<>>
        ELSE [k \in DOMAIN all |-> <<GenFilename(all[k][1], k), all[k][2], k>>]])

Write(files, m) == (m[1] :> m[2]) @@ files
Bug_Extract(i) ==
  [files |-> FoldLeft(Write, FoldLeft(Write, <<>>, Members(i)), Moves(i)),
   known |-> Firsts(Names(i)) \o [k \in DOMAIN Moves(i) |-> Moves(i)[k][1]]]
Extract(i) ==
  LET extras == Only(Moves(i), {m \in Range(Moves(i)) : m[3] > 1})
  IN  [files |-> FoldLeft(Write, FoldLeft(Write, <<>>, Members(i)), Moves(i)),
       known |-> Firsts(Names(i)) \o [k \in DOMAIN extras |-> extras[k][1]]]

\* The members of a thin archive stay where they are and are only looked at.
ListThin(i) == [files |-> <<>>, known |-> Names(i)]
MemberPaths(i) == {<<"member", i, name>> : name \in Range(Names(i))}

PrepareArchive(i) ==
  /\ phase = "prepare" /\ i \in ArchiveIds \ DOMAIN prepared
  /\ link.linkables[i].kind # "unknown"
  /\ prepared' = [j \in DOMAIN prepared \cup {i} |->
                    IF j # i THEN prepared[j] ELSE IF IsThin(i) THEN ListThin(i) ELSE Extract(i)]
  /\ undeclared' = undeclared \cup (IF IsThin(i) THEN MemberPaths(i) ELSE {})
  /\ UNCHANGED <<link, phase, plan, opt, lost, linked>>

\* identify_file finds neither kind of archive, or a member does not exist.
PrepareFails(i) ==
  /\ phase = "prepare" /\ i \in ArchiveIds \ DOMAIN prepared
  /\ link.linkables[i].kind \in {"unknown", "thin"} /\ phase' = "failed"
  /\ UNCHANGED <<link, prepared, plan, opt, lost, undeclared, linked>>

-----------------------------------------------------------------------------
(* What the thin link is given and leaves *)

\* The files of a linkable, as the meta file lists them.
Directory(i) == IF IsThin(i) THEN "member" ELSE "objects"
Files(i) == IF IsArchive(i) THEN [k \in DOMAIN prepared[i].known |-> <<Directory(i), i, prepared[i].known[k]>>]
            ELSE <<<<"object", i, <<>>>>>>
UnitAt(p) == CASE p[1] = "objects" -> prepared[p[2]].files[p[3]]
               [] p[1] = "member" -> Instances(p[2], p[3])[1][2]
               [] OTHER -> Members(p[2])[1][2]
AllFiles == FlattenSeq([i \in Linkables |-> Files(i)])
PathsOf(u) == {p \in Range(AllFiles) : UnitAt(p) = u}
Bitcode(p) == UnitAt(p) \in link.lto
Loaded(p) == UnitAt(p) \in link.loaded

\* index and index.full; the latter has what the toolchain adds, too.
IndexLines == Only(AllFiles, {p \in Range(AllFiles) : Loaded(p) /\ Bitcode(p)})
FullLines == (IF link.darwin THEN <<>> ELSE <<<<"crt", 0, <<>>>>>>)
             \o Only(AllFiles, {p \in Range(AllFiles) : Loaded(p)})

\* The file the premerger writes for a unit.
MergeState(u) ==
  IF u \notin link.loaded THEN "NOT_LOADED"
  ELSE IF link.into[u] # u THEN "ABSORBED"
  ELSE IF \E v \in link.lto \ {u} : link.into[v] = u THEN "ROOT" ELSE "STANDALONE"
Merged(u) == {v \in link.lto : link.into[v] = u}
ImportPath(p) == IF link.premerger /\ MergeState(UnitAt(p)) = "ROOT" THEN <<"merged", p[2], p[3]>> ELSE p

\* The .imports of a bitcode file, from units that the linker was given, and
\* read_imports, which maps merged files back.
ImportLines(p) == LET of == Only(link.imports[UnitAt(p)], {u \in link.lto : PathsOf(u) # {}})
                  IN  [k \in DOMAIN of |-> ImportPath(CHOOSE q \in PathsOf(of[k]) : TRUE)]
ReadImports(p) == [k \in DOMAIN ImportLines(p) |->
                     CHOOSE q \in {x \in Range(AllFiles) : Bitcode(x)} :
                       ImportPath(q) = ImportLines(p)[k]]

-----------------------------------------------------------------------------
(* The planners *)

\* The split into imports and archive_imports.
Bug_Imports(p) == [imports |-> {q[2] : q \in Range(ReadImports(p))}, archives |-> {}]
Imports(p) ==
  [imports |-> {q[2] : q \in {x \in Range(ReadImports(p)) : ~IsArchive(x[2])}},
   archives |-> {q[2] : q \in {x \in Range(ReadImports(p)) : IsArchive(x[2])}}]

\* The loop over the imports has the same variable as the one over the objects:
\* the state and the absorbed path that follow are those of the last import.
Subject(p) == IF IsArchive(p[2]) \/ ReadImports(p) = <<>> THEN p ELSE Last(ReadImports(p))
StateOf(p) == IF ~link.premerger \/ ~Bitcode(p) THEN "STANDALONE" ELSE MergeState(UnitAt(p))

ObjectPlan(p) ==
  [bc |-> Bitcode(p), unloaded |-> link.darwin /\ IsArchive(p[2]) /\ ~Loaded(p) /\ Bitcode(p),
   state |-> IF Bitcode(p) THEN StateOf(Subject(p)) ELSE "STANDALONE",
   deps |-> IF Bitcode(p) THEN Imports(p) ELSE [imports |-> {}, archives |-> {}]]

Absorbed == {Subject(p) : p \in {x \in Range(AllFiles) : Bitcode(x) /\ StateOf(Subject(x)) = "ABSORBED"}}

\* A line of the final link index.
OptPath(p) == IF IsArchive(p[2]) THEN <<"opt_objects", p[2], p[3]>> ELSE <<"opt", p[2], <<>>>>
FinalLine(p) == IF p \in Range(IndexLines) THEN OptPath(p) ELSE p
Dropped(p) == IF link.darwin THEN p \in Absorbed ELSE p[1] = "crt"  \* KNOWN_REMOVABLE_DEPS_SUFFIX

FinalLines == LET kept == Only(FullLines, {p \in Range(FullLines) : ~Dropped(p)})
              IN  [k \in DOMAIN kept |-> FinalLine(kept[k])]

\* What the thin link and the planner write. They are given all files, and the
\* directories of the archives and the objects as their inputs.
Planned == [objects |-> [p \in Range(AllFiles) |-> ObjectPlan(p)],
            thin |-> [p \in {x \in Range(AllFiles) : Bitcode(x)} |-> ImportLines(p)],
            index |-> {p[2] : p \in Range(IndexLines)},
            nonLto |-> {i \in Linkables : ~IsArchive(i) /\ ~Bitcode(Files(i)[1])},
            lines |-> FinalLines]
Plan ==
  /\ phase = "prepare" /\ DOMAIN prepared = ArchiveIds /\ phase' = "opt" /\ plan' = Planned
  /\ undeclared' = undeclared \cup {p \in Range(AllFiles) : p[1] = "member"}
  /\ UNCHANGED <<link, prepared, opt, lost, linked>>

-----------------------------------------------------------------------------
(* _filter_flags of dist_lto_opt_gnu.py, over flags that are a form and a value: *)
(* wl-mllvm    -Wl,-mllvm,<value>                                                *)
(* plugin-llvm -Wl,-plugin-opt,<value> with a value that begins with -           *)
(* plugin      the same as the linker is given it, or behind -Xlinker            *)
(* plugin-known, plugin-unknown: other values, with a translation or without     *)
(* ignored     IGNORE_OPT_FLAGS; the value is the option of LLVM that it is      *)
(* pic, f      -pie or -shared; other flags with -f                              *)
(* xlinker, mllvm, option: -Xlinker, -mllvm, or an option as such                *)
(* wl-bare, wl-option: -Wl,-mllvm and, in another flag, -Wl,<value>              *)

DefaultFlags == <<<<"clang", "-O2">>, <<"clang", "-ffunction-sections">>, <<"clang", "-fdata-sections">>>>
Translation == [k \in {"O3", "sample-profile=p"} |->
                  IF k = "O3" THEN "-O3" ELSE "-fprofile-sample-use=p"]

\* out: flags for clang, options for LLVM behind -mllvm.
Start == [at |-> 1, out |-> DefaultFlags, ok |-> TRUE]
Form(k) == link.flags[k][1]
Bug_FilterStep(s) ==
  LET f == link.flags[s.at]
  IN  IF f[1] \in {"wl-mllvm", "plugin-llvm"}
      THEN [s EXCEPT !.at = @ + 1, !.out = Append(@, <<"mllvm", f[2]>>)]
      ELSE [s EXCEPT !.at = IF f[1] = "xlinker" THEN @ + 2 ELSE @ + 1]
FilterStep(s) ==
  LET f == link.flags[s.at] n == Len(link.flags)
      Fail == [s EXCEPT !.ok = FALSE]
      Take(skip, flag) == [s EXCEPT !.at = @ + skip, !.out = Append(@, flag)]
  IN  CASE f[1] \in {"wl-mllvm", "plugin-llvm"} -> Take(1, <<"mllvm", f[2]>>)
        [] f[1] = "plugin-known" -> Take(1, <<"clang", Translation[f[2]]>>)
        [] f[1] = "plugin-unknown" -> Fail
        [] f[1] = "pic" -> Take(1, <<"clang", "-fPIC">>)
        [] f[1] = "f" -> Take(1, <<"clang", f[2]>>)
        [] f[1] = "xlinker" ->
             IF s.at + 1 > n THEN Fail
             ELSE IF Form(s.at + 1) # "mllvm" THEN [s EXCEPT !.at = @ + 2]
             ELSE IF s.at + 3 > n \/ Form(s.at + 2) # "xlinker" THEN Fail
             ELSE Take(4, <<"mllvm", link.flags[s.at + 3][2]>>)
        [] OTHER -> [s EXCEPT !.at = @ + 1]
FilterFlags ==
  LET States == [at : Nat, out : Seq(STRING \X STRING), ok : BOOLEAN]
      run[s \in States] == IF ~s.ok \/ s.at > Len(link.flags) THEN s ELSE run[FilterStep(s)]
  IN  run[Start]

\* _cleanup_flags: of what the compiler makes of them, without those that may
\* not be what the bitcode was made with, some of which have a value.
Deleted == {"-mframe-pointer=none", "-fmath-errno"}
DeletedWithValue == {"-target-cpu", "-tune-cpu"}
Cc1(flags) == link.cc1 \o FlattenSeq([k \in DOMAIN flags |->
  IF flags[k][1] = "mllvm" THEN <<"-mllvm", flags[k][2]>> ELSE <<flags[k][2]>>])
CleanupFlags(cc1) ==
  FoldLeft(LAMBDA s, f : IF s.skip THEN [s EXCEPT !.skip = FALSE]
                         ELSE IF f \in Deleted \cup DeletedWithValue
                         THEN [s EXCEPT !.skip = f \in DeletedWithValue]
                         ELSE [s EXCEPT !.out = Append(@, f)],
           [out |-> <<>>, skip |-> FALSE], cc1).out

-----------------------------------------------------------------------------
(* The actions of the link rules *)

\* What an action that optimises p reads, and what it has declared.
BitcodeInput(p) == IF plan.objects[p].state = "ROOT" THEN <<"merged", p[2], p[3]>> ELSE p
Needs(p) == Range(plan.thin[p]) \cup {BitcodeInput(p)}
Declares(p) ==
  LET deps == plan.objects[p].deps
      own == IF IsArchive(p[2]) THEN {<<"objects", p[2]>>, <<"merged", p[2]>>} ELSE {<<BitcodeInput(p)[1], p[2]>>}
      merged == IF link.premerger THEN deps.imports \cup deps.archives ELSE {}
  IN  own \cup {<<"object", i>> : i \in deps.imports} \cup {<<"objects", i>> : i \in deps.archives}
      \cup {<<"merged", i>> : i \in merged}

\* The code of a bitcode file; the merged file of a unit that is no root is text.
CodeOf(p) ==
  IF p[1] # "merged" THEN {UnitAt(p)}
  ELSE LET u == UnitAt(CHOOSE q \in Range(AllFiles) : q[2] = p[2] /\ q[3] = p[3])
       IN  IF MergeState(u) = "ROOT" THEN Merged(u) ELSE {}

Skipped(p) == LET o == plan.objects[p] IN o.unloaded \/ o.state = "ABSORBED"
Pending(p) == phase = "opt" /\ p \in DOMAIN plan.objects /\ OptPath(p) \notin DOMAIN opt

Written(p, code) == opt' = (OptPath(p) :> code) @@ opt

\* paths.relativize fails for a member that is not below the directory of its
\* archive; without bitcode in the archive its members are not looked at.
Outside(p) == p[1] = "member" /\ \E q \in DOMAIN plan.objects : q[2] = p[2] /\ plan.objects[q].bc

\* A member that is no bitcode is copied; an object that is none gets an empty
\* file, and of a thin archive an empty directory is copied.
Copy(p) ==
  /\ Pending(p) /\ ~plan.objects[p].bc
  /\ IF Outside(p) THEN phase' = "failed" /\ UNCHANGED opt
     ELSE Written(p, IF p[1] = "objects" THEN {UnitAt(p)} ELSE {}) /\ UNCHANGED phase
  /\ UNCHANGED <<link, prepared, plan, lost, undeclared, linked>>

Skip(p) ==
  /\ Pending(p) /\ plan.objects[p].bc /\ Skipped(p) /\ Written(p, {})
  /\ UNCHANGED <<link, phase, prepared, plan, lost, undeclared, linked>>

\* The compiler may also leave an empty file and exit with 0.
Bug_Noticed == FALSE
Noticed == ~link.darwin
OutsideFails(p) ==
  /\ Pending(p) /\ plan.objects[p].bc /\ ~Skipped(p) /\ Outside(p) /\ phase' = "failed"
  /\ UNCHANGED <<link, prepared, plan, opt, lost, undeclared, linked>>
Optimise(p) ==
  /\ Pending(p) /\ plan.objects[p].bc /\ ~Skipped(p) /\ ~Outside(p)
  /\ undeclared' = undeclared \cup {q \in Needs(p) : <<q[1], q[2]>> \notin Declares(p)}
  /\ \E code \in {CodeOf(BitcodeInput(p)), {}} :
       IF \/ plan.objects[p].state = "NOT_LOADED" \/ CodeOf(BitcodeInput(p)) = {}
          \/ code = {} /\ Noticed
          \/ ~link.darwin /\ ~FilterFlags.ok
       THEN phase' = "failed" /\ UNCHANGED <<opt, lost>>
       ELSE /\ Written(p, code) /\ UNCHANGED phase
            /\ lost' = IF code = {} THEN lost \cup CodeOf(BitcodeInput(p)) ELSE lost
  /\ UNCHANGED <<link, prepared, plan, linked>>

\* What a line of the final link index stands for.
Resolve(p) == CASE p[1] \in {"opt", "opt_objects"} -> opt[p]
                [] p[1] = "crt" -> {"crt"}
                [] OTHER -> {UnitAt(p)}
LinkInputs == {<<"opt", i, <<>>>> : i \in {x \in Linkables \ ArchiveIds : x \in plan.index}}
              \cup {<<"object", i, <<>>>> : i \in plan.nonLto \ plan.index}
InOptDir(p) == p[1] = "opt_objects" /\ p[2] \in ArchiveIds
FinalLink ==
  /\ phase = "opt" /\ \A p \in DOMAIN plan.objects : OptPath(p) \in DOMAIN opt
  /\ phase' = "linked"
  /\ linked' = (IF link.darwin THEN <<>> ELSE <<{"crt"}>>)
               \o [k \in DOMAIN plan.lines |-> Resolve(plan.lines[k])]
  /\ undeclared' = undeclared \cup {p \in Range(plan.lines) : p \notin LinkInputs /\ ~InOptDir(p)}
  /\ UNCHANGED <<link, prepared, plan, opt, lost>>

LinkNext ==
  \/ \E i \in Linkables : PrepareArchive(i) \/ PrepareFails(i)
  \/ Plan
  \/ phase = "opt" /\ \E p \in DOMAIN plan.objects : Copy(p) \/ Skip(p) \/ OutsideFails(p) \/ Optimise(p)
  \/ FinalLink

LinkSpec == LinkInit /\ [][LinkNext]_linkVars

-----------------------------------------------------------------------------
(* Properties *)

\* Two known flaws bound what follows. A member whose name is that of another
\* duplicate is overwritten by it (dist_lto_prepare.py:131); the plan of an
\* object has the state of its last import (dist_lto_planner_darwin.py:279).
Overwritten == \E i \in ArchiveIds : \E m \in Range(Moves(i)) :
  m[3] > 1 /\ m[1] \in Range(Names(i))
Shadowed == \E i \in Linkables \ ArchiveIds :
  LET p == Files(i)[1] IN Bitcode(p) /\ StateOf(Subject(p)) # StateOf(p)

\* The link has the code of every unit that the linker loaded exactly once and
\* no other, an absorbed one through the unit it was merged into, except what
\* the compiler dropped on Darwin, where nobody looks (dist_lto_opt_darwin.py:54).
LinkedOnce == phase = "linked" /\ ~Overwritten /\ ~Shadowed =>
  /\ \A u \in Units : Cardinality({k \in DOMAIN linked : u \in linked[k]})
                      = IF u \in link.loaded \ lost THEN 1 ELSE 0
  /\ Cardinality({k \in DOMAIN linked : linked[k] = {"crt"}}) <= 1
  /\ ~link.darwin => lost = {}

\* A member of an archive that is no bitcode.
Native(p) == p[1] = "objects" /\ ~Bitcode(p)

\* Every file that an action reads is an input it declared, although the imports
\* that the thin link chose are known only once the plan is there
\* (darwin_dist_lto.bzl:477), with two exceptions: members of thin archives are
\* read where they are, which nobody declares (dist_lto_prepare.py:138), and
\* native members are linked from the directory they were unpacked to, which
\* the final link does not declare (darwin_dist_lto.bzl:603).
InputsDeclared == \A p \in undeclared : p[1] = "member" \/ Native(p)

\* The linker's command line, as -Wl and -Xlinker make it, with whether the
\* filter knows that way to hand over what it is.
Linkward ==
  FoldLeft(LAMBDA s, f :
    LET And(tokens) == [s EXCEPT !.line = @ \o tokens]
    IN  CASE s.x -> [line |-> Append(s.line, <<f[1], f[2], f[1] # "plugin">>), x |-> FALSE]
          [] f[1] = "xlinker" -> [s EXCEPT !.x = TRUE]
          [] f[1] = "wl-mllvm" -> And(<<<<"mllvm", "", TRUE>>, <<"option", f[2], TRUE>>>>)
          [] f[1] = "plugin-llvm" -> And(<<<<"plugin", f[2], TRUE>>>>)
          [] f[1] = "ignored" /\ f[2] # "" -> And(<<<<"plugin", f[2], FALSE>>>>)
          [] f[1] = "wl-bare" -> And(<<<<"mllvm", "", FALSE>>>>)
          [] f[1] = "wl-option" -> And(<<<<"option", f[2], FALSE>>>>)
          [] OTHER -> s,
           [line |-> <<>>, x |-> FALSE], link.flags).line

\* The linker takes a -mllvm only with an option behind it.
LinkerTakes == \A k \in DOMAIN Linkward : Linkward[k][1] = "mllvm" =>
  k < Len(Linkward) /\ Linkward[k + 1][1] = "option"

\* What the linker gives to LLVM, of what is handed over in a known way.
GivenToLlvm ==
  LET given == {k \in DOMAIN Linkward : \/ Linkward[k][1] = "plugin" /\ Linkward[k][3]
                                        \/ k > 1 /\ Linkward[k - 1][1] = "mllvm" /\ Linkward[k - 1][3]}
  IN  LET at == Only([k \in DOMAIN Linkward |-> k], given) IN [n \in DOMAIN at |-> Linkward[at[n]][2]]

\* The options that the linker would give to LLVM are those that opt gives it,
\* in their order: none is lost and no other becomes one, or the build fails
\* (dist_lto_opt_gnu.py:54-63). They are left when flags of the compiler are
\* dropped together with their values. Lost are options that the filter is told
\* to ignore (dist_lto_opt_gnu.py:32), those whose -mllvm comes in a -Wl flag of
\* its own, and those of a -plugin-opt behind -Xlinker.
FlagsReachOpt == FilterFlags.ok /\ LinkerTakes =>
  LET out == FilterFlags.out
      options == SelectSeq(out, LAMBDA f : f[1] = "mllvm")
      flags == CleanupFlags(Cc1(out))
      values == {k \in DOMAIN flags : k > 1 /\ flags[k - 1] = "-mllvm"}
  IN  /\ [k \in DOMAIN options |-> options[k][2]] = GivenToLlvm
      /\ SelectSeq(flags, LAMBDA f : f \in Range(GivenToLlvm)) = GivenToLlvm
      /\ \A k \in DOMAIN flags : \/ flags[k] \in {"-mllvm", "kept"} \/ k \in values
                                 \/ <<"clang", flags[k]>> \in Range(out)
=============================================================================

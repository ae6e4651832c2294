----------------------------- MODULE BundleTree -----------------------------
(***************************************************************************)
(* The file tree of an Apple bundle and how assemble_bundle.py builds it,  *)
(* anew or on top of what an earlier build has left.                       *)
(*                                                                         *)
(* A tree maps the paths that exist, as sequences of names, to their       *)
(* nodes. A path of the specification has a content: a file with a digest  *)
(* or a symlink. An operation that raises has no result: operations yield  *)
(* the set of the trees they may leave, which has one element or none.     *)
(***************************************************************************)
EXTENDS Naturals, Sequences, FiniteSets, Functions, SequencesExt

File(digest) == [k |-> "file", v |-> digest, by |-> ""]
Link(target) == [k |-> "link", v |-> target, by |-> ""]
DirLink(target) == [k |-> "link", v |-> target, by |-> "a directory"]
Dir == [k |-> "dir", v |-> <<>>, by |-> ""]
IsDir(t, p) == p = <<>> \/ (p \in DOMAIN t /\ t[p].k = "dir")

Inside(t, p) == {q \in DOMAIN t : IsPrefix(p, q)}
Without(t, ps) == Restrict(t, DOMAIN t \ ps)
Parents(p) == Prefixes(p) \ {<<>>, p}

VersionsA == <<"Versions", "A">>
Current == <<"Versions", "Current">>

\* Path.exists, which follows a symlink.
Exists(t, p) == p \in DOMAIN t /\ (t[p].k = "link" => t[p].v \in DOMAIN t)

\* mkdir(parents=True, exist_ok=True) of the parent, then shutil.copy2
\* with follow_symlinks=False: a file goes through a symlink that is in its
\* place and into a directory that is. A symlink needs a free place.
Copied(t, p, c) ==
  LET made == t @@ [q \in Parents(p) |-> Dir]
      into == IF IsDir(t, p) THEN Append(p, "copy")
              ELSE IF p \in DOMAIN t /\ t[p].k = "link" THEN t[p].v ELSE p
  IN  IF \/ \E q \in Parents(p) \cap DOMAIN t : ~IsDir(t, q)
         \/ c.k = "link" /\ p \in DOMAIN t
      THEN {} ELSE {(into :> c) @@ made}

\* The top-level names that a versioned bundle links into Versions/Current.
Linked(ps) == {p[3] : p \in {q \in ps : IsPrefix(VersionsA, q) /\ Len(q) > 2}}

WithLinks(t, names) ==
  LET missing == {n \in names : ~Exists(t, <<n>>)}
      made == t @@ (IF names = {} THEN <<>> ELSE Current :> Link(VersionsA))
  IN  IF \E n \in missing : <<n>> \in DOMAIN t THEN {}
      ELSE {made @@ [p \in {<<n>> : n \in missing} |-> Link(VersionsA \o p)]}

-----------------------------------------------------------------------------
(* The specification of a build is a sequence of items <<path, content>>,   *)
(* a directory split into its files; check_conflicts is always asked for.   *)
(* Symlinks come with a directory that is copied.                           *)

Each(Op(_, _), t, items) == FoldLeft(LAMBDA ts, i : UNION {Op(u, i) : u \in ts}, {t}, items)

\* _copy: a second file for a path has to have the same content. copytree
\* makes symlinks itself, which _copy does not know of.
CopiedOnce(t, item) ==
  IF item[1] \in DOMAIN t /\ t[item[1]].k = "file"
  THEN IF t[item[1]] = item[2] THEN {t} ELSE {}
  ELSE Copied(t, item[1], item[2])

AssembledAnew(items, versioned) ==
  UNION {WithLinks(t, IF versioned THEN Linked({i[1] : i \in Range(items)}) ELSE {})
         : t \in Each(CopiedOnce, <<>>, items)}

-----------------------------------------------------------------------------
\* What calculate_incremental_state does not list: what has one of these names,
\* and a symlink to a directory, which os.walk gives as a directory and does
\* not enter.
FILES_TO_BE_IGNORED == {".DS_Store"}
Passed(p, c) == c.by = "a directory" \/ (c.k # "dir" /\ Last(p) \in FILES_TO_BE_IGNORED)
Listed(items) == SelectSeq(items, LAMBDA i : ~Passed(i[1], i[2]))

Contents(items) == [p \in {i[1] : i \in Range(items)} |->
                      (CHOOSE i \in Range(items) : i[1] = p)[2]]

\* _check_path_conflicts: for two symlinks None is compared with None.
Conflict(items) == \E i, j \in Range(items) :
  i[1] = j[1] /\ i[2] # j[2] /\ "file" \in {i[2].k, j[2].k}

Changed(old, item) == ~(item[1] \in DOMAIN old /\ old[item[1]] = item[2])

\* _filter_conflicting_paths leaves one item for a path.
FilteredPaths(new) == SetToSeq({<<p, new[p]>> : p \in DOMAIN new})

\* A changed symlink is removed first, whether it is there or not.
Updated(old, t, item) ==
  LET p == item[1] c == item[2]
  IN  IF ~Changed(old, item) THEN {t}
      ELSE IF c.k = "file" THEN Copied(t, p, c)
      ELSE IF p \notin DOMAIN t \/ IsDir(t, p) THEN {}
      ELSE Copied(Without(t, {p}), p, c)

Unlinked(t, ps) == IF \E p \in ps : p \notin DOMAIN t \/ IsDir(t, p) THEN {} ELSE {Without(t, ps)}

\* _cleanup_empty_redundant_directories
Redundant(old, new) == (UNION {Parents(p) : p \in old}) \ UNION {Parents(p) : p \in new}
WithoutRedundant(t, old, new) ==
  LET dirs == Redundant(old, new)
  IN  Unlinked(Without(t, UNION {Inside(t, d) : d \in dirs}),
               {<<Last(d)>> : d \in {e \in dirs : Front(e) = VersionsA}})

\* _assemble_incrementally: old has the contents that the state lists, swift
\* the runtime libraries that the earlier build added.
AssembledOnTop(t, old, swift, items, versioned) ==
  LET new == Contents(items)
      start == Without(t, UNION {Inside(t, p) : p \in swift})
      links == IF versioned THEN Linked({p \in DOMAIN new : Changed(old, <<p, new[p]>>)}) ELSE {}
      updated == Each(LAMBDA u, i : Updated(old, u, i), start, FilteredPaths(new))
      linked == UNION {WithLinks(u, links) : u \in updated}
      pruned == UNION {Unlinked(u, DOMAIN old \ DOMAIN new) : u \in linked}
  IN  IF Conflict(items) THEN {}
      ELSE UNION {WithoutRedundant(u, DOMAIN old, DOMAIN new) : u \in pruned}

\* What assembling on top of an earlier build gets wrong: a file that comes
\* in the place of a symlink or of a directory, a file that a version link
\* leads to and that is gone; what is not listed, symlinks to directories and
\* ignored files, when it is new, changed, gone or alone in its directory;
\* and two symlinks for one path, which a build from nothing refuses.
Unseen(t) == {<<p, t[p]>> : p \in {q \in DOMAIN t : Passed(q, t[q])}}
Misplaced(t, old, items, versioned) ==
  LET new == Contents(items)
      listed == DOMAIN Contents(Listed(items))
  IN  \/ \E p \in DOMAIN new : new[p].k = "file"
           /\ \E q \in DOMAIN old : (q = p /\ old[q].k = "link") \/ IsStrictPrefix(p, q)
      \/ versioned /\ \E p \in DOMAIN old \ DOMAIN new : Front(p) = VersionsA
      \/ Unseen(t) # Unseen(new)
      \/ \E u \in Unseen(new) : Parents(u[1]) \cap Redundant(DOMAIN old, listed) # {}
      \/ AssembledAnew(items, versioned) = {}
=============================================================================

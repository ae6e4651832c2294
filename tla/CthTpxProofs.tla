---------------------------- MODULE CthTpxProofs ----------------------------
(***************************************************************************)
(* For every set of groups and cases and every test specification, of any  *)
(* length and any nesting: cth_tpx knows which group it is in, and the     *)
(* report made of the tree tells what became of each test.                 *)
(*                                                                         *)
(* The second result is in three parts: the tree has at each path what the *)
(* table has (Same), whatever was inserted where; the report is a failure  *)
(* exactly if one of the results it is collected from is, or is missing    *)
(* (ReportIs); and what the table has of a test agrees with what became of *)
(* it, unless some of it was displaced (ReportInv).                        *)
(***************************************************************************)
EXTENDS CthTpx, SubsequenceLemmas, SequenceTheorems, TLAPS

LEMMA Extend ==
  ASSUME NEW S, NEW s \in Seq(S), NEW n \in 0..(Len(s) - 1)
  PROVE  /\ SubSeq(s, 1, n) \in Seq(S)
         /\ Append(SubSeq(s, 1, n), s[n + 1]) = SubSeq(s, 1, n + 1)
OBVIOUS

LEMMA ParentOfPrefix ==
  ASSUME NEW S, NEW s \in Seq(S), NEW n \in 1..Len(s)
  PROVE  Parent(SubSeq(s, 1, n)) = SubSeq(s, 1, n - 1)
BY DEF Parent

LEMMA Prefix ==
  ASSUME NEW S, NEW s \in Seq(S), NEW n \in 1..Len(s)
  PROVE  SubSeq(s, 1, n) \in Seq(S) /\ SubSeq(s, 1, n) # <<>>
OBVIOUS

LEMMA ParentOfAppend ==
  ASSUME NEW S, NEW s \in Seq(S), NEW e \in S
  PROVE  Append(s, e) \in Seq(S) /\ Append(s, e) # <<>> /\ Parent(Append(s, e)) = s
BY DEF Parent

LEMMA ParentType ==
  ASSUME NEW S, NEW s \in Seq(S), s # <<>>
  PROVE  Parent(s) \in Seq(S)
BY DEF Parent

LEMMA EmptyPrefix == ASSUME NEW S, NEW s \in Seq(S) PROVE SubSeq(s, 1, 0) = <<>>
OBVIOUS

-----------------------------------------------------------------------------
\* Where Common Test is, and what the hook's stack then looks like.
Position == IF entry <= Len(spec) THEN Opened ELSE <<>>
Tracked  == IF prevFailed THEN groups # <<>> /\ Parent(groups) = Position ELSE groups = Position

EntryType == [groups : Path, cases : Seq(Case)]

Walk ==
  /\ spec \in Seq(EntryType)
  /\ entry \in Nat \ {0} /\ opened \in Nat
  /\ entry <= Len(spec) => opened <= Len(Here.groups)
  /\ pc = "start" \/ entry > Len(spec) => opened = 0
  /\ groups \in Path /\ prevFailed \in BOOLEAN

GroupInv == Walk /\ (pc = "run" => Tracked)

LEMMA EmptyPath == <<>> \in Path
BY DEF Path

LEMMA EntryOf ==
  ASSUME NEW S, NEW s \in Seq(S), NEW n \in Nat \ {0}, n <= Len(s)
  PROVE  s[n] \in S
OBVIOUS

\* The groups of the current entry are a path, and so is any part of it.
LEMMA HereIsPath ==
  ASSUME Walk, entry <= Len(spec)
  PROVE  Here.groups \in Path /\ Len(Here.groups) \in Nat
<1>1. Here \in EntryType
  BY EntryOf DEF Walk, Here
<1>2. Here.groups \in Seq(Group)
  BY <1>1 DEF EntryType, Path
<1>3. QED BY <1>2 DEF Path

LEMMA NothingOpen == ASSUME Walk, opened = 0 PROVE Position = <<>>
<1>1. CASE entry <= Len(spec)
  BY <1>1, HereIsPath, EmptyPrefix DEF Position, Opened, Path
<1>2. CASE ~(entry <= Len(spec))
  BY <1>2 DEF Position
<1>3. QED BY <1>1, <1>2

LEMMA GroupInit == Init => GroupInv
<1> SUFFICES ASSUME Init PROVE GroupInv
  OBVIOUS
<1>1. spec \in Seq(EntryType)
  BY TestSpecsAssumption DEF Init, EntryType
<1>2. entry <= Len(spec) => Len(Here.groups) \in Nat
  <2>1. entry <= Len(spec) => Here \in EntryType
    BY <1>1, EntryOf DEF Init, Here
  <2>2. QED BY <2>1 DEF EntryType, Path
<1>3. groups \in Path
  BY EmptyPath DEF Init
<1>4. pc # "run" /\ entry = 1 /\ opened = 0 /\ prevFailed \in BOOLEAN
  BY DEF Init
<1>5. entry <= Len(spec) => opened <= Len(Here.groups)
  BY <1>2, <1>4
<1>6. Walk
  BY <1>1, <1>3, <1>4, <1>5 DEF Walk
<1>7. QED BY <1>4, <1>6 DEF GroupInv

LEMMA GroupStep == GroupInv /\ Next => GroupInv'
<1> SUFFICES ASSUME GroupInv, Next PROVE GroupInv'
  OBVIOUS
<1> USE DEF GroupInv
<1>1. ASSUME NEW o \in Outcome, InitSuite(o) PROVE GroupInv'
  <2>1. Walk'
    <3>1. groups' \in Path  BY <1>1, EmptyPath DEF InitSuite
    <3>2. QED BY <1>1, <3>1 DEF InitSuite, Walk, Here
  <2>2. opened' = 0 /\ groups' = <<>> /\ prevFailed' = FALSE
    BY <1>1 DEF InitSuite, Walk
  <2>3. Position' = <<>>
    <3>1. Position = <<>>  BY <1>1, NothingOpen DEF InitSuite, Walk
    <3>2. UNCHANGED Position  BY <1>1 DEF InitSuite, Position, Opened, Here
    <3>3. QED BY <3>1, <3>2
  <2>4. QED BY <2>1, <2>2, <2>3 DEF Tracked
<1>2. ASSUME NEW o \in Outcome, OpenGroup(o) PROVE GroupInv'
  <2> DEFINE g == Here.groups[opened + 1]
  <2>1. /\ Here.groups \in Path /\ opened \in 0..(Len(Here.groups) - 1)
        /\ Position = Opened /\ g \in Group
    BY <1>2, HereIsPath DEF OpenGroup, Walk, Position, Path
  <2>2. StackForInit = Opened
    BY <1>2, <2>1 DEF OpenGroup, Tracked, StackForInit
  <2>3. /\ groups' = Append(Opened, g)
        /\ prevFailed' = (o # "passed")
        /\ opened' = IF o = "passed" THEN opened + 1 ELSE opened
        /\ UNCHANGED <<spec, pc, entry>>
    BY <1>2, <2>2 DEF OpenGroup, InitGroup
  <2>4. /\ Opened \in Path /\ groups' \in Path
        /\ Append(Opened, g) = SubSeq(Here.groups, 1, opened + 1)
        /\ groups' # <<>> /\ Parent(groups') = Opened
    BY <2>1, <2>3, Extend, ParentOfAppend DEF Opened, Path
  <2>5. Walk'
    BY <1>2, <2>1, <2>3, <2>4 DEF OpenGroup, Walk, Here
  <2>6. Position' = IF o = "passed" THEN SubSeq(Here.groups, 1, opened + 1) ELSE Opened
    BY <1>2, <2>3 DEF OpenGroup, Position, Opened, Here
  <2>7. Tracked'
    BY <2>3, <2>4, <2>6 DEF Tracked
  <2>8. QED BY <2>5, <2>7
<1>3. ASSUME NEW o \in Outcome, CloseGroup(o) PROVE GroupInv'
  <2>1. /\ Here.groups \in Path /\ opened \in 1..Len(Here.groups) /\ Position = Opened
    BY <1>3, HereIsPath DEF CloseGroup, Walk, Position, Path
  <2>2. /\ groups' = Parent(groups) /\ opened' = opened - 1
        /\ UNCHANGED <<spec, pc, entry, prevFailed>>
    BY <1>3 DEF CloseGroup, EndGroup
  <2>3. /\ Opened # <<>> /\ Opened \in Path
        /\ Parent(Opened) = SubSeq(Here.groups, 1, opened - 1)
    <3>1. Here.groups \in Seq(Group)  BY <2>1 DEF Path
    <3>2. Parent(Opened) = SubSeq(Here.groups, 1, opened - 1)
      BY <2>1, <3>1, ParentOfPrefix DEF Opened
    <3>3. Opened \in Path /\ Opened # <<>>
      BY <2>1, <3>1, Prefix DEF Opened, Path
    <3>4. QED BY <3>2, <3>3
  <2>4. groups # <<>>
    BY <1>3, <2>1, <2>3 DEF CloseGroup, Tracked
  <2>5. Walk'
    <3>1. groups' \in Path  BY <2>2, <2>4, ParentType DEF Walk, Path
    <3>2. QED BY <1>3, <2>1, <2>2, <3>1 DEF CloseGroup, Walk, Here
  <2>6. Position' = SubSeq(Here.groups, 1, opened - 1)
    BY <1>3, <2>2 DEF CloseGroup, Position, Opened, Here
  <2>7. Tracked'
    BY <1>3, <2>1, <2>2, <2>3, <2>6 DEF CloseGroup, Tracked
  <2>8. QED BY <2>5, <2>7
<1>4. ASSUME UNCHANGED <<spec, pc, entry, opened, groups, prevFailed>> PROVE GroupInv'
  BY <1>4 DEF Walk, Tracked, Position, Opened, Here
<1>5. CASE SkipCase \/ \E i, m, e \in Outcome : RunCase(i, m, e)
  BY <1>4, <1>5 DEF SkipCase, RunCase
<1>6. CASE NextEntry
  <2>1. UNCHANGED <<spec, pc, opened, groups, prevFailed>> /\ opened = 0 /\ entry' = entry + 1
    BY <1>6 DEF NextEntry, hookVars
  <2>2. Walk'
    <3>1. entry' <= Len(spec') => Len(Here'.groups) \in Nat
      <4>1. entry' <= Len(spec') => Here' \in EntryType
        BY <2>1, EntryOf DEF Walk, Here
      <4>2. QED BY <4>1 DEF EntryType, Path
    <3>2. QED BY <2>1, <3>1 DEF Walk
  <2>3. Position = <<>>
    BY <2>1, NothingOpen
  <2>4. Position' = <<>>
    <3>1. CASE entry' <= Len(spec')
      <4>0. Here' \in EntryType  BY <2>1, <3>1, EntryOf DEF Walk, Here
      <4>1. Here'.groups \in Path  BY <4>0 DEF EntryType
      <4>2. SubSeq(Here'.groups, 1, 0) = <<>>  BY <4>1, EmptyPrefix DEF Path
      <4>3. QED BY <2>1, <3>1, <4>2 DEF Position, Opened
    <3>2. CASE ~(entry' <= Len(spec'))
      BY <3>2 DEF Position
    <3>3. QED BY <3>1, <3>2
  <2>5. QED BY <2>1, <2>2, <2>3, <2>4 DEF Tracked
<1>7. ASSUME NEW o \in Outcome, EndSuite(o) PROVE GroupInv'
  <2>1. pc' = "ended" /\ UNCHANGED <<spec, entry, opened, prevFailed>>
        /\ (groups' = groups \/ groups' = <<>>)
    BY <1>7 DEF EndSuite
  <2>2. groups' \in Path
    BY <2>1, EmptyPath DEF Walk
  <2>3. QED BY <1>7, <2>1, <2>2 DEF EndSuite, Walk, Here
<1>8. QED
  BY <1>1, <1>2, <1>3, <1>5, <1>6, <1>7 DEF Next

(***************************************************************************)
(* previous_group_failed is all the hook needs to know: in every suite its *)
(* stack is the path of open groups, with at most one failed group on top. *)
(***************************************************************************)
THEOREM StackFollowsSuite == Spec => []GroupsTracked
<1>1. GroupInv /\ UNCHANGED vars => GroupInv'
  BY DEF GroupInv, Walk, Tracked, Position, Opened, Here, vars, ctVars, hookVars
<1>2. GroupInv => GroupsTracked
  BY DEF GroupInv, Tracked, Position, GroupsTracked
<1>3. QED BY <1>1, <1>2, GroupInit, GroupStep, PTL DEF Spec

-----------------------------------------------------------------------------
(* The tree. Recursive functions are unfolded once they are known to exist, *)
(* which is shown by adding one position after the other.                   *)

\* The nodes on a path.
AreNodes(at, root, path) ==
  at = [k \in 0..Len(path) |-> IF k = 0 THEN root ELSE Get(at[k - 1].groups, path[k], NewNode)]

LEMMA NodesExist ==
  ASSUME NEW S, NEW path \in Seq(S), NEW root
  PROVE  \E at : AreNodes(at, root, path)
<1> DEFINE Upto(at, n) == at = [k \in 0..n |->
                        IF k = 0 THEN root ELSE Get(at[k - 1].groups, path[k], NewNode)]
           Done == {n \in 0..Len(path) : \E at : Upto(at, n)}
<1>1. 0 \in Done
  <2> DEFINE z == [k \in 0..0 |-> root]
  <2>1. z = [k \in 0..0 |-> IF k = 0 THEN root ELSE Get(z[k - 1].groups, path[k], NewNode)]
    <3>1. \A k \in 0..0 : root = (IF k = 0 THEN root ELSE Get(z[k - 1].groups, path[k], NewNode))
      OBVIOUS
    <3> HIDE DEF z
    <3>2. \A k \in 0..0 : z[k] = (IF k = 0 THEN root ELSE Get(z[k - 1].groups, path[k], NewNode))
      BY <3>1 DEF z
    <3>3. z = [k \in 0..0 |-> z[k]]
      BY DEF z
    <3>4. QED BY <3>2, <3>3, Zenon
  <2>2. 0 \in 0..Len(path)
    OBVIOUS
  <2>3. QED BY <2>1, <2>2, Zenon
<1>2. ASSUME NEW n \in 0..(Len(path) - 1), n \in Done PROVE n + 1 \in Done
  <2>1. PICK at : Upto(at, n)
    BY <1>2, Zenon
  <2> DEFINE F(k, f) == IF k = 0 THEN root ELSE Get(f[k - 1].groups, path[k], NewNode)
             g == [k \in 0..(n + 1) |-> F(k, at)]
  <2>2. \A k \in 0..n : g[k] = at[k]
    <3>1. \A k \in 0..n : at[k] = F(k, at)
      BY <2>1
    <3>2. \A k \in 0..n : k \in 0..(n + 1)
      OBVIOUS
    <3>3. QED BY <3>1, <3>2, Zenon
  <2>3. \A k \in 0..(n + 1) : F(k, at) = F(k, g)
    <3>1. \A k \in 0..(n + 1) : k = 0 \/ k - 1 \in 0..n
      OBVIOUS
    <3>2. QED BY <3>1, <2>2, Zenon
  <2>4. g = [k \in 0..(n + 1) |-> F(k, g)]
    BY <2>3, Zenon
  <2>5. n + 1 \in 0..Len(path)
    OBVIOUS
  <2>6. Upto(g, n + 1)
    BY <2>4, Zenon
  <2>7. QED BY <2>5, <2>6, Zenon
<1> HIDE DEF Done
<1>3. Len(path) \in Nat
  OBVIOUS
<1>4. \A k \in 0..Len(path) : k \in Done
  BY <1>1, <1>2, <1>3, Upwards
<1>5. Len(path) \in Done
  BY <1>3, <1>4
<1>6. QED BY <1>5, Zenon DEF Done, AreNodes

LEMMA NodesOnPath ==
  ASSUME NEW S, NEW path \in Seq(S), NEW root
  PROVE  /\ Nodes(root, path)[0] = root
         /\ \A k \in 1..Len(path) :
              Nodes(root, path)[k] = Get(Nodes(root, path)[k - 1].groups, path[k], NewNode)
<1>1. PICK g : AreNodes(g, root, path)
  BY NodesExist, Zenon
<1>2. Nodes(root, path) = [k \in 0..Len(path) |->
        IF k = 0 THEN root ELSE Get(Nodes(root, path)[k - 1].groups, path[k], NewNode)]
  BY <1>1, Zenon DEF Nodes, AreNodes
<1>3. 0 \in 0..Len(path) /\ \A k \in 1..Len(path) : k \in 0..Len(path) /\ k # 0
  OBVIOUS
<1>4. QED BY <1>2, <1>3, Zenon

\* The same for the nodes a result changes, from the end of the path upwards.
ChangedAt(new, nodes, path, r, k) ==
  IF k = Len(path) THEN WithResult(nodes[k], r)
  ELSE [nodes[k] EXCEPT !.groups = Put(@, path[k + 1], new[k + 1])]
AreChanged(new, nodes, path, r) ==
  new = [k \in 0..Len(path) |-> ChangedAt(new, nodes, path, r, k)]

LEMMA ChangedExist ==
  ASSUME NEW S, NEW path \in Seq(S), NEW nodes, NEW r
  PROVE  \E new : AreChanged(new, nodes, path, r)
<1> DEFINE L == Len(path)
           From(new, n) == new = [k \in (L - n)..L |-> ChangedAt(new, nodes, path, r, k)]
           Done == {n \in 0..L : \E new : From(new, n)}
<1>0. L \in Nat
  OBVIOUS
<1>1. 0 \in Done
  <2> DEFINE z == [k \in L..L |-> WithResult(nodes[L], r)]
  <2>1. \A k \in L..L : z[k] = ChangedAt(z, nodes, path, r, k)
    BY <1>0 DEF ChangedAt
  <2>2. z = [k \in L..L |-> z[k]]
    OBVIOUS
  <2> HIDE DEF z
  <2>3. z = [k \in L..L |-> ChangedAt(z, nodes, path, r, k)]
    BY <2>1, <2>2, Zenon
  <2>4. 0 \in 0..L /\ L - 0 = L
    BY <1>0
  <2>5. From(z, 0)
    BY <2>3, <2>4, Zenon
  <2>6. QED BY <2>4, <2>5, Zenon
<1>2. ASSUME NEW n \in 0..(L - 1), n \in Done PROVE n + 1 \in Done
  <2>1. PICK new : From(new, n)
    BY <1>2, Zenon
  <2> DEFINE more == [k \in (L - (n + 1))..L |-> ChangedAt(new, nodes, path, r, k)]
  <2>2. \A k \in (L - n)..L : more[k] = new[k]
    <3>1. \A k \in (L - n)..L : new[k] = ChangedAt(new, nodes, path, r, k)
      BY <2>1, Zenon
    <3>2. \A k \in (L - n)..L : k \in (L - (n + 1))..L
      BY <1>0
    <3>3. QED BY <3>1, <3>2, Zenon
  <2>3. \A k \in (L - (n + 1))..L : ChangedAt(new, nodes, path, r, k) = ChangedAt(more, nodes, path, r, k)
    <3>1. \A k \in (L - (n + 1))..L : k = L \/ k + 1 \in (L - n)..L
      BY <1>0
    <3> HIDE DEF more
    <3>2. QED BY <3>1, <2>2, Zenon DEF ChangedAt
  <2>4. more = [k \in (L - (n + 1))..L |-> ChangedAt(more, nodes, path, r, k)]
    BY <2>3, Zenon
  <2>5. n + 1 \in 0..L
    BY <1>0
  <2>6. From(more, n + 1)
    BY <2>4, Zenon
  <2>7. QED BY <2>5, <2>6, Zenon
<1> HIDE DEF Done
<1>3. \A k \in 0..L : k \in Done
  BY <1>0, <1>1, <1>2, Upwards
<1>4. L \in Done /\ L - L = 0
  BY <1>0, <1>3
<1> HIDE DEF L
<1>5. PICK new : From(new, L)
  BY <1>4, Zenon DEF Done
<1>6. new = [k \in 0..L |-> ChangedAt(new, nodes, path, r, k)]
  BY <1>4, <1>5, Zenon
<1>7. QED BY <1>6, Zenon DEF AreChanged, L

LEMMA ChangedOnPath ==
  ASSUME NEW S, NEW path \in Seq(S), NEW nodes, NEW r
  PROVE  \A k \in 0..Len(path) :
           Changed(nodes, path, r)[k] = ChangedAt(Changed(nodes, path, r), nodes, path, r, k)
<1>1. PICK g : AreChanged(g, nodes, path, r)
  BY ChangedExist, Zenon
<1>2. Changed(nodes, path, r) =
        [k \in 0..Len(path) |-> ChangedAt(Changed(nodes, path, r), nodes, path, r, k)]
  BY <1>1, Zenon DEF Changed, AreChanged, ChangedAt
<1>3. QED BY <1>2, Zenon

-----------------------------------------------------------------------------
(* What an insertion changes. *)

IsLeaf(leaf) == DOMAIN leaf = {"init", "main", "end"}
IsNode(node) ==
  /\ DOMAIN node = {"init", "end", "cases", "groups"}
  /\ \A c \in DOMAIN node.cases : IsLeaf(node.cases[c])
IsResult(r) == r.phase \in IF r.case = NoCase THEN {"init", "end"} ELSE {"init", "main", "end"}

\* The result at a node, or at the leaf of a case in it.
ResultIn(node, case, phase) ==
  IF case = NoCase THEN node[phase] ELSE Get(node.cases, case, NewLeaf)[phase]

LEMMA GetPut ==
  ASSUME NEW map, NEW key, NEW value, NEW default
  PROVE  /\ Get(Put(map, key, value), key, default) = value
         /\ \A other : other # key => Get(Put(map, key, value), other, default) = Get(map, other, default)
BY DEF Get, Put

LEMMA NewIsNode == IsNode(NewNode) /\ IsLeaf(NewLeaf)
BY DEF NewNode, NewLeaf, IsNode, IsLeaf

LEMMA WithResultIsNode ==
  ASSUME NEW node, NEW r, IsNode(node), IsResult(r)
  PROVE  /\ IsNode(WithResult(node, r))
         /\ WithResult(node, r).groups = node.groups
         /\ \A c, phase : IsResult([case |-> c, phase |-> phase]) =>
              ResultIn(WithResult(node, r), c, phase) =
                IF c = r.case /\ phase = r.phase THEN r.outcome ELSE ResultIn(node, c, phase)
<1>1. CASE r.case = NoCase
  <2>1. /\ WithResult(node, r) = [node EXCEPT ![r.phase] = r.outcome]
        /\ r.phase \in {"init", "end"}
    BY <1>1 DEF WithResult, IsResult
  <2> DEFINE n == [node EXCEPT ![r.phase] = r.outcome]
  <2>2. /\ DOMAIN n = DOMAIN node /\ n.groups = node.groups /\ n.cases = node.cases
        /\ \A f \in {"init", "end"} : n[f] = IF f = r.phase THEN r.outcome ELSE node[f]
    BY <2>1 DEF IsNode
  <2> HIDE DEF n
  <2>3. IsNode(n)
    BY <2>2 DEF IsNode
  <2>4. ASSUME NEW c, NEW phase, IsResult([case |-> c, phase |-> phase])
        PROVE  ResultIn(n, c, phase) =
                 IF c = r.case /\ phase = r.phase THEN r.outcome ELSE ResultIn(node, c, phase)
    BY <1>1, <2>2, <2>4 DEF ResultIn, IsResult
  <2>5. QED BY <2>1, <2>2, <2>3, <2>4 DEF n
<1>2. CASE r.case # NoCase
  <2> DEFINE leaf == Get(node.cases, r.case, NewLeaf)
             l == [leaf EXCEPT ![r.phase] = r.outcome]
             n == [node EXCEPT !.cases = Put(@, r.case, l)]
  <2>1. WithResult(node, r) = n /\ r.phase \in {"init", "main", "end"}
    BY <1>2 DEF WithResult, IsResult
  <2>2. IsLeaf(leaf)
    BY NewIsNode DEF IsNode, Get
  <2> HIDE DEF leaf
  <2>3. IsLeaf(l) /\ \A f \in {"init", "main", "end"} : l[f] = IF f = r.phase THEN r.outcome ELSE leaf[f]
    BY <2>1, <2>2 DEF IsLeaf
  <2> HIDE DEF l
  <2>4. /\ DOMAIN n = DOMAIN node /\ n.groups = node.groups /\ n.cases = Put(node.cases, r.case, l)
        /\ n["init"] = node["init"] /\ n["end"] = node["end"]
    BY DEF IsNode
  <2> HIDE DEF n
  <2>5. IsNode(n)
    BY <2>3, <2>4 DEF IsNode, Put
  <2>6. ASSUME NEW c, NEW phase, IsResult([case |-> c, phase |-> phase])
        PROVE  ResultIn(n, c, phase) =
                 IF c = r.case /\ phase = r.phase THEN r.outcome ELSE ResultIn(node, c, phase)
    <3>1. CASE c = NoCase
      BY <1>2, <2>4, <2>6, <3>1 DEF ResultIn, IsResult
    <3>2. CASE c # NoCase /\ c # r.case
      <4>1. Get(n.cases, c, NewLeaf) = Get(node.cases, c, NewLeaf)
        BY <2>4, <3>2 DEF Get, Put
      <4>2. QED BY <3>2, <4>1 DEF ResultIn
    <3>3. CASE c # NoCase /\ c = r.case
      <4>1. Get(n.cases, c, NewLeaf) = l
        BY <2>4, <3>3 DEF Get, Put
      <4>2. phase \in {"init", "main", "end"}
        BY <2>6, <3>3 DEF IsResult
      <4>3. QED BY <2>3, <3>3, <4>1, <4>2 DEF ResultIn, leaf
    <3>4. QED BY <3>1, <3>2, <3>3
  <2>7. QED BY <2>1, <2>4, <2>5, <2>6
<1>3. QED BY <1>1, <1>2

\* Two paths are the same for n groups.
Together(q, p, n) == n <= Len(p) /\ \A i \in 1..n : q[i] = p[i]

LEMMA InsertedNodes ==
  ASSUME NEW S, NEW p \in Seq(S), NEW q \in Seq(S), NEW t, NEW r, IsResult(r),
         \A k \in 0..Len(p) : IsNode(Nodes(t, p)[k])
  PROVE  \A k \in 0..Len(q) :
           IF Together(q, p, k)
             THEN /\ Nodes(Insert(t, p, r), q)[k] = Changed(Nodes(t, p), p, r)[k]
                  /\ Nodes(t, q)[k] = Nodes(t, p)[k]
             ELSE Nodes(Insert(t, p, r), q)[k] = Nodes(t, q)[k]
<1> DEFINE N  == Nodes(t, p)
           C  == Changed(N, p, r)
           F  == Nodes(t, q)
           F2 == Nodes(Insert(t, p, r), q)
           Holds(k) == IF Together(q, p, k) THEN F2[k] = C[k] /\ F[k] = N[k] ELSE F2[k] = F[k]
           Done == {k \in 0..Len(q) : Holds(k)}
<1>1. /\ N[0] = t
      /\ \A k \in 1..Len(p) : N[k] = Get(N[k - 1].groups, p[k], NewNode)
  BY NodesOnPath, ZenonT(30)
<1>2. /\ F[0] = t
      /\ \A k \in 1..Len(q) : F[k] = Get(F[k - 1].groups, q[k], NewNode)
  BY NodesOnPath, ZenonT(30)
<1>3. /\ F2[0] = C[0]
      /\ \A k \in 1..Len(q) : F2[k] = Get(F2[k - 1].groups, q[k], NewNode)
  BY NodesOnPath, ZenonT(30) DEF Insert
<1>4. \A k \in 0..Len(p) : C[k] = ChangedAt(C, N, p, r, k)
  BY ChangedOnPath, Zenon
<1>5. \A k \in 0..Len(p) : IsNode(N[k])
  OBVIOUS
<1>6. Len(p) \in Nat /\ Len(q) \in Nat
  OBVIOUS
<1> HIDE DEF N, C, F, F2
<1>7. 0 \in Done
  BY <1>1, <1>2, <1>3, <1>6 DEF Together
<1>8. ASSUME NEW k \in 0..(Len(q) - 1), k \in Done PROVE k + 1 \in Done
  <2>1. /\ k + 1 \in 1..Len(q) /\ (k + 1) - 1 = k /\ k + 1 \in 0..Len(q)
    BY <1>6
  <2>2. /\ F[k + 1] = Get(F[k].groups, q[k + 1], NewNode)
        /\ F2[k + 1] = Get(F2[k].groups, q[k + 1], NewNode)
    BY <1>2, <1>3, <2>1
  <2>3. CASE ~Together(q, p, k)
    <3>1. ~Together(q, p, k + 1)
      BY <1>6, <2>3 DEF Together
    <3>2. F2[k] = F[k]
      BY <1>8, <2>3
    <3>3. QED BY <2>1, <2>2, <3>1, <3>2
  <2>7. Len(p) \in 0..Len(p)
    BY <1>6
  <2>4. CASE Together(q, p, k) /\ k = Len(p)
    <3>1. ~Together(q, p, k + 1)
      BY <1>6, <2>4 DEF Together
    <3>2. F2[k] = C[k] /\ F[k] = N[k]
      BY <1>8, <2>4
    <3>3. C[k] = WithResult(N[k], r) /\ IsNode(N[k])
      BY <1>4, <1>5, <2>1, <2>4, <2>7, Zenon DEF ChangedAt
    <3>4. F2[k].groups = F[k].groups
      BY <3>2, <3>3, WithResultIsNode
    <3>5. QED BY <2>1, <2>2, <3>1, <3>4
  <2>5. CASE Together(q, p, k) /\ k # Len(p)
    <3>1. k \in 0..Len(p) /\ k + 1 \in 1..Len(p)
      BY <1>6, <2>5 DEF Together
    <3>2. F2[k] = C[k] /\ F[k] = N[k]
      BY <1>8, <2>5
    <3>3. C[k] = [N[k] EXCEPT !.groups = Put(@, p[k + 1], C[k + 1])] /\ IsNode(N[k])
      BY <1>4, <1>5, <2>5, <3>1 DEF ChangedAt
    <3>4. C[k].groups = Put(N[k].groups, p[k + 1], C[k + 1])
      BY <3>3 DEF IsNode
    <3>5. F2[k + 1] = IF q[k + 1] = p[k + 1] THEN C[k + 1] ELSE Get(N[k].groups, q[k + 1], NewNode)
      BY <2>2, <3>2, <3>4 DEF Get, Put
    <3>6. N[k + 1] = Get(N[k].groups, p[k + 1], NewNode)
      BY <1>1, <2>1, <3>1
    <3>7. Together(q, p, k + 1) <=> q[k + 1] = p[k + 1]
      BY <1>6, <2>5, <3>1 DEF Together
    <3>8. CASE q[k + 1] = p[k + 1]
      BY <2>1, <2>2, <3>2, <3>5, <3>6, <3>7, <3>8
    <3>9. CASE q[k + 1] # p[k + 1]
      BY <2>1, <2>2, <3>2, <3>5, <3>7, <3>9
    <3>10. QED BY <3>8, <3>9
  <2>6. QED BY <2>3, <2>4, <2>5
<1> HIDE DEF Done
<1>9. \A k \in 0..Len(q) : k \in Done
  BY <1>6, <1>7, <1>8, Upwards
<1>10. QED BY <1>9 DEF Done, N, C, F, F2

WellFormed(t, S) == \A q \in Seq(S) : \A k \in 0..Len(q) : IsNode(Nodes(t, q)[k])
ResultAt(t, q, case, phase) == ResultIn(NodeAt(t, q), case, phase)

LEMMA SamePath ==
  ASSUME NEW S, NEW p \in Seq(S), NEW q \in Seq(S), Len(p) = Len(q), \A i \in 1..Len(q) : q[i] = p[i]
  PROVE  p = q
OBVIOUS

LEMMA InsertedResult ==
  ASSUME NEW S, NEW p \in Seq(S), NEW t, NEW r, IsResult(r), WellFormed(t, S)
  PROVE  /\ WellFormed(Insert(t, p, r), S)
         /\ \A q \in Seq(S) : \A c, phase : IsResult([case |-> c, phase |-> phase]) =>
              ResultAt(Insert(t, p, r), q, c, phase) =
                IF q = p /\ c = r.case /\ phase = r.phase THEN r.outcome
                ELSE ResultAt(t, q, c, phase)
<1> DEFINE N  == Nodes(t, p)
           C  == Changed(N, p, r)
<1>1. Len(p) \in Nat /\ \A k \in 0..Len(p) : IsNode(N[k])
  BY DEF WellFormed
<1>2. \A k \in 0..Len(p) : C[k] = ChangedAt(C, N, p, r, k)
  BY ChangedOnPath, Zenon
<1>3. ASSUME NEW q \in Seq(S)
      PROVE  \A k \in 0..Len(q) :
               IF Together(q, p, k)
                 THEN Nodes(Insert(t, p, r), q)[k] = C[k] /\ Nodes(t, q)[k] = N[k]
                 ELSE Nodes(Insert(t, p, r), q)[k] = Nodes(t, q)[k]
  <2>1. \A k \in 0..Len(p) : IsNode(Nodes(t, p)[k])
    BY <1>1
  <2>2. QED BY <2>1, InsertedNodes
<1> HIDE DEF N, C
\* The nodes on the path stay nodes, and only the last has other results.
<1>4. ASSUME NEW k \in 0..Len(p) PROVE
        /\ IsNode(C[k])
        /\ k # Len(p) => \A c, phase : IsResult([case |-> c, phase |-> phase]) =>
             ResultIn(C[k], c, phase) = ResultIn(N[k], c, phase)
  <2>1. CASE k = Len(p)
    <3>1. C[k] = WithResult(N[k], r) /\ IsNode(N[k])
      BY <1>1, <1>2, <2>1 DEF ChangedAt
    <3>2. QED BY <2>1, <3>1, WithResultIsNode
  <2>2. CASE k # Len(p)
    <3>1. C[k] = [N[k] EXCEPT !.groups = Put(@, p[k + 1], C[k + 1])] /\ IsNode(N[k])
      BY <1>1, <1>2, <2>2 DEF ChangedAt
    <3>2. /\ DOMAIN C[k] = DOMAIN N[k] /\ C[k].cases = N[k].cases
          /\ C[k]["init"] = N[k]["init"] /\ C[k]["end"] = N[k]["end"]
      BY <3>1 DEF IsNode
    <3>3. IsNode(C[k])
      BY <3>1, <3>2 DEF IsNode
    <3>4. QED BY <3>2, <3>3 DEF ResultIn, IsResult
  <2>3. QED BY <2>1, <2>2
<1>5. WellFormed(Insert(t, p, r), S)
  <2> SUFFICES ASSUME NEW q \in Seq(S), NEW k \in 0..Len(q)
               PROVE  IsNode(Nodes(Insert(t, p, r), q)[k])
    BY DEF WellFormed
  <2>1. CASE Together(q, p, k)
    <3>1. k \in 0..Len(p)
      BY <1>1, <2>1 DEF Together
    <3>2. QED BY <1>3, <1>4, <2>1, <3>1
  <2>2. CASE ~Together(q, p, k)
    BY <1>3, <2>2 DEF WellFormed
  <2>3. QED BY <2>1, <2>2
<1>6. ASSUME NEW q \in Seq(S), NEW c, NEW phase, IsResult([case |-> c, phase |-> phase])
      PROVE  ResultAt(Insert(t, p, r), q, c, phase) =
               IF q = p /\ c = r.case /\ phase = r.phase THEN r.outcome
               ELSE ResultAt(t, q, c, phase)
  <2> DEFINE L == Len(q)
  <2>1. L \in 0..Len(q)
    OBVIOUS
  <2>2. CASE ~Together(q, p, L)
    <3>1. q # p
      BY <2>2 DEF Together
    <3>2. NodeAt(Insert(t, p, r), q) = NodeAt(t, q)
      BY <1>3, <2>1, <2>2 DEF NodeAt
    <3>3. QED BY <3>1, <3>2 DEF ResultAt
  <2>3. CASE Together(q, p, L) /\ L # Len(p)
    <3>1. q # p /\ L \in 0..Len(p)
      BY <1>1, <2>3 DEF Together
    <3>2. NodeAt(Insert(t, p, r), q) = C[L] /\ NodeAt(t, q) = N[L]
      BY <1>3, <2>1, <2>3 DEF NodeAt
    <3>3. QED BY <1>4, <1>6, <2>3, <3>1, <3>2 DEF ResultAt
  <2>4. CASE Together(q, p, L) /\ L = Len(p)
    <3>1. q = p
      BY <2>4, SamePath DEF Together
    <3>2. NodeAt(Insert(t, p, r), q) = C[L] /\ NodeAt(t, q) = N[L]
      BY <1>3, <2>1, <2>4 DEF NodeAt
    <3>3. C[L] = WithResult(N[L], r) /\ IsNode(N[L])
      BY <1>1, <1>2, <2>1, <2>4 DEF ChangedAt
    <3>4. QED BY <1>6, <3>1, <3>2, <3>3, WithResultIsNode DEF ResultAt
  <2>5. QED BY <2>2, <2>3, <2>4
<1>7. QED BY <1>5, <1>6

-----------------------------------------------------------------------------
(* The report on a test, from the results at its nodes. *)

ListAt(list, results, n) == IF n = 0 THEN <<>> ELSE AddIfPresent(results[n], list[n - 1])
AreLists(list, results) == list = [n \in 0..Len(results) |-> ListAt(list, results, n)]

LEMMA ListsExist ==
  ASSUME NEW S, NEW results \in Seq(S)
  PROVE  \E list : AreLists(list, results)
<1> DEFINE L == Len(results)
           Upto(list, n) == list = [k \in 0..n |-> ListAt(list, results, k)]
           Done == {n \in 0..L : \E list : Upto(list, n)}
<1>0. L \in Nat
  OBVIOUS
<1>1. 0 \in Done
  <2> DEFINE z == [k \in 0..0 |-> <<>>]
  <2>1. \A k \in 0..0 : z[k] = ListAt(z, results, k)
    BY DEF ListAt
  <2>2. z = [k \in 0..0 |-> z[k]]
    OBVIOUS
  <2> HIDE DEF z
  <2>3. z = [k \in 0..0 |-> ListAt(z, results, k)]
    BY <2>1, <2>2, Zenon
  <2>4. 0 \in 0..L
    BY <1>0
  <2>5. QED BY <2>3, <2>4, Zenon
<1>2. ASSUME NEW n \in 0..(L - 1), n \in Done PROVE n + 1 \in Done
  <2>1. PICK list : Upto(list, n)
    BY <1>2, Zenon
  <2> DEFINE more == [k \in 0..(n + 1) |-> ListAt(list, results, k)]
  <2>2. \A k \in 0..n : more[k] = list[k]
    <3>1. \A k \in 0..n : list[k] = ListAt(list, results, k)
      BY <2>1, Zenon
    <3>2. \A k \in 0..n : k \in 0..(n + 1)
      BY <1>0
    <3>3. QED BY <3>1, <3>2, Zenon
  <2>3. \A k \in 0..(n + 1) : ListAt(list, results, k) = ListAt(more, results, k)
    <3>1. \A k \in 0..(n + 1) : k = 0 \/ k - 1 \in 0..n
      BY <1>0
    <3> HIDE DEF more
    <3>2. QED BY <3>1, <2>2, Zenon DEF ListAt
  <2>4. more = [k \in 0..(n + 1) |-> ListAt(more, results, k)]
    BY <2>3, Zenon
  <2>5. n + 1 \in 0..L
    BY <1>0
  <2>6. Upto(more, n + 1)
    BY <2>4, Zenon
  <2>7. QED BY <2>5, <2>6, Zenon
<1> HIDE DEF Done, L
<1>3. L \in Done
  <2>1. \A k \in 0..L : k \in Done
    BY <1>0, <1>1, <1>2, Upwards
  <2>2. L \in 0..L
    BY <1>0
  <2>3. QED BY <2>1, <2>2
<1>4. QED BY <1>3, Zenon DEF Done, L, AreLists

LEMMA FoundFirst ==
  ASSUME NEW S, NEW found \in S, NEW list \in Seq(S)
  PROVE  /\ AddIfPresent(found, list) \in Seq(S)
         /\ Failing(AddIfPresent(found, list)) = {} <=> found.outcome # "failed" /\ Failing(list) = {}
<1>1. CASE found.outcome = "none"
  BY <1>1 DEF AddIfPresent
<1>2. CASE found.outcome # "none"
  <2> DEFINE l == <<found>> \o list
  <2>1. /\ l \in Seq(S) /\ Len(l) = Len(list) + 1 /\ l[1] = found
        /\ \A n \in 1..Len(list) : l[n + 1] = list[n]
        /\ Len(list) \in Nat /\ DOMAIN list = 1..Len(list) /\ DOMAIN l = 1..Len(l)
    OBVIOUS
  <2> HIDE DEF l
  <2>2. ASSUME Failing(l) = {} PROVE found.outcome # "failed" /\ Failing(list) = {}
    <3>1. 1 \in DOMAIN l /\ \A n \in 1..Len(list) : n + 1 \in DOMAIN l
      BY <2>1
    <3>2. QED BY <2>1, <2>2, <3>1 DEF Failing
  <2>3. ASSUME Failing(list) = {}, found.outcome # "failed" PROVE Failing(l) = {}
    <3> SUFFICES ASSUME NEW n \in DOMAIN l PROVE l[n].outcome # "failed"
      BY DEF Failing
    <3>1. CASE n = 1
      BY <2>1, <2>3, <3>1
    <3>2. CASE n # 1
      <4>1. n - 1 \in 1..Len(list) /\ (n - 1) + 1 = n
        BY <2>1, <3>2
      <4>2. l[n] = list[n - 1]
        BY <2>1, <4>1
      <4>3. QED BY <2>1, <2>3, <4>1, <4>2 DEF Failing
    <3>3. QED BY <3>1, <3>2
  <2>4. AddIfPresent(found, list) = l
    BY <1>2 DEF AddIfPresent, l
  <2>5. QED BY <2>1, <2>2, <2>3, <2>4
<1>3. QED BY <1>1, <1>2

\* What is gathered fails if and only if one of the results does.
LEMMA GatheredFails ==
  ASSUME NEW S, NEW results \in Seq(S)
  PROVE  Failing(Gathered(results)) = {} <=> \A n \in 1..Len(results) : results[n].outcome # "failed"
<1> DEFINE list == CHOOSE l : AreLists(l, results)
           L == Len(results)
           Fine(n) == \A k \in 1..n : results[k].outcome # "failed"
           Done == {n \in 0..L : list[n] \in Seq(S) /\ (Failing(list[n]) = {} <=> Fine(n))}
<1>1. PICK g : AreLists(g, results)
  BY ListsExist, Zenon
<1>2. AreLists(list, results)
  BY <1>1, Zenon
<1>3. Gathered(results) = list[L]
  BY Zenon DEF Gathered, AreLists, ListAt
<1> HIDE DEF list
<1>4. L \in Nat /\ \A n \in 0..L : list[n] = ListAt(list, results, n)
  <2>1. \A n \in 0..L : list[n] = ListAt(list, results, n)
    BY <1>2, Zenon DEF AreLists
  <2>2. QED BY <2>1
<1>5. 0 \in Done
  <2>1. list[0] = <<>>
    BY <1>4 DEF ListAt
  <2>2. Failing(list[0]) = {}
    BY <2>1 DEF Failing
  <2>3. Fine(0) /\ 0 \in 0..L
    BY <1>4
  <2> HIDE DEF Fine
  <2>4. list[0] \in Seq(S)
    BY <2>1
  <2>5. QED BY <2>2, <2>3, <2>4
<1>6. ASSUME NEW n \in 0..(L - 1), n \in Done PROVE n + 1 \in Done
  <2>1. n + 1 \in 1..L /\ (n + 1) - 1 = n /\ n + 1 \in 0..L /\ n + 1 # 0
    BY <1>4
  <2>2. list[n + 1] = AddIfPresent(results[n + 1], list[n])
    BY <1>4, <2>1 DEF ListAt
  <2>3. results[n + 1] \in S /\ list[n] \in Seq(S)
    BY <1>6, <2>1
  <2>4. /\ list[n + 1] \in Seq(S)
        /\ Failing(list[n + 1]) = {} <=> results[n + 1].outcome # "failed" /\ Failing(list[n]) = {}
    BY <2>2, <2>3, FoundFirst
  <2>5. Fine(n + 1) <=> Fine(n) /\ results[n + 1].outcome # "failed"
    BY <2>1
  <2> HIDE DEF Fine
  <2>6. QED BY <1>6, <2>1, <2>4, <2>5
<1> HIDE DEF Done
<1>7. L \in Done
  <2>1. \A k \in 0..L : k \in Done
    BY <1>4, <1>5, <1>6, Upwards
  <2>2. L \in 0..L
    BY <1>4
  <2>3. QED BY <2>1, <2>2
<1>8. QED BY <1>3, <1>7 DEF Done

\* The results at the nodes of a path.
LevelAt(t, path, n, phase) == ResultAt(t, SubSeq(path, 1, n), NoCase, phase)
AnyFails(t, path, c, phase) ==
  \/ \E n \in 0..Len(path) : LevelAt(t, path, n, phase) = "failed"
  \/ ResultAt(t, path, c, phase) = "failed"

LEMMA PhaseFails ==
  ASSUME NEW S, NEW path \in Seq(S), NEW c, c # NoCase, NEW t, NEW phase \in {"init", "end"},
         NEW leaf, leaf[phase] = ResultAt(t, path, c, phase)
  PROVE  LET above == [n \in 1..(Len(path) + 1) |->
                         LET here == SubSeq(path, 1, n - 1)
                         IN  Found(here, NoCase, NodeAt(t, here)[phase])]
         IN  Failing(Gathered(Append(above, Found(path, c, leaf[phase])))) # {}
               <=> AnyFails(t, path, c, phase)
<1> DEFINE At(n) == Found(SubSeq(path, 1, n - 1), NoCase, NodeAt(t, SubSeq(path, 1, n - 1))[phase])
           L == Len(path) + 1
           above == [n \in 1..L |-> At(n)]
           last == Found(path, c, leaf[phase])
           all == Append(above, last)
           F == {At(n) : n \in 1..L} \cup {last}
<1>0. L \in Nat /\ Len(path) \in Nat
  OBVIOUS
<1>1. /\ \A n \in 1..L : At(n).outcome = LevelAt(t, path, n - 1, phase)
      /\ last.outcome = ResultAt(t, path, c, phase)
  BY DEF Found, LevelAt, ResultAt, ResultIn
<1>2. (\A n \in 1..L : At(n) \in F) /\ last \in F
  OBVIOUS
<1> HIDE DEF At, last, F
<1>3. above \in Seq(F) /\ Len(above) = L
  BY <1>0, <1>2
<1>4. /\ all \in Seq(F) /\ Len(all) = L + 1 /\ all[L + 1] = last
      /\ \A n \in 1..L : all[n] = At(n)
  <2>1. \A n \in 1..L : above[n] = At(n)
    OBVIOUS
  <2> HIDE DEF above
  <2>2. QED BY <1>0, <1>2, <1>3, <2>1
<1> HIDE DEF all
<1>5. Failing(Gathered(all)) = {} <=> \A n \in 1..Len(all) : all[n].outcome # "failed"
  BY <1>4, GatheredFails
<1>6. (\E n \in 1..Len(all) : all[n].outcome = "failed") <=> AnyFails(t, path, c, phase)
  <2>1. ASSUME NEW n \in 1..Len(all), all[n].outcome = "failed" PROVE AnyFails(t, path, c, phase)
    <3>1. CASE n = L + 1
      BY <1>1, <1>4, <2>1, <3>1 DEF AnyFails
    <3>2. CASE n # L + 1
      <4>1. n \in 1..L /\ n - 1 \in 0..Len(path)
        BY <1>0, <1>4, <3>2
      <4>2. LevelAt(t, path, n - 1, phase) = "failed"
        BY <1>1, <1>4, <2>1, <4>1
      <4>3. QED BY <4>1, <4>2 DEF AnyFails
    <3>3. QED BY <3>1, <3>2
  <2>2. ASSUME AnyFails(t, path, c, phase) PROVE \E n \in 1..Len(all) : all[n].outcome = "failed"
    <3>1. CASE ResultAt(t, path, c, phase) = "failed"
      <4>1. L + 1 \in 1..Len(all) /\ all[L + 1].outcome = "failed"
        BY <1>0, <1>1, <1>4, <3>1
      <4>2. QED BY <4>1
    <3>2. ASSUME NEW n \in 0..Len(path), LevelAt(t, path, n, phase) = "failed"
          PROVE  \E m \in 1..Len(all) : all[m].outcome = "failed"
      <4>1. n + 1 \in 1..L /\ n + 1 \in 1..Len(all) /\ (n + 1) - 1 = n
        BY <1>0, <1>4
      <4>2. all[n + 1].outcome = "failed"
        BY <1>1, <1>4, <3>2, <4>1
      <4>3. QED BY <4>1, <4>2
    <3>3. QED BY <2>2, <3>1, <3>2 DEF AnyFails
  <2>3. QED BY <2>1, <2>2
<1>7. QED BY <1>5, <1>6 DEF all, above, last, At

\* What is reported, read off the results.
LEMMA ReportIs ==
  ASSUME NEW S, NEW path \in Seq(S), NEW c, c # NoCase, NEW t
  PROVE  LET main == ResultAt(t, path, c, "main")
         IN  CollectResult(t, path, c).main.outcome =
               IF AnyFails(t, path, c, "init") \/ AnyFails(t, path, c, "end") \/ main = "none"
               THEN "failed" ELSE main
<1> DEFINE leaf == Get(NodeAt(t, path).cases, c, NewLeaf)
           above(phase) == [n \in 1..(Len(path) + 1) |->
                         LET here == SubSeq(path, 1, n - 1)
                         IN  Found(here, NoCase, NodeAt(t, here)[phase])]
           inits == Gathered(Append(above("init"), Found(path, c, leaf["init"])))
           ends  == Gathered(Append(above("end"), Found(path, c, leaf["end"])))
<1>0. \A phase : leaf[phase] = ResultAt(t, path, c, phase)
  BY Zenon DEF ResultAt, ResultIn
<1>1. Failing(inits) # {} <=> AnyFails(t, path, c, "init")
  BY <1>0, PhaseFails, Zenon
<1>2. Failing(ends) # {} <=> AnyFails(t, path, c, "end")
  BY <1>0, PhaseFails, Zenon
<1>3. leaf.main = ResultAt(t, path, c, "main")
  BY <1>0, Zenon
<1>4. Collect(t, path, c) = [inits |-> Reverse(inits), main |-> Main(leaf, inits), ends |-> ends]
  BY DEF Collect
<1> HIDE DEF leaf, inits, ends
<1>5. CollectResult(t, path, c).main.outcome = WithEndFailure(ends, Main(leaf, inits).outcome)
  <2>0. PICK r : r = Collect(t, path, c)
    OBVIOUS
  <2>1. r.ends = ends /\ r.main = Main(leaf, inits)
    BY <1>4, <2>0
  <2>2. DOMAIN r = {"inits", "main", "ends"} /\ DOMAIN Main(leaf, inits) = {"outcome", "blames"}
    BY <1>4, <2>0 DEF Main
  <2>3. CollectResult(t, path, c) = [r EXCEPT !.main.outcome = WithEndFailure(r.ends, @)]
    BY <2>0, Zenon DEF CollectResult
  <2>4. QED BY <2>1, <2>2, <2>3
<1>6. Main(leaf, inits).outcome = IF Failing(inits) # {} \/ leaf.main = "none" THEN "failed" ELSE leaf.main
  BY DEF Main
<1>7. QED BY <1>1, <1>2, <1>3, <1>5, <1>6 DEF WithEndFailure

-----------------------------------------------------------------------------
(* The tree has the results of the table. *)

\* What the table has, and what the tree has.
In(known, q, c, phase) == Get(known, Key(q, c, phase), "none")
Same(t, known) ==
  /\ WellFormed(t, Group)
  /\ \A q \in Path : \A c, phase : IsResult([case |-> c, phase |-> phase]) =>
       ResultAt(t, q, c, phase) = In(known, q, c, phase)

RegisteredAt(after, t, known, gs, rs, n) ==
  IF n = 0 THEN [tree |-> t, table |-> known]
  ELSE [tree  |-> Insert(after[n - 1].tree, gs, rs[n]),
        table |-> Put(after[n - 1].table, Key(gs, rs[n].case, rs[n].phase), rs[n].outcome)]
AreRegistered(after, t, known, gs, rs) ==
  after = [n \in 0..Len(rs) |-> RegisteredAt(after, t, known, gs, rs, n)]

LEMMA RegisteredExist ==
  ASSUME NEW S, NEW rs \in Seq(S), NEW t, NEW known, NEW gs
  PROVE  \E after : AreRegistered(after, t, known, gs, rs)
<1> DEFINE L == Len(rs)
           At(after, k) == RegisteredAt(after, t, known, gs, rs, k)
           Upto(after, n) == after = [k \in 0..n |-> At(after, k)]
           Done == {n \in 0..L : \E after : Upto(after, n)}
<1>0. L \in Nat
  OBVIOUS
<1>1. 0 \in Done
  <2> DEFINE z == [k \in 0..0 |-> [tree |-> t, table |-> known]]
  <2>1. \A k \in 0..0 : z[k] = At(z, k)
    BY DEF RegisteredAt
  <2>2. z = [k \in 0..0 |-> z[k]]
    OBVIOUS
  <2> HIDE DEF z
  <2>3. z = [k \in 0..0 |-> At(z, k)]
    BY <2>1, <2>2, Zenon
  <2>4. 0 \in 0..L
    BY <1>0
  <2>5. QED BY <2>3, <2>4, Zenon
<1>2. ASSUME NEW n \in 0..(L - 1), n \in Done PROVE n + 1 \in Done
  <2>1. PICK after : Upto(after, n)
    BY <1>2, Zenon
  <2> DEFINE more == [k \in 0..(n + 1) |-> At(after, k)]
  <2>2. \A k \in 0..n : more[k] = after[k]
    <3>1. \A k \in 0..n : after[k] = At(after, k)
      BY <2>1, Zenon
    <3>2. \A k \in 0..n : k \in 0..(n + 1)
      BY <1>0
    <3>3. QED BY <3>1, <3>2, Zenon
  <2>3. \A k \in 0..(n + 1) : At(after, k) = At(more, k)
    <3>1. \A k \in 0..(n + 1) : k = 0 \/ k - 1 \in 0..n
      BY <1>0
    <3> HIDE DEF more
    <3>2. QED BY <3>1, <2>2, Zenon DEF RegisteredAt
  <2>4. more = [k \in 0..(n + 1) |-> At(more, k)]
    BY <2>3, Zenon
  <2>5. n + 1 \in 0..L
    BY <1>0
  <2>6. Upto(more, n + 1)
    BY <2>4, Zenon
  <2>7. QED BY <2>5, <2>6, Zenon
<1> HIDE DEF Done, L
<1>3. L \in Done
  <2>1. \A k \in 0..L : k \in Done
    BY <1>0, <1>1, <1>2, Upwards
  <2>2. L \in 0..L
    BY <1>0
  <2>3. QED BY <2>1, <2>2
<1>4. QED BY <1>3, Zenon DEF Done, L, AreRegistered

\* One result after the other.
LastOf(r, after, t, known, gs, rs) ==
  /\ r = after[Len(rs)]
  /\ \A n \in 0..Len(rs) : after[n] = RegisteredAt(after, t, known, gs, rs, n)

LEMMA RegisteredSteps ==
  ASSUME NEW S, NEW rs \in Seq(S), NEW t, NEW known, NEW gs
  PROVE  \E after : LastOf(Registered(t, known, gs, rs), after, t, known, gs, rs)
<1> DEFINE after == CHOOSE a : AreRegistered(a, t, known, gs, rs)
<1>1. PICK g : AreRegistered(g, t, known, gs, rs)
  BY RegisteredExist, Zenon
<1>2. AreRegistered(after, t, known, gs, rs)
  BY <1>1, Zenon
<1>3. Registered(t, known, gs, rs) = after[Len(rs)]
  BY Zenon DEF Registered, AreRegistered, RegisteredAt
<1> HIDE DEF after
<1>4. \A n \in 0..Len(rs) : after[n] = RegisteredAt(after, t, known, gs, rs, n)
  BY <1>2, Zenon DEF AreRegistered
<1>5. QED BY <1>3, <1>4, Zenon DEF LastOf

LEMMA GetPutIn ==
  ASSUME NEW known, NEW gs, NEW case1, NEW phase1, NEW value
  PROVE  LET more == Put(known, Key(gs, case1, phase1), value)
         IN  \A q, c, phase : In(more, q, c, phase) =
               IF q = gs /\ c = case1 /\ phase = phase1 THEN value ELSE In(known, q, c, phase)
<1> SUFFICES ASSUME NEW q, NEW c, NEW phase
             PROVE  In(Put(known, Key(gs, case1, phase1), value), q, c, phase) =
                      IF q = gs /\ c = case1 /\ phase = phase1 THEN value ELSE In(known, q, c, phase)
  OBVIOUS
<1>1. Key(q, c, phase) = Key(gs, case1, phase1) <=> q = gs /\ c = case1 /\ phase = phase1
  BY DEF Key
<1>2. QED BY <1>1 DEF In, Get, Put

\* Results can be told apart by their case and phase.
Apart(rs) == \A m, n \in DOMAIN rs : rs[m].case = rs[n].case /\ rs[m].phase = rs[n].phase => m = n
Of(rs, n, c, phase) == c = rs[n].case /\ phase = rs[n].phase

LEMMA RegisteredIs ==
  ASSUME NEW S, NEW rs \in Seq(S), \A n \in DOMAIN rs : IsResult(rs[n]), Apart(rs),
         NEW t, NEW known, NEW gs \in Path
  PROVE  LET r == Registered(t, known, gs, rs)
         IN  /\ Same(t, known) => Same(r.tree, r.table)
             /\ DOMAIN r.table = DOMAIN known \cup {Key(gs, rs[n].case, rs[n].phase) : n \in DOMAIN rs}
             /\ \A n \in DOMAIN rs : In(r.table, gs, rs[n].case, rs[n].phase) = rs[n].outcome
             /\ \A q, c, phase : q # gs \/ (\A n \in DOMAIN rs : ~Of(rs, n, c, phase)) =>
                  In(r.table, q, c, phase) = In(known, q, c, phase)
<1>0. PICK after : LastOf(Registered(t, known, gs, rs), after, t, known, gs, rs)
  BY RegisteredSteps, Zenon
<1>1. /\ Registered(t, known, gs, rs) = after[Len(rs)]
      /\ \A n \in 0..Len(rs) : after[n] = RegisteredAt(after, t, known, gs, rs, n)
  BY <1>0, Zenon DEF LastOf
<1> DEFINE L == Len(rs)
           Keeps(a) == Same(t, known) => Same(a.tree, a.table)
           Has(a, n) ==
             /\ DOMAIN a.table = DOMAIN known \cup {Key(gs, rs[m].case, rs[m].phase) : m \in 1..n}
             /\ \A m \in 1..n : In(a.table, gs, rs[m].case, rs[m].phase) = rs[m].outcome
             /\ \A q, c, phase : q # gs \/ (\A m \in 1..n : ~Of(rs, m, c, phase)) =>
                  In(a.table, q, c, phase) = In(known, q, c, phase)
           Done == {n \in 0..L : Keeps(after[n]) /\ Has(after[n], n)}
<1>2. L \in Nat /\ DOMAIN rs = 1..L
  OBVIOUS
<1>3. 0 \in Done
  <2>0. 0 \in 0..Len(rs) /\ 1..0 = {}
    BY <1>2
  <2>1. after[0] = [tree |-> t, table |-> known]
    BY <1>1, <2>0, Zenon DEF RegisteredAt
  <2>2. PICK a : a = after[0]
    OBVIOUS
  <2>3. a.tree = t /\ a.table = known
    BY <2>1, <2>2
  <2>4. Has(a, 0) /\ Keeps(a)
    BY <2>0, <2>3
  <2> HIDE DEF Has, Keeps
  <2>5. QED BY <2>0, <2>2, <2>4
<1>4. ASSUME NEW n \in 0..(L - 1), n \in Done PROVE n + 1 \in Done
  <2>1. n + 1 \in 1..L /\ n + 1 \in DOMAIN rs /\ (n + 1) - 1 = n /\ n + 1 \in 0..L /\ n + 1 # 0
    BY <1>2
  <2>2. PICK r : r = rs[n + 1]
    OBVIOUS
  <2>3. PICK a, b : a = after[n] /\ b = after[n + 1]
    OBVIOUS
  <2>4. b = [tree |-> Insert(a.tree, gs, r), table |-> Put(a.table, Key(gs, r.case, r.phase), r.outcome)]
    BY <1>1, <2>1, <2>2, <2>3 DEF RegisteredAt
  <2>5. /\ b.tree = Insert(a.tree, gs, r)
        /\ b.table = Put(a.table, Key(gs, r.case, r.phase), r.outcome)
    BY <2>4
  <2>6. \A q, c, phase : In(b.table, q, c, phase) =
          IF q = gs /\ c = r.case /\ phase = r.phase THEN r.outcome ELSE In(a.table, q, c, phase)
    BY <2>5, GetPutIn
  <2>7. IsResult(r)
    BY <2>1, <2>2
  <2>8. Keeps(b)
    <3> SUFFICES ASSUME Same(t, known) PROVE Same(b.tree, b.table)
      OBVIOUS
    <3>1. Same(a.tree, a.table)
      BY <1>4, <2>3
    <3>2. WellFormed(a.tree, Group) /\ gs \in Seq(Group)
      BY <3>1 DEF Same, Path
    <3>3. /\ WellFormed(b.tree, Group)
          /\ \A q \in Seq(Group) : \A c, phase : IsResult([case |-> c, phase |-> phase]) =>
               ResultAt(b.tree, q, c, phase) =
                IF q = gs /\ c = r.case /\ phase = r.phase THEN r.outcome
                ELSE ResultAt(a.tree, q, c, phase)
      BY <2>5, <2>7, <3>2, InsertedResult
    <3>4. QED BY <2>6, <3>1, <3>3 DEF Same, Path
  <2>9. Has(a, n)
    BY <1>4, <2>3
  <2>10. DOMAIN b.table = DOMAIN known \cup {Key(gs, rs[m].case, rs[m].phase) : m \in 1..(n + 1)}
    <3>1. DOMAIN b.table = DOMAIN a.table \cup {Key(gs, r.case, r.phase)}
      BY <2>5 DEF Put
    <3>2. 1..(n + 1) = 1..n \cup {n + 1}
      BY <1>2
    <3>3. QED BY <2>2, <2>9, <3>1, <3>2
  <2>11. ASSUME NEW m \in 1..(n + 1)
         PROVE  In(b.table, gs, rs[m].case, rs[m].phase) = rs[m].outcome
    <3>1. CASE m = n + 1
      BY <2>2, <2>6, <3>1
    <3>2. CASE m # n + 1
      <4>1. m \in 1..n /\ m \in DOMAIN rs
        BY <1>2, <3>2
      <4>2. ~(rs[m].case = r.case /\ rs[m].phase = r.phase)
        BY <2>1, <2>2, <3>2, <4>1 DEF Apart
      <4>3. QED BY <2>6, <2>9, <4>1, <4>2
    <3>3. QED BY <3>1, <3>2
  <2>12. ASSUME NEW q, NEW c, NEW phase, q # gs \/ (\A m \in 1..(n + 1) : ~Of(rs, m, c, phase))
         PROVE  In(b.table, q, c, phase) = In(known, q, c, phase)
    <3>1. ~(q = gs /\ c = r.case /\ phase = r.phase)
      <4>1. n + 1 \in 1..(n + 1)
        BY <1>2
      <4>2. QED BY <2>2, <2>12, <4>1 DEF Of
    <3>2. q # gs \/ (\A m \in 1..n : ~Of(rs, m, c, phase))
      BY <1>2, <2>12
    <3>3. In(a.table, q, c, phase) = In(known, q, c, phase)
      BY <2>9, <3>2
    <3>4. QED BY <2>6, <3>1, <3>3
  <2>13. Has(b, n + 1)
    BY <2>10, <2>11, <2>12, Zenon
  <2> HIDE DEF Has, Keeps
  <2>14. QED BY <2>1, <2>3, <2>8, <2>13
<1> HIDE DEF Done
<1>5. L \in Done
  <2>1. \A k \in 0..L : k \in Done
    BY <1>2, <1>3, <1>4, Upwards
  <2>2. L \in 0..L
    BY <1>2
  <2>3. QED BY <2>1, <2>2
<1>6. PICK r : r = Registered(t, known, gs, rs)
  OBVIOUS
<1>7. Keeps(r) /\ Has(r, L)
  BY <1>1, <1>5, <1>6 DEF Done
<1>8. QED BY <1>2, <1>6, <1>7

\* What the handlers do to the table, when they register results for the cases
\* and phases K under gs while Common Test is at the path.
Moved(gs, path, K) ==
  /\ Same(tree, table) => Same(tree', table')
  /\ \A q, c, phase : q # gs \/ <<c, phase>> \notin K =>
       In(table', q, c, phase) = In(table, q, c, phase)
  /\ displaced \subseteq displaced'
  /\ \A q, c, phase : In(table, q, c, phase) # "none" =>
       In(table', q, c, phase) = In(table, q, c, phase) \/ Key(q, c, phase) \in displaced'
  /\ gs # path => \A x \in K : {Key(gs, x[1], x[2]), Key(path, x[1], x[2])} \subseteq displaced'

LEMMA RegisterMoves ==
  ASSUME NEW S, NEW rs \in Seq(S), \A n \in DOMAIN rs : IsResult(rs[n]), Apart(rs),
         NEW gs \in Path, NEW path, Register(rs, gs, path)
  PROVE  /\ Moved(gs, path, {<<rs[n].case, rs[n].phase>> : n \in DOMAIN rs})
         /\ \A n \in DOMAIN rs : In(table', gs, rs[n].case, rs[n].phase) = rs[n].outcome
<1> DEFINE K == {<<rs[n].case, rs[n].phase>> : n \in DOMAIN rs}
           keys(p) == {Key(p, rs[n].case, rs[n].phase) : n \in DOMAIN rs}
<1>1. PICK r : r = Registered(tree, table, gs, rs)
  OBVIOUS
<1>2. /\ tree' = r.tree /\ table' = r.table
      /\ displaced' = displaced \cup (IF gs = path THEN {} ELSE keys(path) \cup keys(gs))
                                \cup {k \in keys(gs) \cap DOMAIN table : table[k] # table'[k]}
  BY <1>1 DEF Register
<1>3. /\ Same(tree, table) => Same(r.tree, r.table)
      /\ DOMAIN r.table = DOMAIN table \cup keys(gs)
      /\ \A n \in DOMAIN rs : In(r.table, gs, rs[n].case, rs[n].phase) = rs[n].outcome
      /\ \A q, c, phase : q # gs \/ (\A n \in DOMAIN rs : ~Of(rs, n, c, phase)) =>
           In(r.table, q, c, phase) = In(table, q, c, phase)
  BY <1>1, RegisteredIs
<1>4. \A c, phase : <<c, phase>> \notin K => \A n \in DOMAIN rs : ~Of(rs, n, c, phase)
  BY DEF Of
<1>5. \A q, c, phase : q # gs \/ <<c, phase>> \notin K => In(table', q, c, phase) = In(table, q, c, phase)
  <2> HIDE DEF K
  <2>1. QED BY <1>2, <1>3, <1>4
<1>6. ASSUME NEW q, NEW c, NEW phase, In(table, q, c, phase) # "none",
             In(table', q, c, phase) # In(table, q, c, phase)
      PROVE  Key(q, c, phase) \in displaced'
  <2>1. q = gs /\ <<c, phase>> \in K
    BY <1>5, <1>6
  <2>2. PICK k : k = Key(q, c, phase)
    OBVIOUS
  <2>3. k \in keys(gs)
    BY <2>1, <2>2
  <2>4. k \in DOMAIN table /\ k \in DOMAIN table'
    BY <1>2, <1>3, <1>6, <2>2, <2>3 DEF In, Get
  <2>5. In(table, q, c, phase) = table[k] /\ In(table', q, c, phase) = table'[k]
    BY <2>2, <2>4 DEF In, Get
  <2>6. table[k] # table'[k]
    BY <1>6, <2>5
  <2> HIDE DEF keys
  <2>7. QED BY <1>2, <2>2, <2>3, <2>4, <2>6
<1>7. \A x \in K : Key(gs, x[1], x[2]) \in keys(gs) /\ Key(path, x[1], x[2]) \in keys(path)
  OBVIOUS
<1>8. Same(tree, table) => Same(tree', table')
  BY <1>2, <1>3
<1>9. displaced \subseteq displaced' /\ (gs # path => keys(path) \cup keys(gs) \subseteq displaced')
  <2> HIDE DEF keys
  <2>1. QED BY <1>2
<1>10. Moved(gs, path, K)
  <2> HIDE DEF K, keys
  <2>1. QED BY <1>5, <1>6, <1>7, <1>8, <1>9 DEF Moved
<1>11. \A n \in DOMAIN rs : In(table', gs, rs[n].case, rs[n].phase) = rs[n].outcome
  BY <1>2, <1>3
<1>12. QED BY <1>10, <1>11

LEMMA OneMoves ==
  ASSUME NEW c, NEW phase, NEW o, IsResult([case |-> c, phase |-> phase]),
         NEW gs \in Path, NEW path, Register(<<Result(c, phase, o)>>, gs, path)
  PROVE  Moved(gs, path, {<<c, phase>>}) /\ In(table', gs, c, phase) = o
<1>1. PICK rs : rs = <<Result(c, phase, o)>>
  OBVIOUS
<1>2. /\ rs \in Seq({Result(c, phase, o)}) /\ DOMAIN rs = {1}
      /\ rs[1].case = c /\ rs[1].phase = phase /\ rs[1].outcome = o
  BY <1>1 DEF Result
<1>3. (\A n \in DOMAIN rs : IsResult(rs[n])) /\ Apart(rs)
  BY <1>2 DEF IsResult, Apart
<1>4. {<<rs[n].case, rs[n].phase>> : n \in DOMAIN rs} = {<<c, phase>>}
  BY <1>2
<1>5. Register(rs, gs, path)
  BY <1>1
<1>6. /\ Moved(gs, path, {<<rs[n].case, rs[n].phase>> : n \in DOMAIN rs})
      /\ \A n \in DOMAIN rs : In(table', gs, rs[n].case, rs[n].phase) = rs[n].outcome
  BY <1>2, <1>3, <1>5, RegisterMoves
<1>7. QED BY <1>2, <1>4, <1>6

\* The results of a case that ran.
LEMMA MethodsOfCase ==
  ASSUME NEW c, c # NoCase, NEW i, NEW m, NEW e, NEW rs, rs = CaseMethods(c, i, m, e)
  PROVE  /\ (\E S : rs \in Seq(S)) /\ (\A n \in DOMAIN rs : IsResult(rs[n])) /\ Apart(rs)
         /\ i # "passed" =>
              /\ DOMAIN rs = {1, 2}
              /\ rs[1].case = c /\ rs[1].phase = "init" /\ rs[1].outcome = i
              /\ rs[2].case = c /\ rs[2].phase = "main" /\ rs[2].outcome = i
         /\ i = "passed" =>
              /\ DOMAIN rs = {1, 2, 3}
              /\ rs[1].case = c /\ rs[1].phase = "init" /\ rs[1].outcome = "passed"
              /\ rs[2].case = c /\ rs[2].phase = "main" /\ rs[2].outcome = m
              /\ rs[3].case = c /\ rs[3].phase = "end"
              /\ rs[3].outcome = IF m = "passed" THEN e ELSE "passed"
<1>1. CASE i # "passed"
  <2> DEFINE a == Result(c, "init", i)
             b == Result(c, "main", i)
  <2>1. rs = <<a, b>>
    BY <1>1 DEF CaseMethods
  <2>2. /\ rs \in Seq({a, b}) /\ DOMAIN rs = {1, 2}
        /\ rs[1].case = c /\ rs[1].phase = "init" /\ rs[1].outcome = i
        /\ rs[2].case = c /\ rs[2].phase = "main" /\ rs[2].outcome = i
    BY <2>1 DEF Result
  <2>3. (\A n \in DOMAIN rs : IsResult(rs[n])) /\ Apart(rs)
    BY <2>2 DEF IsResult, Apart
  <2>4. QED BY <1>1, <2>2, <2>3
<1>2. CASE i = "passed"
  <2> DEFINE o == IF m = "passed" THEN e ELSE "passed"
             a == Result(c, "init", "passed")
             b == Result(c, "main", m)
             d == Result(c, "end", o)
  <2>1. rs = <<a, b, d>>
    BY <1>2 DEF CaseMethods
  <2>2. /\ rs \in Seq({a, b, d}) /\ DOMAIN rs = {1, 2, 3}
        /\ rs[1].case = c /\ rs[1].phase = "init" /\ rs[1].outcome = "passed"
        /\ rs[2].case = c /\ rs[2].phase = "main" /\ rs[2].outcome = m
        /\ rs[3].case = c /\ rs[3].phase = "end" /\ rs[3].outcome = o
    BY <2>1 DEF Result
  <2>3. (\A n \in DOMAIN rs : IsResult(rs[n])) /\ Apart(rs)
    BY <2>2 DEF IsResult, Apart
  <2>4. QED BY <1>2, <2>2, <2>3
<1>3. QED BY <1>1, <1>2

-----------------------------------------------------------------------------
(* What is known of the results while the suite runs. *)

LevelInit(path, n) == In(table, SubSeq(path, 1, n), NoCase, "init")
LevelEnd(path, n)  == In(table, SubSeq(path, 1, n), NoCase, "end")

SuiteKnown ==
  /\ skip \in Skip /\ suiteSkip \in Skip
  /\ pc = "start" => truth = <<>> /\ suiteSkip = "no"
  /\ pc # "start" => In(table, <<>>, NoCase, "init") = IF suiteSkip = "auto" THEN "failed" ELSE "passed"
  /\ pc # "ended" => In(table, <<>>, NoCase, "end") = "none"
  /\ suiteSkip # "no" => skip = suiteSkip /\ opened = 0 /\ groups = <<>>

\* The groups that are open were initialised.
OpenKnown == entry <= Len(spec) => \A n \in 1..opened : LevelInit(Here.groups, n) = "passed"

\* The group that failed is the one the hook is in.
SkipKnown ==
  MoreCases /\ skip # "no" /\ suiteSkip = "no" =>
    /\ opened < Len(Here.groups) /\ groups = SubSeq(Here.groups, 1, opened + 1)
    /\ LevelInit(Here.groups, opened + 1) = IF skip = "user" THEN "skipped" ELSE "failed"

\* Of the results of one case, and of one group, if none was displaced.
CaseKnown ==
  \A q \in Path : \A c \in Case :
    {Key(q, c, "init"), Key(q, c, "main"), Key(q, c, "end")} \cap displaced = {} =>
      /\ In(table, q, c, "end") # "none" => In(table, q, c, "init") = "passed"
      /\ In(table, q, c, "end") = "failed" => In(table, q, c, "main") = "passed"
      /\ In(table, q, c, "init") = "failed" => In(table, q, c, "main") = "failed"
GroupKnown ==
  \A q \in Path :
    /\ q # <<>> /\ {Key(q, NoCase, "init"), Key(q, NoCase, "end")} \cap displaced = {}
    /\ In(table, q, NoCase, "end") # "none"
    => In(table, q, NoCase, "init") = "passed"

\* A reason to report a failure; what there is of a test that did not fail: a
\* group around it may have no end yet, or a failed one from the last time,
\* only while it is open.
Reason(path, c) ==
  \/ \E n \in 0..Len(path) : LevelInit(path, n) = "failed" \/ LevelEnd(path, n) = "failed"
  \/ \E phase \in {"init", "main", "end"} : In(table, path, c, phase) = "failed"
OpenNow(path, n) == entry <= Len(spec) /\ path = Here.groups /\ n <= opened
Good(path, c, outcome) ==
  /\ In(table, path, c, "main") = outcome
  /\ In(table, path, c, "init") # "failed" /\ In(table, path, c, "end") # "failed"
  /\ LevelEnd(path, 0) # "failed"
  /\ \A n \in 0..Len(path) : LevelInit(path, n) \in {"passed", "skipped"}
  /\ \A n \in 1..Len(path) :
       LevelEnd(path, n) = "failed" \/ (LevelEnd(path, n) = "none" /\ LevelInit(path, n) = "passed")
         => OpenNow(path, n)
ToldOf(path, c, outcome) ==
  Chain(path, c) \cap displaced = {} =>
    /\ In(table, path, c, "main") # "none"
    /\ IF outcome = "failed" THEN Reason(path, c) ELSE Good(path, c, outcome)
Told ==
  /\ DOMAIN truth \subseteq Path \X Case
  /\ \A pt \in DOMAIN truth : truth[pt] \in Outcome /\ ToldOf(pt[1], pt[2], truth[pt])

\* What Common Test is done with has an outcome.
Done(m, j) == m < entry \/ (m = entry /\ j <= caseNo)
Recorded ==
  /\ caseNo \in Nat /\ (entry <= Len(spec) => caseNo <= Len(Here.cases))
  /\ pc \in {"start", "run", "ended"} /\ (pc = "ended" => entry > Len(spec))
  /\ \A m \in 1..Len(spec) : \A j \in 1..Len(spec[m].cases) :
       Done(m, j) => <<spec[m].groups, spec[m].cases[j]>> \in DOMAIN truth

TableInv == SuiteKnown /\ OpenKnown /\ SkipKnown /\ CaseKnown /\ GroupKnown
ReportInv == GroupInv /\ Same(tree, table) /\ TableInv /\ Told /\ Recorded

LEMMA PrefixPath ==
  ASSUME NEW path \in Path
  PROVE  /\ Len(path) \in Nat
         /\ \A n \in 0..Len(path) : SubSeq(path, 1, n) \in Path /\ Len(SubSeq(path, 1, n)) = n
         /\ SubSeq(path, 1, 0) = <<>> /\ SubSeq(path, 1, Len(path)) = path
         /\ \A n \in 1..Len(path) : SubSeq(path, 1, n) # <<>>
<1>1. path \in Seq(Group)
  BY DEF Path
<1>2. ASSUME NEW n \in 0..Len(path)
      PROVE  SubSeq(path, 1, n) \in Seq(Group) /\ Len(SubSeq(path, 1, n)) = n
  BY <1>1
<1>3. SubSeq(path, 1, 0) = <<>> /\ SubSeq(path, 1, Len(path)) = path /\ Len(path) \in Nat
  BY <1>1
<1>4. ASSUME NEW n \in 1..Len(path) PROVE SubSeq(path, 1, n) # <<>>
  BY <1>1
<1>5. QED BY <1>2, <1>3, <1>4 DEF Path

\* What the report on a test depends on.
LEMMA ChainHas ==
  ASSUME NEW path \in Path, NEW c
  PROVE  /\ \A n \in 0..Len(path) : /\ Key(SubSeq(path, 1, n), NoCase, "init") \in Chain(path, c)
                                    /\ Key(SubSeq(path, 1, n), NoCase, "end") \in Chain(path, c)
         /\ \A phase \in {"init", "main", "end"} : Key(path, c, phase) \in Chain(path, c)
<1>1. ASSUME NEW n \in 0..Len(path)
      PROVE  /\ Key(SubSeq(path, 1, n), NoCase, "init") \in Chain(path, c)
             /\ Key(SubSeq(path, 1, n), NoCase, "end") \in Chain(path, c)
  <2>1. SubSeq(path, 1, n) \in Prefixes(path)
    BY DEF Prefixes
  <2>2. PICK q : q = SubSeq(path, 1, n)
    OBVIOUS
  <2> DEFINE both(p) == {Key(p, NoCase, "init"), Key(p, NoCase, "end")}
  <2>3. both(q) \in {both(p) : p \in Prefixes(path)}
    BY <2>1, <2>2, Zenon
  <2>4. both(q) \subseteq UNION {both(p) : p \in Prefixes(path)}
    BY <2>3, Zenon
  <2>5. both(q) \subseteq Chain(path, c)
    BY <2>4, Zenon DEF Chain
  <2>6. QED BY <2>2, <2>5, Zenon
<1>2. ASSUME NEW phase \in {"init", "main", "end"} PROVE Key(path, c, phase) \in Chain(path, c)
  <2>1. Key(path, c, phase) \in {Key(path, c, f) : f \in {"init", "main", "end"}}
    BY Zenon
  <2>2. QED BY <2>1, Zenon DEF Chain
<1>3. QED BY <1>1, <1>2

\* Where nothing was displaced, what was there is still there.
LEMMA Undisplaced ==
  ASSUME NEW gs, NEW here, NEW K, Moved(gs, here, K), NEW path \in Path, NEW c,
         Chain(path, c) \cap displaced' = {}
  PROVE  /\ Chain(path, c) \cap displaced = {}
         /\ \A n \in 0..Len(path) :
              /\ LevelInit(path, n) # "none" => LevelInit(path, n)' = LevelInit(path, n)
              /\ LevelEnd(path, n) # "none" => LevelEnd(path, n)' = LevelEnd(path, n)
         /\ \A phase \in {"init", "main", "end"} : In(table, path, c, phase) # "none" =>
              In(table', path, c, phase) = In(table, path, c, phase)
<1>1. displaced \subseteq displaced'
  BY DEF Moved
<1>2. \A q, d, phase : In(table, q, d, phase) # "none" =>
        In(table', q, d, phase) = In(table, q, d, phase) \/ Key(q, d, phase) \in displaced'
  BY DEF Moved
<1>3. QED BY <1>1, <1>2, ChainHas DEF LevelInit, LevelEnd

\* A failure that there is a reason for keeps it.
LEMMA ReasonStays ==
  ASSUME NEW gs, NEW here, NEW K, Moved(gs, here, K), NEW path \in Path, NEW c,
         Chain(path, c) \cap displaced' = {}, Reason(path, c)
  PROVE  Reason(path, c)'
<1>1. /\ \A n \in 0..Len(path) :
              /\ LevelInit(path, n) # "none" => LevelInit(path, n)' = LevelInit(path, n)
              /\ LevelEnd(path, n) # "none" => LevelEnd(path, n)' = LevelEnd(path, n)
      /\ \A phase \in {"init", "main", "end"} : In(table, path, c, phase) # "none" =>
              In(table', path, c, phase) = In(table, path, c, phase)
  BY Undisplaced
<1>2. QED BY <1>1 DEF Reason

\* A result of a group leaves those of cases alone, and the other way round.
LEMMA GroupResults ==
  ASSUME NEW gs, NEW here, NEW phase0, Moved(gs, here, {<<NoCase, phase0>>})
  PROVE  /\ \A q : \A c \in Case : \A phase : In(table', q, c, phase) = In(table, q, c, phase)
         /\ CaseKnown => CaseKnown'
<1>1. \A c \in Case : c # NoCase
  BY CaseAssumption
<1>2. \A q, c, phase : q # gs \/ <<c, phase>> \notin {<<NoCase, phase0>>} =>
        In(table', q, c, phase) = In(table, q, c, phase)
  BY DEF Moved
<1>3. ASSUME NEW q, NEW c \in Case, NEW phase
      PROVE  In(table', q, c, phase) = In(table, q, c, phase)
  BY <1>1, <1>2
<1>4. displaced \subseteq displaced'
  BY DEF Moved
<1>5. CaseKnown => CaseKnown'
  BY <1>3, <1>4 DEF CaseKnown
<1>6. QED BY <1>3, <1>5

LEMMA CaseResults ==
  ASSUME NEW gs, NEW here, NEW K, Moved(gs, here, K), NEW c0 \in Case, \A x \in K : x[1] = c0
  PROVE  /\ \A q, phase : In(table', q, NoCase, phase) = In(table, q, NoCase, phase)
         /\ GroupKnown => GroupKnown'
<1>1. c0 # NoCase
  BY CaseAssumption
<1>2. \A phase : <<NoCase, phase>> \notin K
  BY <1>1
<1>3. \A q, phase : In(table', q, NoCase, phase) = In(table, q, NoCase, phase)
  BY <1>2 DEF Moved
<1>4. displaced \subseteq displaced'
  BY DEF Moved
<1>5. GroupKnown => GroupKnown'
  BY <1>3, <1>4 DEF GroupKnown
<1>6. QED BY <1>3, <1>5

LEMMA OpenRegisters ==
  ASSUME GroupInv, NEW o \in Outcome, OpenGroup(o)
  PROVE  /\ Here.groups \in Path /\ opened \in 0..(Len(Here.groups) - 1)
         /\ groups' = SubSeq(Here.groups, 1, opened + 1)
         /\ Register(<<Result(NoCase, "init", o)>>, groups', groups')
<1>1. /\ Here.groups \in Path /\ opened \in 0..(Len(Here.groups) - 1)
      /\ Position = Opened /\ Here.groups \in Seq(Group)
  BY HereIsPath DEF GroupInv, OpenGroup, Walk, Position, Path
<1>2. StackForInit = Opened
  BY <1>1 DEF OpenGroup, GroupInv, Tracked, StackForInit
<1>3. Append(Opened, Here.groups[opened + 1]) = SubSeq(Here.groups, 1, opened + 1)
  BY <1>1, Extend DEF Opened
<1>4. InitGroup(Here.groups[opened + 1], o, SubSeq(Here.groups, 1, opened + 1))
  BY DEF OpenGroup
<1>5. /\ groups' = SubSeq(Here.groups, 1, opened + 1)
      /\ Register(<<Result(NoCase, "init", o)>>, SubSeq(Here.groups, 1, opened + 1),
                  SubSeq(Here.groups, 1, opened + 1))
  BY <1>2, <1>3, <1>4 DEF InitGroup
<1>6. QED BY <1>1, <1>5

LEMMA OpenStep ==
  ASSUME ReportInv, NEW o \in Outcome, OpenGroup(o)
  PROVE  Same(tree', table') /\ TableInv' /\ Told' /\ Recorded'
<1>1. PICK G, q, k : G = Here.groups /\ q = groups' /\ k = opened
  OBVIOUS
<1>2. /\ G \in Path /\ k \in 0..(Len(G) - 1) /\ q = SubSeq(G, 1, k + 1)
      /\ Register(<<Result(NoCase, "init", o)>>, q, q)
  BY <1>1, OpenRegisters DEF ReportInv
<1>3. /\ Len(G) \in Nat /\ q \in Path /\ q # <<>> /\ Len(q) = k + 1 /\ k + 1 \in 1..Len(G)
      /\ \A n \in 0..Len(G) : Len(SubSeq(G, 1, n)) = n
  <2>1. k + 1 \in 0..Len(G) /\ k + 1 \in 1..Len(G)
    BY <1>2, PrefixPath
  <2>2. QED BY <1>2, <2>1, PrefixPath
<1>4. Moved(q, q, {<<NoCase, "init">>}) /\ In(table', q, NoCase, "init") = o
  BY <1>2, <1>3, OneMoves DEF IsResult
<1>5. /\ \A p, c, phase : p # q \/ c # NoCase \/ phase # "init" =>
           In(table', p, c, phase) = In(table, p, c, phase)
      /\ displaced \subseteq displaced'
      /\ \A p, c, phase : In(table, p, c, phase) # "none" =>
           In(table', p, c, phase) = In(table, p, c, phase) \/ Key(p, c, phase) \in displaced'
  BY <1>4 DEF Moved
<1>6. /\ pc = "run" /\ entry <= Len(spec) /\ skip = "no" /\ caseNo = 0 /\ pc' = pc
      /\ opened' = IF o = "passed" THEN k + 1 ELSE k
      /\ skip' = SkipFor(o) /\ suiteSkip' = suiteSkip /\ truth' = truth
      /\ spec' = spec /\ entry' = entry /\ caseNo' = caseNo
  BY <1>1 DEF OpenGroup
<1>7. Here' = Here /\ Here'.groups = G /\ suiteSkip = "no"
  BY <1>1, <1>6 DEF Here, ReportInv, TableInv, SuiteKnown
<1>8. Same(tree', table')
  BY <1>4 DEF Moved, ReportInv
<1>9. SuiteKnown'
  <2>1. SkipFor(o) \in Skip
    BY DEF SkipFor, Skip, Outcome
  <2>2. /\ In(table', <<>>, NoCase, "init") = In(table, <<>>, NoCase, "init")
        /\ In(table', <<>>, NoCase, "end") = In(table, <<>>, NoCase, "end")
    BY <1>3, <1>5
  <2>3. QED BY <1>6, <1>7, <2>1, <2>2 DEF SuiteKnown, ReportInv, TableInv
<1>10. OpenKnown'
  <2> SUFFICES ASSUME NEW n \in 1..opened' PROVE LevelInit(G, n)' = "passed"
    BY <1>7 DEF OpenKnown
  <2>1. CASE n = k + 1
    BY <1>2, <1>4, <1>6, <2>1 DEF LevelInit
  <2>2. CASE n # k + 1
    <3>1. n \in 1..k /\ n \in 0..Len(G)
      BY <1>2, <1>3, <1>6, <2>2
    <3>2. SubSeq(G, 1, n) # q
      BY <1>3, <2>2, <3>1
    <3>3. LevelInit(G, n)' = LevelInit(G, n)
      BY <1>5, <3>2 DEF LevelInit
    <3>4. QED BY <1>1, <1>6, <3>1, <3>3 DEF OpenKnown, ReportInv, TableInv
  <2>3. QED BY <2>1, <2>2
<1>11. SkipKnown'
  <2> SUFFICES ASSUME skip' # "no"
               PROVE  /\ opened' < Len(G) /\ groups' = SubSeq(G, 1, opened' + 1)
                      /\ In(table', SubSeq(G, 1, opened' + 1), NoCase, "init") =
                           IF skip' = "user" THEN "skipped" ELSE "failed"
    BY <1>7 DEF SkipKnown, LevelInit
  <2>1. o # "passed" /\ opened' = k /\ (IF skip' = "user" THEN "skipped" ELSE "failed") = o
    <3>1. o = "skipped" => skip' = "user"
      BY <1>6 DEF SkipFor
    <3>2. o = "failed" => skip' = "auto"
      BY <1>6 DEF SkipFor
    <3>3. o = "passed" => skip' = "no"
      BY <1>6 DEF SkipFor
    <3>4. QED BY <1>6, <3>1, <3>2, <3>3 DEF Outcome
  <2>2. In(table', SubSeq(G, 1, k + 1), NoCase, "init") = o
    BY <1>2, <1>4
  <2>3. QED BY <1>1, <1>2, <1>3, <2>1, <2>2
<1>12. CaseKnown'
  BY <1>4, GroupResults DEF ReportInv, TableInv
<1>13. GroupKnown'
  <2> SUFFICES ASSUME NEW p \in Path, p # <<>>,
                      {Key(p, NoCase, "init"), Key(p, NoCase, "end")} \cap displaced' = {},
                      In(table', p, NoCase, "end") # "none"
               PROVE  In(table', p, NoCase, "init") = "passed"
    BY DEF GroupKnown
  <2>1. In(table, p, NoCase, "end") # "none"
    BY <1>5
  <2>2. In(table, p, NoCase, "init") = "passed"
    BY <1>5, <2>1 DEF GroupKnown, ReportInv, TableInv
  <2>3. QED BY <1>5, <2>2
<1>14. Told'
  <2> SUFFICES ASSUME NEW P \in Path, NEW c \in Case, <<P, c>> \in DOMAIN truth,
                      NEW v, v = truth[<<P, c>>], Chain(P, c) \cap displaced' = {}
               PROVE  /\ In(table', P, c, "main") # "none"
                      /\ IF v = "failed" THEN Reason(P, c)' ELSE Good(P, c, v)'
    BY <1>6 DEF Told, ToldOf, ReportInv
  <2>1. Chain(P, c) \cap displaced = {}
    BY <1>5
  <2>2. /\ In(table, P, c, "main") # "none"
        /\ IF v = "failed" THEN Reason(P, c) ELSE Good(P, c, v)
    BY <2>1 DEF Told, ToldOf, ReportInv
  <2>3. \A phase : In(table', P, c, phase) = In(table, P, c, phase)
    BY <1>4, GroupResults
  <2>4. CASE v = "failed"
    BY <1>4, <2>2, <2>3, <2>4, ReasonStays
  <2>5. CASE v # "failed"
    <3>1. Good(P, c, v)
      BY <2>2, <2>5
    <3>2. \A n \in 0..Len(P) : LevelEnd(P, n)' = LevelEnd(P, n)
      BY <1>5 DEF LevelEnd
    <3>3. \A n \in 0..Len(P) : LevelInit(P, n)' = LevelInit(P, n)
      BY <1>4, <3>1, Undisplaced DEF Good
    <3>4. \A n \in 1..Len(P) : OpenNow(P, n) => OpenNow(P, n)'
      BY <1>1, <1>2, <1>6, <1>7, PrefixPath DEF OpenNow
    <3>5. 0 \in 0..Len(P) /\ \A n \in 1..Len(P) : n \in 0..Len(P)
      BY PrefixPath
    <3>6. Good(P, c, v)'
      BY <2>3, <3>1, <3>2, <3>3, <3>4, <3>5 DEF Good
    <3>7. QED BY <2>2, <2>3, <2>5, <3>6
  <2>6. QED BY <2>4, <2>5
<1>15. Recorded'
  BY <1>6, <1>7 DEF Recorded, Done, ReportInv
<1>16. QED BY <1>8, <1>9, <1>10, <1>11, <1>12, <1>13, <1>14, <1>15 DEF TableInv

LEMMA CloseRegisters ==
  ASSUME GroupInv, NEW o \in Outcome, CloseGroup(o)
  PROVE  /\ Here.groups \in Path /\ opened \in 1..Len(Here.groups)
         /\ groups \in Path /\ groups # <<>>
         /\ Register(<<Result(NoCase, "end", o)>>, groups, SubSeq(Here.groups, 1, opened))
<1>1. /\ Here.groups \in Path /\ opened \in 1..Len(Here.groups)
      /\ Position = Opened /\ Here.groups \in Seq(Group)
  BY HereIsPath DEF GroupInv, CloseGroup, Walk, Position, Path
<1>2. Opened # <<>>
  BY <1>1, Prefix DEF Opened
<1>3. groups \in Path /\ groups # <<>>
  BY <1>1, <1>2 DEF CloseGroup, GroupInv, Walk, Tracked
<1>4. Register(<<Result(NoCase, "end", o)>>, groups, SubSeq(Here.groups, 1, opened))
  BY DEF CloseGroup, EndGroup, Opened
<1>5. QED BY <1>1, <1>3, <1>4

LEMMA CloseStep ==
  ASSUME ReportInv, NEW o \in Outcome, CloseGroup(o)
  PROVE  Same(tree', table') /\ TableInv' /\ Told' /\ Recorded'
<1>1. PICK G, q, k : G = Here.groups /\ q = groups /\ k = opened
  OBVIOUS
<1>2. PICK here : here = SubSeq(G, 1, k)
  OBVIOUS
<1>3. /\ G \in Path /\ k \in 1..Len(G) /\ q \in Path /\ q # <<>>
      /\ Register(<<Result(NoCase, "end", o)>>, q, here)
  BY <1>1, <1>2, CloseRegisters DEF ReportInv
<1>4. Moved(q, here, {<<NoCase, "end">>}) /\ In(table', q, NoCase, "end") = o
  BY <1>3, OneMoves DEF IsResult
<1>5. /\ \A p, c, phase : p # q \/ c # NoCase \/ phase # "end" =>
           In(table', p, c, phase) = In(table, p, c, phase)
      /\ displaced \subseteq displaced'
      /\ q # here => Key(q, NoCase, "end") \in displaced' /\ Key(here, NoCase, "end") \in displaced'
  BY <1>4 DEF Moved
<1>6. /\ pc = "run" /\ entry <= Len(spec) /\ caseNo = Len(Here.cases) /\ pc' = pc
      /\ opened' = k - 1 /\ skip' = skip /\ suiteSkip' = suiteSkip
      /\ spec' = spec /\ entry' = entry /\ caseNo' = caseNo
      /\ truth' = IF o = "failed"
                    THEN [pt \in DOMAIN truth |-> IF pt[1] = G THEN "failed" ELSE truth[pt]]
                    ELSE truth
  BY <1>1 DEF CloseGroup, FailTests
<1>7. Here' = Here /\ Here'.groups = G /\ suiteSkip = "no" /\ Len(G) \in Nat
  <2>1. suiteSkip = "no"
    BY <1>1, <1>3 DEF ReportInv, TableInv, SuiteKnown
  <2>2. QED BY <1>1, <1>3, <1>6, <2>1, PrefixPath DEF Here
<1>8. Same(tree', table')
  BY <1>4 DEF Moved, ReportInv
<1>9. SuiteKnown'
  <2>1. /\ In(table', <<>>, NoCase, "init") = In(table, <<>>, NoCase, "init")
        /\ In(table', <<>>, NoCase, "end") = In(table, <<>>, NoCase, "end")
    BY <1>3, <1>5
  <2>2. QED BY <1>6, <1>7, <2>1 DEF SuiteKnown, ReportInv, TableInv
<1>10. \A path, n : LevelInit(path, n)' = LevelInit(path, n)
  BY <1>5 DEF LevelInit
<1>11. OpenKnown'
  <2>1. \A n \in 1..opened' : n \in 1..k
    BY <1>3, <1>6
  <2>2. \A n \in 1..k : LevelInit(G, n) = "passed"
    BY <1>1, <1>6 DEF OpenKnown, ReportInv, TableInv
  <2>3. QED BY <1>7, <1>10, <2>1, <2>2 DEF OpenKnown
<1>12. SkipKnown'
  <2>1. ~MoreCases'
    BY <1>6, <1>7 DEF MoreCases, ReportInv, Recorded
  <2>2. QED BY <2>1 DEF SkipKnown
<1>13. CaseKnown'
  BY <1>4, GroupResults DEF ReportInv, TableInv
<1>14. In(table, here, NoCase, "init") = "passed"
  BY <1>1, <1>2, <1>3, <1>6 DEF OpenKnown, LevelInit, ReportInv, TableInv
<1>15. GroupKnown'
  <2> SUFFICES ASSUME NEW p \in Path, p # <<>>,
                      {Key(p, NoCase, "init"), Key(p, NoCase, "end")} \cap displaced' = {},
                      In(table', p, NoCase, "end") # "none"
               PROVE  In(table', p, NoCase, "init") = "passed"
    BY DEF GroupKnown
  <2>1. CASE p = q
    <3>1. q = here
      BY <1>5, <2>1
    <3>2. QED BY <1>5, <1>14, <2>1, <3>1
  <2>2. CASE p # q
    BY <1>5, <2>2 DEF GroupKnown, ReportInv, TableInv
  <2>3. QED BY <2>1, <2>2
<1>16. Told'
  <2>0. DOMAIN truth' = DOMAIN truth /\ \A pt \in DOMAIN truth' : truth'[pt] \in Outcome
    BY <1>6 DEF Told, ReportInv, Outcome
  <2> SUFFICES ASSUME NEW P \in Path, NEW c \in Case, <<P, c>> \in DOMAIN truth,
                      NEW v, v = truth'[<<P, c>>], Chain(P, c) \cap displaced' = {}
               PROVE  /\ In(table', P, c, "main") # "none"
                      /\ IF v = "failed" THEN Reason(P, c)' ELSE Good(P, c, v)'
    BY <2>0 DEF Told, ToldOf, ReportInv
  <2>1. PICK u : u = truth[<<P, c>>]
    OBVIOUS
  <2>2. /\ Chain(P, c) \cap displaced = {}
        /\ In(table, P, c, "main") # "none"
        /\ IF u = "failed" THEN Reason(P, c) ELSE Good(P, c, u)
    BY <1>5, <2>1 DEF Told, ToldOf, ReportInv
  <2>3. \A phase : In(table', P, c, phase) = In(table, P, c, phase)
    BY <1>4, GroupResults
  <2>4. v = IF o = "failed" /\ P = G THEN "failed" ELSE u
    BY <1>6, <2>1
  <2>5. ASSUME NEW n \in 0..Len(P), SubSeq(P, 1, n) \in {q, here} PROVE q = here
    <3>1. Key(SubSeq(P, 1, n), NoCase, "end") \in Chain(P, c)
      BY ChainHas
    <3>2. QED BY <1>5, <2>5, <3>1
  <2>6. CASE u = "failed"
    <3>1. Reason(P, c)'
      BY <1>4, <2>2, <2>6, ReasonStays
    <3>2. QED BY <2>2, <2>3, <2>4, <2>6, <3>1
  <2>7. CASE u # "failed" /\ v = "failed"
    <3>1. P = G /\ o = "failed"
      BY <2>4, <2>7
    <3>2. k \in 0..Len(P) /\ SubSeq(P, 1, k) = here
      BY <1>2, <1>3, <3>1
    <3>3. LevelEnd(P, k)' = "failed"
      BY <1>4, <2>5, <3>1, <3>2 DEF LevelEnd
    <3>4. QED BY <2>2, <2>3, <2>7, <3>2, <3>3 DEF Reason
  <2>8. CASE v # "failed"
    <3>1. Good(P, c, v) /\ v = u
      BY <2>2, <2>4, <2>8
    <3>2. /\ Len(P) \in Nat /\ SubSeq(P, 1, 0) = <<>>
          /\ \A n \in 0..Len(P) : Len(SubSeq(P, 1, n)) = n
      BY PrefixPath
    <3>3. LevelEnd(P, 0)' = LevelEnd(P, 0)
      BY <1>3, <1>5, <3>2 DEF LevelEnd
    <3>4. ASSUME NEW n \in 1..Len(P),
                 LevelEnd(P, n)' = "failed" \/ (LevelEnd(P, n)' = "none" /\ LevelInit(P, n)' = "passed")
          PROVE  OpenNow(P, n)'
      <4>1. n \in 0..Len(P) /\ LevelInit(P, n)' = LevelInit(P, n)
        BY <1>10, <3>2
      <4>2. CASE SubSeq(P, 1, n) = q
        <5>1. SubSeq(P, 1, n) = here /\ n = k
          <6>1. SubSeq(P, 1, n) = here
            BY <2>5, <4>1, <4>2
          <6>2. Len(here) = k
            BY <1>2, <1>3, PrefixPath
          <6>3. QED BY <3>2, <4>1, <6>1, <6>2
        <5>2. LevelEnd(P, n)' = o
          BY <1>4, <4>2 DEF LevelEnd
        <5>3. o = "failed" /\ P # G
          BY <2>4, <2>8, <3>4, <5>2 DEF Outcome
        <5>4. LevelInit(P, n) = "passed"
          BY <1>14, <5>1 DEF LevelInit
        <5>5. LevelEnd(P, n) = "none" \/ LevelEnd(P, n) = LevelEnd(P, n)'
          BY <1>4, <4>1, Undisplaced
        <5>6. OpenNow(P, n)
          BY <3>1, <5>2, <5>3, <5>4, <5>5 DEF Good
        <5>7. QED BY <1>1, <5>3, <5>6 DEF OpenNow
      <4>3. CASE SubSeq(P, 1, n) # q
        <5>1. LevelEnd(P, n)' = LevelEnd(P, n)
          BY <1>5, <4>3 DEF LevelEnd
        <5>2. OpenNow(P, n)
          BY <3>1, <3>4, <4>1, <5>1 DEF Good
        <5>3. P = G /\ n <= k
          BY <1>1, <5>2 DEF OpenNow
        <5>4. n # k
          <6>1. ASSUME n = k PROVE FALSE
            <7>1. SubSeq(P, 1, n) = here
              BY <1>2, <5>3, <6>1
            <7>2. q = here
              BY <2>5, <4>1, <7>1
            <7>3. QED BY <4>3, <7>1, <7>2
          <6>2. QED BY <6>1
        <5>5. QED BY <1>3, <1>6, <1>7, <5>3, <5>4 DEF OpenNow
      <4>4. QED BY <4>2, <4>3
    <3>5. Good(P, c, v)'
      BY <1>10, <2>3, <3>1, <3>3, <3>4 DEF Good
    <3>6. QED BY <2>2, <2>3, <2>8, <3>5
  <2>9. QED BY <2>6, <2>7, <2>8
<1>17. Recorded'
  <2>1. DOMAIN truth' = DOMAIN truth
    BY <1>6
  <2>2. QED BY <1>6, <1>7, <2>1 DEF Recorded, Done, ReportInv
<1>18. QED BY <1>8, <1>9, <1>11, <1>12, <1>13, <1>15, <1>16, <1>17 DEF TableInv

LEMMA InitSuiteStep ==
  ASSUME ReportInv, NEW o \in Outcome, InitSuite(o)
  PROVE  Same(tree', table') /\ TableInv' /\ Told' /\ Recorded'
<1> DEFINE r == IF o = "failed" THEN "failed" ELSE "passed"
<1>1. Moved(<<>>, <<>>, {<<NoCase, "init">>}) /\ In(table', <<>>, NoCase, "init") = r
  <2>1. Register(<<Result(NoCase, "init", r)>>, <<>>, <<>>)
    BY DEF InitSuite
  <2>2. QED BY <2>1, EmptyPath, OneMoves DEF IsResult
<1>2. /\ \A p, c, phase : p # <<>> \/ c # NoCase \/ phase # "init" =>
           In(table', p, c, phase) = In(table, p, c, phase)
      /\ displaced \subseteq displaced'
  BY <1>1 DEF Moved
<1>3. /\ pc = "start" /\ pc' = "run" /\ suiteSkip' = SkipFor(o) /\ skip' = suiteSkip'
      /\ groups' = <<>> /\ opened = 0 /\ opened' = 0 /\ truth = <<>> /\ truth' = truth
      /\ spec' = spec /\ entry' = entry /\ caseNo' = caseNo
  BY DEF InitSuite, ReportInv, TableInv, SuiteKnown, GroupInv, Walk
<1>4. Here' = Here
  BY <1>3 DEF Here
<1>5. Same(tree', table')
  BY <1>1 DEF Moved, ReportInv
<1>6. SuiteKnown'
  <2>1. suiteSkip' \in Skip /\ (suiteSkip' = "auto" <=> o = "failed")
    BY <1>3 DEF SkipFor, Skip, Outcome
  <2>2. In(table', <<>>, NoCase, "end") = In(table, <<>>, NoCase, "end")
    BY <1>2
  <2>3. QED BY <1>1, <1>3, <2>1, <2>2 DEF SuiteKnown, ReportInv, TableInv
<1>7. OpenKnown' /\ SkipKnown'
  BY <1>3 DEF OpenKnown, SkipKnown
<1>8. CaseKnown'
  BY <1>1, GroupResults DEF ReportInv, TableInv
<1>9. GroupKnown'
  BY <1>2 DEF GroupKnown, ReportInv, TableInv
<1>10. Told'
  BY <1>3 DEF Told
<1>11. Recorded'
  BY <1>3, <1>4 DEF Recorded, Done, ReportInv
<1>12. QED BY <1>5, <1>6, <1>7, <1>8, <1>9, <1>10, <1>11 DEF TableInv

LEMMA NextEntryStep ==
  ASSUME ReportInv, NextEntry
  PROVE  Same(tree', table') /\ TableInv' /\ Told' /\ Recorded'
<1>1. /\ pc = "run" /\ entry <= Len(spec) /\ caseNo = Len(Here.cases) /\ opened = 0
      /\ entry' = entry + 1 /\ caseNo' = 0 /\ skip' = suiteSkip
      /\ spec' = spec /\ pc' = pc /\ opened' = opened /\ suiteSkip' = suiteSkip
      /\ groups' = groups /\ tree' = tree /\ table' = table /\ truth' = truth
      /\ displaced' = displaced
  BY DEF NextEntry, hookVars
<1>2. entry \in Nat /\ Len(spec) \in Nat /\ spec \in Seq(EntryType)
  BY DEF ReportInv, GroupInv, Walk
<1>3. Same(tree', table')
  BY <1>1 DEF ReportInv
<1>4. SuiteKnown'
  BY <1>1 DEF SuiteKnown, ReportInv, TableInv
<1>5. OpenKnown' /\ SkipKnown'
  BY <1>1 DEF OpenKnown, SkipKnown
<1>6. CaseKnown' /\ GroupKnown'
  BY <1>1 DEF CaseKnown, GroupKnown, ReportInv, TableInv
<1>7. Told'
  <2> SUFFICES ASSUME NEW P \in Path, NEW c \in Case, <<P, c>> \in DOMAIN truth,
                      NEW v, v = truth[<<P, c>>], Chain(P, c) \cap displaced = {}
               PROVE  /\ In(table, P, c, "main") # "none"
                      /\ IF v = "failed" THEN Reason(P, c)' ELSE Good(P, c, v)'
    BY <1>1 DEF Told, ToldOf, ReportInv
  <2>1. /\ In(table, P, c, "main") # "none"
        /\ IF v = "failed" THEN Reason(P, c) ELSE Good(P, c, v)
    BY DEF Told, ToldOf, ReportInv
  <2>2. Reason(P, c) => Reason(P, c)'
    BY <1>1 DEF Reason, LevelInit, LevelEnd
  <2>3. \A n \in 1..Len(P) : ~OpenNow(P, n)
    BY <1>1 DEF OpenNow
  <2>4. Good(P, c, v) => Good(P, c, v)'
    BY <1>1, <2>3 DEF Good, LevelInit, LevelEnd
  <2>5. QED BY <2>1, <2>2, <2>4
<1>8. Recorded'
  <2>1. \A m \in 1..Len(spec) : \A j \in 1..Len(spec[m].cases) : Done(m, j)' => Done(m, j)
    <3> SUFFICES ASSUME NEW m \in 1..Len(spec), NEW j \in 1..Len(spec[m].cases), Done(m, j)'
                 PROVE  Done(m, j)
      OBVIOUS
    <3>1. m <= entry
      BY <1>1, <1>2 DEF Done
    <3>2. CASE m = entry
      <4>1. spec[m] = Here /\ j <= caseNo
        BY <1>1, <3>2 DEF Here
      <4>2. QED BY <3>2, <4>1 DEF Done
    <3>3. CASE m # entry
      BY <1>2, <3>1, <3>3 DEF Done
    <3>4. QED BY <3>2, <3>3
  <2>2. entry' <= Len(spec) => 0 <= Len(Here'.cases)
    <3>1. entry' <= Len(spec) => Here' \in EntryType
      BY <1>1, <1>2, EntryOf DEF Here
    <3>2. QED BY <3>1 DEF EntryType
  <2>3. \A m \in 1..Len(spec) : \A j \in 1..Len(spec[m].cases) :
          Done(m, j) => <<spec[m].groups, spec[m].cases[j]>> \in DOMAIN truth
    BY DEF Recorded, ReportInv
  <2>4. pc' \in {"start", "run", "ended"} /\ pc' # "ended"
    BY <1>1
  <2>5. QED BY <1>1, <2>1, <2>2, <2>3, <2>4 DEF Recorded
<1>9. QED BY <1>3, <1>4, <1>5, <1>6, <1>7, <1>8 DEF TableInv

LEMMA EndStep ==
  ASSUME ReportInv, NEW o \in Outcome, EndSuite(o)
  PROVE  Same(tree', table') /\ TableInv' /\ Told' /\ Recorded'
<1>1. /\ pc = "run" /\ entry > Len(spec) /\ pc' = "ended"
      /\ spec' = spec /\ entry' = entry /\ opened' = opened /\ caseNo' = caseNo
      /\ skip' = skip /\ suiteSkip' = suiteSkip
  BY DEF EndSuite
<1>2. entry \in Nat /\ Len(spec) \in Nat /\ groups \in Path
  BY DEF ReportInv, GroupInv, Walk
<1>3. OpenKnown' /\ SkipKnown'
  BY <1>1, <1>2 DEF OpenKnown, SkipKnown, MoreCases
<1>4. CASE suiteSkip # "no"
  <2>1. groups' = groups /\ tree' = tree /\ table' = table /\ truth' = truth /\ displaced' = displaced
    BY <1>4 DEF EndSuite
  <2>2. SuiteKnown' /\ CaseKnown' /\ GroupKnown' /\ Same(tree', table')
    BY <1>1, <2>1 DEF SuiteKnown, CaseKnown, GroupKnown, ReportInv, TableInv
  <2>3. Told'
    BY <1>1, <2>1 DEF Told, ToldOf, Reason, Good, LevelInit, LevelEnd, OpenNow, Here, ReportInv
  <2>4. Recorded'
    BY <1>1, <2>1 DEF Recorded, Done, ReportInv, Here
  <2>5. QED BY <1>3, <2>2, <2>3, <2>4 DEF TableInv
<1>5. CASE suiteSkip = "no"
  <2>1. PICK q : q = groups
    OBVIOUS
  <2>2. /\ Register(<<Result(NoCase, "end", o)>>, q, <<>>) /\ groups' = <<>>
        /\ truth' = IF o = "failed" THEN [pt \in DOMAIN truth |-> "failed"] ELSE truth
    <3>1. \A pt \in DOMAIN truth : pt[1] \in {x[1] : x \in DOMAIN truth}
      OBVIOUS
    <3>2. QED BY <1>5, <2>1, <3>1 DEF EndSuite, FailTests
  <2>3. Moved(q, <<>>, {<<NoCase, "end">>}) /\ In(table', q, NoCase, "end") = o
    BY <1>2, <2>1, <2>2, OneMoves DEF IsResult
  <2>4. /\ \A p, c, phase : p # q \/ c # NoCase \/ phase # "end" =>
             In(table', p, c, phase) = In(table, p, c, phase)
        /\ displaced \subseteq displaced'
        /\ q # <<>> => Key(q, NoCase, "end") \in displaced' /\ Key(<<>>, NoCase, "end") \in displaced'
    BY <2>3 DEF Moved
  <2>5. Same(tree', table')
    BY <2>3 DEF Moved, ReportInv
  <2>6. SuiteKnown'
    BY <1>1, <1>5, <2>4 DEF SuiteKnown, ReportInv, TableInv
  <2>7. CaseKnown'
    BY <2>3, GroupResults DEF ReportInv, TableInv
  <2>8. GroupKnown'
    BY <2>4 DEF GroupKnown, ReportInv, TableInv
  <2>9. Told'
    <3>0. DOMAIN truth' = DOMAIN truth /\ \A pt \in DOMAIN truth' : truth'[pt] \in Outcome
      BY <2>2 DEF Told, ReportInv, Outcome
    <3> SUFFICES ASSUME NEW P \in Path, NEW c \in Case, <<P, c>> \in DOMAIN truth,
                        NEW v, v = truth'[<<P, c>>], Chain(P, c) \cap displaced' = {}
                 PROVE  /\ In(table', P, c, "main") # "none"
                        /\ IF v = "failed" THEN Reason(P, c)' ELSE Good(P, c, v)'
      BY <3>0 DEF Told, ToldOf, ReportInv
    <3>1. PICK u : u = truth[<<P, c>>]
      OBVIOUS
    <3>2. /\ Chain(P, c) \cap displaced = {}
          /\ In(table, P, c, "main") # "none"
          /\ IF u = "failed" THEN Reason(P, c) ELSE Good(P, c, u)
      BY <2>4, <3>1 DEF Told, ToldOf, ReportInv
    <3>3. \A phase : In(table', P, c, phase) = In(table, P, c, phase)
      BY <2>3, GroupResults
    <3>4. v = IF o = "failed" THEN "failed" ELSE u
      BY <2>2, <3>1
    <3>5. /\ Len(P) \in Nat /\ SubSeq(P, 1, 0) = <<>>
          /\ \A n \in 1..Len(P) : SubSeq(P, 1, n) # <<>>
      BY PrefixPath
    <3>6. q = <<>>
      <4>1. 0 \in 0..Len(P)
        BY <3>5
      <4>2. Key(<<>>, NoCase, "end") \in Chain(P, c)
        BY <3>5, <4>1, ChainHas
      <4>3. QED BY <2>4, <4>2
    <3>7. LevelEnd(P, 0)' = o
      BY <2>3, <3>5, <3>6 DEF LevelEnd
    <3>8. CASE o = "failed"
      <4>1. Reason(P, c)' /\ v = "failed"
        BY <3>4, <3>5, <3>7, <3>8 DEF Reason
      <4>2. QED BY <3>2, <3>3, <4>1
    <3>9. CASE o # "failed" /\ u = "failed"
      <4>1. Reason(P, c)'
        BY <2>3, <3>2, <3>9, ReasonStays
      <4>2. QED BY <3>2, <3>3, <3>4, <3>9, <4>1
    <3>10. CASE o # "failed" /\ u # "failed"
      <4>1. Good(P, c, u) /\ v = u
        BY <3>2, <3>4, <3>10
      <4>2. \A n \in 0..Len(P) : LevelInit(P, n)' = LevelInit(P, n)
        BY <2>4 DEF LevelInit
      <4>3. \A n \in 1..Len(P) : LevelEnd(P, n)' = LevelEnd(P, n)
        BY <2>4, <3>5, <3>6 DEF LevelEnd
      <4>4. \A n \in 1..Len(P) : ~OpenNow(P, n)
        BY <1>1, <1>2 DEF OpenNow
      <4>5. \A n \in 1..Len(P) : n \in 0..Len(P)
        BY <3>5
      <4>6. Good(P, c, v)'
        BY <3>3, <3>7, <3>10, <4>1, <4>2, <4>3, <4>4, <4>5 DEF Good
      <4>7. QED BY <3>2, <3>3, <3>10, <4>1, <4>6
    <3>11. QED BY <3>8, <3>9, <3>10
  <2>10. Recorded'
    <3>1. DOMAIN truth' = DOMAIN truth
      BY <2>2
    <3>2. QED BY <1>1, <3>1 DEF Recorded, Done, ReportInv, Here
  <2>11. QED BY <1>3, <2>5, <2>6, <2>7, <2>8, <2>9, <2>10 DEF TableInv
<1>6. QED BY <1>4, <1>5

\* What is known of the results of one case, as CaseKnown has it.
CaseFacts(q, c) ==
  /\ In(table, q, c, "end") # "none" => In(table, q, c, "init") = "passed"
  /\ In(table, q, c, "end") = "failed" => In(table, q, c, "main") = "passed"
  /\ In(table, q, c, "init") = "failed" => In(table, q, c, "main") = "failed"

\* A case that is run or skipped: the rest follows from what is known of the
\* case itself, since other tests keep their results or have some displaced.
LEMMA CaseStep ==
  ASSUME ReportInv, MoreCases, NEW G, G = Here.groups, NEW c0, c0 = NextCase,
         NEW K, \A x \in K : x[1] = c0, <<c0, "main">> \in K, Moved(groups, G, K),
         NEW w \in Outcome, truth' = Put(truth, <<G, c0>>, w), caseNo' = caseNo + 1,
         spec' = spec, pc' = pc, entry' = entry, opened' = opened, skip' = skip,
         suiteSkip' = suiteSkip, groups' = groups,
         {Key(G, c0, "init"), Key(G, c0, "main"), Key(G, c0, "end")} \cap displaced' = {} /\ groups = G
           => CaseFacts(G, c0)',
         Chain(G, c0) \cap displaced' = {} /\ groups = G =>
           /\ In(table', G, c0, "main") # "none"
           /\ IF w = "failed" THEN Reason(G, c0)' ELSE Good(G, c0, w)'
  PROVE  Same(tree', table') /\ TableInv' /\ Told' /\ Recorded'
<1>1. PICK q : q = groups
  OBVIOUS
<1>2. G \in Path /\ c0 \in Case /\ caseNo + 1 \in 1..Len(Here.cases) /\ Here = spec[entry]
      /\ entry \in 1..Len(spec) /\ c0 = spec[entry].cases[caseNo + 1]
  <2>1. Here \in EntryType /\ entry \in 1..Len(spec) /\ Here = spec[entry]
    BY EntryOf DEF MoreCases, Here, ReportInv, GroupInv, Walk
  <2>2. Here.groups \in Path /\ Here.cases \in Seq(Case)
    BY <2>1 DEF EntryType
  <2>3. caseNo + 1 \in 1..Len(Here.cases)
    BY <2>2 DEF MoreCases, ReportInv, Recorded
  <2>4. Here.cases[caseNo + 1] \in Case
    BY <2>2, <2>3
  <2>5. QED BY <2>1, <2>2, <2>3, <2>4 DEF NextCase
<1>3. Here' = Here /\ Here'.groups = G
  BY DEF Here
<1>4. /\ \A p, c, phase : p # q \/ c # c0 => In(table', p, c, phase) = In(table, p, c, phase)
      /\ displaced \subseteq displaced'
      /\ q # G => Key(q, c0, "main") \in displaced' /\ Key(G, c0, "main") \in displaced'
  <2>1. \A c, phase : c # c0 => <<c, phase>> \notin K
    OBVIOUS
  <2>2. q # G => Key(q, c0, "main") \in displaced' /\ Key(G, c0, "main") \in displaced'
    BY <1>1 DEF Moved
  <2>3. QED BY <1>1, <2>1, <2>2 DEF Moved
<1>5. (\A p, phase : In(table', p, NoCase, phase) = In(table, p, NoCase, phase)) /\ GroupKnown'
  BY <1>1, <1>2, CaseResults DEF ReportInv, TableInv
<1>6. Same(tree', table')
  BY DEF Moved, ReportInv
<1>7. SuiteKnown'
  BY <1>5 DEF SuiteKnown, ReportInv, TableInv, MoreCases
<1>8. OpenKnown'
  BY <1>3, <1>5 DEF OpenKnown, LevelInit, ReportInv, TableInv
<1>9. SkipKnown'
  <2>1. MoreCases' => MoreCases
    OBVIOUS
  <2>2. QED BY <1>3, <1>5, <2>1 DEF SkipKnown, LevelInit, ReportInv, TableInv
<1>10. CaseKnown'
  <2> SUFFICES ASSUME NEW p \in Path, NEW c \in Case,
                      {Key(p, c, "init"), Key(p, c, "main"), Key(p, c, "end")} \cap displaced' = {}
               PROVE  CaseFacts(p, c)'
    BY DEF CaseKnown, CaseFacts
  <2>1. CASE c = c0 /\ p \in {q, G}
    <3>1. q = G
      BY <1>4, <2>1
    <3>2. QED BY <1>1, <2>1, <3>1
  <2>2. CASE c # c0 \/ p \notin {q, G}
    <3>1. \A phase : In(table', p, c, phase) = In(table, p, c, phase)
      BY <1>4, <2>2
    <3>2. CaseFacts(p, c)
      BY <1>4 DEF CaseKnown, CaseFacts, ReportInv, TableInv
    <3>3. QED BY <3>1, <3>2 DEF CaseFacts
  <2>3. QED BY <2>1, <2>2
<1>11. /\ DOMAIN truth' = DOMAIN truth \cup {<<G, c0>>} /\ truth'[<<G, c0>>] = w
       /\ \A pt \in DOMAIN truth : pt # <<G, c0>> => truth'[pt] = truth[pt]
  BY DEF Put
<1>12. Told'
  <2>0. DOMAIN truth' \subseteq Path \X Case /\ \A pt \in DOMAIN truth' : truth'[pt] \in Outcome
    BY <1>2, <1>11 DEF Told, ReportInv
  <2> SUFFICES ASSUME NEW P \in Path, NEW c \in Case, <<P, c>> \in DOMAIN truth',
                      NEW v, v = truth'[<<P, c>>], Chain(P, c) \cap displaced' = {}
               PROVE  /\ In(table', P, c, "main") # "none"
                      /\ IF v = "failed" THEN Reason(P, c)' ELSE Good(P, c, v)'
    BY <2>0 DEF Told, ToldOf
  <2>1. Key(P, c, "main") \in Chain(P, c)
    BY ChainHas
  <2>2. CASE c = c0 /\ P \in {q, G}
    <3>1. q = G /\ P = G
      BY <1>4, <2>1, <2>2
    <3>2. v = w
      BY <1>11, <2>2, <3>1
    <3>3. QED BY <1>1, <2>2, <3>1, <3>2
  <2>3. CASE c # c0 \/ P \notin {q, G}
    <3>1. \A phase : In(table', P, c, phase) = In(table, P, c, phase)
      BY <1>4, <2>3
    <3>2. <<P, c>> \in DOMAIN truth /\ v = truth[<<P, c>>]
      <4>1. <<P, c>> # <<G, c0>>
        BY <2>3
      <4>2. QED BY <1>11, <4>1
    <3>3. /\ In(table, P, c, "main") # "none"
          /\ IF v = "failed" THEN Reason(P, c) ELSE Good(P, c, v)
      BY <1>4, <3>2 DEF Told, ToldOf, ReportInv
    <3>4. \A n : LevelInit(P, n)' = LevelInit(P, n) /\ LevelEnd(P, n)' = LevelEnd(P, n)
      BY <1>5 DEF LevelInit, LevelEnd
    <3>5. Reason(P, c) => Reason(P, c)'
      BY <3>1, <3>4 DEF Reason
    <3>6. \A n : OpenNow(P, n)' <=> OpenNow(P, n)
      BY <1>3 DEF OpenNow
    <3>7. Good(P, c, v) => Good(P, c, v)'
      BY <3>1, <3>4, <3>6 DEF Good
    <3>8. QED BY <3>1, <3>3, <3>5, <3>7
  <2>4. QED BY <2>2, <2>3
<1>13. Recorded'
  <2>1. \A m \in 1..Len(spec) : \A j \in 1..Len(spec[m].cases) :
          Done(m, j) => <<spec[m].groups, spec[m].cases[j]>> \in DOMAIN truth
    BY DEF Recorded, ReportInv
  <2>2. ASSUME NEW m \in 1..Len(spec), NEW j \in 1..Len(spec[m].cases), Done(m, j)'
        PROVE  <<spec[m].groups, spec[m].cases[j]>> \in DOMAIN truth'
    <3>1. CASE Done(m, j)
      BY <1>11, <2>1, <3>1
    <3>2. CASE ~Done(m, j)
      <4>1. m = entry /\ j = caseNo + 1
        BY <1>2, <2>2, <3>2 DEF Done, ReportInv, Recorded
      <4>2. <<spec[m].groups, spec[m].cases[j]>> = <<G, c0>>
        BY <1>2, <4>1
      <4>3. QED BY <1>11, <4>2
    <3>3. QED BY <3>1, <3>2
  <2>3. caseNo' \in Nat /\ caseNo' <= Len(Here'.cases) /\ pc' = "run"
    BY <1>2, <1>3 DEF MoreCases
  <2>4. QED BY <2>2, <2>3 DEF Recorded
<1>14. QED BY <1>5, <1>6, <1>7, <1>8, <1>9, <1>10, <1>12, <1>13 DEF TableInv

LEMMA SkipStep ==
  ASSUME ReportInv, SkipCase
  PROVE  Same(tree', table') /\ TableInv' /\ Told' /\ Recorded'
<1>1. PICK G, c0 : G = Here.groups /\ c0 = NextCase
  OBVIOUS
<1>2. PICK w : w = IF skip = "user" THEN "skipped" ELSE "failed"
  OBVIOUS
<1>3. /\ MoreCases /\ skip # "no" /\ Register(<<Result(c0, "main", w)>>, groups, G)
      /\ truth' = Put(truth, <<G, c0>>, w) /\ caseNo' = caseNo + 1
      /\ spec' = spec /\ pc' = pc /\ entry' = entry /\ opened' = opened /\ skip' = skip
      /\ suiteSkip' = suiteSkip /\ groups' = groups
  BY <1>1, <1>2 DEF SkipCase, SkipOutcome
<1>4. groups \in Path /\ G \in Path /\ c0 \in Case /\ c0 # NoCase
  <2>1. Here \in EntryType
    BY <1>3, EntryOf DEF MoreCases, Here, ReportInv, GroupInv, Walk
  <2>2. Here.groups \in Path /\ Here.cases \in Seq(Case)
    BY <2>1 DEF EntryType
  <2>3. caseNo + 1 \in 1..Len(Here.cases)
    BY <1>3, <2>2 DEF MoreCases, ReportInv, Recorded
  <2>4. c0 \in Case
    BY <1>1, <2>2, <2>3 DEF NextCase
  <2>5. QED BY <1>1, <2>2, <2>4, CaseAssumption DEF ReportInv, GroupInv, Walk
<1>5. Moved(groups, G, {<<c0, "main">>}) /\ In(table', groups, c0, "main") = w
  BY <1>3, <1>4, OneMoves DEF IsResult
<1>6. /\ \A p, c, phase : c # c0 \/ phase # "main" => In(table', p, c, phase) = In(table, p, c, phase)
      /\ \A p, c, phase : In(table, p, c, phase) # "none" =>
           In(table', p, c, phase) = In(table, p, c, phase) \/ Key(p, c, phase) \in displaced'
      /\ displaced \subseteq displaced'
  BY <1>5 DEF Moved
<1>7. ASSUME {Key(G, c0, "init"), Key(G, c0, "main"), Key(G, c0, "end")} \cap displaced' = {}
      PROVE  CaseFacts(G, c0)'
  <2>1. CaseFacts(G, c0)
    BY <1>4, <1>6, <1>7 DEF CaseFacts, CaseKnown, ReportInv, TableInv
  <2>2. In(table, G, c0, "main") # "none" => In(table', G, c0, "main") = In(table, G, c0, "main")
    BY <1>6, <1>7
  <2>3. QED BY <1>6, <2>1, <2>2 DEF CaseFacts
<1>8. ASSUME Chain(G, c0) \cap displaced' = {}, groups = G
      PROVE  /\ In(table', G, c0, "main") # "none"
             /\ IF w = "failed" THEN Reason(G, c0)' ELSE Good(G, c0, w)'
  <2>1. In(table', G, c0, "main") = w
    BY <1>5, <1>8
  <2>2. CASE w = "failed"
    BY <2>1, <2>2 DEF Reason
  <2>3. CASE w # "failed"
    <3>1. w = "skipped" /\ skip = "user"
      BY <1>2, <2>3
    <3>2. In(table', G, c0, "init") # "failed" /\ In(table', G, c0, "end") # "failed"
      <4>1. {Key(G, c0, "init"), Key(G, c0, "main"), Key(G, c0, "end")} \cap displaced' = {}
        BY <1>4, <1>8, ChainHas
      <4>2. CaseFacts(G, c0)'
        BY <1>7, <4>1
      <4>3. QED BY <2>1, <3>1, <4>2 DEF CaseFacts
    <3>3. \A n : LevelInit(G, n)' = LevelInit(G, n) /\ LevelEnd(G, n)' = LevelEnd(G, n)
      BY <1>4, <1>6 DEF LevelInit, LevelEnd
    <3>4. /\ Len(G) \in Nat /\ SubSeq(G, 1, 0) = <<>> /\ SubSeq(G, 1, Len(G)) = G
          /\ \A n \in 0..Len(G) : Len(SubSeq(G, 1, n)) = n
      BY <1>4, PrefixPath
    <3>5. LevelEnd(G, 0) = "none" /\ (suiteSkip \in {"no", "user"} => LevelInit(G, 0) = "passed")
      BY <1>3, <3>4 DEF LevelEnd, LevelInit, SuiteKnown, ReportInv, TableInv, MoreCases
    <3>6. CASE suiteSkip # "no"
      <4>1. groups = <<>> /\ suiteSkip = "user"
        BY <3>1, <3>6 DEF SuiteKnown, ReportInv, TableInv
      <4>2. Len(G) = 0
        BY <1>8, <4>1
      <4>3. Good(G, c0, w)'
        BY <2>1, <3>1, <3>2, <3>3, <3>5, <4>1, <4>2 DEF Good
      <4>4. QED BY <2>1, <2>3, <3>1, <4>3
    <3>7. CASE suiteSkip = "no"
      <4>1. /\ opened < Len(G) /\ G = SubSeq(G, 1, opened + 1)
            /\ LevelInit(G, opened + 1) = "skipped"
        BY <1>1, <1>3, <1>8, <3>1, <3>7 DEF SkipKnown, ReportInv, TableInv
      <4>2. opened \in Nat /\ opened + 1 = Len(G)
        <5>1. opened \in Nat
          BY DEF ReportInv, GroupInv, Walk
        <5>2. opened + 1 \in 0..Len(G)
          BY <3>4, <4>1, <5>1
        <5>3. QED BY <3>4, <4>1, <5>1, <5>2
      <4>3. \A n \in 1..opened : LevelInit(G, n) = "passed"
        BY <1>1, <1>3 DEF OpenKnown, MoreCases, ReportInv, TableInv
      <4>4. \A n \in 0..Len(G) : n = 0 \/ n \in 1..opened \/ n = opened + 1
        BY <4>2
      <4>5. \A n \in 0..Len(G) : LevelInit(G, n) \in {"passed", "skipped"}
        BY <3>5, <3>7, <4>1, <4>3, <4>4
      <4>6. LevelEnd(G, opened + 1) = "none"
        <5>1. In(table, G, NoCase, "init") = "skipped"
          BY <3>4, <4>1, <4>2 DEF LevelInit
        <5>2. G # <<>>
          BY <3>4, <4>2
        <5>3. Key(G, NoCase, "init") \in Chain(G, c0) /\ Key(G, NoCase, "end") \in Chain(G, c0)
          <6>1. Len(G) \in 0..Len(G)
            BY <3>4
          <6>2. /\ Key(SubSeq(G, 1, Len(G)), NoCase, "init") \in Chain(G, c0)
                /\ Key(SubSeq(G, 1, Len(G)), NoCase, "end") \in Chain(G, c0)
            BY <1>4, <6>1, ChainHas
          <6>3. QED BY <3>4, <6>2
        <5>4. {Key(G, NoCase, "init"), Key(G, NoCase, "end")} \cap displaced = {}
          BY <1>6, <1>8, <5>3
        <5>5. In(table, G, NoCase, "end") = "none"
          BY <1>4, <5>1, <5>2, <5>4 DEF GroupKnown, ReportInv, TableInv
        <5>6. SubSeq(G, 1, opened + 1) = G
          BY <4>1
        <5>7. QED BY <5>5, <5>6 DEF LevelEnd
      <4>7. \A n \in 1..Len(G) : n <= opened => OpenNow(G, n)'
        BY <1>1, <1>3 DEF OpenNow, Here, MoreCases
      <4>8. \A n \in 1..Len(G) : n <= opened \/ n = opened + 1
        BY <4>2
      <4>9. Good(G, c0, w)'
        BY <2>1, <3>1, <3>2, <3>3, <3>5, <4>1, <4>5, <4>6, <4>7, <4>8 DEF Good
      <4>10. QED BY <2>1, <2>3, <3>1, <4>9
    <3>8. QED BY <3>6, <3>7
  <2>4. QED BY <2>2, <2>3
<1>9. w \in Outcome /\ <<c0, "main">> \in {<<c0, "main">>} /\ \A x \in {<<c0, "main">>} : x[1] = c0
  BY <1>2 DEF Outcome
<1>10. PICK K : K = {<<c0, "main">>}
  OBVIOUS
<1>11. (\A x \in K : x[1] = c0) /\ <<c0, "main">> \in K /\ Moved(groups, G, K)
  BY <1>5, <1>10
<1>12. {Key(G, c0, "init"), Key(G, c0, "main"), Key(G, c0, "end")} \cap displaced' = {} /\ groups = G
         => CaseFacts(G, c0)'
  BY <1>7
<1>13. Chain(G, c0) \cap displaced' = {} /\ groups = G =>
         /\ In(table', G, c0, "main") # "none"
         /\ IF w = "failed" THEN Reason(G, c0)' ELSE Good(G, c0, w)'
  BY <1>8
<1>14. QED BY <1>1, <1>3, <1>9, <1>11, <1>12, <1>13, CaseStep

LEMMA RunStep ==
  ASSUME ReportInv, NEW i \in Outcome, NEW m \in Outcome, NEW e \in Outcome, RunCase(i, m, e)
  PROVE  Same(tree', table') /\ TableInv' /\ Told' /\ Recorded'
<1>1. PICK G, c0 : G = Here.groups /\ c0 = NextCase
  OBVIOUS
<1>2. PICK w : w = IF i # "passed" THEN i ELSE IF m # "passed" THEN m
                   ELSE IF e = "failed" THEN "failed" ELSE "passed"
  OBVIOUS
<1>3. /\ MoreCases /\ skip = "no" /\ opened = Len(G) /\ Register(CaseMethods(c0, i, m, e), groups, G)
      /\ truth' = Put(truth, <<G, c0>>, w) /\ caseNo' = caseNo + 1
      /\ spec' = spec /\ pc' = pc /\ entry' = entry /\ opened' = opened /\ skip' = skip
      /\ suiteSkip' = suiteSkip /\ groups' = groups
  BY <1>1, <1>2 DEF RunCase
<1>4. groups \in Path /\ G \in Path /\ c0 \in Case /\ c0 # NoCase
  <2>1. Here \in EntryType
    BY <1>3, EntryOf DEF MoreCases, Here, ReportInv, GroupInv, Walk
  <2>2. Here.groups \in Path /\ Here.cases \in Seq(Case)
    BY <2>1 DEF EntryType
  <2>3. caseNo + 1 \in 1..Len(Here.cases)
    BY <1>3, <2>2 DEF MoreCases, ReportInv, Recorded
  <2>4. c0 \in Case
    BY <1>1, <2>2, <2>3 DEF NextCase
  <2>5. QED BY <1>1, <2>2, <2>4, CaseAssumption DEF ReportInv, GroupInv, Walk
<1>5. PICK rs, o : /\ rs = CaseMethods(c0, i, m, e)
                    /\ o = IF m = "passed" THEN e ELSE "passed"
  OBVIOUS
<1>6. PICK K : /\ K = IF i # "passed" THEN {<<c0, "init">>, <<c0, "main">>}
                      ELSE {<<c0, "init">>, <<c0, "main">>, <<c0, "end">>}
               /\ Moved(groups, G, K)
               /\ i # "passed" => In(table', groups, c0, "init") = i /\ In(table', groups, c0, "main") = i
               /\ i = "passed" => /\ In(table', groups, c0, "init") = "passed"
                                  /\ In(table', groups, c0, "main") = m /\ In(table', groups, c0, "end") = o
  <2>1. /\ (\E S : rs \in Seq(S)) /\ (\A n \in DOMAIN rs : IsResult(rs[n])) /\ Apart(rs)
        /\ i # "passed" =>
             /\ DOMAIN rs = {1, 2}
             /\ rs[1].case = c0 /\ rs[1].phase = "init" /\ rs[1].outcome = i
             /\ rs[2].case = c0 /\ rs[2].phase = "main" /\ rs[2].outcome = i
        /\ i = "passed" =>
             /\ DOMAIN rs = {1, 2, 3}
             /\ rs[1].case = c0 /\ rs[1].phase = "init" /\ rs[1].outcome = "passed"
             /\ rs[2].case = c0 /\ rs[2].phase = "main" /\ rs[2].outcome = m
             /\ rs[3].case = c0 /\ rs[3].phase = "end" /\ rs[3].outcome = o
    BY <1>4, <1>5, MethodsOfCase
  <2>2. PICK S : rs \in Seq(S)
    BY <2>1
  <2>3. Register(rs, groups, G) /\ groups \in Path
    BY <1>3, <1>4, <1>5
  <2>4. /\ Moved(groups, G, {<<rs[n].case, rs[n].phase>> : n \in DOMAIN rs})
        /\ \A n \in DOMAIN rs : In(table', groups, rs[n].case, rs[n].phase) = rs[n].outcome
    BY <2>1, <2>2, <2>3, RegisterMoves
  <2>5. PICK K : K = {<<rs[n].case, rs[n].phase>> : n \in DOMAIN rs}
    OBVIOUS
  <2>6. K = IF i # "passed" THEN {<<c0, "init">>, <<c0, "main">>}
            ELSE {<<c0, "init">>, <<c0, "main">>, <<c0, "end">>}
    BY <2>1, <2>5
  <2>7. Moved(groups, G, K)
    BY <2>4, <2>5
  <2>8. QED BY <2>1, <2>4, <2>6, <2>7
<1>7. (\A x \in K : x[1] = c0) /\ <<c0, "main">> \in K
  BY <1>5, <1>6
<1>8. ASSUME {Key(G, c0, "init"), Key(G, c0, "main"), Key(G, c0, "end")} \cap displaced' = {},
             groups = G
      PROVE  CaseFacts(G, c0)'
  <2>1. CASE i # "passed"
    <3>1. In(table', G, c0, "init") = i /\ In(table', G, c0, "main") = i
      BY <1>6, <1>8, <2>1
    <3>2. In(table', G, c0, "end") = In(table, G, c0, "end")
      <4>1. <<c0, "end">> \notin K
        BY <1>5, <1>6, <2>1
      <4>2. QED BY <1>6, <4>1 DEF Moved
    <3>3. In(table, G, c0, "init") # "passed"
      <4>1. In(table, G, c0, "init") # "none" => In(table', G, c0, "init") = In(table, G, c0, "init")
        BY <1>6, <1>8 DEF Moved
      <4>2. QED BY <2>1, <3>1, <4>1
    <3>4. In(table, G, c0, "end") = "none"
      <4>1. {Key(G, c0, "init"), Key(G, c0, "main"), Key(G, c0, "end")} \cap displaced = {}
        BY <1>6, <1>8 DEF Moved
      <4>2. QED BY <1>4, <3>3, <4>1 DEF CaseKnown, ReportInv, TableInv
    <3>5. QED BY <3>1, <3>2, <3>4 DEF CaseFacts
  <2>2. CASE i = "passed"
    <3>1. In(table', G, c0, "init") = "passed" /\ In(table', G, c0, "main") = m /\ In(table', G, c0, "end") = o
      BY <1>6, <1>8, <2>2
    <3>2. o = "failed" => m = "passed"
      BY <1>5
    <3>3. QED BY <3>1, <3>2 DEF CaseFacts
  <2>3. QED BY <2>1, <2>2
<1>9. ASSUME Chain(G, c0) \cap displaced' = {}, groups = G
      PROVE  /\ In(table', G, c0, "main") # "none"
             /\ IF w = "failed" THEN Reason(G, c0)' ELSE Good(G, c0, w)'
  <2>1. In(table', G, c0, "main") = (IF i # "passed" THEN i ELSE m) /\ In(table', G, c0, "init") = i
    BY <1>6, <1>9
  <2>2. In(table', G, c0, "main") # "none"
    BY <2>1 DEF Outcome
  <2>3. CASE w = "failed"
    <3>1. In(table', G, c0, "main") = "failed" \/ In(table', G, c0, "end") = "failed"
      BY <1>2, <1>5, <1>6, <1>9, <2>3
    <3>2. Reason(G, c0)'
      BY <3>1 DEF Reason
    <3>3. QED BY <2>2, <2>3, <3>2
  <2>4. CASE w # "failed"
    <3>1. {Key(G, c0, "init"), Key(G, c0, "main"), Key(G, c0, "end")} \cap displaced' = {}
      BY <1>4, <1>9, ChainHas
    <3>2. CaseFacts(G, c0)'
      BY <1>8, <1>9, <3>1
    <3>3. In(table', G, c0, "main") = w /\ In(table', G, c0, "init") # "failed"
      BY <1>2, <2>1, <2>4 DEF Outcome
    <3>4. In(table', G, c0, "end") # "failed"
      <4>1. CASE i # "passed"
        BY <2>1, <3>2, <4>1 DEF CaseFacts
      <4>2. CASE i = "passed"
        BY <1>2, <1>5, <1>6, <1>9, <2>4, <4>2
      <4>3. QED BY <4>1, <4>2
    <3>5. \A n : LevelInit(G, n)' = LevelInit(G, n) /\ LevelEnd(G, n)' = LevelEnd(G, n)
      <4>1. <<NoCase, "init">> \notin K /\ <<NoCase, "end">> \notin K
        BY <1>4, <1>5, <1>6
      <4>2. QED BY <1>6, <4>1 DEF LevelInit, LevelEnd, Moved
    <3>6. suiteSkip = "no"
      BY <1>3 DEF SuiteKnown, ReportInv, TableInv
    <3>7. Len(G) \in Nat /\ SubSeq(G, 1, 0) = <<>>
      BY <1>4, PrefixPath
    <3>8. LevelEnd(G, 0) = "none" /\ LevelInit(G, 0) = "passed"
      BY <1>3, <3>6, <3>7 DEF LevelEnd, LevelInit, SuiteKnown, ReportInv, TableInv, MoreCases
    <3>9. \A n \in 1..Len(G) : LevelInit(G, n) = "passed"
      BY <1>1, <1>3 DEF OpenKnown, MoreCases, ReportInv, TableInv
    <3>10. \A n \in 0..Len(G) : LevelInit(G, n) = "passed"
      <4>1. \A n \in 0..Len(G) : n = 0 \/ n \in 1..Len(G)
        BY <3>7
      <4>2. QED BY <3>8, <3>9, <4>1
    <3>11. \A n \in 1..Len(G) : OpenNow(G, n)'
      BY <1>1, <1>3, <3>7 DEF OpenNow, Here, MoreCases
    <3>12. Good(G, c0, w)'
      BY <3>3, <3>4, <3>5, <3>8, <3>10, <3>11 DEF Good
    <3>13. QED BY <2>2, <2>4, <3>12
  <2>5. QED BY <2>3, <2>4
<1>10. w \in Outcome
  BY <1>2 DEF Outcome
<1>11. {Key(G, c0, "init"), Key(G, c0, "main"), Key(G, c0, "end")} \cap displaced' = {} /\ groups = G
         => CaseFacts(G, c0)'
  BY <1>8
<1>12. Chain(G, c0) \cap displaced' = {} /\ groups = G =>
         /\ In(table', G, c0, "main") # "none"
         /\ IF w = "failed" THEN Reason(G, c0)' ELSE Good(G, c0, w)'
  BY <1>9
<1>13. Moved(groups, G, K)
  BY <1>6
<1>14. QED BY <1>1, <1>3, <1>7, <1>10, <1>11, <1>12, <1>13, CaseStep

-----------------------------------------------------------------------------
(* The report. *)

LEMMA EmptyTree ==
  ASSUME NEW S, NEW q \in Seq(S)
  PROVE  \A k \in 0..Len(q) : Nodes(NewNode, q)[k] = NewNode
<1> DEFINE Empty == {k \in 0..Len(q) : Nodes(NewNode, q)[k] = NewNode}
<1>1. PICK N : N = Nodes(NewNode, q)
  OBVIOUS
<1>2. N[0] = NewNode /\ \A k \in 1..Len(q) : N[k] = Get(N[k - 1].groups, q[k], NewNode)
  BY <1>1, NodesOnPath
<1>3. Len(q) \in Nat /\ 0 \in Empty
  BY <1>1, <1>2
<1>4. ASSUME NEW k \in 0..(Len(q) - 1), k \in Empty PROVE k + 1 \in Empty
  <2>1. k + 1 \in 1..Len(q) /\ k + 1 \in 0..Len(q) /\ (k + 1) - 1 = k
    BY <1>3
  <2>2. N[k] = NewNode /\ N[k + 1] = Get(N[k].groups, q[k + 1], NewNode)
    BY <1>1, <1>2, <1>4, <2>1
  <2>3. N[k].groups = <<>>
    BY <2>2 DEF NewNode
  <2>4. Get(N[k].groups, q[k + 1], NewNode) = NewNode
    BY <2>3 DEF Get
  <2>5. QED BY <1>1, <2>1, <2>2, <2>4
<1> HIDE DEF Empty
<1>5. \A k \in 0..Len(q) : k \in Empty
  BY <1>3, <1>4, Upwards
<1>6. QED BY <1>5 DEF Empty

LEMMA ReportInit == Init => ReportInv
<1> SUFFICES ASSUME Init PROVE ReportInv
  OBVIOUS
<1>1. /\ pc = "start" /\ entry = 1 /\ opened = 0 /\ caseNo = 0 /\ skip = "no" /\ suiteSkip = "no"
      /\ tree = NewNode /\ table = <<>> /\ truth = <<>> /\ displaced = {}
  BY DEF Init
<1>2. GroupInv
  BY GroupInit
<1>3. DOMAIN table = {} /\ DOMAIN truth = {}
  BY <1>1
<1>4. \A q, c, phase : In(table, q, c, phase) = "none"
  BY <1>3 DEF In, Get
<1>5. Same(tree, table)
  <2>1. WellFormed(tree, Group)
    BY <1>1, EmptyTree, NewIsNode DEF WellFormed
  <2>2. ASSUME NEW q \in Path, NEW c, NEW phase, IsResult([case |-> c, phase |-> phase])
        PROVE  ResultAt(tree, q, c, phase) = "none"
    <3>1. Len(q) \in 0..Len(q) /\ q \in Seq(Group)
      BY DEF Path
    <3>2. NodeAt(tree, q) = NewNode
      BY <1>1, <3>1, EmptyTree DEF NodeAt
    <3>3. phase \in IF c = NoCase THEN {"init", "end"} ELSE {"init", "main", "end"}
      BY <2>2 DEF IsResult
    <3>4. ResultIn(NewNode, c, phase) = "none"
      BY <3>3 DEF ResultIn, NewNode, NewLeaf, Get
    <3>5. QED BY <3>2, <3>4 DEF ResultAt
  <2>3. QED BY <1>4, <2>1, <2>2 DEF Same
<1>6. SuiteKnown
  BY <1>1, <1>4 DEF SuiteKnown, Skip
<1>7. OpenKnown /\ SkipKnown
  BY <1>1 DEF OpenKnown, SkipKnown, MoreCases
<1>8. CaseKnown /\ GroupKnown
  BY <1>4 DEF CaseKnown, GroupKnown
<1>9. Told
  BY <1>3 DEF Told
<1>10. Recorded
  <2>1. entry <= Len(spec) => Len(Here.cases) \in Nat
    <3>1. entry <= Len(spec) => Here \in EntryType
      BY <1>2, EntryOf DEF Here, GroupInv, Walk
    <3>2. QED BY <3>1 DEF EntryType
  <2>2. \A m \in 1..Len(spec) : \A j \in 1..Len(spec[m].cases) : ~Done(m, j)
    BY <1>1 DEF Done
  <2>3. QED BY <1>1, <2>1, <2>2 DEF Recorded
<1>11. QED BY <1>2, <1>5, <1>6, <1>7, <1>8, <1>9, <1>10 DEF ReportInv, TableInv

LEMMA ReportStep == ReportInv /\ [Next]_vars => ReportInv'
<1> SUFFICES ASSUME ReportInv, [Next]_vars PROVE ReportInv'
  OBVIOUS
<1>1. CASE Next
  <2>1. GroupInv'
    BY <1>1, GroupStep DEF ReportInv
  <2>2. Same(tree', table') /\ TableInv' /\ Told' /\ Recorded'
    BY <1>1, InitSuiteStep, OpenStep, CloseStep, EndStep, RunStep, SkipStep, NextEntryStep DEF Next
  <2>3. QED BY <2>1, <2>2 DEF ReportInv
<1>2. CASE UNCHANGED vars
  BY <1>2 DEF vars, ctVars, hookVars, ReportInv, GroupInv, Walk, Tracked, Position, Opened, Here,
              TableInv, SuiteKnown, OpenKnown, SkipKnown, CaseKnown, GroupKnown, MoreCases,
              LevelInit, LevelEnd, Told, ToldOf, Reason, Good, OpenNow, Recorded, Done
<1>3. QED BY <1>1, <1>2

\* The report on a test, read off the table.
LEMMA ReportTells ==
  ASSUME Same(tree, table), NEW P \in Path, NEW c \in Case, NEW main, main = In(table, P, c, "main")
  PROVE  Report(P, c) = IF Reason(P, c) \/ main = "none" THEN "failed" ELSE main
<1>1. P \in Seq(Group) /\ c # NoCase
  BY CaseAssumption DEF Path
<1>2. PICK t : t = tree
  OBVIOUS
<1>3. \A q \in Path : \A phase \in {"init", "end"} :
        ResultAt(t, q, NoCase, phase) = In(table, q, NoCase, phase)
  BY <1>2 DEF Same, IsResult
<1>4. \A phase \in {"init", "main", "end"} : ResultAt(t, P, c, phase) = In(table, P, c, phase)
  BY <1>1, <1>2 DEF Same, IsResult
<1>5. \A n \in 0..Len(P) : /\ LevelAt(t, P, n, "init") = LevelInit(P, n)
                           /\ LevelAt(t, P, n, "end") = LevelEnd(P, n)
  BY <1>3, PrefixPath DEF LevelAt, LevelInit, LevelEnd
<1>6. AnyFails(t, P, c, "init") \/ AnyFails(t, P, c, "end") \/ main = "failed" <=> Reason(P, c)
  BY <1>4, <1>5 DEF AnyFails, Reason
<1>7. Report(P, c) = IF AnyFails(t, P, c, "init") \/ AnyFails(t, P, c, "end") \/ main = "none"
                     THEN "failed" ELSE main
  BY <1>1, <1>2, <1>4, ReportIs DEF Report
<1>8. QED BY <1>6, <1>7

LEMMA ReportedWell == ReportInv => ReportsFaithful
<1> SUFFICES ASSUME ReportInv, pc = "ended", NEW pt \in Requested,
                    Chain(pt[1], pt[2]) \cap displaced = {}
             PROVE  Report(pt[1], pt[2]) = truth[pt]
  BY DEF ReportsFaithful
<1>1. PICK m \in 1..Len(spec) : \E j \in 1..Len(spec[m].cases) :
        pt = <<spec[m].groups, spec[m].cases[j]>>
  BY DEF Requested
<1>2. PICK j \in 1..Len(spec[m].cases) : pt = <<spec[m].groups, spec[m].cases[j]>>
  BY <1>1
<1>3. entry > Len(spec) /\ entry \in Nat /\ Len(spec) \in Nat
  BY DEF ReportInv, Recorded, GroupInv, Walk
<1>4. pt \in DOMAIN truth
  BY <1>2, <1>3 DEF ReportInv, Recorded, Done
<1>5. PICK P \in Path, c \in Case : pt = <<P, c>>
  BY <1>4 DEF ReportInv, Told
<1>6. PICK v, main : v = truth[pt] /\ main = In(table, P, c, "main")
  OBVIOUS
<1>7. main # "none" /\ IF v = "failed" THEN Reason(P, c) ELSE Good(P, c, v)
  BY <1>4, <1>5, <1>6 DEF ReportInv, Told, ToldOf
<1>8. Report(P, c) = IF Reason(P, c) \/ main = "none" THEN "failed" ELSE main
  BY <1>6, ReportTells DEF ReportInv
<1>9. CASE v = "failed"
  BY <1>5, <1>6, <1>7, <1>8, <1>9
<1>10. CASE v # "failed"
  <2>1. Good(P, c, v) /\ main = v
    BY <1>6, <1>7, <1>10 DEF Good
  <2>2. \A n \in 1..Len(P) : LevelEnd(P, n) # "failed"
    BY <1>3, <2>1 DEF Good, OpenNow
  <2>3. \A n \in 0..Len(P) : LevelInit(P, n) # "failed" /\ (n = 0 \/ n \in 1..Len(P))
    <3>1. \A n \in 0..Len(P) : LevelInit(P, n) # "failed"
      BY <2>1 DEF Good
    <3>2. Len(P) \in Nat
      BY PrefixPath
    <3>3. \A n \in 0..Len(P) : n = 0 \/ n \in 1..Len(P)
      BY <3>2
    <3>4. QED BY <3>1, <3>3
  <2>4. ~Reason(P, c)
    <3>1. LevelEnd(P, 0) # "failed"
      BY <2>1 DEF Good
    <3>2. \A n \in 0..Len(P) : LevelInit(P, n) # "failed" /\ LevelEnd(P, n) # "failed"
      BY <2>2, <2>3, <3>1
    <3>3. \A phase \in {"init", "main", "end"} : In(table, P, c, phase) # "failed"
      BY <1>6, <1>10, <2>1 DEF Good
    <3>4. QED BY <3>2, <3>3 DEF Reason
  <2>5. QED BY <1>5, <1>6, <1>7, <1>8, <2>1, <2>4
<1>11. QED BY <1>9, <1>10

(***************************************************************************)
(* In every suite, of any shape, the report on a requested test is what    *)
(* became of the test and of the inits and ends around it, provided none   *)
(* of the results it is collected from was registered in another group or  *)
(* replaced: insert_result and collect_results are inverse to each other   *)
(* along group paths of any depth, and cth_tpx registers nothing that      *)
(* would fail a test that passed or pass one that failed.                  *)
(***************************************************************************)
THEOREM ReportsAreFaithful == Spec => []ReportsFaithful
<1>1. QED BY ReportInit, ReportStep, ReportedWell, PTL DEF Spec

-----------------------------------------------------------------------------
(* The lists of a report. *)

LEMMA ReverseIs ==
  ASSUME NEW S, NEW s \in Seq(S)
  PROVE  /\ Reverse(s) \in Seq(S) /\ Len(Reverse(s)) = Len(s) /\ Len(s) \in Nat
         /\ \A i \in 1..Len(s) : Reverse(s)[i] = s[Len(s) - i + 1] /\ Len(s) - i + 1 \in 1..Len(s)
<1>1. Len(s) \in Nat
  OBVIOUS
<1>2. \A i \in 1..Len(s) : Len(s) - i + 1 \in 1..Len(s) /\ s[Len(s) - i + 1] \in S
  BY <1>1
<1>3. QED BY <1>1, <1>2 DEF Reverse

LEMMA ReverseTwice ==
  ASSUME NEW S, NEW s \in Seq(S)
  PROVE  Reverse(Reverse(s)) = s
<1> DEFINE r == Reverse(s)
<1>1. /\ r \in Seq(S) /\ Len(r) = Len(s) /\ Len(s) \in Nat
      /\ \A i \in 1..Len(s) : r[i] = s[Len(s) - i + 1] /\ Len(s) - i + 1 \in 1..Len(s)
  BY ReverseIs
<1> HIDE DEF r
<1>2. /\ Reverse(r) \in Seq(S) /\ Len(Reverse(r)) = Len(s)
      /\ \A i \in 1..Len(s) : Reverse(r)[i] = r[Len(s) - i + 1]
  BY <1>1, ReverseIs
<1>3. \A i \in 1..Len(s) : Reverse(r)[i] = s[i]
  <2> SUFFICES ASSUME NEW i \in 1..Len(s) PROVE Reverse(r)[i] = s[i]
    OBVIOUS
  <2>1. Len(s) - i + 1 \in 1..Len(s) /\ Len(s) - (Len(s) - i + 1) + 1 = i
    BY <1>1
  <2>2. QED BY <1>1, <1>2, <2>1
<1>4. QED BY <1>1, <1>2, <1>3 DEF r

LEMMA ReverseAppend ==
  ASSUME NEW S, NEW s \in Seq(S), NEW e \in S
  PROVE  Reverse(Append(s, e)) = <<e>> \o Reverse(s)
<1> DEFINE a == Append(s, e)
           L == Len(s)
           r == Reverse(s)
           b == <<e>> \o r
<1>1. L \in Nat /\ a \in Seq(S) /\ Len(a) = L + 1 /\ a[L + 1] = e /\ \A i \in 1..L : a[i] = s[i]
  OBVIOUS
<1>2. r \in Seq(S) /\ Len(r) = L /\ \A i \in 1..L : r[i] = s[L - i + 1] /\ L - i + 1 \in 1..L
  BY ReverseIs
<1> HIDE DEF a, r
<1>3. b \in Seq(S) /\ Len(b) = L + 1 /\ b[1] = e /\ \A i \in 1..L : b[i + 1] = r[i]
  BY <1>1, <1>2
<1>4. /\ Reverse(a) \in Seq(S) /\ Len(Reverse(a)) = L + 1
      /\ \A i \in 1..(L + 1) : Reverse(a)[i] = a[L + 1 - i + 1]
  BY <1>1, ReverseIs
<1> HIDE DEF b, L
<1>5. ASSUME NEW i \in 1..(L + 1) PROVE Reverse(a)[i] = b[i]
  <2>1. CASE i = 1
    <3>1. L + 1 - i + 1 = L + 1
      BY <1>1, <2>1
    <3>2. QED BY <1>1, <1>3, <1>4, <2>1, <3>1
  <2>2. CASE i # 1
    <3>1. i - 1 \in 1..L /\ (i - 1) + 1 = i /\ L - (i - 1) + 1 = L + 1 - i + 1
      <4>1. L \in Nat /\ i \in 1..(L + 1)
        BY <1>1, <1>5
      <4> HIDE <1>1, <1>2, <1>3, <1>4
      <4>2. QED BY <2>2, <4>1
    <3>2. b[i] = s[L + 1 - i + 1] /\ L + 1 - i + 1 \in 1..L
      BY <1>2, <1>3, <3>1
    <3>3. QED BY <1>1, <1>4, <3>2
  <2>3. QED BY <2>1, <2>2
<1>6. Reverse(a) = b
  BY <1>3, <1>4, <1>5, SeqEqual
<1>7. QED BY <1>6 DEF a, b, r

\* What is there of the results, in their order.
Present(results) == Only(results, {r \in Range(results) : r.outcome # "none"})

\* Adding each in front, from the root to the leaf, lists them the other way round.
LEMMA GatheredIs ==
  ASSUME NEW S, NEW results \in Seq(S)
  PROVE  Present(results) \in Seq(S) /\ Gathered(results) = Reverse(Present(results))
<1> DEFINE list == CHOOSE l : AreLists(l, results)
           L == Len(results)
           P == {r \in Range(results) : r.outcome # "none"}
<1>1. PICK g : AreLists(g, results)
  BY ListsExist, Zenon
<1>2. AreLists(list, results)
  BY <1>1, Zenon
<1>3. Gathered(results) = list[L]
  BY Zenon DEF Gathered, AreLists, ListAt
<1>4. \A k \in 1..L : results[k] \in P <=> results[k].outcome # "none"
  <2>1. \A k \in 1..L : results[k] \in Range(results)
    BY DEF Range
  <2>2. QED BY <2>1
<1> HIDE DEF list, P
<1>5. PICK f : /\ f[0] = <<>> /\ Only(results, P) = f[L]
               /\ \A k \in 1..L : f[k] = IF results[k] \in P THEN Append(f[k - 1], results[k]) ELSE f[k - 1]
  BY OnlyUnfolds
<1>6. L \in Nat /\ \A n \in 0..L : list[n] = ListAt(list, results, n)
  <2>1. \A n \in 0..L : list[n] = ListAt(list, results, n)
    BY <1>2, Zenon DEF AreLists
  <2>2. QED BY <2>1
<1> DEFINE Match == {n \in 0..L : f[n] \in Seq(S) /\ list[n] = Reverse(f[n])}
<1>7. 0 \in Match
  <2>1. list[0] = <<>> /\ 0 \in 0..L
    BY <1>6 DEF ListAt
  <2>2. Reverse(<<>>) = <<>>
    BY DEF Reverse
  <2>3. <<>> \in Seq(S)
    OBVIOUS
  <2>4. QED BY <1>5, <2>1, <2>2, <2>3
<1>8. ASSUME NEW n \in 0..(L - 1), n \in Match PROVE n + 1 \in Match
  <2>1. n + 1 \in 1..L /\ (n + 1) - 1 = n /\ n + 1 \in 0..L /\ n + 1 # 0
    BY <1>6
  <2>2. list[n + 1] = AddIfPresent(results[n + 1], list[n])
    BY <1>6, <2>1 DEF ListAt
  <2>3. results[n + 1] \in S /\ f[n] \in Seq(S) /\ list[n] = Reverse(f[n])
    BY <1>8, <2>1
  <2>4. CASE results[n + 1].outcome = "none"
    <3>1. f[n + 1] = f[n]
      BY <1>4, <1>5, <2>1, <2>4
    <3>2. list[n + 1] = list[n]
      BY <2>2, <2>4 DEF AddIfPresent
    <3>3. QED BY <2>1, <2>3, <3>1, <3>2
  <2>5. CASE results[n + 1].outcome # "none"
    <3>1. f[n + 1] = Append(f[n], results[n + 1])
      BY <1>4, <1>5, <2>1, <2>5
    <3>2. list[n + 1] = <<results[n + 1]>> \o Reverse(f[n])
      BY <2>2, <2>3, <2>5 DEF AddIfPresent
    <3>3. Reverse(f[n + 1]) = list[n + 1]
      BY <2>3, <3>1, <3>2, ReverseAppend
    <3>4. f[n + 1] \in Seq(S)
      BY <2>3, <3>1
    <3>5. QED BY <2>1, <3>3, <3>4
  <2>6. QED BY <2>4, <2>5
<1> HIDE DEF Match
<1>9. L \in Match
  <2>1. \A k \in 0..L : k \in Match
    BY <1>6, <1>7, <1>8, Upwards
  <2>2. L \in 0..L
    BY <1>6
  <2>3. QED BY <2>1, <2>2
<1>10. QED BY <1>3, <1>5, <1>9 DEF Match, Present, P

\* The first that failed of a list the other way round is the last that failed.
LEMMA BlameIsLast ==
  ASSUME NEW S, NEW s \in Seq(S)
  PROVE  /\ Failing(Reverse(s)) = {} <=> Failing(s) = {}
         /\ Blame(Reverse(s)) = IF Failing(s) = {} THEN <<>> ELSE <<s[Max(Failing(s))].path>>
<1> DEFINE r == Reverse(s)
           L == Len(s)
           F == Failing(r)
<1>1. /\ r \in Seq(S) /\ Len(r) = L /\ L \in Nat /\ DOMAIN r = 1..L /\ DOMAIN s = 1..L
      /\ \A i \in 1..L : r[i] = s[L - i + 1] /\ L - i + 1 \in 1..L
  BY ReverseIs
<1> HIDE DEF r, L
<1>2. \A i \in 1..L : i \in F <=> L - i + 1 \in Failing(s)
  BY <1>1 DEF Failing
<1>3. \A i \in 1..L : L - (L - i + 1) + 1 = i /\ L - i + 1 \in 1..L
  BY <1>1
<1>4. \A i \in 1..L : i \in Failing(s) <=> L - i + 1 \in F
  BY <1>2, <1>3
<1>5. F \subseteq 1..L /\ Failing(s) \subseteq 1..L
  BY <1>1 DEF Failing
<1>6. F = {} <=> Failing(s) = {}
  BY <1>2, <1>4, <1>5
<1>7. ASSUME Failing(s) # {} PROVE r[Min(F)] = s[Max(Failing(s))]
  <2> HIDE DEF F
  <2> DEFINE R == {ss \in Nat \X Nat : ss[1] < ss[2]}
  <2>1. PICK least \in F : \A k \in F : ~(<<k, least>> \in R)
    <3>1. IsWellFoundedOn(R, Nat)
      BY NatLessThanWellFounded DEF OpToRel
    <3>2. F \subseteq Nat /\ F # {}
      BY <1>5, <1>6, <1>7
    <3>3. PICK any : any \in F
      BY <3>2
    <3> HIDE DEF R
    <3>4. QED BY <3>1, <3>2, <3>3, WFMin
  <2>2. least \in 1..L /\ \A k \in F : k \in 1..L /\ least <= k
    <3>1. \A k \in F : k \in 1..L /\ k \in Nat
      BY <1>1, <1>5
    <3>2. ASSUME NEW k \in F PROVE least <= k
      <4>1. k \in Nat /\ least \in Nat /\ ~(k < least)
        BY <2>1, <3>1
      <4>2. QED BY <4>1
    <3>3. QED BY <3>1, <3>2
  <2>3. Min(F) = least
    <3>1. \A x \in F : (\A y \in F : x =< y) => x = least
      BY <1>1, <2>2
    <3>2. QED BY <2>2, <3>1 DEF Min
  <2>4. L - least + 1 \in Failing(s) /\ \A k \in Failing(s) : k <= L - least + 1
    <3>1. L - least + 1 \in Failing(s)
      BY <1>2, <2>2
    <3>2. ASSUME NEW k \in Failing(s) PROVE k <= L - least + 1
      <4>1. k \in 1..L /\ L - k + 1 \in F
        BY <1>4, <1>5
      <4>2. least <= L - k + 1
        BY <2>2, <4>1
      <4>3. QED BY <1>1, <2>2, <4>1, <4>2
    <3>3. QED BY <3>1, <3>2
  <2>5. Max(Failing(s)) = L - least + 1
    <3>1. \A x \in Failing(s) : x \in 1..L
      BY <1>5
    <3>2. \A x \in Failing(s) : (\A y \in Failing(s) : x >= y) => x = L - least + 1
      BY <1>1, <2>2, <2>4, <3>1
    <3>3. \A y \in Failing(s) : L - least + 1 >= y
      BY <1>1, <2>2, <2>4, <3>1
    <3>4. QED BY <2>4, <3>2, <3>3 DEF Max
  <2>6. QED BY <1>1, <2>2, <2>3, <2>5
<1>8. QED BY <1>6, <1>7 DEF Blame, r

\* The results of a phase of a test, missing ones too, as the tree and as the table has them.
AtNode(t, q, phase) == Found(q, NoCase, NodeAt(t, q)[phase])
InTree(t, path, case, phase) ==
  Append([n \in 1..(Len(path) + 1) |-> AtNode(t, SubSeq(path, 1, n - 1), phase)],
         Found(path, case, Get(NodeAt(t, path).cases, case, NewLeaf)[phase]))
AtKey(known, q, case, phase) == Found(q, case, In(known, q, case, phase))
OfTable(known, path, case, phase) ==
  Append([n \in 1..(Len(path) + 1) |-> AtKey(known, SubSeq(path, 1, n - 1), NoCase, phase)],
         AtKey(known, path, case, phase))

LEMMA SameLevels ==
  ASSUME NEW t, NEW known, Same(t, known), NEW path \in Path, NEW c \in Case,
         NEW phase \in {"init", "end"}
  PROVE  InTree(t, path, c, phase) = OfTable(known, path, c, phase)
<1>1. ASSUME NEW q \in Path PROVE AtNode(t, q, phase) = AtKey(known, q, NoCase, phase)
  <2>1. ResultAt(t, q, NoCase, phase) = In(known, q, NoCase, phase)
    BY DEF Same, IsResult
  <2>2. QED BY <2>1 DEF AtNode, AtKey, ResultAt, ResultIn
<1>2. \A n \in 1..(Len(path) + 1) :
        AtNode(t, SubSeq(path, 1, n - 1), phase) = AtKey(known, SubSeq(path, 1, n - 1), NoCase, phase)
  <2> SUFFICES ASSUME NEW n \in 1..(Len(path) + 1)
               PROVE  AtNode(t, SubSeq(path, 1, n - 1), phase)
                        = AtKey(known, SubSeq(path, 1, n - 1), NoCase, phase)
    OBVIOUS
  <2>1. n - 1 \in 0..Len(path)
    BY PrefixPath
  <2>2. SubSeq(path, 1, n - 1) \in Path
    BY <2>1, PrefixPath
  <2>3. QED BY <1>1, <2>2
<1>3. Get(NodeAt(t, path).cases, c, NewLeaf)[phase] = In(known, path, c, phase)
  <2>1. c # NoCase
    BY CaseAssumption
  <2>2. ResultAt(t, path, c, phase) = In(known, path, c, phase)
    BY <2>1 DEF Same, IsResult
  <2>3. QED BY <2>1, <2>2 DEF ResultAt, ResultIn
<1>4. [n \in 1..(Len(path) + 1) |-> AtNode(t, SubSeq(path, 1, n - 1), phase)] =
      [n \in 1..(Len(path) + 1) |-> AtKey(known, SubSeq(path, 1, n - 1), NoCase, phase)]
  BY <1>2, Zenon
<1>5. QED BY <1>3, <1>4, Zenon DEF InTree, OfTable, AtKey

LEMMA OfTableIs ==
  ASSUME NEW path \in Path, NEW c \in Case, NEW phase \in {"init", "end"}
  PROVE  /\ InTable(path, c, phase) = Present(OfTable(table, path, c, phase))
         /\ \E S : OfTable(table, path, c, phase) \in Seq(S)
<1>1. InTable(path, c, phase) = Present(OfTable(table, path, c, phase))
  BY Zenon DEF InTable, Present, OfTable, AtKey, In
<1>2. \E S : OfTable(table, path, c, phase) \in Seq(S)
  <2> DEFINE At(n) == AtKey(table, SubSeq(path, 1, n - 1), NoCase, phase)
             last == AtKey(table, path, c, phase)
             L == Len(path) + 1
             S == {At(n) : n \in 1..L} \cup {last}
  <2>1. L \in Nat /\ (\A n \in 1..L : At(n) \in S) /\ last \in S
    BY PrefixPath
  <2> HIDE DEF At, last, S, L
  <2>2. [n \in 1..L |-> At(n)] \in Seq(S)
    BY <2>1
  <2>3. Append([n \in 1..L |-> At(n)], last) \in Seq(S)
    BY <2>1, <2>2
  <2>4. OfTable(table, path, c, phase) \in Seq(S)
    BY <2>3 DEF OfTable, At, last, L
  <2>5. QED BY <2>4, Zenon
<1>3. QED BY <1>1, <1>2

\* What is collected, said by phase.
LEMMA CollectIs ==
  ASSUME NEW t, NEW path, NEW c
  PROVE  LET r     == CollectResult(t, path, c)
             inits == Gathered(InTree(t, path, c, "init"))
         IN  /\ r.inits = Reverse(inits) /\ r.ends = Gathered(InTree(t, path, c, "end"))
             /\ r.main.blames = Blame(inits)
<1> DEFINE leaf == Get(NodeAt(t, path).cases, c, NewLeaf)
           inits == Gathered(InTree(t, path, c, "init"))
           ends == Gathered(InTree(t, path, c, "end"))
<1>1. Collect(t, path, c) = [inits |-> Reverse(inits), main |-> Main(leaf, inits), ends |-> ends]
  BY DEF Collect, InTree, AtNode
<1> HIDE DEF leaf, inits, ends
<1>2. Main(leaf, inits).blames = IF Failing(inits) = {} THEN <<>> ELSE Blame(inits)
  BY DEF Main, Blame
<1>3. Main(leaf, inits).blames = Blame(inits)
  BY <1>2 DEF Blame
<1>4. PICK r : r = Collect(t, path, c)
  OBVIOUS
<1>5. /\ r.inits = Reverse(inits) /\ r.ends = ends /\ r.main = Main(leaf, inits)
      /\ DOMAIN r = {"inits", "main", "ends"} /\ DOMAIN Main(leaf, inits) = {"outcome", "blames"}
  BY <1>1, <1>4 DEF Main
<1>6. CollectResult(t, path, c) = [r EXCEPT !.main.outcome = WithEndFailure(r.ends, @)]
  BY <1>4, Zenon DEF CollectResult
<1>7. PICK v : v = CollectResult(t, path, c)
  OBVIOUS
<1>8. v.inits = Reverse(inits) /\ v.ends = ends /\ v.main.blames = Blame(inits)
  BY <1>3, <1>5, <1>6, <1>7
<1>9. QED BY <1>7, <1>8 DEF inits, ends

LEMMA CollectedWell == ReportInv => CollectedInOrder
<1> SUFFICES ASSUME ReportInv, NEW pt \in Requested
             PROVE  LET r      == CollectResult(tree, pt[1], pt[2])
                        inits  == InTable(pt[1], pt[2], "init")
                        failed == Failing(inits)
                    IN  /\ r.inits = inits
                        /\ r.ends = Reverse(InTable(pt[1], pt[2], "end"))
                        /\ r.main.blames = IF failed = {} THEN <<>> ELSE <<inits[Max(failed)].path>>
  BY DEF CollectedInOrder
<1>1. PICK m \in 1..Len(spec) : \E j \in 1..Len(spec[m].cases) :
        pt = <<spec[m].groups, spec[m].cases[j]>>
  BY DEF Requested
<1>2. PICK j \in 1..Len(spec[m].cases) : pt = <<spec[m].groups, spec[m].cases[j]>>
  BY <1>1
<1>3. spec[m].groups \in Path /\ spec[m].cases[j] \in Case
  <2>1. spec \in Seq(EntryType)
    BY DEF ReportInv, GroupInv, Walk
  <2>2. spec[m] \in EntryType
    BY <2>1
  <2>3. QED BY <2>2 DEF EntryType
<1>4. PICK path \in Path, c \in Case : path = pt[1] /\ c = pt[2]
  BY <1>2, <1>3
<1>5. \A phase \in {"init", "end"} : InTree(tree, path, c, phase) = OfTable(table, path, c, phase)
  BY SameLevels DEF ReportInv
<1>6. ASSUME NEW phase \in {"init", "end"}
      PROVE  /\ Gathered(InTree(tree, path, c, phase)) = Reverse(InTable(path, c, phase))
             /\ \E S : InTable(path, c, phase) \in Seq(S)
  <2>1. PICK S : OfTable(table, path, c, phase) \in Seq(S)
    BY OfTableIs
  <2>2. InTable(path, c, phase) = Present(OfTable(table, path, c, phase))
    BY OfTableIs
  <2>3. /\ Present(OfTable(table, path, c, phase)) \in Seq(S)
        /\ Gathered(OfTable(table, path, c, phase)) = Reverse(Present(OfTable(table, path, c, phase)))
    BY <2>1, GatheredIs
  <2>4. QED BY <1>5, <2>2, <2>3
<1>7. PICK inits : inits = InTable(path, c, "init")
  OBVIOUS
<1>8. PICK S : inits \in Seq(S)
  BY <1>6, <1>7
<1>9. Gathered(InTree(tree, path, c, "init")) = Reverse(inits)
  BY <1>6, <1>7
<1>10. Reverse(Reverse(inits)) = inits
  BY <1>8, ReverseTwice
<1>11. Blame(Reverse(inits)) = IF Failing(inits) = {} THEN <<>> ELSE <<inits[Max(Failing(inits))].path>>
  BY <1>8, BlameIsLast
<1>12. PICK r : r = CollectResult(tree, path, c)
  OBVIOUS
<1>13. /\ r.inits = inits /\ r.ends = Reverse(InTable(path, c, "end"))
       /\ r.main.blames = Blame(Reverse(inits))
  BY <1>6, <1>9, <1>10, <1>12, CollectIs
<1>14. QED BY <1>4, <1>7, <1>11, <1>12, <1>13

(***************************************************************************)
(* At any time, in every suite, of any shape and depth, the report on a    *)
(* requested test lists the inits there are from the suite to the case,    *)
(* the ends from the case to the suite, and names the last init that       *)
(* failed: adds_if_present loses, doubles and swaps nothing on the way     *)
(* down the tree (cth_tpx_test_tree:collect_results).                      *)
(***************************************************************************)
THEOREM ReportsAreInOrder == Spec => []CollectedInOrder
<1>1. QED BY ReportInit, ReportStep, CollectedWell, PTL DEF Spec
=============================================================================

----------------------------- MODULE AppleProofs -----------------------------
(***************************************************************************)
(* For every set of inputs: the incremental state file of an Apple bundle  *)
(* is never ahead of the bundle nor behind it, and the seals of a bundle   *)
(* that was signed hold. The first property is inductive: the file is      *)
(* removed before the first change of the tree, and while a build works on *)
(* the tree no step but the last writes the file. The second is followed   *)
(* through the build: a path that has no process any more has its seal,    *)
(* and a process that ends for another path changes nothing below it.      *)
(***************************************************************************)
EXTENDS AppleBundle, ProvisioningProfiles, SubsequenceLemmas, SequenceTheorems, TLAPS

\* The steps of a build that is under way leave the file alone.
Changes == Assemble \/ Swift \/ Prepare \/ Spawn \/ (\E p \in running : CodesignEnds(p))
           \/ CheckResults \/ SignRoot

LEMMA WorkingIsNotEnded == \A x \in Working : x \notin Ended
  BY DEF Working, Ended

LEMMA ChangesKeepTheFile == Changes => pc \in Working /\ file' = file
<1> SUFFICES ASSUME Changes PROVE pc \in Working /\ file' = file
  OBVIOUS
<1>1. CASE Assemble
  BY <1>1 DEF Assemble, Working
<1>2. CASE Swift
  BY <1>2 DEF Swift, Working
<1>3. CASE Prepare \/ Spawn
  BY <1>3 DEF Prepare, Spawn, Working
<1>4. CASE \E p \in running : CodesignEnds(p)
  BY <1>4 DEF CodesignEnds, Working
<1>5. CASE CheckResults \/ SignRoot
  BY <1>5 DEF CheckResults, SignRoot, Working
<1> QED
  BY <1>1, <1>2, <1>3, <1>4, <1>5 DEF Changes

\* A state file that parses describes the bundle as the last build that ended
\* well left it, however many builds failed at whichever step (main.py:526).
THEOREM FileIsCurrent == Spec => []StateIsCurrent
<1>1. Init => StateIsCurrent
  BY DEF Init, StateIsCurrent, NoState
<1>2. StateIsCurrent /\ [Next]_vars => StateIsCurrent'
  <2> SUFFICES ASSUME StateIsCurrent, [Next]_vars PROVE StateIsCurrent'
    OBVIOUS
  <2>1. CASE NoContext
    BY <2>1 DEF NoContext, Failed, StateIsCurrent, Ended
  <2>2. CASE Start
    <3>1. file' \in {NoState, Void}
      BY <2>2 DEF Start, ReadState
    <3> QED
      BY <3>1 DEF StateIsCurrent, NoState, Void
  <2>3. CASE Changes
    BY <2>3, ChangesKeepTheFile, WorkingIsNotEnded DEF StateIsCurrent
  <2>4. CASE Save
    BY <2>4 DEF Save, StateIsCurrent, Ended
  <2>5. CASE SaveFails
    BY <2>5 DEF SaveFails, StateIsCurrent, NoState, Void
  <2>6. CASE Dies
    BY <2>6, WorkingIsNotEnded DEF Dies, StateIsCurrent
  <2>7. CASE KeychainRefused
    BY <2>7, WorkingIsNotEnded DEF KeychainRefused, StateIsCurrent, Working
  <2>8. CASE UNCHANGED vars
    BY <2>8 DEF vars, StateIsCurrent
  <2> QED
    BY <2>1, <2>2, <2>3, <2>4, <2>5, <2>6, <2>7, <2>8 DEF Next, Changes
<1> QED
  BY <1>1, <1>2, PTL DEF Spec

-----------------------------------------------------------------------------
(* What signing does to a tree *)

\* What a path with one more name begins with, but itself, begins the path.
LEMMA BeginsShorter ==
  ASSUME NEW S, NEW p \in Seq(S), NEW q \in Seq(S), NEW a,
         IsPrefix(p, Append(q, a)), p # Append(q, a)
  PROVE  IsPrefix(p, q)
<1> DEFINE T == S \cup {a}
           x == Append(q, a)
<1>1. p \in Seq(T) /\ q \in Seq(T) /\ a \in T
  OBVIOUS
<1>2. /\ x \in Seq(T) /\ Len(x) = Len(q) + 1
      /\ \A i \in 1..Len(q) : x[i] = q[i]
  BY <1>1, AppendProperties
<1> HIDE DEF x
<1>3. Len(p) <= Len(x) /\ SubSeq(p, 1, Len(p)) = SubSeq(x, 1, Len(p))
  BY DEF IsPrefix, x
<1>4. \A i \in 1..Len(p) : p[i] = x[i]
  <2> SUFFICES ASSUME NEW i \in 1..Len(p) PROVE p[i] = x[i]
    OBVIOUS
  <2>1. SubSeq(p, 1, Len(p))[i] = p[i] /\ SubSeq(x, 1, Len(p))[i] = x[i]
    BY <1>1, <1>2, <1>3
  <2> QED
    BY <2>1, <1>3
<1>5. Len(p) # Len(x)
  BY <1>1, <1>2, <1>4, SeqEqual DEF x
<1>6. Len(p) <= Len(q)
  BY <1>1, <1>2, <1>3, <1>5
<1>7. SubSeq(p, 1, Len(p)) = SubSeq(q, 1, Len(p))
  BY <1>1, <1>2, <1>4, <1>6
<1> QED
  BY <1>6, <1>7 DEF IsPrefix

LEMMA BeginsLonger ==
  ASSUME NEW S, NEW p \in Seq(S), NEW a
  PROVE  IsPrefix(p, Append(p, a)) /\ Append(p, a) # p
<1> DEFINE T == S \cup {a}
<1>1. p \in Seq(T) /\ a \in T
  OBVIOUS
<1>2. /\ Append(p, a) \in Seq(T) /\ Len(Append(p, a)) = Len(p) + 1
      /\ \A i \in 1..Len(p) : Append(p, a)[i] = p[i]
  BY <1>1, AppendProperties
<1>3. SubSeq(p, 1, Len(p)) = SubSeq(Append(p, a), 1, Len(p))
  BY <1>1, <1>2
<1> QED
  BY <1>1, <1>2, <1>3 DEF IsPrefix

\* Signing changes the executable, but not what kind of node it is, and the seal.
LEMMA SignedChanges ==
  ASSUME NEW t, NEW q, NEW id, NEW x, x # Append(q, Seal)
  PROVE  LET t2 == Signed(t, q, id)
         IN  /\ x \in DOMAIN t2 <=> x \in DOMAIN t
             /\ x \in DOMAIN t => t2[x].k = t[x].k
             /\ x # Executable(t, q) /\ x \in DOMAIN t => t2[x] = t[x]
<1> DEFINE e == Executable(t, q)
           u == IF e \in DOMAIN t THEN Written(t, e, SignedBy(t[e], id)) ELSE t
           s == Append(q, Seal)
           w == [k |-> "seal", v |-> Covered(u, q), by |-> id]
<1>1. Signed(t, q, id) = IF ~IsDir(t, q) THEN u ELSE Written(u, s, w)
  BY DEF Signed
<1>2. DOMAIN u = DOMAIN t
  BY DEF Written
<1>3. x \in DOMAIN t => u[x].k = t[x].k /\ (x # e => u[x] = t[x])
  BY DEF Written, SignedBy
<1> HIDE DEF u, e, w
<1>4. x \in DOMAIN Written(u, s, w) <=> x \in DOMAIN u
  BY DEF Written, s
<1>5. x \in DOMAIN u => Written(u, s, w)[x] = u[x]
  BY DEF Written, s
<1> QED
  BY <1>1, <1>2, <1>3, <1>4, <1>5 DEF e, s

\* Signing makes no directory: one after it was one before, and is not where the
\* seal of a directory was written.
LEMMA StillADirectory ==
  ASSUME NEW t, NEW q, NEW id, NEW p, IsDir(Signed(t, q, id), p)
  PROVE  IsDir(t, p) /\ (p = <<>> \/ ~IsDir(t, q) \/ p # Append(q, Seal))
<1> DEFINE t2 == Signed(t, q, id)
           s == Append(q, Seal)
<1>1. CASE p = <<>>
  BY <1>1 DEF IsDir
<1>2. CASE p # <<>> /\ p = s /\ IsDir(t, q)
  <2>1. t2[s].k = "seal"
    BY <1>2 DEF Signed, Written
  <2> QED
    BY <1>2, <2>1 DEF IsDir
<1>3. CASE p # <<>> /\ p = s /\ ~IsDir(t, q)
  <2>1. t2 = IF q \in DOMAIN t THEN Written(t, q, SignedBy(t[q], id)) ELSE t
    BY <1>3 DEF Signed, Executable
  <2>2. DOMAIN t2 = DOMAIN t /\ \A x \in DOMAIN t : t2[x].k = t[x].k
    BY <2>1 DEF Written, SignedBy
  <2> QED
    BY <1>3, <2>2 DEF IsDir
<1>4. CASE p # <<>> /\ p # s
  BY <1>4, SignedChanges DEF IsDir
<1> QED
  BY <1>1, <1>2, <1>3, <1>4

\* A seal and the identity that made it.
Sealed(t, p, id) == SealHolds(t, p) /\ t[Append(p, Seal)].by = id

\* A directory that was just signed is sealed.
LEMMA SignedIsSealed ==
  ASSUME NEW t, NEW p, NEW id, IsDir(t, p)
  PROVE  Sealed(Signed(t, p, id), p, id)
<1> DEFINE e == Executable(t, p)
           u == IF e \in DOMAIN t THEN Written(t, e, SignedBy(t[e], id)) ELSE t
           s == Append(p, Seal)
           w == [k |-> "seal", v |-> Covered(u, p), by |-> id]
           t2 == Written(u, s, w)
           Part(f) == {q \in Inside(f, p) : q # s /\ f[q].k # "dir"}
<1>1. Signed(t, p, id) = t2
  BY DEF Signed
<1> HIDE DEF u
<1>2. s \in DOMAIN t2 /\ t2[s] = w
  BY DEF Written
<1>3. /\ DOMAIN t2 = DOMAIN u \cup {s}
      /\ \A q \in DOMAIN u : q # s => t2[q] = u[q]
  BY DEF Written
<1> HIDE DEF t2, w
<1>4. Part(t2) = Part(u)
  BY <1>3 DEF Inside
<1>5. \A q \in Part(u) : t2[q] = u[q]
  BY <1>3 DEF Inside
<1>6. Covered(t2, p) = Covered(u, p)
  BY <1>4, <1>5 DEF Covered, Restrict
<1>7. w.v = Covered(u, p) /\ w.by = id
  BY DEF w
<1> QED
  BY <1>1, <1>2, <1>6, <1>7 DEF Sealed, SealHolds

\* Signing what is not inside a sealed directory leaves its seal.
LEMMA SignedElsewhere ==
  ASSUME NEW S, NEW p \in Seq(S), NEW q \in Seq(S), NEW t, NEW id, NEW by,
         ~IsPrefix(p, q), IsDir(Signed(t, q, id), p), Sealed(t, p, by)
  PROVE  Sealed(Signed(t, q, id), p, by)
<1> DEFINE t2 == Signed(t, q, id)
           e == Executable(t, q)
           s == Append(q, Seal)
           z == Append(p, Seal)
           Part(f) == {x \in Inside(f, p) : x # z /\ f[x].k # "dir"}
<1>1. p # <<>>
  <2> SUFFICES ASSUME p = <<>> PROVE FALSE
    OBVIOUS
  <2>1. Len(p) = 0 /\ Len(q) \in Nat /\ SubSeq(p, 1, 0) = <<>> /\ SubSeq(q, 1, 0) = <<>>
    OBVIOUS
  <2> QED
    BY <2>1 DEF IsPrefix
<1>2. \A x : IsPrefix(p, x) /\ x # p => x # e /\ x # s
  BY BeginsShorter DEF Executable
<1>3. IsPrefix(p, z) /\ z # p
  BY BeginsLonger
<1>4. p \in DOMAIN t /\ t[p].k = "dir" /\ t2[p].k = "dir"
  BY <1>1, StillADirectory DEF IsDir
<1>5. ASSUME NEW x, IsPrefix(p, x), x # p
      PROVE  (x \in DOMAIN t2 <=> x \in DOMAIN t) /\ (x \in DOMAIN t => t2[x] = t[x])
  BY <1>5, <1>2, SignedChanges
<1> HIDE DEF t2, z
<1>6. Part(t2) = Part(t) /\ \A x \in Part(t) : t2[x] = t[x]
  BY <1>4, <1>5 DEF Inside
<1>7. Covered(t2, p) = Covered(t, p)
  BY <1>6 DEF Covered, Restrict, z
<1>8. z \in DOMAIN t /\ t[z].v = Covered(t, p) /\ t[z].by = by
  BY DEF Sealed, SealHolds, z
<1>9. z \in DOMAIN t2 /\ t2[z] = t[z]
  BY <1>3, <1>5, <1>8
<1> QED
  BY <1>7, <1>8, <1>9 DEF Sealed, SealHolds, z, t2

-----------------------------------------------------------------------------
(* The seals, through a build *)

\* The directories signed on copy whose seal has to hold in the end.
Owed == {p \in DOMAIN input.onCopy : IsDir(tree, p) /\ Alone(p, input)}

ByCodesign == input.codesign /\ input.config = "none"

InHand ==
  /\ input \in Inputs
  /\ pc \in {"prepare", "spawn", "nested", "root"} => added = input.swift
  /\ pc = "nested" => running \subseteq Nested(input, added)

NestedSealed ==
  ByCodesign /\ pc = "nested" /\ ~bad =>
    \A p \in Owed : p \notin running => Sealed(tree, p, input.identity)
AllSealed ==
  ByCodesign /\ pc = "root" => \A p \in Owed : Sealed(tree, p, input.identity)
RootSealed ==
  ByCodesign /\ pc \in {"save", "done"} =>
    \A p \in {<<>>} \cup Owed : Sealed(tree, p, input.identity)

SealInv == InHand /\ NestedSealed /\ AllSealed /\ RootSealed

LEMMA PathsAreSequences ==
  ASSUME input \in Inputs
  PROVE  Nested(input, input.swift) \subseteq Seq(STRING)
BY InputAssumption DEF Nested

LEMMA NothingSkipped ==
  ASSUME ByCodesign
  PROVE  ToSign = Nested(input, added) /\ \A p, e : ~Skips(p, e)
BY DEF ByCodesign, ToSign, Skips

\* A process that ends for q leaves the seals of the others that are owed.
LEMMA OthersKeepTheirSeal ==
  ASSUME InHand, NEW q \in Nested(input, input.swift) \cup {<<>>},
         tree' = Signed(tree, q, input.identity), input' = input,
         NEW p \in Owed', p # q, Sealed(tree, p, input.identity)
  PROVE  Sealed(tree', p, input.identity)
<1>1. p \in Seq(STRING) /\ q \in Seq(STRING)
  <2>1. p \in Nested(input, input.swift)
    BY DEF Owed, Nested
  <2>2. Nested(input, input.swift) \subseteq Seq(STRING)
    BY PathsAreSequences DEF InHand
  <2>3. <<>> \in Seq(STRING)
    OBVIOUS
  <2> QED
    BY <2>1, <2>2, <2>3
<1>2. ~IsPrefix(p, q)
  <2>1. CASE q = <<>>
    <3>1. Len(p) > 0 /\ Len(q) = 0
      BY <1>1, <2>1
    <3> QED
      BY <3>1 DEF IsPrefix
  <2>2. CASE q # <<>>
    BY <2>2 DEF Owed, Alone, IsStrictPrefix
  <2> QED
    BY <2>1, <2>2
<1>3. IsDir(Signed(tree, q, input.identity), p)
  BY DEF Owed
<1> QED
  BY <1>1, <1>2, <1>3, SignedElsewhere

\* A path that is owed a seal after a signing was owed one before.
LEMMA OwedBefore ==
  ASSUME NEW q, tree' = Signed(tree, q, input.identity), input' = input, NEW p \in Owed'
  PROVE  p \in Owed
BY StillADirectory DEF Owed

LEMMA SealsAtTheEnd == SealInv => SealsHold
<1> SUFFICES ASSUME SealInv PROVE SealsHold
  OBVIOUS
<1> QED
  BY DEF SealInv, RootSealed, SealsHold, ByCodesign, Owed, Sealed

\* The process of one nested path ends.
LEMMA CodesignKeepsSeals ==
  ASSUME SealInv, NEW q \in running, CodesignEnds(q)
  PROVE  SealInv'
<1>1. /\ pc = "nested" /\ pc' = "nested" /\ input' = input /\ added' = added
      /\ running' = running \ {q} /\ q \in running
  BY DEF CodesignEnds
<1>2. InHand' /\ AllSealed' /\ RootSealed'
  BY <1>1 DEF SealInv, InHand, AllSealed, RootSealed, Nested
<1>3. NestedSealed'
  <2> SUFFICES ASSUME ByCodesign, ~bad', NEW p \in Owed', p \notin running'
               PROVE  Sealed(tree', p, input.identity)
    BY <1>1 DEF NestedSealed, ByCodesign
  <2>1. tree' = Signed(tree, q, input.identity) /\ ~bad
    BY DEF CodesignEnds, SignedPath, ByCodesign
  <2>2. CASE p = q
    <3>1. IsDir(tree, p)
      BY <1>1, <2>1, OwedBefore DEF Owed
    <3> QED
      BY <2>1, <2>2, <3>1, SignedIsSealed
  <2>3. CASE p # q
    <3>1. q \in Nested(input, input.swift)
      BY <1>1 DEF SealInv, InHand
    <3>2. p \in Owed
      BY <1>1, <2>1, OwedBefore
    <3>3. Sealed(tree, p, input.identity)
      BY <1>1, <2>1, <2>3, <3>2 DEF SealInv, NestedSealed
    <3> QED
      BY <1>1, <2>1, <2>3, <3>1, <3>3, OthersKeepTheirSeal DEF SealInv
  <2> QED
    BY <2>2, <2>3
<1> QED
  BY <1>2, <1>3 DEF SealInv

\* The bundle itself is signed, after all that is nested in it.
LEMMA RootKeepsSeals ==
  ASSUME SealInv, SignRoot
  PROVE  SealInv'
<1>1. pc = "root" /\ pc' = "save" /\ input' = input /\ added' = added /\ bad' = bad
  BY DEF SignRoot
<1>2. InHand' /\ NestedSealed' /\ AllSealed'
  BY <1>1 DEF SealInv, InHand, NestedSealed, AllSealed
<1>3. RootSealed'
  <2> SUFFICES ASSUME ByCodesign, NEW p \in {<<>>} \cup Owed'
               PROVE  Sealed(tree', p, input.identity)
    BY <1>1 DEF RootSealed, ByCodesign
  <2>1. tree' = Signed(tree, <<>>, input.identity)
    BY NothingSkipped DEF SignRoot, SignedRoot, ByCodesign
  <2>2. CASE p = <<>>
    BY <2>1, <2>2, SignedIsSealed DEF IsDir
  <2>3. CASE p # <<>>
    <3>1. p \in Owed' /\ p \in Owed
      BY <1>1, <2>1, <2>3, OwedBefore
    <3>2. Sealed(tree, p, input.identity)
      BY <1>1, <3>1 DEF SealInv, AllSealed
    <3> QED
      BY <1>1, <2>1, <2>3, <3>1, <3>2, OthersKeepTheirSeal DEF SealInv
  <2> QED
    BY <2>2, <2>3
<1> QED
  BY <1>2, <1>3 DEF SealInv

\* A bundle signed by codesign ends with seals that hold, of the bundle and of
\* every directory signed on copy that holds nothing else to sign: whatever the
\* order in which the processes end (codesign_bundle.py:593).
THEOREM SealsAreWhole == Spec => []SealsHold
<1>1. Init => SealInv
  BY DEF Init, SealInv, InHand, NestedSealed, AllSealed, RootSealed
<1>2. SealInv /\ [Next]_vars => SealInv'
  <2> SUFFICES ASSUME SealInv, [Next]_vars PROVE SealInv'
    OBVIOUS
  <2> USE DEF SealInv, InHand, NestedSealed, AllSealed, RootSealed
  <2>1. CASE NoContext \/ Start
    BY <2>1 DEF NoContext, Start, Failed
  <2>2. CASE Assemble
    BY <2>2 DEF Assemble, Failed
  <2>3. CASE Swift
    <3>1. input' = input /\ (pc' = "failed" \/ pc' = IF input.codesign THEN "prepare" ELSE "save")
          /\ (pc' # "failed" => added' = input.swift)
      BY <2>3 DEF Swift, Failed
    <3> QED
      BY <3>1 DEF ByCodesign
  <2>4. CASE Prepare
    BY <2>4 DEF Prepare
  <2>5. CASE Spawn
    <3>1. /\ pc = "spawn" /\ pc' = "nested" /\ input' = input /\ added' = added
          /\ running' = ToSign /\ added = input.swift
      BY <2>5 DEF Spawn
    <3>2. ToSign \subseteq Nested(input, added)
      BY DEF ToSign
    <3>3. ByCodesign => ToSign = Nested(input, added)
      BY NothingSkipped
    <3>4. InHand'
      BY <3>1, <3>2 DEF Nested
    <3>5. NestedSealed'
      BY <3>1, <3>3 DEF ByCodesign, Owed, Nested
    <3> QED
      BY <3>1, <3>4, <3>5
  <2>6. CASE KeychainRefused \/ SaveFails \/ Dies
    BY <2>6 DEF KeychainRefused, SaveFails, Dies, Failed
  <2>7. CASE \E p \in running : CodesignEnds(p)
    BY <2>7, CodesignKeepsSeals
  <2>8. CASE CheckResults
    <3>1. /\ pc = "nested" /\ running = {} /\ tree' = tree /\ input' = input
          /\ \/ bad /\ pc' = "failed"
             \/ ~bad /\ pc' = "root" /\ added' = added
      BY <2>8 DEF CheckResults, AllWaited, Failed
    <3>2. Owed' = Owed /\ (ByCodesign' <=> ByCodesign)
      BY <3>1 DEF Owed, ByCodesign
    <3> QED
      BY <3>1, <3>2
  <2>9. CASE SignRoot
    BY <2>9, RootKeepsSeals
  <2>10. CASE Save
    BY <2>10 DEF Save, Owed, ByCodesign
  <2>11. CASE UNCHANGED vars
    BY <2>11 DEF vars, Owed, ByCodesign
  <2> QED
    BY <2>1, <2>2, <2>3, <2>4, <2>5, <2>6, <2>7, <2>8, <2>9, <2>10, <2>11 DEF Next
<1> QED
  BY <1>1, <1>2, SealsAtTheEnd, PTL DEF Spec
-----------------------------------------------------------------------------
(* The choice of a profile *)

\* What was taken of a profile that matched.
IsMatch(m, f) ==
  /\ m[1] = f /\ m[3] = MatchLength(case.bundle, f.pattern) /\ m[3] > 0
  /\ m[2] \in Range(ids) /\ m[2].fingerprint \in f.certs
  /\ f.team # None /\ (Team = None \/ Team = f.team) /\ EntitlementsMatch(f)

\* The profiles that were compared: each match is one of them, and all that
\* suit the app now are among the matches.
ComparedAt(at) ==
  /\ at \in [1..Len(matching) -> 1..(n - 1)]
  /\ \A j \in 1..Len(matching) : IsMatch(matching[j], case.files[at[j]])
  /\ \A i \in 1..(n - 1) : Suits(case.files[i]) => \E j \in 1..Len(matching) : at[j] = i
Compared == \E at \in [1..Len(matching) -> 1..(n - 1)] : ComparedAt(at)

Mismatches == [why : Reasons, file : Range(case.files), length : Nat]

Gathering ==
  /\ case \in Cases /\ now \in Nat /\ n \in 1..(Len(case.files) + 1)
  /\ ids \in Seq(Range(case.identities))
  /\ matching \in Seq(Range(case.files) \X Range(ids) \X Nat) /\ mismatches \in Seq(Mismatches)
  /\ stage \in {"start", "identities", "read", "entitlements"} => n = 1 /\ matching = <<>>
  /\ stage \notin {"compare", "ended", "prepare"} => mismatches = <<>>
  /\ stage \in {"entitlements", "compare"} => case.files # <<>>
  /\ stage = "compare" => Len(matching) + Len(mismatches) = n - 1

\* Nothing is decided or prepared before its time.
Undecided ==
  /\ stage \notin {"prepare", "ended"} => outcome.is = None
  /\ stage # "ended" => prepared = <<>> /\ info = case.info

SelectionInv == Gathering /\ Compared /\ Undecided /\ SelectionIsJust

LEMMA InRange ==
  ASSUME NEW T, NEW s \in Seq(T)
  PROVE  /\ \A i \in 1..Len(s) : s[i] \in Range(s) /\ s[i] \in T
         /\ \A x \in Range(s) : x \in T /\ \E i \in 1..Len(s) : x = s[i]
BY DEF Range

LEMMA CaseIs ==
  ASSUME case \in Cases
  PROVE  /\ case.files \in Seq(Range(case.files)) /\ Len(case.files) \in Nat
         /\ case.identities \in Seq(Range(case.identities)) /\ Len(case.bundle) \in Nat
         /\ ~case.hasEntitlements => DOMAIN case.entitlements = {}
         /\ \A f \in Range(case.files) : f.expires \in Nat /\ Len(f.pattern.id) \in Nat
<1>1. /\ case.files \in Seq(Range(case.files)) /\ case.identities \in Seq(Range(case.identities))
      /\ case.bundle \in Seq(Range(case.bundle)) /\ (~case.hasEntitlements => DOMAIN case.entitlements = {})
      /\ \A f \in Range(case.files) : f.expires \in Nat /\ f.pattern.id \in Seq(Range(f.pattern.id))
  BY CaseAssumption
<1>2. \A f \in Range(case.files) : Len(f.pattern.id) \in Nat
  <2> SUFFICES ASSUME NEW f \in Range(case.files) PROVE Len(f.pattern.id) \in Nat
    OBVIOUS
  <2>1. f.pattern.id \in Seq(Range(f.pattern.id))
    BY <1>1
  <2>2. QED BY <2>1
<1>3. Len(case.files) \in Nat /\ Len(case.bundle) \in Nat
  BY <1>1
<1>4. QED BY <1>1, <1>2, <1>3

LEMMA FilesAre ==
  ASSUME case \in Cases
  PROVE  /\ \A i \in 1..Len(case.files) : case.files[i] \in Range(case.files)
         /\ \A g \in Range(case.files) : \E i \in 1..Len(case.files) : g = case.files[i]
<1> DEFINE files == case.files
<1>1. files \in Seq(Range(files))
  BY CaseIs
<1> HIDE DEF files
<1>2. /\ \A i \in 1..Len(files) : files[i] \in Range(files)
      /\ \A g \in Range(files) : \E i \in 1..Len(files) : g = files[i]
  BY <1>1, InRange
<1>3. QED BY <1>2 DEF files

\* A name matches a pattern with the length of what stands before a wildcard.
LEMMA LengthIs ==
  ASSUME case \in Cases, NEW f \in Range(case.files)
  PROVE  /\ MatchLength(case.bundle, f.pattern) \in Nat
         /\ MatchLength(case.bundle, f.pattern) > 0
            <=> IF f.pattern.wildcard THEN IsPrefix(f.pattern.id, case.bundle) ELSE f.pattern.id = case.bundle
         /\ MatchLength(case.bundle, f.pattern) > 0
            => MatchLength(case.bundle, f.pattern) = Len(f.pattern.id) + 1
<1>1. Len(f.pattern.id) \in Nat
  BY CaseIs
<1>2. QED BY <1>1 DEF MatchLength

LEMMA CertifiedIs ==
  ASSUME NEW T, ids \in Seq(T), NEW f
  PROVE  /\ Certified(f) = <<>> <=> ~\E i \in Range(ids) : i.fingerprint \in f.certs
         /\ Certified(f) # <<>> => Head(Certified(f)) \in Range(ids) /\ Head(Certified(f)).fingerprint \in f.certs
<1> DEFINE S == {i \in Range(ids) : i.fingerprint \in f.certs}
<1>1. Certified(f) = Only(ids, S) /\ Only(ids, S) \in Seq(T)
  BY OnlyType DEF Certified
<1> HIDE DEF S
<1>2. Only(ids, S) = <<>> <=> \A k \in 1..Len(ids) : ids[k] \notin S
  BY OnlyEmpty
<1>3. ASSUME Only(ids, S) # <<>> PROVE Head(Only(ids, S)) \in S
  <2>1. 1 \in 1..Len(Only(ids, S)) /\ Head(Only(ids, S)) = Only(ids, S)[1]
    BY <1>1, <1>3
  <2>2. \A i \in 1..Len(Only(ids, S)) : Only(ids, S)[i] \in S
    BY OnlyElements
  <2>3. QED BY <2>1, <2>2
<1>4. (\A k \in 1..Len(ids) : ids[k] \notin S) <=> ~\E i \in Range(ids) : i.fingerprint \in f.certs
  <2>1. /\ \A k \in 1..Len(ids) : ids[k] \in Range(ids)
        /\ \A x \in Range(ids) : \E k \in 1..Len(ids) : x = ids[k]
    BY InRange
  <2>2. QED BY <2>1, Zenon DEF S
<1>5. QED BY <1>1, <1>2, <1>3, <1>4 DEF S

\* A profile that is passed over does not suit, and one that is not was
\* compared with all that is asked.
LEMMA MismatchIs ==
  ASSUME case \in Cases, now \in Nat, NEW T, ids \in Seq(T), NEW f \in Range(case.files)
  PROVE  /\ Mismatch(f) = None =>
              /\ MatchLength(case.bundle, f.pattern) > 0 /\ EntitlementsMatch(f)
              /\ Certified(f) # <<>> /\ (Team = None \/ Team = f.team)
         /\ Mismatch(f) # None => Mismatch(f) \in Reasons /\ ~Suits(f)
<1> DEFINE length == MatchLength(case.bundle, f.pattern)
<1>1. length \in Nat /\ f.expires \in Nat
  BY LengthIs, CaseIs
<1>2. Mismatch(f) = IF Team # None /\ Team # f.team THEN "team"
                    ELSE IF length = 0 THEN "bundle"
                    ELSE IF now > f.expires THEN "expired"
                    ELSE IF case.platform # None /\ case.platform \notin f.platforms THEN "platform"
                    ELSE IF ~EntitlementsMatch(f) THEN "entitlements"
                    ELSE IF Certified(f) = <<>> THEN "certificate" ELSE None
  BY DEF Mismatch
<1>3. Suits(f) => length > 0 /\ ~(now > f.expires) /\ Certified(f) # <<>> /\ EntitlementsMatch(f)
                  /\ (Team = None \/ Team = f.team)
                  /\ (case.platform = None \/ case.platform \in f.platforms)
  BY <1>1, LengthIs, CertifiedIs DEF Suits
<1> HIDE DEF length
<1>4. Mismatch(f) = None => length # 0 /\ EntitlementsMatch(f) /\ Certified(f) # <<>>
                            /\ (Team = None \/ Team = f.team)
  BY <1>2 DEF None
<1>5. Mismatch(f) # None => Mismatch(f) \in Reasons /\ ~Suits(f)
  BY <1>2, <1>3 DEF None, Reasons
<1>6. QED BY <1>1, <1>4, <1>5 DEF length

\* Fewer profiles suit as time goes on.
LEMMA FewerSuit ==
  ASSUME UNCHANGED <<case, ids>>, now \in Nat, now' \in Nat, now <= now', NEW f, f.expires \in Nat, Suits(f)'
  PROVE  Suits(f)
BY DEF Suits, EntitlementsMatch, Allows, Team

LEMMA StaysCompared ==
  ASSUME Gathering, Compared, UNCHANGED <<case, ids, n, matching>>, now' \in Nat, now <= now'
  PROVE  Compared'
<1>1. PICK at \in [1..Len(matching) -> 1..(n - 1)] :
        /\ \A j \in 1..Len(matching) : IsMatch(matching[j], case.files[at[j]])
        /\ \A i \in 1..(n - 1) : Suits(case.files[i]) => \E j \in 1..Len(matching) : at[j] = i
  BY DEF Compared, ComparedAt
<1>2. \A j \in 1..Len(matching) : IsMatch(matching[j], case.files[at[j]])'
  BY <1>1 DEF IsMatch, EntitlementsMatch, Allows, Team
<1>3. ASSUME NEW i \in 1..(n - 1), Suits(case.files[i])' PROVE \E j \in 1..Len(matching) : at[j] = i
  <2>1. case.files[i] \in Range(case.files)
    <3>1. i \in 1..Len(case.files)
      BY CaseIs DEF Gathering
    <3>2. QED BY <3>1, CaseIs, InRange DEF Gathering
  <2>2. case.files[i].expires \in Nat
    BY <2>1, CaseIs DEF Gathering
  <2>3. Suits(case.files[i])
    BY <1>3, <2>2, FewerSuit DEF Gathering
  <2>4. QED BY <1>1, <2>3
<1>4. QED BY <1>1, <1>2, <1>3 DEF Compared, ComparedAt

\* While nothing is decided there is nothing to say of a choice.
LEMMA ReasonsGiven ==
  ASSUME mismatches \in Seq(Mismatches)
  PROVE  \A m \in Range(mismatches) : m.why \in Reasons
<1> SUFFICES ASSUME NEW m \in Range(mismatches) PROVE m.why \in Reasons
  OBVIOUS
<1>1. m \in Mismatches
  BY InRange, Zenon
<1>2. QED BY <1>1 DEF Mismatches

LEMMA UndecidedIsJust ==
  ASSUME mismatches \in Seq(Mismatches), outcome.is = None, prepared = <<>>
  PROVE  SelectionIsJust
<1>1. \A m \in Range(mismatches) : m.why \in Reasons
  BY ReasonsGiven
<1>2. QED BY <1>1 DEF SelectionIsJust, BestIsSelected, RefusedForAReason, NoAppId, EntitlementsKept, None

\* What ends a selection before profiles are compared.
LEMMA EarlyEnd ==
  ASSUME SelectionInv, stage \in {"start", "identities", "read", "entitlements"}, NEW o, End(o),
         UNCHANGED <<prepared, info, n>>, ids' \in Seq(Range(case.identities)),
         o.is \in {"ad-hoc", "refused", "no-identity", "raised", "no-profiles"},
         o.is = "refused" => ~case.dir \/ case.wanted = None,
         o.is = "no-identity" => case.adhoc /\ \A i \in Range(Identities) : i.name # case.wanted,
         o.is = "raised" => case.broken # {} \/ NoAppId \/ \E f \in Range(case.files) : ~f.readable,
         o.is = "no-profiles" => case.files = <<>>
  PROVE  SelectionInv'
<1>1. /\ UNCHANGED <<case, now, matching, mismatches, prepared, info, n>> /\ n = 1
      /\ matching = <<>> /\ mismatches = <<>> /\ outcome' = o /\ stage' = "ended" /\ prepared = <<>>
  BY DEF SelectionInv, Gathering, Undecided, End
<1>2. Gathering'
  <2>1. case' \in Cases /\ now' \in Nat /\ n' \in 1..(Len(case.files) + 1)
    BY <1>1 DEF SelectionInv, Gathering
  <2>2. matching' \in Seq(Range(case.files) \X Range(ids') \X Nat) /\ mismatches' \in Seq(Mismatches)
    BY <1>1
  <2>3. QED BY <1>1, <2>1, <2>2 DEF Gathering, Mismatches
<1>3. Compared'
  <2> DEFINE none == [j \in 1..0 |-> 0]
  <2>1. \A j \in 1..0 : FALSE
    OBVIOUS
  <2>2. none \in [1..0 -> 1..0]
    BY <2>1, Zenon
  <2>3. Len(matching') = 0 /\ n' - 1 = 0
    BY <1>1
  <2> HIDE DEF none
  <2>4. QED BY <2>1, <2>2, <2>3, Zenon DEF Compared, ComparedAt
<1>4. Undecided'
  BY <1>1 DEF Undecided
<1>5. SelectionIsJust'
  <2>1. \A m \in Range(mismatches') : m.why \in Reasons
    BY <1>1 DEF Range
  <2>2. o.is = "no-profiles" => \A f \in Range(case.files) : ~Suits(f)'
    BY DEF Range
  <2>3. (RefusedForAReason)'
    BY <1>1, <2>1, <2>2 DEF RefusedForAReason, NoAppId, Identities
  <2>4. QED BY <1>1, <2>3 DEF SelectionIsJust, BestIsSelected, EntitlementsKept
<1>6. QED BY <1>2, <1>3, <1>4, <1>5 DEF SelectionInv

LEMMA SelectionStarts == SelectionInit => SelectionInv
<1> SUFFICES ASSUME SelectionInit PROVE SelectionInv
  OBVIOUS
<1>1. /\ case \in Cases /\ now = 0 /\ stage = "start" /\ ids = <<>> /\ n = 1
      /\ matching = <<>> /\ mismatches = <<>> /\ outcome.is = None /\ prepared = <<>> /\ info = case.info
  BY DEF SelectionInit
<1>2. Gathering
  <2>1. n \in 1..(Len(case.files) + 1)
    BY <1>1, CaseIs
  <2>2. QED BY <1>1, <2>1 DEF Gathering
<1>3. Compared
  <2> DEFINE none == [j \in 1..0 |-> 0]
  <2>1. \A j \in 1..0 : FALSE
    OBVIOUS
  <2>2. none \in [1..0 -> 1..0]
    BY <2>1, Zenon
  <2>3. Len(matching) = 0 /\ n - 1 = 0
    BY <1>1
  <2> HIDE DEF none
  <2>4. QED BY <2>1, <2>2, <2>3, Zenon DEF Compared, ComparedAt
<1>4. Undecided
  BY <1>1 DEF Undecided
<1>5. SelectionIsJust
  BY <1>1, UndecidedIsJust
<1>6. QED BY <1>2, <1>3, <1>4, <1>5 DEF SelectionInv

LEMMA TickStep == SelectionInv /\ Tick => SelectionInv'
<1> SUFFICES ASSUME SelectionInv, Tick PROVE SelectionInv'
  OBVIOUS
<1>1. /\ now' = now + 1 /\ stage = "compare" /\ now \in Nat
      /\ UNCHANGED <<case, stage, ids, n, matching, mismatches, outcome, prepared, info>>
  BY DEF Tick, SelectionInv, Gathering
<1>2. Gathering'
  BY <1>1 DEF SelectionInv, Gathering, Mismatches
<1>3. Compared'
  BY <1>1, StaysCompared DEF SelectionInv
<1>4. Undecided'
  BY <1>1 DEF SelectionInv, Undecided
<1>5. SelectionIsJust'
  <2>1. mismatches \in Seq(Mismatches) /\ outcome.is = None /\ prepared = <<>>
    BY <1>1 DEF SelectionInv, Gathering, Undecided
  <2>2. \A m \in Range(mismatches) : m.why \in Reasons
    BY <2>1, ReasonsGiven
  <2>3. QED BY <1>1, <2>1, <2>2
        DEF SelectionIsJust, BestIsSelected, RefusedForAReason, NoAppId, EntitlementsKept, None
<1>6. QED BY <1>2, <1>3, <1>4, <1>5 DEF SelectionInv

LEMMA IdsType ==
  ASSUME case \in Cases
  PROVE  /\ Identities \in Seq(Range(case.identities)) /\ Named \in Seq(Range(case.identities))
         /\ Named # <<>> => <<Head(Named)>> \in Seq(Range(case.identities))
<1>1. case.identities \in Seq(Range(case.identities))
  BY CaseIs
<1>2. Identities \in Seq(Range(case.identities))
  BY <1>1, OnlyType, Zenon DEF Identities
<1>3. Named \in Seq(Range(case.identities))
  BY <1>2, OnlyType, Zenon DEF Named
<1>4. QED BY <1>2, <1>3

\* What goes on before profiles are compared.
LEMMA EarlyStep ==
  ASSUME SelectionInv, stage \in {"start", "identities", "read", "entitlements"}, ids' \in Seq(Range(case.identities)),
         stage' \in {"identities", "read", "entitlements", "compare"},
         stage' \in {"entitlements", "compare"} => case.files # <<>>,
         UNCHANGED <<case, now, n, matching, mismatches, outcome, prepared, info>>
  PROVE  SelectionInv'
<1>1. /\ n = 1 /\ matching = <<>> /\ mismatches = <<>> /\ prepared = <<>> /\ outcome.is = None
      /\ mismatches \in Seq(Mismatches)
  BY DEF SelectionInv, Gathering, Undecided
<1>2. Gathering'
  BY <1>1 DEF SelectionInv, Gathering, Mismatches
<1>3. Compared'
  <2> DEFINE none == [j \in 1..0 |-> 0]
  <2>1. \A j \in 1..0 : FALSE
    OBVIOUS
  <2>2. none \in [1..0 -> 1..0]
    BY <2>1, Zenon
  <2>3. Len(matching') = 0 /\ n' - 1 = 0
    BY <1>1
  <2> HIDE DEF none
  <2>4. QED BY <2>1, <2>2, <2>3, Zenon DEF Compared, ComparedAt
<1>4. Undecided'
  BY <1>1 DEF SelectionInv, Undecided
<1>5. SelectionIsJust'
  <2>1. \A m \in Range(mismatches) : m.why \in Reasons
    BY <1>1, ReasonsGiven
  <2>2. QED BY <1>1, <2>1
        DEF SelectionIsJust, BestIsSelected, RefusedForAReason, NoAppId, EntitlementsKept, None
<1>6. QED BY <1>2, <1>3, <1>4, <1>5 DEF SelectionInv

LEMMA SigningContextStep == SelectionInv /\ SigningContext => SelectionInv'
<1> SUFFICES ASSUME SelectionInv, SigningContext PROVE SelectionInv'
  OBVIOUS
<1>1. /\ UNCHANGED <<ids, n, prepared, info>> /\ stage = "start" /\ ids' \in Seq(Range(case.identities))
  BY DEF SigningContext, SelectionInv, Gathering
<1>2. CASE case.adhoc /\ ~case.embed
  <2> DEFINE o == [is |-> "ad-hoc", identity |-> IF case.wanted = None THEN "-" ELSE case.wanted]
  <2>1. End(o) /\ o.is = "ad-hoc"
    BY <1>2 DEF SigningContext
  <2> HIDE DEF o
  <2>2. QED BY <1>1, <2>1, EarlyEnd
<1>3. CASE ~(case.adhoc /\ ~case.embed) /\ (~case.dir \/ (case.adhoc /\ case.wanted = None))
  <2> DEFINE o == [is |-> "refused"]
  <2>1. End(o) /\ o.is = "refused"
    BY <1>3 DEF SigningContext
  <2> HIDE DEF o
  <2>2. QED BY <1>1, <1>3, <2>1, EarlyEnd
<1>4. CASE /\ ~(case.adhoc /\ ~case.embed) /\ ~(~case.dir \/ (case.adhoc /\ case.wanted = None))
           /\ "info" \in case.broken
  <2> DEFINE o == [is |-> "raised"]
  <2>1. End(o) /\ o.is = "raised"
    BY <1>4 DEF SigningContext
  <2> HIDE DEF o
  <2>2. QED BY <1>1, <1>4, <2>1, EarlyEnd
<1>5. CASE /\ ~(case.adhoc /\ ~case.embed) /\ ~(~case.dir \/ (case.adhoc /\ case.wanted = None))
           /\ "info" \notin case.broken
  <2>1. stage' = "identities" /\ UNCHANGED <<case, now, matching, mismatches, outcome>>
    BY <1>5 DEF SigningContext
  <2>2. QED BY <1>1, <2>1, EarlyStep
<1>6. QED BY <1>2, <1>3, <1>4, <1>5

LEMMA ListIdentitiesStep == SelectionInv /\ ListIdentities => SelectionInv'
<1> SUFFICES ASSUME SelectionInv, ListIdentities PROVE SelectionInv'
  OBVIOUS
<1>1. UNCHANGED <<n, prepared, info>> /\ stage = "identities" /\ case \in Cases
  BY DEF ListIdentities, SelectionInv, Gathering
<1>4. Identities \in Seq(Range(case.identities))
  BY <1>1, IdsType
<1>2. CASE "identities" \notin case.broken /\ case.adhoc /\ Named = <<>>
  <2> DEFINE o == [is |-> "no-identity"]
  <2>1. End(o) /\ o.is = "no-identity" /\ ids' \in Seq(Range(case.identities))
    BY <1>2 DEF ListIdentities, SelectionInv, Gathering
  <2> HIDE DEF o
  <2>2. ASSUME NEW i \in Range(Identities), i.name = case.wanted PROVE FALSE
    <3>1. \E j \in 1..Len(Identities) : i = Identities[j]
      BY <1>1, <1>4, InRange
    <3>2. i \in {k \in Range(Identities) : k.name = case.wanted}
      BY <2>2
    <3>3. QED BY <1>1, <1>2, <1>4, <3>1, <3>2, OnlyEmpty DEF Named
  <2>3. QED BY <1>1, <1>2, <2>1, <2>2, EarlyEnd
<1>3. CASE "identities" \notin case.broken /\ ~(case.adhoc /\ Named = <<>>)
  <2>1. /\ stage' = "read" /\ UNCHANGED <<case, now, matching, mismatches, outcome>>
        /\ ids' = IF case.adhoc THEN <<Head(Named)>> ELSE Identities
    BY <1>3 DEF ListIdentities
  <2>2. ids' \in Seq(Range(case.identities))
    BY <1>1, <1>3, <2>1, IdsType
  <2>3. QED BY <1>1, <2>1, <2>2, EarlyStep
<1>5. CASE "identities" \in case.broken
  <2> DEFINE o == [is |-> "raised"]
  <2>1. End(o) /\ o.is = "raised" /\ ids' \in Seq(Range(case.identities))
    BY <1>5 DEF ListIdentities, SelectionInv, Gathering
  <2> HIDE DEF o
  <2>2. QED BY <1>1, <1>5, <2>1, EarlyEnd
<1>6. QED BY <1>2, <1>3, <1>5

LEMMA ReadProfilesStep == SelectionInv /\ ReadProfiles => SelectionInv'
<1> SUFFICES ASSUME SelectionInv, ReadProfiles PROVE SelectionInv'
  OBVIOUS
<1>1. UNCHANGED <<ids, n, prepared, info>> /\ stage = "read" /\ ids' \in Seq(Range(case.identities))
  BY DEF ReadProfiles, SelectionInv, Gathering
<1> DEFINE fails == "profiles" \in case.broken \/ \E f \in Range(case.files) : ~Readable(f)
<1>2. CASE fails
  <2> DEFINE o == [is |-> "raised"]
  <2>1. End(o) /\ o.is = "raised" /\ (case.broken # {} \/ \E f \in Range(case.files) : ~f.readable)
    BY <1>2 DEF ReadProfiles, Readable
  <2> HIDE DEF o
  <2>2. QED BY <1>1, <2>1, EarlyEnd
<1>3. CASE ~fails /\ case.files = <<>>
  <2> DEFINE o == [is |-> "no-profiles"]
  <2>1. End(o) /\ o.is = "no-profiles"
    BY <1>3, Zenon DEF ReadProfiles
  <2> HIDE DEF o
  <2>2. QED BY <1>1, <1>3, <2>1, EarlyEnd
<1>4. CASE ~fails /\ case.files # <<>>
  <2>1. stage' = "entitlements" /\ UNCHANGED <<case, now, matching, mismatches, outcome>>
    BY <1>4, Zenon DEF ReadProfiles
  <2>2. QED BY <1>1, <1>4, <2>1, EarlyStep
<1>5. QED BY <1>2, <1>3, <1>4

LEMMA ReadEntitlementsStep == SelectionInv /\ ReadEntitlements => SelectionInv'
<1> SUFFICES ASSUME SelectionInv, ReadEntitlements PROVE SelectionInv'
  OBVIOUS
<1>1. /\ UNCHANGED <<ids, n, prepared, info>> /\ stage = "entitlements" /\ ids' \in Seq(Range(case.identities))
      /\ case.files # <<>>
  BY DEF ReadEntitlements, SelectionInv, Gathering
<1> DEFINE fails == (case.hasEntitlements /\ "entitlements" \in case.broken) \/ NoAppId
<1>2. CASE fails
  <2> DEFINE o == [is |-> "raised"]
  <2>1. End(o) /\ o.is = "raised" /\ (case.broken # {} \/ NoAppId)
    BY <1>2 DEF ReadEntitlements
  <2> HIDE DEF o
  <2>2. QED BY <1>1, <2>1, EarlyEnd
<1>3. CASE ~fails
  <2>1. stage' = "compare" /\ UNCHANGED <<case, now, matching, mismatches, outcome>>
    BY <1>3 DEF ReadEntitlements
  <2>2. QED BY <1>1, <2>1, EarlyStep
<1>4. QED BY <1>2, <1>3

\* One more profile that does not suit, or one more match.
LEMMA ComparesNext ==
  ASSUME SelectionInv, n \in 1..Len(case.files), n' = n + 1, UNCHANGED <<case, now, ids>>,
         \/ matching' = matching /\ ~Suits(case.files[n])
         \/ \E m \in Range(case.files) \X Range(ids) \X Nat :
              matching' = Append(matching, m) /\ IsMatch(m, case.files[n])
  PROVE  Compared'
<1>1. PICK at \in [1..Len(matching) -> 1..(n - 1)] :
        /\ \A j \in 1..Len(matching) : IsMatch(matching[j], case.files[at[j]])
        /\ \A i \in 1..(n - 1) : Suits(case.files[i]) => \E j \in 1..Len(matching) : at[j] = i
  BY DEF SelectionInv, Compared, ComparedAt
<1>2. n' - 1 = n /\ n \in Nat /\ \A i \in 1..n : i = n \/ i \in 1..(n - 1)
  BY DEF SelectionInv, Gathering
<1>3. (\A f : Suits(f)' <=> Suits(f)) /\ (\A m, f : IsMatch(m, f)' <=> IsMatch(m, f))
  BY SMTT(30) DEF Suits, IsMatch, EntitlementsMatch, Allows, Team
<1>4. CASE matching' = matching /\ ~Suits(case.files[n])
  <2>1. at \in [1..Len(matching) -> 1..n]
    BY <1>2
  <2>2. \A i \in 1..n : Suits(case.files[i]) => \E j \in 1..Len(matching) : at[j] = i
    BY <1>1, <1>2, <1>4
  <2>3. (at \in [1..Len(matching) -> 1..(n - 1)])'
    BY <1>2, <1>4, <2>1
  <2>4. \A j \in 1..Len(matching') : IsMatch(matching[j], case.files[at[j]])'
    BY <1>1, <1>3, <1>4
  <2>5. \A i \in 1..(n' - 1) : Suits(case.files[i])' => \E j \in 1..Len(matching') : at[j] = i
    BY <1>2, <1>3, <1>4, <2>2
  <2>6. QED BY <2>3, <2>4, <2>5 DEF Compared, ComparedAt
<1>5. ASSUME NEW m \in Range(case.files) \X Range(ids) \X Nat,
             matching' = Append(matching, m), IsMatch(m, case.files[n])
      PROVE  Compared'
  <2> DEFINE on == [j \in 1..Len(matching') |-> IF j = Len(matching') THEN n ELSE at[j]]
  <2>1. /\ Len(matching) \in Nat /\ Len(matching') = Len(matching) + 1 /\ matching'[Len(matching')] = m
        /\ \A j \in 1..Len(matching) : matching'[j] = matching[j]
    BY <1>5 DEF SelectionInv, Gathering
  <2>2. \A j \in 1..Len(matching') : j # Len(matching') => j \in 1..Len(matching)
    BY <2>1
  <2>3. on \in [1..Len(matching') -> 1..n]
    BY <1>2, <2>2
  <2>4. \A j \in 1..Len(matching') : IsMatch(matching'[j], case.files[on[j]])
    BY <1>1, <1>5, <2>1, <2>2
  <2>5. Len(matching') \in 1..Len(matching') /\ 1..Len(matching) \subseteq 1..Len(matching')
        /\ \A j \in 1..Len(matching) : j # Len(matching')
    BY <2>1
  <2>6. on[Len(matching')] = n /\ \A j \in 1..Len(matching) : on[j] = at[j]
    BY <2>5
  <2> HIDE DEF on
  <2>7. \A i \in 1..n : Suits(case.files[i]) => \E j \in 1..Len(matching') : on[j] = i
    BY <1>1, <1>2, <2>5, <2>6
  <2>8. PICK next : /\ next \in [1..Len(matching') -> 1..n]
                    /\ \A j \in 1..Len(matching') : IsMatch(matching'[j], case.files[next[j]])
                    /\ \A i \in 1..n : Suits(case.files[i]) => \E j \in 1..Len(matching') : next[j] = i
    BY <2>3, <2>4, <2>7, Zenon
  <2>9. (next \in [1..Len(matching) -> 1..(n - 1)])'
    BY <1>2, <2>8
  <2>10. \A j \in 1..Len(matching') : IsMatch(matching[j], case.files[next[j]])'
    BY <1>3, <2>8
  <2>11. \A i \in 1..(n' - 1) : Suits(case.files[i])' => \E j \in 1..Len(matching') : next[j] = i
    BY <1>2, <1>3, <2>8
  <2>12. QED BY <2>9, <2>10, <2>11 DEF Compared, ComparedAt
<1>6. QED BY <1>4, <1>5

LEMMA CompareStep == SelectionInv /\ Compare => SelectionInv'
<1> SUFFICES ASSUME SelectionInv, Compare PROVE SelectionInv'
  OBVIOUS
<1> DEFINE f == case.files[n]
           why == Mismatch(f)
           length == MatchLength(case.bundle, f.pattern)
<1>1. /\ stage = "compare" /\ n' = n + 1 /\ n \in 1..Len(case.files) /\ UNCHANGED <<ids, prepared, info>>
      /\ case \in Cases /\ now \in Nat /\ ids \in Seq(Range(case.identities)) /\ Len(case.files) \in Nat
      /\ outcome.is = None /\ prepared = <<>> /\ mismatches \in Seq(Mismatches)
      /\ matching \in Seq(Range(case.files) \X Range(ids) \X Nat)
      /\ case.files # <<>> /\ Len(matching) + Len(mismatches) = n - 1
  BY CaseIs DEF Compare, SelectionInv, Gathering, Undecided
<1>2. f \in Range(case.files)
  BY <1>1, CaseIs, InRange
<1>3. length \in Nat
  BY <1>1, <1>2, LengthIs
<1>4. CASE f.team = None
  <2>1. stage' = "ended" /\ outcome' = [is |-> "raised"] /\ UNCHANGED <<case, now, matching, mismatches>>
    BY <1>4 DEF Compare, End
  <2>2. Gathering'
    BY <1>1, <2>1 DEF Gathering, Mismatches
  <2>3. Compared'
    <3>1. ~Suits(f)
      BY <1>4 DEF Suits
    <3>2. QED BY <1>1, <2>1, <3>1, ComparesNext
  <2>4. Undecided'
    BY <2>1 DEF Undecided
  <2>5. SelectionIsJust'
    <3>1. \A m \in Range(mismatches) : m.why \in Reasons
      BY <1>1, ReasonsGiven
    <3>2. QED BY <1>1, <1>2, <1>4, <2>1, <3>1
          DEF SelectionIsJust, BestIsSelected, RefusedForAReason, NoAppId, EntitlementsKept
  <2>6. QED BY <2>2, <2>3, <2>4, <2>5 DEF SelectionInv
<1>5. CASE f.team # None
  <2>1. /\ matching' = IF why # None THEN matching ELSE Append(matching, <<f, Head(Certified(f)), length>>)
        /\ mismatches' = IF why = None THEN mismatches
                         ELSE Append(mismatches, [why |-> why, file |-> f, length |-> length])
        /\ UNCHANGED <<case, now, stage, outcome>>
    BY <1>5 DEF Compare
  <2> HIDE DEF f, length, why
  <2>2. /\ mismatches' \in Seq(Mismatches) /\ matching' \in Seq(Range(case.files) \X Range(ids) \X Nat)
        /\ Len(matching') + Len(mismatches') = n' - 1 /\ Compared'
    <3>1. CASE why = None
      <4> DEFINE m == <<f, Head(Certified(f)), length>>
      <4>1. length > 0 /\ EntitlementsMatch(f) /\ Certified(f) # <<>> /\ (Team = None \/ Team = f.team)
        BY <1>1, <1>2, <3>1, MismatchIs DEF length, why
      <4>2. Head(Certified(f)) \in Range(ids) /\ Head(Certified(f)).fingerprint \in f.certs
        BY <1>1, <4>1, CertifiedIs
      <4>3. m \in Range(case.files) \X Range(ids) \X Nat
        BY <1>2, <1>3, <4>2
      <4>4. IsMatch(m, f)
        BY <1>5, <4>1, <4>2 DEF IsMatch, length
      <4>5. matching' = Append(matching, m) /\ mismatches' = mismatches
        BY <2>1, <3>1
      <4> HIDE DEF m
      <4>6. Compared'
        BY <1>1, <2>1, <4>3, <4>4, <4>5, ComparesNext DEF f
      <4>7. QED BY <1>1, <4>3, <4>5, <4>6
    <3>2. CASE why # None
      <4> DEFINE m == [why |-> why, file |-> f, length |-> length]
      <4>1. why \in Reasons /\ ~Suits(f)
        BY <1>1, <1>2, <3>2, MismatchIs DEF why
      <4>2. m \in Mismatches
        BY <1>2, <1>3, <4>1 DEF Mismatches
      <4>3. matching' = matching /\ mismatches' = Append(mismatches, m)
        BY <2>1, <3>2
      <4> HIDE DEF m
      <4>4. Compared'
        BY <1>1, <2>1, <4>1, <4>3, ComparesNext DEF f
      <4>5. QED BY <1>1, <4>2, <4>3, <4>4
    <3>3. QED BY <3>1, <3>2
  <2>3. Gathering'
    <3>1. case' = case /\ now' = now /\ ids' = ids /\ stage' = "compare" /\ n' \in 1..(Len(case.files) + 1)
      BY <1>1, <2>1
    <3>2. (case \in Cases)' /\ (now \in Nat)' /\ (n \in 1..(Len(case.files) + 1))'
          /\ (ids \in Seq(Range(case.identities)))' /\ (case.files # <<>>)'
      BY <1>1, <3>1
    <3>3. (matching \in Seq(Range(case.files) \X Range(ids) \X Nat))' /\ (mismatches \in Seq(Mismatches))'
      BY <2>2, <3>1 DEF Mismatches
    <3>4. QED BY <2>2, <3>1, <3>2, <3>3 DEF Gathering
  <2>4. Undecided'
    BY <1>1, <2>1 DEF SelectionInv, Undecided
  <2>5. SelectionIsJust'
    <3>1. \A m \in Range(mismatches') : m.why \in Reasons
      <4> SUFFICES ASSUME NEW m \in Range(mismatches') PROVE m.why \in Reasons
        OBVIOUS
      <4>1. m \in Mismatches
        BY <2>2, InRange, Zenon
      <4>2. QED BY <4>1 DEF Mismatches
    <3>2. QED BY <1>1, <2>1, <3>1
          DEF SelectionIsJust, BestIsSelected, RefusedForAReason, NoAppId, EntitlementsKept, None
  <2>6. QED BY <2>2, <2>3, <2>4, <2>5 DEF SelectionInv
<1>6. QED BY <1>4, <1>5

-----------------------------------------------------------------------------
\* The matches of the best length.
Best == {m \in Range(matching) : \A o \in Range(matching) : m[3] >= o[3]}
Matches == Range(case.files) \X Range(ids) \X Nat

LEMMA LongestIs ==
  ASSUME matching \in Seq(Matches)
  PROVE  /\ Longest \in Seq(Matches) /\ \A i \in 1..Len(Longest) : Longest[i] \in Best
         /\ \A m \in Best : \E j \in 1..Len(matching) : m = matching[j]
         /\ Longest = <<>> => matching = <<>>
         /\ Len(Longest) > 1 <=> \E j, k \in 1..Len(matching) : j # k /\ matching[j] \in Best /\ matching[k] \in Best
<1>1. Longest = Only(matching, Best)
  BY DEF Longest, Best
<1>2. /\ \A i \in 1..Len(matching) : matching[i] \in Range(matching) /\ matching[i] \in Matches
      /\ \A x \in Range(matching) : x \in Matches /\ \E i \in 1..Len(matching) : x = matching[i]
  BY InRange
<1>3. \A m \in Best : \E j \in 1..Len(matching) : m = matching[j]
  BY <1>2, Zenon DEF Best
<1>4. ASSUME Longest = <<>>, matching # <<>> PROVE FALSE
  <2> DEFINE size == [j \in 1..Len(matching) |-> matching[j][3]]
  <2>1. size \in [1..Len(matching) -> Nat]
    BY <1>2 DEF Matches
  <2> HIDE DEF size
  <2>2. PICK k \in 1..Len(matching) : \A l \in 1..Len(matching) : size[l] <= size[k]
    BY <1>4, <2>1, HasGreatest
  <2>3. \A l \in 1..Len(matching) : matching[l][3] \in Nat /\ size[l] = matching[l][3]
    BY <1>2 DEF Matches, size
  <2>4. \A l \in 1..Len(matching) : matching[k][3] >= matching[l][3]
    BY <2>2, <2>3
  <2>5. matching[k] \in Best
    BY <1>2, <2>4, Zenon DEF Best
  <2>6. QED BY <1>1, <1>4, <2>5, OnlyEmpty
<1>5. Longest \in Seq(Matches)
  BY <1>1, OnlyType
<1>6. \A i \in 1..Len(Longest) : Longest[i] \in Best
  BY <1>1, OnlyElements
<1>7. Len(Longest) > 1 <=> \E j, k \in 1..Len(matching) : j # k /\ matching[j] \in Best /\ matching[k] \in Best
  BY <1>1, OnlySeveral
<1>8. QED BY <1>3, <1>4, <1>5, <1>6, <1>7

\* What the filter leaves.
LEMMA CandidatesAre ==
  ASSUME matching \in Seq(Matches)
  PROVE  /\ Candidates \in Seq(Matches) /\ \A i \in 1..Len(Candidates) : Candidates[i] \in Best
         /\ Candidates = <<>> => matching = <<>> \/ (case.filter /\ Len(Longest) > 1)
         /\ Len(Candidates) > 1 => Len(Longest) > 1
         /\ case.filter /\ Len(Longest) > 1 => \A i \in 1..Len(Candidates) : Candidates[i][1].preferred
         /\ ~case.filter => Candidates = Longest
<1>1. /\ Longest \in Seq(Matches) /\ (\A i \in 1..Len(Longest) : Longest[i] \in Best)
      /\ (Longest = <<>> => matching = <<>>) /\ Len(Longest) \in Nat
  <2>1. Longest \in Seq(Matches)
    BY LongestIs
  <2>2. QED BY <2>1, LongestIs
<1>2. CASE Len(Longest) <= 1 \/ ~case.filter
  <2>1. Candidates = Longest
    BY <1>2 DEF Candidates
  <2>2. QED BY <1>1, <1>2, <2>1
<1>3. CASE ~(Len(Longest) <= 1 \/ ~case.filter)
  <2> DEFINE S == {m \in Range(Longest) : m[1].preferred}
  <2>1. Candidates = Only(Longest, S)
    BY <1>3 DEF Candidates
  <2> HIDE DEF S
  <2>2. \A i \in 1..Len(Candidates) : Candidates[i] \in S /\ \E k \in 1..Len(Longest) : Longest[k] = Candidates[i]
    BY <1>1, <2>1, OnlyElements
  <2>3. Candidates \in Seq(Matches)
    BY <1>1, <2>1, OnlyType
  <2>4. \A i \in 1..Len(Candidates) : Candidates[i][1].preferred
    BY <2>2 DEF S
  <2>5. \A i \in 1..Len(Candidates) : Candidates[i] \in Best
    BY <1>1, <2>2
  <2>6. Len(Longest) > 1 /\ case.filter
    BY <1>1, <1>3
  <2>7. QED BY <2>3, <2>4, <2>5, <2>6
<1>4. QED BY <1>2, <1>3

\* The mismatch that is told of came furthest.
LEMMA DiagnosisIs ==
  ASSUME mismatches \in Seq(Mismatches), Diagnosis.why # "bundle"
  PROVE  \A m \in Range(mismatches) : m.why = Diagnosis.why => m.length <= Diagnosis.length
<1> DEFINE S == {m \in Of(Latest) : \A o \in Of(Latest) : m.length >= o.length}
           told == Only(mismatches, S)
           those == Only(mismatches, Of(Latest))
<1>1. Latest # None /\ Diagnosis = Head(told)
  BY DEF Diagnosis
<1>2. Of(Latest) # {}
  BY <1>1 DEF Latest, None
<1>3. /\ \A i \in 1..Len(mismatches) : mismatches[i] \in Range(mismatches) /\ mismatches[i] \in Mismatches
      /\ \A x \in Range(mismatches) : x \in Mismatches /\ \E i \in 1..Len(mismatches) : x = mismatches[i]
  BY InRange
<1>4. \A m \in Of(Latest) : m \in Range(mismatches) /\ m.why = Latest /\ m \in Mismatches /\ m.length \in Nat
  <2>1. \A m \in Mismatches : m.length \in Nat
    BY DEF Mismatches
  <2>2. QED BY <1>3, <2>1, Zenon DEF Of
<1>5. PICK m \in Of(Latest) : \A o \in Of(Latest) : m.length >= o.length
  <2>1. those \in Seq(Mismatches) /\ those # <<>>
    BY <1>2, <1>3, <1>4, OnlyType, OnlyEmpty
  <2>2. /\ \A i \in 1..Len(those) : those[i] \in Of(Latest)
        /\ \A k \in 1..Len(mismatches) : mismatches[k] \in Of(Latest)
             => \E i \in 1..Len(those) : those[i] = mismatches[k]
    BY OnlyElements, ZenonT(30)
  <2> HIDE DEF those
  <2> DEFINE size == [i \in 1..Len(those) |-> those[i].length]
  <2>3. size \in [1..Len(those) -> Nat]
    BY <1>4, <2>2
  <2>4. \A i \in 1..Len(those) : size[i] = those[i].length
    OBVIOUS
  <2> HIDE DEF size
  <2>5. PICK k \in 1..Len(those) : \A l \in 1..Len(those) : size[l] <= size[k]
    BY <2>1, <2>3, HasGreatest
  <2>6. ASSUME NEW o \in Of(Latest) PROVE those[k].length >= o.length
    <3>1. PICK i \in 1..Len(mismatches) : mismatches[i] = o
      BY <1>3, <1>4
    <3>2. PICK l \in 1..Len(those) : those[l] = o
      BY <2>2, <2>6, <3>1
    <3>3. size[l] <= size[k] /\ size[l] = o.length /\ size[k] = those[k].length
      BY <2>4, <2>5, <3>2
    <3>4. o.length \in Nat /\ those[k].length \in Nat
      BY <1>4, <2>2
    <3>5. QED BY <3>3, <3>4
  <2>7. those[k] \in Of(Latest)
    BY <2>2
  <2>8. QED BY <2>6, <2>7
<1>6. m \in S
  BY <1>5
<1> HIDE DEF S
<1>7. told # <<>> /\ told \in Seq(Mismatches)
  <2>1. PICK i \in 1..Len(mismatches) : mismatches[i] = m
    BY <1>3, <1>4
  <2>2. told \in Seq(Mismatches)
    BY OnlyType
  <2>3. mismatches[i] \in S
    BY <1>6, <2>1
  <2>4. told # <<>>
    BY <2>3, OnlyEmpty
  <2>5. QED BY <2>2, <2>4
<1>8. \A i \in 1..Len(told) : told[i] \in S
  BY OnlyElements
<1> HIDE DEF told
<1>9. Diagnosis \in S
  <2>1. 1 \in 1..Len(told) /\ Head(told) = told[1]
    BY <1>7
  <2>2. QED BY <1>1, <1>8, <2>1
<1>10. Diagnosis \in Of(Latest) /\ \A o \in Of(Latest) : Diagnosis.length >= o.length
  BY <1>9 DEF S
<1>11. ASSUME NEW o \in Range(mismatches), o.why = Diagnosis.why PROVE o.length <= Diagnosis.length
  <2>1. o \in Of(Latest)
    BY <1>4, <1>10, <1>11 DEF Of
  <2>2. QED BY <1>4, <1>10, <2>1
<1>12. QED BY <1>11

\* Nothing is said of an end but the reasons for it.
LEMMA EndIsJust ==
  ASSUME NEW o, End(o), prepared' = <<>>, o.is \in {"no-match", "ambiguous", "raised"},
         \A m \in Range(mismatches) : m.why \in Reasons,
         o.is = "no-match" => (\A f \in Range(case.files) : ~Suits(f)') \/ (case.filter /\ Len(matching) > 1),
         o.is = "ambiguous" => case.strict /\ Len(matching) > 1,
         o.is = "raised" => case.broken # {} \/ (case.filter /\ Len(matching) > 1),
         o.is = "no-match" /\ o.report.why # "bundle" =>
           \A m \in Range(mismatches) : m.why = o.report.why => m.length <= o.report.length
  PROVE  SelectionIsJust'
<1>1. outcome' = o /\ UNCHANGED <<case, matching, mismatches>>
  BY DEF End
<1>2. RefusedForAReason'
  BY <1>1 DEF RefusedForAReason, NoAppId
<1>3. QED BY <1>1, <1>2 DEF SelectionIsJust, BestIsSelected, EntitlementsKept

\* The lengths of the matches compare as the patterns do.
LEMMA LengthsCompare ==
  ASSUME NEW f, NEW g, Len(f.pattern.id) \in Nat, Len(g.pattern.id) \in Nat
  PROVE  /\ (Len(f.pattern.id) + 1 >= Len(g.pattern.id) + 1) <=> ~MoreSpecific(g, f)
         /\ (~MoreSpecific(f, g) /\ ~MoreSpecific(g, f)) <=> (Len(g.pattern.id) + 1 = Len(f.pattern.id) + 1)
<1>1. \A x, y \in Nat : ((x + 1 >= y + 1) <=> ~(y > x)) /\ ((~(x > y) /\ ~(y > x)) <=> (y + 1 = x + 1))
  OBVIOUS
<1>2. QED BY <1>1, Zenon DEF MoreSpecific

\* All profiles were compared and one of the best matches is taken.
LEMMA BestIsTaken ==
  ASSUME SelectionInv, stage = "compare", n > Len(case.files), Candidates # <<>>,
         ~(Len(Candidates) > 1 /\ case.strict)
  PROVE  IsBest(Last(Candidates))
<1>1. /\ case \in Cases /\ case.files \in Seq(Range(case.files)) /\ matching \in Seq(Matches) /\ Len(case.files) \in Nat
      /\ n - 1 = Len(case.files)
  BY CaseIs DEF SelectionInv, Gathering, Matches
<1>2. PICK at \in [1..Len(matching) -> 1..(n - 1)] : ComparedAt(at)
  BY DEF SelectionInv, Compared
<1>3. /\ at \in [1..Len(matching) -> 1..Len(case.files)]
      /\ \A j \in 1..Len(matching) : IsMatch(matching[j], case.files[at[j]])
      /\ \A i \in 1..Len(case.files) : Suits(case.files[i]) => \E j \in 1..Len(matching) : at[j] = i
  BY <1>1, <1>2 DEF ComparedAt
<1>4. /\ \A i \in 1..Len(case.files) : case.files[i] \in Range(case.files)
      /\ \A g \in Range(case.files) : \E i \in 1..Len(case.files) : g = case.files[i]
  BY <1>1, FilesAre
\* The match is one of the best.
<1>5. Len(Candidates) \in 1..Len(Candidates) /\ Last(Candidates) = Candidates[Len(Candidates)]
  <2>1. Candidates \in Seq(Matches)
    BY <1>1, CandidatesAre
  <2>2. QED BY <2>1 DEF Last
<1>6. PICK c \in Best : c = Last(Candidates)
  BY <1>1, <1>5, CandidatesAre
<1>7. PICK k \in 1..Len(matching) : c = matching[k]
  BY <1>1, <1>6, LongestIs
<1>8. PICK f \in Range(case.files) : f = c[1] /\ IsMatch(c, f)
  <2>1. IsMatch(c, case.files[at[k]]) /\ at[k] \in 1..Len(case.files)
    BY <1>3, <1>7
  <2>2. QED BY <1>4, <2>1 DEF IsMatch
<1>9. c[3] = Len(f.pattern.id) + 1
  <2>1. c[3] = MatchLength(case.bundle, f.pattern) /\ c[3] > 0
    BY <1>8 DEF IsMatch
  <2>2. QED BY <1>1, <2>1, LengthIs
\* A rival is among the matches.
<1>10. ASSUME NEW i \in 1..Len(case.files), Suits(case.files[i])
      PROVE  \E j \in 1..Len(matching) :
               at[j] = i /\ matching[j] \in Range(matching) /\ matching[j][3] = Len(case.files[i].pattern.id) + 1
  <2>1. PICK j \in 1..Len(matching) : at[j] = i
    BY <1>3, <1>10
  <2>2. IsMatch(matching[j], case.files[i]) /\ matching[j] \in Range(matching)
    BY <1>1, <1>3, <2>1, InRange
  <2>3. matching[j][3] = MatchLength(case.bundle, case.files[i].pattern) /\ matching[j][3] > 0
    BY <2>2 DEF IsMatch
  <2>4. matching[j][3] = Len(case.files[i].pattern.id) + 1
    BY <1>1, <1>4, <2>3, LengthIs
  <2>5. QED BY <2>1, <2>2, <2>4
<1>11. \A g \in Range(case.files) : Len(g.pattern.id) \in Nat
  BY <1>1, CaseIs
<1>12. ASSUME NEW g \in Range(case.files), Suits(g) PROVE ~MoreSpecific(g, f)
  <2>1. PICK i \in 1..Len(case.files) : g = case.files[i]
    BY <1>4
  <2>2. PICK j \in 1..Len(matching) :
          at[j] = i /\ matching[j] \in Range(matching) /\ matching[j][3] = Len(case.files[i].pattern.id) + 1
    BY <1>10, <1>12, <2>1
  <2>3. c[3] >= matching[j][3]
    BY <1>6, <2>2 DEF Best
  <2>4. Len(g.pattern.id) \in Nat /\ Len(f.pattern.id) \in Nat
    BY <1>11
  <2>5. matching[j][3] = Len(g.pattern.id) + 1
    BY <2>1, <2>2
  <2>6. QED BY <1>9, <2>3, <2>4, <2>5, LengthsCompare
\* Two rivals that are as good are two of the best matches.
<1> DEFINE Equal(i) == Suits(case.files[i]) /\ ~MoreSpecific(f, case.files[i]) /\ ~MoreSpecific(case.files[i], f)
<1>13. ASSUME NEW i \in 1..Len(case.files), Equal(i)
       PROVE  \E j \in 1..Len(matching) : at[j] = i /\ matching[j] \in Best
  <2>1. PICK j \in 1..Len(matching) :
          at[j] = i /\ matching[j] \in Range(matching) /\ matching[j][3] = Len(case.files[i].pattern.id) + 1
    BY <1>10, <1>13
  <2>2. matching[j][3] = c[3]
    <3>1. Len(case.files[i].pattern.id) \in Nat /\ Len(f.pattern.id) \in Nat
      BY <1>4, <1>8, <1>11
    <3>2. QED BY <1>9, <1>13, <2>1, <3>1, LengthsCompare
  <2>3. QED BY <1>6, <2>1, <2>2 DEF Best
<1>14. ASSUME NEW i \in 1..Len(case.files), NEW j \in 1..Len(case.files), Equal(i), Equal(j), i # j
       PROVE  Len(Longest) > 1
  <2>1. PICK x \in 1..Len(matching) : at[x] = i /\ matching[x] \in Best
    BY <1>13, <1>14
  <2>2. PICK y \in 1..Len(matching) : at[y] = j /\ matching[y] \in Best
    BY <1>13, <1>14
  <2>3. QED BY <1>1, <1>14, <2>1, <2>2, LongestIs
<1> DEFINE equal == {i \in 1..Len(case.files) : Equal(i)}
<1>15. ASSUME ~(Len(Longest) > 1) PROVE Cardinality(equal) \in Nat /\ Cardinality(equal) <= 1
  <2>1. \A x, y \in equal : x = y
    BY <1>14, <1>15
  <2> HIDE DEF equal
  <2>2. QED BY <2>1, AtMostOne, FS_CardinalityType
<1>16. case.filter /\ Len(Longest) > 1 => f.preferred
  BY <1>1, <1>5, <1>6, <1>8, CandidatesAre
<1>17. case.strict /\ ~case.filter => ~(Len(Longest) > 1)
  BY <1>1, CandidatesAre
<1>18. /\ c[2].fingerprint \in f.certs /\ c[2] \in Range(ids)
       /\ f.team # None /\ (Team = None \/ Team = f.team) /\ EntitlementsMatch(f)
  BY <1>8 DEF IsMatch
<1>19. Cardinality(equal) > 1 => Len(Longest) > 1
  BY <1>15
<1> DEFINE rivals == {g \in Range(case.files) : Suits(g)}
<1>20. equal = {i \in DOMAIN case.files : case.files[i] \in rivals
                  /\ ~MoreSpecific(f, case.files[i]) /\ ~MoreSpecific(case.files[i], f)}
  <2>1. DOMAIN case.files = 1..Len(case.files)
    BY <1>1
  <2>2. \A i \in 1..Len(case.files) : case.files[i] \in rivals <=> Suits(case.files[i])
    BY <1>4, Zenon
  <2>3. QED BY <2>1, <2>2, Zenon
<1> HIDE DEF equal
<1>21. /\ case.filter /\ Cardinality(equal) > 1 => f.preferred
       /\ case.strict /\ ~case.filter => Cardinality(equal) <= 1
       /\ \A g \in rivals : ~MoreSpecific(g, f)
  BY <1>12, <1>15, <1>16, <1>17, <1>19
<1>22. IsBest(c)
  BY <1>8, <1>18, <1>20, <1>21 DEF IsBest
<1>23. QED BY <1>6, <1>22

LEMMA SelectStep == SelectionInv /\ Select => SelectionInv'
<1> SUFFICES ASSUME SelectionInv, Select PROVE SelectionInv'
  OBVIOUS
<1>1. /\ stage = "compare" /\ n > Len(case.files) /\ UNCHANGED <<ids, n, prepared, info>> /\ prepared = <<>>
      /\ UNCHANGED <<case, now, matching, mismatches>> /\ case \in Cases /\ Len(case.files) \in Nat
      /\ stage' \in {"prepare", "ended"} /\ now \in Nat /\ info = case.info
  BY CaseIs DEF Select, End, SelectionInv, Gathering, Undecided
<1>2. /\ mismatches \in Seq(Mismatches) /\ matching \in Seq(Matches) /\ case.files # <<>>
      /\ n - 1 = Len(case.files) /\ Len(matching) + Len(mismatches) = n - 1
  BY <1>1 DEF SelectionInv, Gathering, Matches
<1>3. Gathering'
  BY <1>1 DEF SelectionInv, Gathering, Mismatches
<1>4. Compared'
  BY <1>1, StaysCompared DEF SelectionInv
<1>5. Undecided'
  BY <1>1 DEF Undecided
<1>6. \A m \in Range(mismatches) : m.why \in Reasons
  BY <1>2, ReasonsGiven
<1>7. Len(Longest) > 1 => Len(matching) > 1
  <2>1. Len(Longest) > 1 => \E j, k \in 1..Len(matching) : j # k
    BY <1>2, LongestIs
  <2>2. Len(matching) \in Nat
    BY <1>2
  <2>3. QED BY <2>1, <2>2
<1> DEFINE fails == Len(Longest) > 1 /\ case.filter /\ "filter" \in case.broken
<1>12. CASE fails
  <2> DEFINE o == [is |-> "raised"]
  <2>1. End(o) /\ o.is = "raised" /\ case.broken # {}
    BY <1>12 DEF Select
  <2> HIDE DEF o
  <2>2. SelectionIsJust'
    BY <1>1, <1>6, <1>7, <1>12, <2>1, EndIsJust
  <2>3. QED BY <1>3, <1>4, <1>5, <2>2 DEF SelectionInv
<1>8. CASE ~fails /\ Candidates = <<>>
  <2>1. matching = <<>> \/ (case.filter /\ Len(matching) > 1)
    BY <1>2, <1>7, <1>8, CandidatesAre
  <2>2. CASE mismatches = <<>>
    <3> DEFINE o == [is |-> "raised"]
    <3>1. End(o) /\ o.is = "raised"
      BY <1>8, <2>2 DEF Select
    <3>2. matching # <<>>
      <4>1. Len(case.files) # 0 /\ Len(mismatches) = 0
        BY <1>2, <2>2, CaseIs, <1>1
      <4>2. QED BY <1>2, <4>1
    <3> HIDE DEF o
    <3>3. SelectionIsJust'
      BY <1>1, <1>6, <2>1, <3>1, <3>2, EndIsJust
    <3>4. QED BY <1>3, <1>4, <1>5, <3>3 DEF SelectionInv
  <2>3. CASE mismatches # <<>>
    <3> DEFINE o == [is |-> "no-match", report |-> Diagnosis]
    <3>1. End(o) /\ o.is = "no-match" /\ o.report = Diagnosis
      BY <1>8, <2>3 DEF Select
    <3>2. PICK end : end = o
      OBVIOUS
    <3>3. End(end) /\ end.is = "no-match" /\ end.report = Diagnosis
      BY <3>1, <3>2
    <3> HIDE DEF o
    <3>4. matching = <<>> => \A f \in Range(case.files) : ~Suits(f)'
      <4> SUFFICES ASSUME matching = <<>>, NEW f \in Range(case.files), Suits(f)' PROVE FALSE
        OBVIOUS
      <4>1. f.expires \in Nat
        BY <1>1, CaseIs
      <4>2. Suits(f)
        BY <1>1, <4>1, FewerSuit
      <4>3. PICK i \in 1..Len(case.files) : f = case.files[i]
        BY <1>1, FilesAre
      <4>4. PICK at \in [1..Len(matching) -> 1..(n - 1)] : ComparedAt(at)
        BY DEF SelectionInv, Compared
      <4>5. \E j \in 1..Len(matching) : at[j] = i
        BY <1>2, <4>2, <4>3, <4>4 DEF ComparedAt
      <4>6. QED BY <4>5
    <3>5. end.report.why # "bundle" =>
            \A m \in Range(mismatches) : m.why = end.report.why => m.length <= end.report.length
      BY <1>2, <3>3, DiagnosisIs
    <3>6. SelectionIsJust'
      BY <1>1, <1>6, <2>1, <3>3, <3>4, <3>5, EndIsJust
    <3>7. QED BY <1>3, <1>4, <1>5, <3>6 DEF SelectionInv
  <2>4. QED BY <2>2, <2>3
<1>9. CASE ~fails /\ Candidates # <<>> /\ Len(Candidates) > 1 /\ case.strict
  <2> DEFINE o == [is |-> "ambiguous"]
  <2>1. End(o) /\ o.is = "ambiguous"
    BY <1>9 DEF Select
  <2> HIDE DEF o
  <2>2. Len(matching) > 1
    BY <1>2, <1>7, <1>9, CandidatesAre
  <2>3. SelectionIsJust'
    BY <1>1, <1>6, <1>9, <2>1, <2>2, EndIsJust
  <2>4. QED BY <1>3, <1>4, <1>5, <2>3 DEF SelectionInv
<1>10. CASE ~fails /\ Candidates # <<>> /\ ~(Len(Candidates) > 1 /\ case.strict)
  <2>1. PICK m : m = Last(Candidates)
    OBVIOUS
  <2>2. outcome' = [is |-> "selected", match |-> m]
    BY <1>10, <2>1 DEF Select
  <2>3. IsBest(m)
    BY <1>1, <1>10, <2>1, BestIsTaken
  <2>4. IsBest(m)'
    BY <1>1, <2>3, SMTT(30) DEF IsBest, Suits, EntitlementsMatch, Allows, Team
  <2>5. outcome'.is = "selected" /\ outcome'.match = m
    BY <2>2
  <2>6. BestIsSelected'
    BY <2>4, <2>5 DEF BestIsSelected
  <2>7. RefusedForAReason'
    BY <1>1, <1>6, <2>5 DEF RefusedForAReason, NoAppId
  <2>8. EntitlementsKept'
    BY <1>1 DEF EntitlementsKept
  <2>9. QED BY <1>3, <1>4, <1>5, <2>6, <2>7, <2>8 DEF SelectionInv, SelectionIsJust
<1>11. QED BY <1>12, <1>8, <1>9, <1>10

LEMMA PrepareStep == SelectionInv /\ PrepareEntitlements => SelectionInv'
<1> SUFFICES ASSUME SelectionInv, PrepareEntitlements PROVE SelectionInv'
  OBVIOUS
<1> DEFINE f == outcome.match[1]
           own == case.entitlements
           newKeys == Restrict(f.entitlements, DOMAIN f.entitlements \cap Mergeable)
<1>1. /\ stage = "prepare" /\ stage' = "ended" /\ case \in Cases /\ info = case.info
      /\ UNCHANGED <<case, now, ids, n, matching, mismatches, outcome>>
      /\ info' = MergePlist(AdditionalKeys(f), info)
      /\ prepared' = IF case.hasEntitlements THEN Merge(own, f)
                     ELSE With(MadeUp(f), Merge(<<>>, f))
  BY DEF PrepareEntitlements, SelectionInv, Gathering, Undecided
<1>2. Gathering'
  BY <1>1 DEF SelectionInv, Gathering, Mismatches
<1>3. Compared'
  <2>1. now' \in Nat /\ now <= now'
    BY <1>1 DEF SelectionInv, Gathering
  <2>2. QED BY <1>1, <2>1, StaysCompared DEF SelectionInv
<1>4. Undecided'
  BY <1>1 DEF Undecided
<1>5. BestIsSelected' /\ RefusedForAReason'
  BY <1>1, SMTT(30) DEF SelectionInv, SelectionIsJust, BestIsSelected, IsBest, RefusedForAReason, NoAppId, Identities,
              Suits, EntitlementsMatch, Allows, Team
<1>6. AppId(f).v = <<f.team, case.bundle>>
  BY DEF AppId
<1>7. DOMAIN newKeys \subseteq Mergeable
  BY DEF Restrict
<1> HIDE DEF f, newKeys
\* The entitlements.
<1>8. /\ \A key \in DOMAIN own : prepared'[key] = own[key]
      /\ DOMAIN prepared' \subseteq DOMAIN own \cup Mergeable \cup {GroupsKey}
      /\ ~case.hasEntitlements => prepared'[AppIdKey].v = <<f.team, case.bundle>>
  <2>1. CASE case.hasEntitlements
    <3>1. prepared' = With(own, newKeys)
      BY <1>1, <2>1 DEF Merge, newKeys
    <3>2. QED BY <1>7, <2>1, <3>1 DEF With
  <2>2. CASE ~case.hasEntitlements
    <3>1. prepared' = With(MadeUp(f), With(<<>>, newKeys))
      BY <1>1, <2>2 DEF Merge, newKeys
    <3>2. DOMAIN own = {}
      BY <1>1, <2>2, CaseIs
    <3>3. DOMAIN MadeUp(f) = {AppIdKey, GroupsKey} /\ MadeUp(f)[AppIdKey] = AppId(f)
      BY DEF MadeUp
    <3>4. DOMAIN With(<<>>, newKeys) \subseteq Mergeable
      BY <1>7 DEF With
    <3>5. DOMAIN prepared' \subseteq {AppIdKey, GroupsKey} \cup Mergeable
      BY <3>1, <3>3, <3>4 DEF With
    <3>6. prepared'[AppIdKey] = AppId(f)
      BY <3>1, <3>3 DEF With
    <3>7. QED BY <1>6, <3>2, <3>5, <3>6, MergeableAssumption
  <2>3. QED BY <2>1, <2>2
\* The Info.plist.
<1>9. /\ \A key \in DOMAIN info : info'[key] = info[key]
      /\ InfoAppId \in DOMAIN info' \ DOMAIN info => info'[InfoAppId].v = <<f.team, case.bundle>>
  <2> DEFINE keys == AdditionalKeys(f)
  <2>1. \A key \in DOMAIN keys : ~keys[key].dict /\ keys[key].v = <<f.team, case.bundle>>
    BY <1>6 DEF AdditionalKeys
  <2>2. info' = MergePlist(keys, info)
    BY <1>1
  <2> HIDE DEF keys
  <2>3. QED BY <2>1, <2>2 DEF MergePlist
<1>10. EntitlementsKept'
  BY <1>1, <1>8, <1>9 DEF EntitlementsKept, f
<1>11. QED BY <1>2, <1>3, <1>4, <1>5, <1>10 DEF SelectionInv, SelectionIsJust

\* For every listing of profiles, every keychain, every request and however
\* long the comparison takes: the profile that is selected is the best of those
\* that suit the app, a selection that fails says why, and the app is signed
\* with what it declares (provisioning_profile_selection.py:189,
\* prepare_code_signing_entitlements.py:32).
THEOREM ChoiceIsJust == SelectionSpec => []SelectionIsJust
<1>1. SelectionInv /\ [SelectionNext]_selectionVars => SelectionInv'
  <2> SUFFICES ASSUME SelectionInv, [SelectionNext]_selectionVars PROVE SelectionInv'
    OBVIOUS
  <2>1. CASE UNCHANGED selectionVars
    <3>1. UNCHANGED <<case, now, stage, ids, n, matching, mismatches, outcome, prepared, info>>
      BY <2>1 DEF selectionVars
    <3>2. Gathering' /\ Undecided'
      BY <3>1 DEF SelectionInv, Gathering, Undecided, Mismatches
    <3>3. Compared'
      <4>1. now' \in Nat /\ now <= now'
        BY <3>1 DEF SelectionInv, Gathering
      <4>2. QED BY <3>1, <4>1, StaysCompared DEF SelectionInv
    <3>4. SelectionIsJust'
      BY <3>1, SMTT(30) DEF SelectionInv, SelectionIsJust, BestIsSelected, IsBest, RefusedForAReason, NoAppId, Identities,
                  EntitlementsKept, Suits, EntitlementsMatch, Allows, Team
    <3>5. QED BY <3>2, <3>3, <3>4 DEF SelectionInv
  <2>2. QED
    BY <2>1, TickStep, SigningContextStep, ListIdentitiesStep, ReadProfilesStep,
       ReadEntitlementsStep, CompareStep, SelectStep,
       PrepareStep DEF SelectionNext
<1>2. SelectionInv => SelectionIsJust
  BY DEF SelectionInv
<1>3. QED
  BY <1>1, <1>2, SelectionStarts, PTL DEF SelectionSpec
=============================================================================

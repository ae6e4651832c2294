---------------------------- MODULE AppleBundle -----------------------------
(***************************************************************************)
(* The action that builds an Apple bundle, run again and again on what the *)
(* build before it has left: it assembles the bundle, on top of the old    *)
(* one where the state file says that it may, adds the Swift libraries,    *)
(* signs nested code by parallel processes and then the bundle, and writes *)
(* the state file last. Every step may fail, and the action may be killed. *)
(***************************************************************************)
EXTENDS BundleSigning

CONSTANTS Inputs,          \* what a build may be asked for, see InputAssumption
          HasEntitlements  \* digests of the binaries the linker put entitlements in

\* The options about signing, and those about the bundle and its Swift
\* libraries; missing: an option that signing, or that the Swift libraries, need
\* is not given.
SigningOptions == [codesign : BOOLEAN, entitled : BOOLEAN, config : {"none", "fast-adhoc", "dry-run"}]
BundleOptions == [versioned : BOOLEAN, incremental : BOOLEAN, missing : SUBSET {"sign", "swift"}]

\* src: contents by path; twice: contents of second items for a path; onCopy:
\* the paths to sign on copy, with the flags and entitlements for each;
\* swift: what swift-stdlib-tool adds.
ASSUME InputAssumption == \A i \in Inputs :
  /\ Restrict(i, {"codesign", "entitled", "config"}) \in SigningOptions
  /\ Restrict(i, {"versioned", "incremental", "missing"}) \in BundleOptions
  /\ InfoPlist \in DOMAIN i.src /\ DOMAIN i.twice \subseteq DOMAIN i.src
  /\ DOMAIN i.onCopy \cup i.swift \subseteq Seq(STRING)

VARIABLES
  tree,     \* the bundle
  file,     \* the file with the incremental state
  input,    \* what the build is asked for
  prev,     \* the state it has read
  added,    \* the Swift libraries it has added
  running,  \* nested paths with a codesign process
  bad,      \* some codesign process failed
  pc,
  built,    \* history: the bundle that the last build ended with, until the next
  misplaced \* history: see Misplaced

vars == <<tree, file, input, prev, added, running, bad, pc, built, misplaced>>

NoState == [kind |-> "none"]
Void == [kind |-> "void"]      \* a file that does not parse
Working == {"assemble", "swift", "prepare", "spawn", "nested", "root", "save"}
Ended == {"ready", "done", "failed"}

Pairs(f) == SetToSeq({<<p, f[p]>> : p \in DOMAIN f})
Items(i) == Pairs(i.src) \o Pairs(i.twice)

Init ==
  /\ tree = <<>> /\ file = NoState /\ input \in Inputs /\ prev = NoState
  /\ added = {} /\ running = {} /\ bad = FALSE /\ pc = "ready"
  /\ built = <<>> /\ misplaced = FALSE

\* The action ends, and what it had in memory is gone.
Failed == pc' = "failed" /\ running' = {} /\ prev' = NoState /\ added' = {}

-----------------------------------------------------------------------------
(* should_assemble_incrementally *)

Destinations(i) ==
  DOMAIN i.onCopy \cup {<<Head(p)>> : p \in {q \in DOMAIN i.src :
                           \A c \in DOMAIN i.onCopy : ~IsPrefix(c, q)}}
PathsOf(i) == Destinations(i) \cup UNION {Parents(p) : p \in Destinations(i)}

Bug_AnyOnCopy(old, i) == TRUE
\* What was signed on copy and is still there is signed on copy as before.
SameOnCopy(old, i) == \A p \in DOMAIN old \cap PathsOf(i) :
  p \in DOMAIN i.onCopy /\ i.onCopy[p] = old[p]

ShouldAssembleIncrementally(s, i) ==
  /\ s.kind = "state" /\ s.versioned = i.versioned
  /\ s.codesigned => /\ i.codesign /\ s.identity = i.identity
                     /\ s.args = i.args /\ s.config = i.config
                     /\ SameOnCopy(s.onCopy, i)

StateOf(i, swift) ==
  [kind |-> "state", items |-> Contents(Listed(Items(i))), codesigned |-> i.codesign,
   config |-> i.config, identity |-> i.identity, args |-> i.args,
   onCopy |-> i.onCopy, swift |-> swift, versioned |-> i.versioned]

-----------------------------------------------------------------------------
\* An option is missing or signing_context_with_profile_selection raises, before
\* anything is touched.
NoContext ==
  /\ pc \in Ended
  /\ \E i \in Inputs : i.codesign /\ (i.profile # <<>> \/ "sign" \in i.missing) /\ input' = i
  /\ Failed
  /\ UNCHANGED <<tree, file, bad, built, misplaced>>

\* _read_incremental_state, which removes the file. A build that is not
\* incremental finds no output, and Buck has voided the file.
Bug_KeepState(i) ==
  /\ prev' = IF file.kind = "state" THEN file ELSE NoState
  /\ IF i.incremental THEN UNCHANGED <<file, tree>> ELSE file' = Void /\ tree' = <<>>
ReadState(i) ==
  /\ prev' = IF i.incremental THEN file ELSE NoState
  /\ IF i.incremental THEN file' = NoState /\ UNCHANGED tree
     ELSE file' = Void /\ tree' = <<>>

Start ==
  /\ pc \in Ended /\ pc' = "assemble"
  /\ \E i \in Inputs : ~(i.codesign /\ "sign" \in i.missing) /\ input' = i /\ ReadState(i)
  /\ added' = {} /\ bad' = FALSE /\ built' = <<>>
  /\ UNCHANGED <<running, misplaced>>

\* What an earlier build put into the bundle that its state does not list.
Unlisted(t, i) ==
  \/ Embedded \in DOMAIN t /\ i.profile = <<>>
  \/ <<DryEntitlements>> \in DOMAIN t /\ ~i.entitled

OnTop == ShouldAssembleIncrementally(prev, input)
Assemble ==
  /\ pc = "assemble"
  /\ LET items == Items(input)
         trees == IF OnTop
                  THEN AssembledOnTop(tree, prev.items, prev.swift, Listed(items), input.versioned)
                  ELSE AssembledAnew(items, input.versioned)
     IN  \/ trees = {} /\ Failed /\ UNCHANGED <<tree, misplaced>>
         \/ /\ tree' \in trees /\ pc' = "swift" /\ UNCHANGED <<prev, added, running>>
            /\ misplaced' = (OnTop /\ (\/ misplaced \/ Unlisted(tree, input)
                   \/ Misplaced(tree, prev.items, items, input.versioned)))
  /\ UNCHANGED <<file, input, bad, built>>

\* _swift_support_arguments, which are looked at once the bundle is changed.
SwiftArguments == input.swift # {} => "swift" \notin input.missing

\* run_swift_stdlib_tool: moves what the tool made into the frameworks.
Swift ==
  /\ pc = "swift"
  /\ IF ~SwiftArguments \/ \E p \in input.swift : p \in DOMAIN tree THEN Failed /\ UNCHANGED tree
     ELSE /\ tree' = [p \in input.swift |-> File(<<"swift">>)] @@ tree
                     @@ [p \in UNION {Parents(q) : q \in input.swift} |-> Dir]
          /\ added' = input.swift /\ UNCHANGED <<prev, running>>
          /\ pc' = IF input.codesign THEN "prepare" ELSE "save"
  /\ UNCHANGED <<file, input, bad, built, misplaced>>

-----------------------------------------------------------------------------
(* codesign_bundle *)

InfoSource == input.src[InfoPlist].v

\* An ad hoc signature without a profile prepares nothing.
Prepare ==
  /\ pc = "prepare" /\ pc' = "spawn"
  /\ tree' = IF input.profile = <<>> THEN tree ELSE Prepared(tree, InfoSource, input.profile)
  /\ UNCHANGED <<file, input, prev, added, running, bad, built, misplaced>>

Skips(p, entitled) ==
  /\ input.config = "fast-adhoc"
  /\ SkipsAdhoc(tree, p, input.identity, entitled, HasEntitlements)

Nested(i, swift) == DOMAIN i.onCopy \cup swift
ToSign == {p \in Nested(input, added) :
             IF input.config = "dry-run" THEN IsDir(tree, p) ELSE ~Skips(p, FALSE)}

Spawn ==
  /\ pc = "spawn" /\ pc' = "nested" /\ running' = ToSign
  /\ UNCHANGED <<tree, file, input, prev, added, bad, built, misplaced>>

\* obtain_keychain_permissions: a dummy is signed first, which may fail.
KeychainRefused ==
  /\ pc = "spawn" /\ ToSign # {} /\ input.config # "dry-run" /\ Failed
  /\ UNCHANGED <<tree, file, input, bad, built, misplaced>>

SignedPath(t, p, i) ==
  IF i.config = "dry-run" THEN DrySigned(t, p, i.identity, FALSE, {}) ELSE Signed(t, p, i.identity)

CodesignEnds(p) ==
  /\ pc = "nested" /\ p \in running /\ running' = running \ {p}
  /\ \/ tree' = SignedPath(tree, p, input) /\ UNCHANGED bad
     \/ bad' = TRUE /\ UNCHANGED tree
  /\ UNCHANGED <<file, input, prev, added, pc, built, misplaced>>

\* _codesign_paths waits for every process before it looks at the results.
Bug_NotWaited == TRUE
AllWaited == running = {}

CheckResults ==
  /\ pc = "nested" /\ AllWaited
  /\ IF bad THEN Failed ELSE pc' = "root" /\ UNCHANGED <<prev, added, running>>
  /\ UNCHANGED <<tree, file, input, bad, built, misplaced>>

Entitled(i) == i.entitled \/ i.profile # <<>>
SignedRoot(t, i, swift) ==
  IF i.config = "dry-run"
  THEN DrySigned(t, <<>>, i.identity, Entitled(i), {p \in Nested(i, swift) : ~IsDir(t, p)})
  ELSE Signed(t, <<>>, i.identity)

SignRoot ==
  /\ pc = "root" /\ pc' = "save"
  /\ tree' = IF Skips(<<>>, Entitled(input)) THEN tree ELSE SignedRoot(tree, input, added)
  /\ UNCHANGED <<file, input, prev, added, running, bad, built, misplaced>>

-----------------------------------------------------------------------------
\* _write_incremental_state, when there is a metadata file.
Save ==
  /\ pc = "save" /\ pc' = "done" /\ built' = tree
  /\ file' = IF input.incremental THEN StateOf(input, added) ELSE file
  /\ prev' = NoState /\ added' = {}
  /\ UNCHANGED <<tree, input, running, bad, misplaced>>

\* The dump of the state raises, or the action is killed while it is written.
SaveFails ==
  /\ pc = "save" /\ input.incremental /\ file' \in {NoState, Void} /\ Failed
  /\ UNCHANGED <<tree, input, bad, built, misplaced>>

\* Any step raises, or the action and its processes are killed.
Dies ==
  /\ pc \in Working /\ Failed
  /\ UNCHANGED <<tree, file, input, bad, built, misplaced>>

Next ==
  \/ NoContext \/ Start \/ Assemble \/ Swift \/ Prepare \/ Spawn \/ KeychainRefused
  \/ \E p \in running : CodesignEnds(p)
  \/ CheckResults \/ SignRoot \/ Save \/ SaveFails \/ Dies

Spec == Init /\ [][Next]_vars

-----------------------------------------------------------------------------
(* Properties *)

\* A state file that parses describes the bundle as it is: there is none from
\* the moment a build may change the bundle until it has ended well, however
\* builds fail and whichever of them are incremental (main.py:526).
StateIsCurrent == file.kind = "state" => tree = built /\ pc \in Ended

Fresh(i) ==
  LET assembled == CHOOSE t \in AssembledAnew(Items(i), i.versioned) : TRUE
      whole == [p \in i.swift |-> File(<<"swift">>)] @@ assembled
      prepared == IF i.profile = <<>> THEN whole ELSE Prepared(whole, i.src[InfoPlist].v, i.profile)
      nested == {p \in Nested(i, i.swift) : i.config = "dry-run" => IsDir(whole, p)}
      signed == FoldSet(LAMBDA p, t : SignedPath(t, p, i), prepared, nested)
  IN  IF i.codesign THEN SignedRoot(signed, i, i.swift) ELSE whole

Files(t) == Restrict(t, {p \in DOMAIN t : t[p].k # "dir"})
Unsigned(t) == [p \in {q \in DOMAIN t : t[q].k \in {"file", "link"}} |-> <<t[p].k, t[p].v>>]

\* A build on top of an earlier bundle ends with the very files, and without
\* the fast ad hoc mode the very signatures, of a build from nothing: through
\* any sequence of builds, failures and changes of settings. The exceptions
\* that the code does not handle are those of Misplaced and Unlisted.
BundleIsFresh ==
  pc = "done" /\ ~misplaced =>
    IF input.codesign /\ input.config = "fast-adhoc" THEN Unsigned(tree) = Unsigned(Fresh(input))
    ELSE Files(tree) = Files(Fresh(input))

\* Nothing else that is signed by itself lies inside p. The order in which two
\* processes sign p and a part of it is left to chance (codesign_bundle.py:593).
Alone(p, i) == ~ \E q \in Nested(i, i.swift) : IsStrictPrefix(p, q)

\* A bundle signed by codesign ends with seals that hold, of the bundle and of
\* everything signed on copy: no process was still changing what was sealed.
SealsHold ==
  pc = "done" /\ input.codesign /\ input.config = "none" =>
    \A p \in {<<>>} \cup {q \in DOMAIN input.onCopy : IsDir(tree, q) /\ Alone(q, input)} :
      SealHolds(tree, p) /\ tree[Append(p, Seal)].by = input.identity
=============================================================================

--------------------------- MODULE MCAppleBundle ----------------------------
(* Builds that differ in what they bundle, each with three ways to sign it,  *)
(* and builds of the same files that differ in how they are signed.          *)
EXTENDS AppleBundle

Exe == <<"exe">>
Res == <<"res">>
F(name) == <<"F", name>>
A == File(<<"a">>)
B == File(<<"b">>)
LinkerSigned == [File(<<"c">>) EXCEPT !.by = "-"]

Plain == Exe :> A @@ InfoPlist :> A @@ F("exe") :> A
Base == [src |-> Plain, twice |-> <<>>, onCopy |-> <<>>, swift |-> {}, codesign |-> FALSE,
         identity |-> "-", config |-> "none", args |-> "", profile |-> <<>>,
         entitled |-> FALSE, versioned |-> FALSE, incremental |-> TRUE, missing |-> {}]

AdHoc == [Base EXCEPT !.codesign = TRUE]
Dist == [AdHoc EXCEPT !.identity = "X", !.profile = <<"P">>]
Fast == [AdHoc EXCEPT !.config = "fast-adhoc"]
Dry == [AdHoc EXCEPT !.config = "dry-run"]
OnF == <<"F">> :> "s"

Sources == {
  [Base EXCEPT !.src = Exe :> B @@ Plain],
  [Base EXCEPT !.src = F("exe") :> B @@ F("r") :> A @@ Plain],
  [Base EXCEPT !.src = Exe :> A @@ InfoPlist :> A @@ <<"F">> :> A],
  [Base EXCEPT !.src = Res :> A @@ Plain],
  [Base EXCEPT !.src = Res :> Link(Exe) @@ Plain],
  [Base EXCEPT !.src = Res :> DirLink(<<"F">>) @@ Plain],
  [Base EXCEPT !.src = F(".DS_Store") :> A @@ Plain],
  [Base EXCEPT !.src = F(".DS_Store") :> B @@ Res :> A @@ Plain],
  [Base EXCEPT !.src = Append(VersionsA, "B") :> A @@ VersionsA \o <<"R", "y">> :> A @@ Plain,
               !.versioned = TRUE],
  [Base EXCEPT !.versioned = TRUE],
  [Base EXCEPT !.src = Exe :> LinkerSigned @@ Plain, !.onCopy = OnF],
  [Base EXCEPT !.src = <<"Frameworks", "s">> :> A @@ Plain, !.swift = {<<"Frameworks", "s">>}],
  [Base EXCEPT !.twice = Exe :> A], [Base EXCEPT !.twice = Exe :> B]}

Signings == {Dist, [Dist EXCEPT !.identity = "Y", !.profile = <<"Q">>],
  [AdHoc EXCEPT !.identity = "X"], [AdHoc EXCEPT !.args = "z"],
  [Dry EXCEPT !.entitled = TRUE], [Dry EXCEPT !.profile = <<"P">>]}

OnFAndRes(i) == [i EXCEPT !.onCopy = OnF @@ Res :> "s", !.src = Res :> A @@ Plain]

MCInputs == {[AdHoc EXCEPT !.missing = {"sign"}], [Base EXCEPT !.missing = {"swift"}, !.swift = {<<"Frameworks", "s">>}],
  Base, [Base EXCEPT !.src = Exe :> A @@ InfoPlist :> A @@ F(".DS_Store") :> A],
  [Base EXCEPT !.src = Res :> Link(Exe) @@ Plain, !.twice = Res :> Link(Exe)],
  [Base EXCEPT !.incremental = FALSE], [AdHoc EXCEPT !.incremental = FALSE]}
  \cup Sources \cup Signings
  \cup {[i EXCEPT !.onCopy = OnF, !.swift = {<<"Frameworks", "s">>}] : i \in {AdHoc, Dist}}
  \cup {[AdHoc EXCEPT !.onCopy = <<"F">> :> "t"], [AdHoc EXCEPT !.onCopy = OnF]}
  \cup {OnFAndRes(AdHoc), OnFAndRes(Fast), OnFAndRes(Dry)}
  \cup {[i EXCEPT !.codesign = TRUE] : i \in Sources}
  \cup {[i EXCEPT !.codesign = TRUE, !.config = "fast-adhoc"] :
           i \in {j \in Sources : Exe \in DOMAIN j.src /\ j.src[Exe] # A}}
=============================================================================

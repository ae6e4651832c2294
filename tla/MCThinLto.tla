------------------------------ MODULE MCThinLto ------------------------------
EXTENDS ThinLto

Object(u) == [kind |-> "object", members |-> <<<<<<>>, u>>>>]
Archive(members) == [kind |-> "archive", members |-> members]
Thin(members) == [kind |-> "thin", members |-> members]
All == {"a", "b", "c", "n", "x", "y", "z"}

Base == [darwin |-> FALSE, premerger |-> FALSE, lto |-> All \ {"n"}, loaded |-> All,
         linkables |-> <<>>, imports |-> [u \in All \ {"n"} |-> <<>>],
         into |-> [u \in All \ {"n"} |-> u], flags |-> <<>>, cc1 |-> <<>>]

\* Two objects and an archive, with and without a native member or object.
LinkablesOf == {<<Object("a"), Archive(<<<<<<"f">>, "x">>, <<<<"g">>, "y">>>>), Object("b")>>,
          <<Archive(<<<<<<"f">>, "x">>, <<<<"g">>, "n">>>>), Object("a"), Archive(<<<<<<"f">>, "y">>>>)>>,
          <<Object("n"), Object("a"), Archive(<<<<<<"f">>, "x">>, <<<<"f">>, "y">>, <<<<"f">>, "z">>>>)>>,
          <<Archive(<<<<<<"f">>, "n">>>>), Object("a"), Object("b")>>,
          <<Archive(<<<<<<"f">>, "x">>, <<<<"f">>, "y">>, <<<<"f", 1>>, "z">>>>), Object("a")>>,
          <<Thin(<<<<<<"f">>, "x">>, <<<<"g">>, "n">>>>), Object("a"), Archive(<<<<<<"f">>, "y">>>>)>>,
          <<Object("a"), Thin(<<<<<<"g">>, "n">>>>), Object("b")>>,
          <<Object("a"), [kind |-> "unknown", members |-> <<>>], Archive(<<<<<<"f">>, "y">>>>)>>}
ImportsOf == {[u \in All \ {"n"} |-> IF u = "a" THEN s ELSE IF u = "x" THEN t ELSE <<>>] :
                s \in {<<>>, <<"x">>, <<"y", "b">>, <<"b", "x">>}, t \in {<<>>, <<"y">>, <<"a">>}}
IntoOf == {[u \in All \ {"n"} |-> IF u \in DOMAIN m THEN m[u] ELSE u] :
             m \in {"y" :> "x", "x" :> "a", "a" :> "x", "x" :> "a" @@ "b" :> "a", "z" :> "y"}}

Present(i) == UNION {{m[2] : m \in Range(l.members)} : l \in Range(i.linkables)}
\* Imports and merges are among the units of the link, and take from no
\* absorbed unit; what the linker does not load is in an archive.
Sensible(i) ==
  /\ \A u \in Present(i) \cap i.lto : /\ Range(i.imports[u]) \subseteq Present(i) \cap i.lto \cap i.loaded
                                      /\ i.into[u] \in Present(i)
                                      /\ \A v \in Range(i.imports[u]) : i.into[v] = v
  /\ \A u \in i.lto : i.into[u] # u => {u, i.into[u]} \subseteq i.loaded
  /\ \A l \in Range(i.linkables) : l.kind # "object" \/ l.members[1][2] \in i.loaded

LinkInputsMC ==
  {i \in {[Base EXCEPT !.darwin = d, !.linkables = l, !.imports = f, !.loaded = All \ n] :
            d \in BOOLEAN, l \in LinkablesOf, f \in ImportsOf, n \in {{}, {"y"}}} : Sensible(i)}
  \cup {i \in {[Base EXCEPT !.darwin = TRUE, !.premerger = TRUE, !.linkables = l, !.imports = f,
                           !.loaded = All \ n, !.into = m] :
                 l \in LinkablesOf, f \in ImportsOf, n \in {{}, {"z"}}, m \in IntoOf} : Sensible(i)}

Flags == {<<"wl-mllvm", "p">>, <<"plugin-llvm", "q">>, <<"plugin-unknown", "">>, <<"mllvm", "">>,
          <<"xlinker", "">>, <<"option", "r">>, <<"plugin", "s">>, <<"clang", "">>, <<"wl-bare", "">>,
          <<"wl-option", "t">>, <<"ignored", "u">>, <<"ignored", "">>, <<"plugin-known", "O3">>,
          <<"pic", "">>, <<"f", "-fmath-errno">>}
FlagInputs == {[Base EXCEPT !.linkables = <<Object("a")>>, !.flags = f, !.cc1 = c] :
                 c \in {<<"-fmath-errno", "-target-cpu", "v", "kept">>, <<"kept", "-tune-cpu", "v">>},
                 f \in UNION {[1..n -> Flags] : n \in 0..3}
                       \cup {s \o <<<<"xlinker", "">>, <<"mllvm", "">>, <<"xlinker", "">>, <<"option", "w">>>> :
                               s \in [1..2 -> Flags]}
                       \cup {s \o t : s \in [1..2 -> Flags \ {<<"pic", "">>, <<"plugin-known", "O3">>}],
                                      t \in [1..2 -> {<<"xlinker", "">>, <<"wl-mllvm", "p">>, <<"mllvm", "">>,
                                                     <<"option", "r">>, <<"wl-bare", "">>, <<"ignored", "u">>}]}}

MCLinks == LinkInputsMC \cup FlagInputs
=============================================================================

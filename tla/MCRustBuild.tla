----------------------------- MODULE MCRustBuild -----------------------------
EXTENDS RustBuild

Base == [incremental |-> FALSE, infallible |-> FALSE, deferred |-> FALSE,
         crates |-> <<>>, linker |-> <<>>, env |-> <<>>, builds |-> 1, lines |-> 0,
         script |-> <<>>, cfgs |-> <<>>, manifest |-> {}]
Compiled == {[Base EXCEPT !.incremental = i, !.infallible = f, !.builds = 2, !.lines = 3] : i, f \in BOOLEAN}

C(name, hash, artifact) == [name |-> name, hash |-> hash, artifact |-> artifact]
A == C("x", 1, "a")
B == C("x", 1, "b")
D == C("y", 1, "c")
E == C("x", 2, "d")
CratesOf == {<<A, B>>, <<A, D, B>>, <<A, B, D, E>>, <<A, D, E>>}

Tokens == {<<<<"object", "o">>>>, <<<<"object", "p">>>>, <<<<"rlib", "r">>>>, <<<<"flag", "f">>>>,
           <<<<"flag", "g">>>>, <<<<"-L", "">>, <<"path", "sysroot">>>>, <<<<"-o", "">>, <<"path", "out">>>>}
LinkersOf == UNION {{FlattenSeq(t) : t \in [1..n -> Tokens]} : n \in 0..2}
             \cup {<<<<"flag", "f">>, <<"script", "s">>, <<"object", "o">>>> \o t : t \in Tokens}
Values == UNION {[1..n -> {"\\", "n", "NL"}] : n \in 1..5}

L(form, key, value) == [form |-> form, key |-> key, value |-> value]
Script == <<L("cargo:rustc-cfg", "target_feature", "sse"), L("text", "always", ""), L("cargo:rustc-cfg", "rustc", "own"),
            L("cargo:rustc-cfg", "unix", "1"), L("cargo:rustc-cfg", "target_feature", "avx")>>
CfgsOf == UNION {[1..n -> {<<"target_feature", "sse">>, <<"target_feature", "avx">>, <<"unix", "">>, <<"panic", "abort">>}] : n \in 0..3}

MCInputs == Compiled
            \cup {[Base EXCEPT !.deferred = TRUE, !.linker = l] : l \in LinkersOf}
            \cup {[Base EXCEPT !.deferred = TRUE, !.linker = <<<<"object", "o">>>>, !.builds = 2, !.lines = 2]}
            \cup {[Base EXCEPT !.crates = c] : c \in CratesOf}
            \cup {[Base EXCEPT !.env = v] : v \in Values}
            \cup {[Base EXCEPT !.script = Script, !.cfgs = c, !.manifest = f] :
                    c \in CfgsOf, f \in SUBSET {"build.rs", "rust-toolchain.toml"}}
=============================================================================

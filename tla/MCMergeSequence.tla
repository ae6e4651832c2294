--------------------------- MODULE MCMergeSequence ---------------------------
EXTENDS MergeSequence

Order == <<"a", "b", "c", "d">>
Names == Range(Order)
A == <<"x">>
B == <<"x", "1">>
C == <<"y">>
S(name, roots) == [name |-> name, roots |-> roots]

\* Every graph of four targets without a cycle, up to their names.
Graphs == {[t \in Names |-> SelectSeq(Order, LAMBDA d : <<t, d>> \in edges)] :
             edges \in SUBSET {<<"a", "b">>, <<"a", "c">>, <<"a", "d">>,
                               <<"b", "c">>, <<"b", "d">>, <<"c", "d">>}}
Modules == [Names -> {Root, "m"}] \cup {"c" :> "n" @@ [t \in Names |-> IF t = "d" THEN "m" ELSE Root]}
Sequences4 == {<<{S(A, {"a"})}>>, <<{S(A, {"a", "b"})}>>, <<{S(A, {"a"}), S(C, {"b"})}>>,
               <<{S(A, {"b"})}, {S(C, {"a"})}>>}

Base == [order |-> Order, deps |-> [t \in Names |-> <<>>], module |-> [t \in Names |-> Root],
         assets |-> Names, blocked |-> {}, sequence |-> <<>>, merge |-> FALSE]

\* Layers need longer chains: five targets, and a chain that comes back twice.
Long == <<"a", "b", "c", "d", "e">>
Chain == [t \in Range(Long) |-> SelectSeq(Long, LAMBDA d : <<t, d>> \in
            {<<"a", "b">>, <<"b", "c">>, <<"c", "d">>, <<"d", "e">>})]
LongInputs == {[Base EXCEPT !.order = Long, !.deps = Chain, !.module = m, !.assets = Range(Long) \ x,
                            !.sequence = <<{S(A, {"a"})}>>] :
                 m \in [Range(Long) -> {Root, "m"}], x \in {{}, {"b"}, {"b", "d"}}}

\* A module with three targets, one of which leads to a target of the root
\* module and back; with and without a target that nothing depends on.
Six == <<"r", "a", "b", "c", "d", "e">>
Detour == {<<"r", "a">>, <<"a", "d">>, <<"b", "c">>, <<"c", "e">>}
DetourInputs == {[Base EXCEPT !.order = Six, !.deps = [t \in Range(Six) |-> SelectSeq(Six, LAMBDA d : <<t, d>> \in Detour)],
                              !.module = [t \in Range(Six) |-> IF t \in {"b", "d", "e"} THEN "m" ELSE Root],
                              !.assets = Range(Six) \ x, !.blocked = {"r"}, !.merge = merge,
                              !.sequence = <<{S(A, {r, "b"})}>>] :
                   x \in {{}, {"c"}, {"a", "c"}}, merge \in BOOLEAN, r \in {"r", "a"}}

MCInputs ==
  {[Base EXCEPT !.deps = g, !.module = m, !.sequence = s] : g \in Graphs, m \in Modules, s \in Sequences4}
  \cup {[Base EXCEPT !.deps = g, !.module = m, !.sequence = s, !.assets = Names \ {x}] :
          g \in Graphs, x \in {"b", "c"}, s \in {<<{S(A, {"a", "b"})}>>, <<{S(A, {"a"}), S(C, {"b"})}>>},
          m \in {f \in Modules : f["a"] = Root}}
  \cup {[Base EXCEPT !.deps = g, !.module = m, !.blocked = {"c"}, !.merge = TRUE, !.assets = {"a"},
                     !.sequence = <<{S(A, {"a", "b"})}>>] :
          g \in Graphs, m \in {f \in Modules : f["a"] = Root /\ f["b"] = Root}}
  \cup {[Base EXCEPT !.deps = g, !.module = <<>>, !.sequence = s] : g \in Graphs, s \in Sequences4}
  \cup LongInputs \cup DetourInputs
  \cup {[Base EXCEPT !.deps = [t \in Names |-> SelectSeq(Order, LAMBDA d : <<t, d>> \in {<<"a", "b">>, <<"b", "c">>})],
                     !.assets = Names \ {"b"}, !.sequence = <<{S(A, {"a"})}, {S(B, {"d"})}>>]}
=============================================================================

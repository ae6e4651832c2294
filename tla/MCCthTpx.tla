------------------------------ MODULE MCCthTpx ------------------------------
(* Suites with sibling groups, a nested group, and a group requested twice. *)
EXTENDS CthTpx

MCGroup == {"p", "g1", "g2"}
MCCase  == {"t1", "t2"}

Entry(path, cases) == [groups |-> path, cases |-> cases]
Siblings == <<Entry(<<"g1">>, <<"t1">>), Entry(<<"g2">>, <<"t1">>), Entry(<<>>, <<"t1">>)>>
Nested   == <<Entry(<<"p">>, <<"t1">>), Entry(<<"p", "g1">>, <<"t2">>)>>
Deep     == <<Entry(<<"p", "g1">>, <<"t1">>), Entry(<<"g2">>, <<"t2">>)>>

MCTestSpecs == {Siblings, Nested, Deep}
=============================================================================

---------------------------- MODULE MCDaemonCore ----------------------------
(* A suite with nested and sibling groups, a second suite, and calls of one *)
(* and of two tests.                                                        *)
EXTENDS DaemonCore

MCLevel == {"S", "R", "g", "h"}

Nested  == <<"S", "g", "h">>
Sibling == <<"S", "h">>
Other   == <<"R", "g">>

MCCalls == {<<Sibling>>, <<Nested, Sibling>>, <<Other>>}
=============================================================================

--------------------------- MODULE MCDaemonShell ---------------------------
(* Two suites; the second version of the code has lost the first.          *)
EXTENDS DaemonShell

MCLists == <<<<<<"S", "a">>, <<"R", "b">>>>, <<<<"R", "b">>>>>>
MCNodes == 1..2
=============================================================================

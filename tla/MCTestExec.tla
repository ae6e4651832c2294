----------------------------- MODULE MCTestExec -----------------------------
(* Model values for TestExec: two attempts to start epmd, one that fails   *)
(* and one beside what it may have left; the code makes three.             *)
EXTENDS TestExec
=============================================================================

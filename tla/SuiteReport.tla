---------------------------- MODULE SuiteReport ----------------------------
(***************************************************************************)
(* What the caller of "test_binary run" is promised: the binary ends; with *)
(* exit code 0 only when result_exec.json was written; the file holds      *)
(* either the results of the tests or a failure for every requested test;  *)
(* and a run once reported as broken is never reported as fine afterwards. *)
(***************************************************************************)
VARIABLES report,    \* "none", "broken" or "results"
          ended,     \* FALSE or TRUE
          code       \* exit code once ended

vars == <<report, ended, code>>

Init == report = "none" /\ ended = FALSE /\ code = 0

\* The file is written, or results are replaced by failures.
Publish ==
  /\ ~ended
  /\ \/ report = "none"    /\ report' \in {"results", "broken"}
     \/ report = "results" /\ report' = "broken"
  /\ UNCHANGED <<ended, code>>

End ==
  /\ ~ended /\ ended' = TRUE
  /\ code' \in {0, 1}
  /\ code' = 0 => report # "none"
  /\ UNCHANGED report

Next == Publish \/ End

Safety == Init /\ [][Next]_vars
Ends == WF_vars(End)
Spec == Safety /\ Ends
=============================================================================

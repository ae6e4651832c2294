------------------------------ MODULE TestExec ------------------------------
(***************************************************************************)
(* One execution of one Common Test suite, as started by                   *)
(* "test_binary run": the processes of the runner's Erlang node            *)
(*    runner   test_runner:run_test and its report          actions Run..  *)
(*    sup      the supervisor test_exec_sup                 actions Sup..  *)
(*    em       the gen_server epmd_manager                  actions Em..   *)
(*    cr       the gen_server ct_runner                     actions Cr..   *)
(* and the two operating system processes they start: an epmd daemon and   *)
(* the node that runs ct_executor:run.                                     *)
(*                                                                         *)
(* Mailboxes are sequences where the order of arrival decides the outcome  *)
(* (runner, supervisor, ct_runner) and a set for epmd_manager, whose       *)
(* receives are selective or end the process whatever comes first.         *)
(***************************************************************************)
EXTENDS Naturals, Sequences

CONSTANT MaxAttempts   \* start_epmd/1: how often an epmd start is attempted

ASSUME MaxAttemptsAssumption == MaxAttempts \in Nat

VARIABLES
  env,          \* [global: is global_epmd_port set, shortTimeout: TPX_TIMEOUT_SEC <= 30]
  runPc,        \* where test_runner is
  runQ,         \* mailbox of test_runner
  status,       \* argument of provide_output_file
  retried,      \* execute_test_suite is in its catch clause
  output,       \* result_exec.json, what the caller of the binary reads
  timeoutFile,  \* the .timeout marker exists
  exitCode,     \* exit code of the test binary
  sup, supQ,    \* supervisor: phase and mailbox
  em, emMsgs, attempts,
  cr, crQ, portOpen,
  epmd,         \* the OS process of the last epmd that was spawned
  epmdPort,     \* epmd_manager's port to it is open
  stray,        \* an epmd of an earlier attempt lives on without a port
  node,         \* the OS process running ct_executor
  nodeExit,     \* how it ended
  resultFile,   \* result.json, written by cth_tpx in the node
  lost          \* history: what may leave an OS process behind

runVars  == <<runPc, status, retried, output, timeoutFile, exitCode>>
supVars  == <<sup, supQ>>
emVars   == <<em, emMsgs, attempts>>
crVars   == <<cr, crQ, portOpen>>
epmdVars == <<epmd, epmdPort, stray>>
nodeVars == <<node, nodeExit, resultFile>>
vars == <<env, runVars, runQ, supVars, emVars, crVars, epmdVars, nodeVars, lost>>

-----------------------------------------------------------------------------
RunPc     == {"start", "monitor", "receive", "stopping", "report", "link", "halted"}
RunMsg    == {"run_succeed", "run_failed", "DOWN"}
Status    == {"none", "failed", "passed", "timeout"}
Output    == {"none", "broken", "results"}
SupPhase  == {"off", "up", "stop_cr", "stop_em", "down"}
SupMsg    == {"start_child", "em_exit", "cr_exit", "app_stop"}
EmPc      == {"off", "init", "start", "listen", "call", "up", "dead"}
EmMsg     == {"epmd_ready", "epmd_exit", "port_gone", "reply", "shutdown"}
CrPc      == {"off", "launch", "up", "dead"}
CrMsg     == {"exit_ok", "exit_error", "port_gone", "shutdown"}
EpmdState == {"none", "booting", "up", "dead"}
NodeState == {"none", "boot", "tests", "writing", "post", "dead"}
NodeExit  == {"none", "ok", "error", "killed"}
FileState == {"missing", "partial", "complete"}
Loss      == {"em_killed", "cr_killed", "gave_up", "port_lost", "bad_timeout",
              "epmd_port_lost"}

Halted    == runPc = "halted"
NodeAlive == node \in {"boot", "tests", "writing", "post"}
EpmdAlive == epmd \in {"booting", "up"}

Init ==
  /\ env \in [global : BOOLEAN, shortTimeout : BOOLEAN]
  /\ runPc = "start" /\ runQ = <<>> /\ status = "none" /\ retried = FALSE
  /\ output = "none" /\ timeoutFile = FALSE /\ exitCode = 0
  /\ sup = "off" /\ supQ = <<>>
  /\ em = "off" /\ emMsgs = {} /\ attempts = MaxAttempts
  /\ cr = "off" /\ crQ = <<>> /\ portOpen = FALSE
  /\ epmd = "none" /\ epmdPort = FALSE /\ stray = FALSE
  /\ node = "none" /\ nodeExit = "none" /\ resultFile = "missing"
  /\ lost = {}

-----------------------------------------------------------------------------
(* test_runner *)

\* A report is due with the given status; run_test, or its caller's catch.
Report(s) == runPc' = "report" /\ status' = s

\* application:ensure_all_started: the supervisor comes up with epmd_manager
\* as its only child, or the application does not start.
RunStart ==
  /\ runPc = "start"
  /\ \/ /\ runPc' = "monitor" /\ sup' = "up" /\ em' = "init"
        /\ UNCHANGED status
     \/ /\ Report("failed")
        /\ UNCHANGED <<sup, em>>
  /\ UNCHANGED <<env, runQ, retried, output, timeoutFile, exitCode, supQ,
                 emMsgs, attempts, crVars, epmdVars, nodeVars, lost>>

\* erlang:monitor (a dead supervisor answers at once), then the timeout of
\* the receive is evaluated: max_timeout raises when it is too short.
RunMonitor ==
  /\ runPc = "monitor"
  /\ runQ' = IF sup = "down" THEN Append(runQ, "DOWN") ELSE runQ
  /\ \/ /\ ~env.shortTimeout
        /\ runPc' = "receive"
        /\ UNCHANGED <<status, retried, lost>>
     \/ /\ env.shortTimeout
        /\ Report("failed") /\ retried' = TRUE
        /\ lost' = lost \cup {"bad_timeout"}
  /\ UNCHANGED <<env, output, timeoutFile, exitCode, supVars, emVars, crVars,
                 epmdVars, nodeVars>>

\* The first message in the mailbox, whichever of the three it is.
Bug_DownFirst == IF \E i \in DOMAIN runQ : runQ[i] = "DOWN" THEN "DOWN" ELSE Head(runQ)
Received == Head(runQ)

\* The one message run_test reads decides the run.
RunReceive ==
  /\ runPc = "receive" /\ runQ # <<>>
  /\ runQ' = Tail(runQ)
  /\ Report(IF Received = "run_succeed" THEN "passed" ELSE "failed")
  /\ UNCHANGED <<env, retried, output, timeoutFile, exitCode, supVars, emVars,
                 crVars, epmdVars, nodeVars, lost>>

Bug_WaitForever == FALSE

\* The receive times out: a helper process asks for the application to stop.
RunTimeout ==
  /\ runPc = "receive" /\ runQ = <<>>
  /\ runPc' = "stopping"
  /\ supQ' = Append(supQ, "app_stop")
  /\ UNCHANGED <<env, runQ, status, retried, output, timeoutFile, exitCode,
                 sup, emVars, crVars, epmdVars, nodeVars, lost>>

\* application:stop returned, or 5000 ms are over.
RunStopped ==
  /\ runPc = "stopping"
  /\ lost' = IF sup = "down" THEN lost ELSE lost \cup {"gave_up"}
  /\ Report("timeout")
  /\ UNCHANGED <<env, runQ, retried, output, timeoutFile, exitCode, supVars,
                 emVars, crVars, epmdVars, nodeVars>>

\* The results are read unless the run failed.
Bug_AlwaysRead == resultFile = "complete"
ResultsUsable == status # "failed" /\ resultFile = "complete"

\* provide_output_file up to the write of the output.
RunReport ==
  /\ runPc = "report"
  /\ status = "failed" \/ resultFile # "partial"
  /\ output' = IF ResultsUsable THEN "results" ELSE "broken"
  /\ timeoutFile' = (timeoutFile \/ (output' = "results" /\ status = "timeout"))
  /\ runPc' = "link"
  /\ UNCHANGED <<env, runQ, status, retried, exitCode, supVars, emVars, crVars,
                 epmdVars, nodeVars, lost>>

\* An exception before the output is written (binary_to_term of a truncated
\* file among others) or while artifacts are linked: execute_test_suite
\* reports a failed run instead, once; then it escapes to test_binary:main.
RunRaise ==
  /\ runPc \in {"report", "link"}
  /\ IF retried
       THEN runPc' = "halted" /\ exitCode' = 1 /\ UNCHANGED <<status, retried>>
       ELSE Report("failed") /\ retried' = TRUE /\ UNCHANGED exitCode
  /\ UNCHANGED <<env, runQ, output, timeoutFile, supVars, emVars, crVars, epmdVars,
                 nodeVars, lost>>

\* The artifacts are linked, run_tests returns and main calls erlang:halt.
RunHalt ==
  /\ runPc = "link"
  /\ runPc' = "halted"
  /\ UNCHANGED <<env, runQ, status, retried, output, timeoutFile, exitCode,
                 supVars, emVars, crVars, epmdVars, nodeVars, lost>>

-----------------------------------------------------------------------------
(* test_exec_sup: temporary, significant children and auto_shutdown        *)
(* any_significant; children stop in the reverse order of their start.     *)

\* start_child: ct_runner:init has returned when epmd_manager is answered.
SupStartChild ==
  /\ ~Halted /\ sup = "up" /\ supQ # <<>> /\ Head(supQ) = "start_child"
  /\ supQ' = Tail(supQ)
  /\ cr' = "launch"
  /\ emMsgs' = emMsgs \cup {"reply"}
  /\ UNCHANGED <<env, runVars, runQ, sup, em, attempts, crQ, portOpen, epmdVars,
                 nodeVars, lost>>

\* What makes the supervisor stop: any child's end, or application:stop.
Bug_NoAutoShutdown(msg) == msg = "app_stop"
EndsTree(msg) == msg # "start_child"

\* A child ended or the application is stopped: shut ct_runner down first.
SupShutdown ==
  /\ ~Halted /\ sup = "up" /\ supQ # <<>> /\ EndsTree(Head(supQ))
  /\ supQ' = Tail(supQ)
  /\ sup' = "stop_cr"
  /\ crQ' = IF cr \in {"launch", "up"} THEN Append(crQ, "shutdown") ELSE crQ
  /\ UNCHANGED <<env, runVars, runQ, emVars, cr, portOpen, epmdVars, nodeVars, lost>>

\* ct_runner is gone: shut epmd_manager down.
SupStopEm ==
  /\ ~Halted /\ sup = "stop_cr" /\ cr \in {"off", "dead"}
  /\ sup' = "stop_em"
  /\ emMsgs' = emMsgs \cup {"shutdown"}
  /\ UNCHANGED <<env, runVars, runQ, supQ, em, attempts, crVars, epmdVars,
                 nodeVars, lost>>

\* All children are gone: the supervisor ends, which its monitor sees.
SupDown ==
  /\ ~Halted /\ sup = "stop_em" /\ em = "dead"
  /\ sup' = "down"
  /\ runQ' = IF runPc \in {"start", "monitor"} THEN runQ ELSE Append(runQ, "DOWN")
  /\ UNCHANGED <<env, runVars, supQ, emVars, crVars, epmdVars, nodeVars, lost>>

\* A child that has not ended 1000 ms after "shutdown" is killed; the OS
\* process behind its port is not.
SupKillCr ==
  /\ ~Halted /\ sup = "stop_cr" /\ cr \in {"launch", "up"}
  /\ cr' = "dead" /\ portOpen' = FALSE
  /\ lost' = lost \cup {"cr_killed"}
  /\ UNCHANGED <<env, runVars, runQ, supVars, emVars, crQ, epmdVars, nodeVars>>

SupKillEm ==
  /\ ~Halted /\ sup = "stop_em" /\ em # "dead"
  /\ em' = "dead" /\ epmdPort' = FALSE
  /\ lost' = lost \cup {"em_killed"}
  /\ UNCHANGED <<env, runVars, runQ, supVars, emMsgs, attempts, crVars, epmd,
                 stray, nodeVars>>

-----------------------------------------------------------------------------
(* epmd_manager *)

\* The call that starts ct_runner: epmd_manager blocks until it is answered.
CallStartCtRunner == em' = "call" /\ supQ' = Append(supQ, "start_child")

\* handle_continue: a global epmd needs no start.
EmContinue ==
  /\ ~Halted /\ em = "init"
  /\ IF env.global
       THEN CallStartCtRunner
       ELSE em' = "start" /\ UNCHANGED supQ
  /\ UNCHANGED <<env, runVars, runQ, sup, emMsgs, attempts, crVars, epmdVars,
                 nodeVars, lost>>

AttemptsLeft == attempts > 0

\* One attempt: find_free_port may fail; else epmd is spawned, also when the
\* one of the last attempt could not be killed.
EmAttempt ==
  /\ ~Halted /\ em = "start" /\ AttemptsLeft
  /\ \/ /\ em' = "listen" /\ epmd' = "booting" /\ epmdPort' = TRUE
        /\ stray' = (stray \/ EpmdAlive)
        /\ UNCHANGED attempts
     \/ attempts' = attempts - 1 /\ UNCHANGED <<em, epmdVars>>
  /\ UNCHANGED <<env, runVars, runQ, supVars, emMsgs, crVars, nodeVars, lost>>

\* listen_loop saw "entering the main select() loop".
EmReady ==
  /\ ~Halted /\ em = "listen" /\ "epmd_ready" \in emMsgs
  /\ emMsgs' = emMsgs \ {"epmd_ready"}
  /\ CallStartCtRunner
  /\ UNCHANGED <<env, runVars, runQ, sup, attempts, crVars, epmdVars, nodeVars, lost>>

\* kill_process, of listen_loop and of terminate/2: no signal is sent when
\* the port is closed already, nor by terminate/2 to a global daemon.
Bug_KillGlobal == epmd' = IF env.global THEN "dead" ELSE epmd
TerminateEpmd == epmd' = IF env.global \/ ~epmdPort THEN epmd ELSE "dead"

\* listen_loop fails: the instance exited (its port was taken), or the line
\* did not come for 1000 ms; what was sent by its port is ignored from now on.
EmRetry ==
  /\ ~Halted /\ em = "listen" /\ "epmd_ready" \notin emMsgs
  /\ em' = "start" /\ attempts' = attempts - 1
  /\ TerminateEpmd /\ epmdPort' = FALSE
  /\ emMsgs' = emMsgs \ {"epmd_exit", "port_gone"}
  /\ UNCHANGED <<env, runVars, runQ, supVars, crVars, stray, nodeVars, lost>>

EmGiveUp ==
  /\ ~Halted /\ em = "start" /\ attempts = 0
  /\ em' = "dead" /\ supQ' = Append(supQ, "em_exit")
  /\ UNCHANGED <<env, runVars, runQ, sup, emMsgs, attempts, crVars, epmdVars,
                 nodeVars, lost>>

\* The supervisor's answer: from now on the state names the epmd port.
EmReply ==
  /\ ~Halted /\ em = "call" /\ "reply" \in emMsgs
  /\ em' = "up" /\ emMsgs' = emMsgs \ {"reply"}
  /\ UNCHANGED <<env, runVars, runQ, supVars, attempts, crVars, epmdVars, nodeVars,
                 lost>>

\* The daemon ended, its port was closed, or the supervisor wants to stop.
EmStop ==
  /\ ~Halted /\ em = "up" /\ emMsgs \cap {"epmd_exit", "port_gone", "shutdown"} # {}
  /\ em' = "dead" /\ supQ' = Append(supQ, "em_exit")
  /\ TerminateEpmd /\ epmdPort' = FALSE
  /\ UNCHANGED <<env, runVars, runQ, sup, emMsgs, attempts, crVars, stray,
                 nodeVars, lost>>

-----------------------------------------------------------------------------
(* ct_runner *)

CrEnd == cr' = "dead" /\ portOpen' = FALSE /\ supQ' = Append(supQ, "cr_exit")

\* handle_continue: the node is launched, or that raises and the run failed.
CrLaunch ==
  /\ ~Halted /\ cr = "launch"
  /\ \/ /\ cr' = "up" /\ portOpen' = TRUE /\ node' = "boot"
        /\ UNCHANGED <<runQ, supQ>>
     \/ /\ CrEnd /\ runQ' = Append(runQ, "run_failed")
        /\ UNCHANGED node
  /\ UNCHANGED <<env, runVars, sup, emVars, crQ, epmdVars, nodeExit, resultFile, lost>>

\* The node exited: tell the runner, then stop.
CrNodeExit ==
  /\ ~Halted /\ cr = "up" /\ crQ # <<>> /\ Head(crQ) \in {"exit_ok", "exit_error"}
  /\ crQ' = Tail(crQ)
  /\ runQ' = Append(runQ, IF Head(crQ) = "exit_ok" THEN "run_succeed" ELSE "run_failed")
  /\ CrEnd
  /\ UNCHANGED <<env, runVars, sup, emVars, epmdVars, nodeVars, lost>>

\* terminate/2 kills the node when the port still knows its OS process.
Bug_NoTerminate == UNCHANGED nodeVars
TerminateNode ==
  IF portOpen /\ NodeAlive
    THEN node' = "dead" /\ nodeExit' = "killed" /\ UNCHANGED resultFile
    ELSE UNCHANGED nodeVars

\* "shutdown" from the supervisor, or the port was closed under us.
CrStop ==
  /\ ~Halted /\ cr = "up" /\ crQ # <<>> /\ Head(crQ) \in {"shutdown", "port_gone"}
  /\ crQ' = Tail(crQ)
  /\ CrEnd
  /\ TerminateNode
  /\ UNCHANGED <<env, runVars, runQ, emVars, sup, epmdVars, lost>>

-----------------------------------------------------------------------------
(* The operating system processes. They outlive the runner's node. *)

\* The line listen_loop waits for is seen only if it comes in one piece.
EpmdReady ==
  /\ epmd = "booting" /\ epmd' = "up"
  /\ \/ em = "listen" /\ epmdPort /\ emMsgs' = emMsgs \cup {"epmd_ready"}
     \/ UNCHANGED emMsgs
  /\ UNCHANGED <<env, runVars, runQ, supVars, em, attempts, crVars, epmdPort,
                 stray, nodeVars, lost>>

EpmdExit ==
  /\ EpmdAlive /\ epmd' = "dead" /\ epmdPort' = FALSE
  /\ emMsgs' = IF epmdPort THEN emMsgs \cup {"epmd_exit"} ELSE emMsgs
  /\ UNCHANGED <<env, runVars, runQ, supVars, em, attempts, crVars, stray,
                 nodeVars, lost>>

StrayExit ==
  /\ stray /\ stray' = FALSE
  /\ UNCHANGED <<env, runVars, runQ, supVars, emVars, crVars, epmd, epmdPort,
                 nodeVars, lost>>

\* The port of a living daemon is closed under epmd_manager.
EpmdPortLost ==
  /\ ~Halted /\ epmdPort /\ EpmdAlive
  /\ epmdPort' = FALSE
  /\ emMsgs' = emMsgs \cup {"port_gone"}
  /\ lost' = lost \cup {"epmd_port_lost"}
  /\ UNCHANGED <<env, runVars, runQ, supVars, em, attempts, crVars, epmd, stray,
                 nodeVars>>

\* ct_executor: arguments, logger and providers are set up.
NodeBoot ==
  /\ node = "boot" /\ node' = "tests"
  /\ UNCHANGED <<env, runVars, runQ, supVars, emVars, crVars, epmdVars, nodeExit,
                 resultFile, lost>>

\* ct:run_test ends: cth_tpx:terminate starts to write the results, or
\* Common Test gave up before its hooks ran, which ct_executor only logs.
NodeTestsEnd ==
  /\ node = "tests"
  /\ \/ node' = "writing" /\ resultFile' = "partial"
     \/ node' = "post" /\ UNCHANGED resultFile
  /\ UNCHANGED <<env, runVars, runQ, supVars, emVars, crVars, epmdVars, nodeExit, lost>>

\* The result of file:write_file is not looked at.
NodeWritten ==
  /\ node = "writing" /\ node' = "post"
  /\ resultFile' \in {"partial", "complete"}
  /\ UNCHANGED <<env, runVars, runQ, supVars, emVars, crVars, epmdVars, nodeExit, lost>>

\* erlang:halt(0) after post_running; an exception, a crash or the out of
\* memory killer at any time before.
NodeEnd(how) ==
  /\ NodeAlive /\ (how = "ok" => node = "post")
  /\ node' = "dead" /\ nodeExit' = how
  /\ crQ' = IF portOpen /\ ~Halted
              THEN Append(crQ, IF how = "ok" THEN "exit_ok" ELSE "exit_error")
              ELSE crQ
  /\ UNCHANGED <<env, runVars, runQ, supVars, emVars, cr, portOpen, epmdVars,
                 resultFile, lost>>

\* The port of a living node is closed under ct_runner.
PortLost ==
  /\ ~Halted /\ portOpen /\ NodeAlive
  /\ portOpen' = FALSE
  /\ crQ' = Append(crQ, "port_gone")
  /\ lost' = lost \cup {"port_lost"}
  /\ UNCHANGED <<env, runVars, runQ, supVars, emVars, cr, epmdVars, nodeVars>>

-----------------------------------------------------------------------------
Runner == \/ RunStart \/ RunMonitor \/ RunReceive \/ RunStopped
          \/ RunReport \/ RunRaise \/ RunHalt
Supervisor == SupStartChild \/ SupShutdown \/ SupStopEm \/ SupDown
SupTimer == SupKillCr \/ SupKillEm
EpmdManager == \/ EmContinue \/ EmAttempt \/ EmReady \/ EmRetry \/ EmGiveUp
               \/ EmReply \/ EmStop
CtRunner == CrLaunch \/ CrNodeExit \/ CrStop
OsProcesses == \/ EpmdReady \/ EpmdExit \/ StrayExit \/ EpmdPortLost
               \/ NodeBoot \/ NodeTestsEnd \/ NodeWritten
               \/ NodeEnd("ok") \/ NodeEnd("error") \/ PortLost

Next == Runner \/ RunTimeout \/ Supervisor \/ SupTimer \/ EpmdManager \/ CtRunner \/ OsProcesses

\* Erlang schedules every process that can run and fires every timer. The
\* OS processes may hang: nothing is assumed of them.
Scheduling == /\ WF_vars(Runner) /\ WF_vars(Supervisor) /\ WF_vars(SupTimer)
              /\ WF_vars(EpmdManager) /\ WF_vars(CtRunner)

Spec == Init /\ [][Next]_vars /\ Scheduling

\* The run's timeout fires as well, but minutes away: only what needs it
\* assumes it.
Timely == WF_vars(RunTimeout)

-----------------------------------------------------------------------------
TypeOK ==
  /\ env \in [global : BOOLEAN, shortTimeout : BOOLEAN]
  /\ runPc \in RunPc /\ runQ \in Seq(RunMsg)
  /\ status \in Status /\ retried \in BOOLEAN
  /\ output \in Output /\ timeoutFile \in BOOLEAN /\ exitCode \in {0, 1}
  /\ sup \in SupPhase /\ supQ \in Seq(SupMsg)
  /\ em \in EmPc /\ emMsgs \subseteq EmMsg /\ attempts \in Nat
  /\ cr \in CrPc /\ crQ \in Seq(CrMsg) /\ portOpen \in BOOLEAN
  /\ epmd \in EpmdState /\ epmdPort \in BOOLEAN /\ stray \in BOOLEAN
  /\ node \in NodeState /\ nodeExit \in NodeExit
  /\ resultFile \in FileState /\ lost \subseteq Loss

(***************************************************************************)
(* Test results are published only when ct_executor wrote all of them, and *)
(* either the node ended with status 0 or the run is marked as timed out   *)
(* (test_runner:provide_output_file): no interleaving of a crash, a late   *)
(* exit and the timeout publishes results of another kind of run as fine.  *)
(***************************************************************************)
ResultsAreGenuine ==
  output = "results" =>
    resultFile = "complete" /\ (nodeExit = "ok" \/ timeoutFile)

(***************************************************************************)
(* When the test binary has ended, the node that ran the tests is gone,    *)
(* except in the four ways the code loses track of it: ct_runner was       *)
(* killed by its supervisor before terminate ran, application:stop took    *)
(* longer than the runner waits, the port died before the process, or the  *)
(* timeout was found to be too short when the tests were already running.  *)
(***************************************************************************)
NodeOrphanExplained ==
  Halted /\ NodeAlive => lost \cap {"cr_killed", "gave_up", "port_lost", "bad_timeout"} # {}

(***************************************************************************)
(* A supervisor that has shut down leaves no epmd daemon of its own        *)
(* behind, of any attempt, unless it had to kill epmd_manager, which it    *)
(* does when that process waits for the supervisor while the supervisor    *)
(* waits for it, or the port to a living daemon was closed, after which    *)
(* kill_process has no process to kill.                                    *)
(***************************************************************************)
EpmdStopsWithTree ==
  sup = "down" /\ (EpmdAlive \/ stray) => lost \cap {"em_killed", "epmd_port_lost"} # {}

(***************************************************************************)
(* A run whose node has ended with status 0 after writing all its results  *)
(* is reported broken only if something else went wrong too: the daemon    *)
(* exited by itself or its port was closed (epmd_manager brings the tree   *)
(* down and the good exit may be waiting in ct_runner's mailbox), the      *)
(* port of the node was lost, or an exception was raised on the way to the *)
(* report.                                                                 *)
(***************************************************************************)
GoodRunBrokenForAReason ==
  [][nodeExit = "ok" /\ resultFile = "complete"
       /\ output # "broken" /\ output' = "broken"
     => \/ "epmd_exit" \in emMsgs \/ lost \cap {"port_lost", "epmd_port_lost"} # {}
        \/ retried]_vars

(***************************************************************************)
(* The end of the test node or of either child is noticed and reported     *)
(* without waiting for the timeout of the run: exit status, auto_shutdown  *)
(* and the monitor on the supervisor leave no end unseen, also when it     *)
(* happens before the monitor is set.                                      *)
(***************************************************************************)
EndIsNoticed == (node = "dead" \/ em = "dead" \/ cr = "dead") ~> Halted

(***************************************************************************)
(* The runner, its supervision tree and the two daemons together keep the  *)
(* promise of SuiteReport to the caller of the binary. That the binary     *)
(* ends whatever the node and the daemon do rests on max_timeout and on    *)
(* the bounded wait for application:stop.                                  *)
(***************************************************************************)
Promise == INSTANCE SuiteReport WITH report <- output, ended <- Halted, code <- exitCode
ImplementsReport == Promise!Safety /\ (Timely => Promise!Ends)
=============================================================================

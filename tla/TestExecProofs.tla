--------------------------- MODULE TestExecProofs ---------------------------
(***************************************************************************)
(* Machine-checked facts about TestExec for every number of attempts to    *)
(* start epmd. The proofs follow the processes: a lemma per process shows  *)
(* that its steps preserve the inductive invariant.                        *)
(***************************************************************************)
EXTENDS TestExec, TLAPS

\* A message is waiting in a mailbox.
In(m, q) == \E i \in 1..Len(q) : q[i] = m

LEMMA LossAdd == ASSUME lost \subseteq Loss, NEW l \in Loss PROVE lost \cup {l} \subseteq Loss
OBVIOUS

LEMMA InAppend ==
  ASSUME NEW S, NEW q \in Seq(S), NEW e \in S, NEW m
  PROVE  In(m, Append(q, e)) <=> In(m, q) \/ m = e
BY DEF In

LEMMA InTail ==
  ASSUME NEW S, NEW q \in Seq(S), q # <<>>, NEW m
  PROVE  /\ In(m, Tail(q)) => In(m, q)
         /\ In(Head(q), q)
BY DEF In

LEMMA Deliver ==
  ASSUME NEW S, NEW q \in Seq(S)
  PROVE  /\ \A e \in S : Append(q, e) \in Seq(S)
         /\ q # <<>> => Tail(q) \in Seq(S) /\ Head(q) \in S
OBVIOUS

LEMMA Messages ==
  /\ RunMsg = {"run_succeed", "run_failed", "DOWN"}
  /\ "cr_exit" \in SupMsg
  /\ {"exit_ok", "exit_error", "port_gone"} \subseteq CrMsg
BY DEF RunMsg, SupMsg, CrMsg

-----------------------------------------------------------------------------
(* Type correctness. An attempt is left while epmd_manager listens to one. *)

TypeInv == TypeOK /\ (em = "listen" => attempts > 0)

LEMMA TypeInit == Init => TypeInv
<1> SUFFICES ASSUME Init PROVE TypeInv
  OBVIOUS
<1>1. /\ runPc \in RunPc /\ status \in Status /\ output \in Output
      /\ sup \in SupPhase /\ em \in EmPc /\ cr \in CrPc /\ epmd \in EpmdState
      /\ node \in NodeState /\ nodeExit \in NodeExit /\ resultFile \in FileState
  BY DEF Init, RunPc, Status, Output, SupPhase, EmPc, CrPc, EpmdState, NodeState,
         NodeExit, FileState
<1>2. runQ \in Seq(RunMsg) /\ supQ \in Seq(SupMsg) /\ crQ \in Seq(CrMsg)
  BY DEF Init
<1>3. QED BY <1>1, <1>2, MaxAttemptsAssumption DEF Init, TypeOK, TypeInv

LEMMA TypeRunner == TypeInv /\ (Runner \/ RunTimeout) => TypeInv'
<1> SUFFICES ASSUME TypeInv, Runner \/ RunTimeout PROVE TypeInv'
  OBVIOUS
<1> USE DEF TypeInv, TypeOK, RunPc, RunMsg, Status, Output, SupPhase, SupMsg, EmPc, Loss, Report,
            crVars, emVars, supVars, epmdVars, nodeVars
<1>1. CASE RunStart    BY <1>1 DEF RunStart
<1>2. CASE RunMonitor
  <2>1. runQ' \in Seq(RunMsg)  BY <1>2 DEF RunMonitor
  <2>2. lost' \subseteq Loss   BY <1>2, LossAdd DEF RunMonitor
  <2>3. CASE env.shortTimeout   BY <1>2, <2>1, <2>2, <2>3 DEF RunMonitor
  <2>4. CASE ~env.shortTimeout  BY <1>2, <2>1, <2>2, <2>4 DEF RunMonitor
  <2>5. QED BY <2>3, <2>4
<1>3. CASE RunReceive  BY <1>3 DEF RunReceive
<1>4. CASE RunTimeout  BY <1>4 DEF RunTimeout
<1>5. CASE RunStopped  BY <1>5 DEF RunStopped
<1>6. CASE RunReport   BY <1>6 DEF RunReport
<1>7. CASE RunRaise
  <2>1. CASE retried    BY <1>7, <2>1 DEF RunRaise
  <2>2. CASE ~retried   BY <1>7, <2>2 DEF RunRaise
  <2>3. QED BY <2>1, <2>2
<1>8. CASE RunHalt     BY <1>8 DEF RunHalt
<1>9. QED BY <1>1, <1>2, <1>3, <1>4, <1>5, <1>6, <1>7, <1>8 DEF Runner

LEMMA TypeSupervisor == TypeInv /\ (Supervisor \/ SupTimer) => TypeInv'
<1> SUFFICES ASSUME TypeInv, Supervisor \/ SupTimer PROVE TypeInv'
  OBVIOUS
<1> USE DEF TypeInv, TypeOK, SupPhase, SupMsg, RunMsg, EmPc, EmMsg, CrPc, CrMsg, Loss,
            runVars, crVars, emVars, supVars, epmdVars, nodeVars
<1>1. CASE SupStartChild  BY <1>1 DEF SupStartChild
<1>2. CASE SupShutdown    BY <1>2 DEF SupShutdown
<1>3. CASE SupStopEm      BY <1>3 DEF SupStopEm
<1>4. CASE SupDown        BY <1>4 DEF SupDown
<1>5. CASE SupKillCr
  <2>1. lost' \subseteq Loss  BY <1>5, LossAdd DEF SupKillCr
  <2>2. QED BY <1>5, <2>1 DEF SupKillCr
<1>6. CASE SupKillEm
  <2>1. lost' \subseteq Loss  BY <1>6, LossAdd DEF SupKillEm
  <2>2. QED BY <1>6, <2>1 DEF SupKillEm
<1>7. QED BY <1>1, <1>2, <1>3, <1>4, <1>5, <1>6 DEF Supervisor, SupTimer

LEMMA TypeEpmdManager == TypeInv /\ EpmdManager => TypeInv'
<1> SUFFICES ASSUME TypeInv, EpmdManager PROVE TypeInv'
  OBVIOUS
<1> DEFINE Typed == /\ em' \in EmPc /\ emMsgs' \subseteq EmMsg /\ attempts' \in Nat
                    /\ epmd' \in EpmdState /\ epmdPort' \in BOOLEAN /\ stray' \in BOOLEAN
                    /\ supQ' \in Seq(SupMsg)
                    /\ (em' = "listen" => attempts' > 0)
           Others == UNCHANGED <<env, runVars, runQ, sup, crVars, nodeVars, lost>>
<1>1. SUFFICES Typed /\ Others
  BY DEF TypeInv, TypeOK, runVars, crVars, nodeVars
<1>2. Others
  BY DEF EpmdManager, EmContinue, EmAttempt, EmReady, EmRetry, EmGiveUp, EmReply, EmStop,
         CallStartCtRunner, supVars
<1>3. /\ em \in EmPc /\ emMsgs \subseteq EmMsg /\ attempts \in Nat
      /\ epmd \in EpmdState /\ epmdPort \in BOOLEAN /\ stray \in BOOLEAN
      /\ supQ \in Seq(SupMsg)
      /\ (em = "listen" => attempts > 0)
  BY DEF TypeInv, TypeOK
<1>4. Append(supQ, "start_child") \in Seq(SupMsg) /\ Append(supQ, "em_exit") \in Seq(SupMsg)
  BY <1>3 DEF SupMsg
<1> USE DEF EmPc, EmMsg, EpmdState, CallStartCtRunner, supVars, epmdVars
<1>5. ASSUME EmContinue PROVE Typed   BY <1>3, <1>4, <1>5 DEF EmContinue
<1>6. ASSUME EmAttempt PROVE Typed
  <2>1. CASE stray' = (stray \/ EpmdAlive) /\ epmdPort' = TRUE /\ epmd' = "booting"
             /\ em' = "listen" /\ UNCHANGED attempts
    <3>1. stray' \in BOOLEAN  BY ONLY <2>1, Zenon
    <3>2. QED BY <1>3, <1>6, <2>1, <3>1 DEF EmAttempt, AttemptsLeft
  <2>2. CASE attempts' = attempts - 1 /\ UNCHANGED <<em, epmdVars>>
    BY <1>3, <1>6, <2>2 DEF EmAttempt, AttemptsLeft
  <2>3. QED BY <1>6, <2>1, <2>2 DEF EmAttempt
<1>7. ASSUME EmReady PROVE Typed      BY <1>3, <1>4, <1>7 DEF EmReady
<1>8. ASSUME EmRetry PROVE Typed
  <2>1. epmd' \in EpmdState  BY <1>3, <1>8 DEF EmRetry, TerminateEpmd
  <2>2. emMsgs' \subseteq EmMsg /\ supQ' \in Seq(SupMsg) /\ em' = "start" /\ attempts' \in Nat
    BY <1>3, <1>8 DEF EmRetry
  <2>3. epmdPort' \in BOOLEAN /\ stray' \in BOOLEAN
    BY <1>3, <1>8, Zenon DEF EmRetry
  <2>4. QED BY <2>1, <2>2, <2>3
<1>9. ASSUME EmGiveUp PROVE Typed     BY <1>3, <1>4, <1>9 DEF EmGiveUp
<1>10. ASSUME EmReply PROVE Typed     BY <1>3, <1>10 DEF EmReply
<1>11. ASSUME EmStop PROVE Typed      BY <1>3, <1>4, <1>11 DEF EmStop, TerminateEpmd
<1>12. QED
  BY <1>2, <1>5, <1>6, <1>7, <1>8, <1>9, <1>10, <1>11 DEF EpmdManager

LEMMA TypeCtRunner == TypeInv /\ CtRunner => TypeInv'
<1> SUFFICES ASSUME TypeInv, CtRunner PROVE TypeInv'
  OBVIOUS
<1> USE DEF TypeInv, TypeOK, CrPc, NodeState, NodeExit, CrEnd, runVars, emVars, epmdVars, nodeVars
<1>1. /\ Append(supQ, "cr_exit") \in Seq(SupMsg)
      /\ Append(runQ, "run_failed") \in Seq(RunMsg)
      /\ Append(runQ, "run_succeed") \in Seq(RunMsg)
      /\ crQ # <<>> => Tail(crQ) \in Seq(CrMsg)
  BY Deliver, Messages
<1>2. CASE CrLaunch
  <2>1. CASE cr' = "up" /\ portOpen' = TRUE /\ node' = "boot" /\ UNCHANGED <<runQ, supQ>>
    BY <1>2, <2>1 DEF CrLaunch
  <2>2. CASE CrEnd /\ runQ' = Append(runQ, "run_failed") /\ UNCHANGED node
    <3>1. runQ' \in Seq(RunMsg) /\ supQ' \in Seq(SupMsg)  BY <1>1, <2>2
    <3>2. QED BY ZenonT(60), <1>2, <2>2, <3>1 DEF CrLaunch
  <2>3. QED BY <1>2, <2>1, <2>2 DEF CrLaunch
<1>3. CASE CrNodeExit
  <2>1. runQ' \in Seq(RunMsg)  BY <1>1, <1>3 DEF CrNodeExit
  <2>2. QED BY ZenonT(60), <1>1, <1>3, <2>1 DEF CrNodeExit
<1>4. CASE CrStop
  <2>1. node' \in NodeState /\ nodeExit' \in NodeExit /\ resultFile' = resultFile
    BY <1>4 DEF CrStop, TerminateNode
  <2>2. QED BY <1>1, <1>4, <2>1 DEF CrStop
<1>5. QED BY <1>2, <1>3, <1>4 DEF CtRunner

LEMMA TypeOsProcesses == TypeInv /\ OsProcesses => TypeInv'
<1> SUFFICES ASSUME TypeInv, OsProcesses PROVE TypeInv'
  OBVIOUS
<1> USE DEF TypeInv, TypeOK, runVars, supVars, emVars, crVars, epmdVars
<1>1. /\ Append(crQ, "exit_ok") \in Seq(CrMsg)
      /\ Append(crQ, "exit_error") \in Seq(CrMsg)
      /\ Append(crQ, "port_gone") \in Seq(CrMsg)
  BY Deliver, Messages
<1>2. CASE EpmdReady
  <2>1. emMsgs' \subseteq EmMsg  BY <1>2 DEF EpmdReady, EmMsg
  <2>2. epmd' \in EpmdState        BY <1>2 DEF EpmdReady, EpmdState
  <2>3. QED BY <1>2, <2>1, <2>2 DEF EpmdReady, nodeVars
<1>3. CASE EpmdExit
  <2>1. emMsgs' \subseteq EmMsg  BY <1>3 DEF EpmdExit, EmMsg
  <2>2. epmd' \in EpmdState        BY <1>3 DEF EpmdExit, EpmdState
  <2>3. QED BY <1>3, <2>1, <2>2 DEF EpmdExit, nodeVars
<1>4. CASE NodeBoot      BY <1>4 DEF NodeBoot, NodeState
<1>5. CASE NodeTestsEnd  BY <1>5 DEF NodeTestsEnd, NodeState, FileState
<1>6. CASE NodeWritten   BY <1>6 DEF NodeWritten, NodeState, FileState
<1>7. ASSUME NEW how \in {"ok", "error"}, NodeEnd(how) PROVE TypeInv'
  <2>1. crQ' \in Seq(CrMsg)  BY <1>1, <1>7 DEF NodeEnd
  <2>2. QED BY <1>7, <2>1 DEF NodeEnd, NodeState, NodeExit
<1>8. CASE PortLost
  <2>1. lost' \subseteq Loss  BY <1>8, LossAdd DEF PortLost, Loss
  <2>2. QED BY <1>1, <1>8, <2>1 DEF PortLost, nodeVars
<1>9. CASE StrayExit
  BY <1>9 DEF StrayExit, nodeVars
<1>10. CASE EpmdPortLost
  <2>1. lost' \subseteq Loss    BY <1>10, LossAdd DEF EpmdPortLost, Loss
  <2>2. emMsgs' \subseteq EmMsg  BY <1>10 DEF EpmdPortLost, EmMsg
  <2>3. QED BY <1>10, <2>1, <2>2 DEF EpmdPortLost, nodeVars
<1>11. QED BY <1>2, <1>3, <1>4, <1>5, <1>6, <1>7, <1>8, <1>9, <1>10 DEF OsProcesses

LEMMA TypeStutter == TypeInv /\ UNCHANGED vars => TypeInv'
BY DEF TypeInv, TypeOK, vars, runVars, supVars, emVars, crVars, epmdVars, nodeVars

LEMMA TypeStep == TypeInv /\ Next => TypeInv'
BY TypeRunner, TypeSupervisor, TypeEpmdManager, TypeCtRunner, TypeOsProcesses DEF Next

(***************************************************************************)
(* Every state the processes can reach is well typed, for any number of    *)
(* attempts; in particular the countdown of start_epmd/3 never passes 0.   *)
(***************************************************************************)
THEOREM TypeCorrect == Spec => []TypeOK
<1>1. Init => TypeInv
  BY TypeInit
<1>2. TypeInv /\ [Next]_vars => TypeInv'
  BY TypeStep, TypeStutter
<1>3. TypeInv => TypeOK
  BY DEF TypeInv
<1>4. QED BY <1>1, <1>2, <1>3, PTL DEF Spec

-----------------------------------------------------------------------------
(* The test node: who can start it, and who still knows about it. *)

\* epmd_manager asks for ct_runner at most once.
StartOnce ==
  /\ runPc = "start" => sup = "off" /\ em = "off"
  /\ em \in {"off", "init", "start", "listen"} => cr = "off" /\ ~In("start_child", supQ)
  /\ In("start_child", supQ) => cr = "off"
  /\ \A i, j \in 1..Len(supQ) :
       supQ[i] = "start_child" /\ supQ[j] = "start_child" => i = j

\* An exit message stands for a node that ended that way, and ct_runner goes
\* only after its node, unless it was killed or had lost the port.
NodeKnown ==
  /\ cr \in {"off", "launch"} => node = "none" /\ ~portOpen
  /\ nodeExit = "ok" => node = "dead"
  /\ In("exit_ok", crQ) => nodeExit = "ok"
  /\ In("exit_error", crQ) => node = "dead"
  /\ cr = "up" /\ ~portOpen /\ NodeAlive => "port_lost" \in lost
  /\ cr = "dead" => /\ ~portOpen
                    /\ NodeAlive => lost \cap {"cr_killed", "port_lost"} # {}

\* What has become of the tree once test_runner has decided.
Settled ==
  /\ sup = "off" => em = "off" /\ cr = "off"
  /\ sup \in {"stop_em", "down"} => cr \in {"off", "dead"}
  /\ In("run_succeed", runQ) => nodeExit = "ok"
  /\ In("run_succeed", runQ) \/ In("run_failed", runQ) => cr = "dead"
  /\ In("DOWN", runQ) => sup = "down"
  /\ status = "passed" => nodeExit = "ok"
  /\ runPc \in {"report", "link", "halted"} =>
       \/ lost \cap {"gave_up", "bad_timeout"} # {}
       \/ sup \in {"off", "down"} \/ cr = "dead"

NodeInv == TypeInv /\ StartOnce /\ NodeKnown /\ Settled

\* Sending keeps the position of what was sent before.
LEMMA SendOnce ==
  ASSUME NEW q \in Seq(SupMsg), NEW e \in SupMsg, NEW m,
         \A i, j \in 1..Len(q) : q[i] = m /\ q[j] = m => i = j,
         e = m => ~In(m, q)
  PROVE  \A i, j \in 1..Len(Append(q, e)) :
            Append(q, e)[i] = m /\ Append(q, e)[j] = m => i = j
BY DEF In

LEMMA ReceiveOnce ==
  ASSUME NEW q \in Seq(SupMsg), q # <<>>, NEW m,
         \A i, j \in 1..Len(q) : q[i] = m /\ q[j] = m => i = j
  PROVE  /\ \A i, j \in 1..Len(Tail(q)) : Tail(q)[i] = m /\ Tail(q)[j] = m => i = j
         /\ Head(q) = m => ~In(m, Tail(q))
BY DEF In

LEMMA Empty == ASSUME NEW m PROVE ~In(m, <<>>)
BY DEF In

LEMMA StartOnceInit == Init => StartOnce
BY Empty DEF Init, StartOnce

\* What the types say of the mailboxes; used to apply InAppend and InTail.
LEMMA Mailboxes ==
  TypeInv => runQ \in Seq(RunMsg) /\ supQ \in Seq(SupMsg) /\ crQ \in Seq(CrMsg)
BY DEF TypeInv, TypeOK

LEMMA SupSend ==
  ASSUME NEW e \in SupMsg, TypeInv, StartOnce, supQ' = Append(supQ, e), e # "start_child"
  PROVE  /\ In("start_child", supQ') <=> In("start_child", supQ)
         /\ \A i, j \in 1..Len(supQ') :
              supQ'[i] = "start_child" /\ supQ'[j] = "start_child" => i = j
BY Mailboxes, SendOnce, InAppend DEF StartOnce

LEMMA StartOnceStep == TypeInv /\ StartOnce /\ Settled /\ Next => StartOnce'
<1> SUFFICES ASSUME TypeInv, StartOnce, Settled, Next PROVE StartOnce'
  OBVIOUS
<1>0. supQ \in Seq(SupMsg) /\ {"em_exit", "cr_exit", "app_stop", "start_child"} \subseteq SupMsg
  BY Mailboxes DEF SupMsg
<1>1. CASE Runner
  <2>1. UNCHANGED <<supQ, cr>>
    BY <1>1 DEF Runner, RunStart, RunMonitor, RunReceive, RunStopped, RunReport, RunRaise,
                RunHalt, supVars, crVars
  <2>2. CASE RunStart
    BY <2>1, <2>2 DEF RunStart, Report, StartOnce, Settled
  <2>3. CASE ~RunStart
    <3>1. UNCHANGED <<sup, em>> /\ (runPc' = "start" => runPc = "start")
      BY <1>1, <2>3 DEF Runner, RunMonitor, RunReceive, RunStopped, RunReport, RunRaise,
                        RunHalt, Report, supVars, emVars
    <3>2. QED BY <2>1, <3>1 DEF StartOnce
  <2>4. QED BY <2>2, <2>3
<1>2. CASE RunTimeout
  BY <1>0, <1>2, SupSend DEF RunTimeout, StartOnce, emVars, crVars
<1>3. CASE SupStartChild
  BY <1>0, <1>3, ReceiveOnce, InTail DEF SupStartChild, StartOnce, runVars
<1>4. CASE SupShutdown
  BY <1>0, <1>4, ReceiveOnce, InTail DEF SupShutdown, StartOnce, runVars, emVars
<1>5. CASE SupStopEm \/ SupDown \/ SupTimer
  <2>1. CASE SupStopEm  BY <2>1 DEF SupStopEm, StartOnce, runVars, crVars
  <2>2. CASE SupDown    BY <2>2 DEF SupDown, StartOnce, runVars, emVars, crVars
  <2>3. CASE SupKillCr  BY <2>3 DEF SupKillCr, StartOnce, runVars, supVars, emVars
  <2>4. CASE SupKillEm  BY <2>4 DEF SupKillEm, StartOnce, runVars, supVars, crVars
  <2>5. QED BY <1>5, <2>1, <2>2, <2>3, <2>4 DEF SupTimer
<1>6. ASSUME CallStartCtRunner, em \in {"init", "listen"}, UNCHANGED <<cr, runPc>>
      PROVE StartOnce'
  BY <1>0, <1>6, SendOnce, InAppend DEF CallStartCtRunner, StartOnce
<1>7. CASE EmContinue
  BY <1>6, <1>7 DEF EmContinue, StartOnce, runVars, crVars
<1>8. CASE EmReady
  BY <1>6, <1>8 DEF EmReady, runVars, crVars
<1>9. CASE EmAttempt \/ EmRetry \/ EmReply
  BY <1>9 DEF EmAttempt, EmRetry, EmReply, StartOnce, runVars, supVars, crVars
<1>10. CASE EmGiveUp \/ EmStop
  BY <1>0, <1>10, SupSend DEF EmGiveUp, EmStop, StartOnce, runVars, crVars
<1>11. CASE CtRunner
  <2>1. em \notin {"off", "init", "start", "listen"} /\ ~In("start_child", supQ)
    BY <1>11 DEF CtRunner, CrLaunch, CrNodeExit, CrStop, StartOnce
  <2>2. UNCHANGED <<em, runPc>> /\ (supQ' = supQ \/ supQ' = Append(supQ, "cr_exit"))
    BY <1>11 DEF CtRunner, CrLaunch, CrNodeExit, CrStop, CrEnd, runVars, emVars
  <2>3. QED BY <1>0, <2>1, <2>2, SupSend DEF StartOnce
<1>12. CASE OsProcesses
  BY <1>12 DEF OsProcesses, EpmdReady, EpmdExit, StrayExit, EpmdPortLost, NodeBoot, NodeTestsEnd, NodeWritten, NodeEnd,
               PortLost, StartOnce, runVars, supVars, emVars, crVars
<1>13. QED
  BY <1>1, <1>2, <1>3, <1>4, <1>5, <1>7, <1>8, <1>9, <1>10, <1>11, <1>12
     DEF Next, Supervisor, EpmdManager

LEMMA NodeKnownInit == Init => NodeKnown
BY Empty DEF Init, NodeKnown

LEMMA NodeKnownStep == NodeInv /\ Next => NodeKnown'
<1> SUFFICES ASSUME NodeInv, Next PROVE NodeKnown'
  OBVIOUS
<1>0. /\ crQ \in Seq(CrMsg) /\ cr \in CrPc /\ node \in NodeState
      /\ {"exit_ok", "exit_error", "port_gone", "shutdown"} \subseteq CrMsg
  BY DEF NodeInv, TypeInv, TypeOK, CrMsg
<1>1. CASE Runner \/ RunTimeout
  <2>1. UNCHANGED <<crVars, nodeVars>> /\ lost \subseteq lost'
    BY <1>1 DEF Runner, RunStart, RunMonitor, RunReceive, RunStopped, RunReport, RunRaise,
                RunHalt, RunTimeout
  <2>2. QED BY <2>1 DEF NodeInv, NodeKnown, NodeAlive, crVars, nodeVars
<1>2. CASE SupStartChild
  BY <1>2, InTail, Mailboxes
     DEF SupStartChild, NodeInv, StartOnce, NodeKnown, NodeAlive, nodeVars
<1>3. CASE SupShutdown
  <2>1. crQ' = crQ \/ crQ' = Append(crQ, "shutdown")  BY <1>3 DEF SupShutdown
  <2>2. /\ In("exit_ok", crQ') => In("exit_ok", crQ)
        /\ In("exit_error", crQ') => In("exit_error", crQ)
    <3>1. CASE crQ' = crQ  BY <3>1
    <3>2. CASE crQ' = Append(crQ, "shutdown")
      <4>1. "shutdown" \in CrMsg  BY <1>0
      <4>2. QED BY <1>0, <3>2, <4>1, InAppend
    <3>3. QED BY <2>1, <3>1, <3>2
  <2>3. QED BY <1>3, <2>2 DEF SupShutdown, NodeInv, NodeKnown, NodeAlive, nodeVars
<1>4. CASE SupStopEm \/ SupDown \/ SupKillEm \/ EpmdManager
  <2>1. UNCHANGED <<crVars, nodeVars>> /\ lost \subseteq lost'
    BY <1>4 DEF SupStopEm, SupDown, SupKillEm, EpmdManager, EmContinue, EmAttempt, EmReady,
                EmRetry, EmGiveUp, EmReply, EmStop
  <2>2. QED BY <2>1 DEF NodeInv, NodeKnown, NodeAlive, crVars, nodeVars
<1>5. CASE SupKillCr
  BY <1>5 DEF SupKillCr, NodeInv, NodeKnown, NodeAlive, nodeVars
<1>6. CASE CrLaunch
  BY <1>6 DEF CrLaunch, CrEnd, NodeInv, NodeKnown, NodeAlive
<1>7. CASE CrNodeExit
  <2>1. /\ In("exit_ok", crQ') => In("exit_ok", crQ)
        /\ In("exit_error", crQ') => In("exit_error", crQ)
        /\ In("exit_ok", crQ) \/ In("exit_error", crQ)
    BY <1>0, <1>7, InTail DEF CrNodeExit
  <2>2. node = "dead"  BY <2>1 DEF NodeInv, NodeKnown
  <2>3. QED BY <1>7, <2>1, <2>2 DEF CrNodeExit, CrEnd, NodeInv, NodeKnown, NodeAlive, nodeVars
<1>8. CASE CrStop
  <2>1. /\ In("exit_ok", crQ') => In("exit_ok", crQ)
        /\ In("exit_error", crQ') => In("exit_error", crQ)
    BY <1>0, <1>8, InTail DEF CrStop
  <2>2. CASE portOpen /\ NodeAlive
    BY <1>8, <2>1, <2>2 DEF CrStop, CrEnd, TerminateNode, NodeInv, NodeKnown, NodeAlive
  <2>3. CASE ~(portOpen /\ NodeAlive)
    BY <1>8, <2>1, <2>3 DEF CrStop, CrEnd, TerminateNode, NodeInv, NodeKnown, NodeAlive, nodeVars
  <2>4. QED BY <2>2, <2>3
<1>9. CASE EpmdReady \/ EpmdExit \/ StrayExit \/ EpmdPortLost
  BY <1>9 DEF EpmdReady, EpmdExit, StrayExit, EpmdPortLost, NodeInv, NodeKnown, NodeAlive, crVars, nodeVars
<1>10. CASE NodeBoot \/ NodeTestsEnd \/ NodeWritten
  BY <1>0, <1>10 DEF NodeBoot, NodeTestsEnd, NodeWritten, NodeInv, NodeKnown, NodeAlive, crVars
<1>11. ASSUME NEW how \in {"ok", "error"}, NodeEnd(how) PROVE NodeKnown'
  <2>1. /\ In("exit_ok", crQ') => In("exit_ok", crQ) \/ how = "ok"
        /\ NodeAlive /\ node' = "dead" /\ nodeExit' = how /\ UNCHANGED <<cr, portOpen, lost>>
    BY <1>0, <1>11, InAppend DEF NodeEnd
  <2>2. QED BY <2>1 DEF NodeInv, NodeKnown, NodeAlive
<1>12. CASE PortLost
  <2>1. /\ In("exit_ok", crQ') => In("exit_ok", crQ)
        /\ In("exit_error", crQ') => In("exit_error", crQ)
    BY <1>0, <1>12, InAppend DEF PortLost
  <2>2. QED BY <1>12, <2>1 DEF PortLost, NodeInv, NodeKnown, NodeAlive, nodeVars
<1>13. QED
  BY <1>1, <1>2, <1>3, <1>4, <1>5, <1>6, <1>7, <1>8, <1>9, <1>10, <1>11, <1>12
     DEF Next, Supervisor, SupTimer, CtRunner, OsProcesses

LEMMA SettledInit == Init => Settled
BY Empty DEF Init, Settled

LEMMA SettledStep == NodeInv /\ Next => Settled'
<1> SUFFICES ASSUME NodeInv, Next PROVE Settled'
  OBVIOUS
<1>0. /\ runQ \in Seq(RunMsg) /\ lost \subseteq Loss
      /\ {"run_succeed", "run_failed", "DOWN"} = RunMsg
  BY DEF NodeInv, TypeInv, TypeOK, RunMsg
<1>1. CASE RunStart
  BY <1>1 DEF RunStart, Report, NodeInv, StartOnce, Settled, crVars, nodeVars
<1>2. CASE RunMonitor
  <2>1. /\ In("run_succeed", runQ') => In("run_succeed", runQ)
        /\ In("run_failed", runQ') => In("run_failed", runQ)
        /\ In("DOWN", runQ') => In("DOWN", runQ) \/ sup = "down"
    BY <1>0, <1>2, InAppend DEF RunMonitor
  <2>2. CASE env.shortTimeout
    BY <1>2, <2>1, <2>2
       DEF RunMonitor, Report, NodeInv, Settled, supVars, emVars, crVars, nodeVars
  <2>3. CASE ~env.shortTimeout
    BY <1>2, <2>1, <2>3
       DEF RunMonitor, Report, NodeInv, Settled, supVars, emVars, crVars, nodeVars
  <2>4. QED BY <2>2, <2>3
<1>3. CASE RunReceive
  <2>1. \A m \in RunMsg : In(m, runQ') => In(m, runQ)
    BY <1>0, <1>3, InTail DEF RunReceive
  <2>2. In(Head(runQ), runQ) /\ Head(runQ) \in RunMsg
    BY <1>0, <1>3, InTail DEF RunReceive
  <2>3. status' = "passed" => In("run_succeed", runQ)
    BY <1>3, <2>2 DEF RunReceive, Report, Received
  <2>4. sup = "down" \/ cr = "dead"
    BY <1>0, <2>2 DEF NodeInv, Settled
  <2>5. QED
    BY <1>0, <1>3, <2>1, <2>3, <2>4
       DEF RunReceive, Report, NodeInv, Settled, supVars, emVars, crVars, nodeVars
<1>4. CASE RunTimeout \/ RunStopped \/ RunReport \/ RunHalt
  BY <1>4 DEF RunTimeout, RunStopped, RunReport, RunHalt, Report, NodeInv, Settled, supVars,
              emVars, crVars, nodeVars
<1>5. CASE RunRaise
  <2>1. CASE retried
    BY <1>5, <2>1 DEF RunRaise, NodeInv, Settled, supVars, emVars, crVars, nodeVars
  <2>2. CASE ~retried
    BY <1>5, <2>2 DEF RunRaise, Report, NodeInv, Settled, supVars, emVars, crVars, nodeVars
  <2>3. QED BY <2>1, <2>2
<1>6. CASE SupStartChild
  <2>1. cr = "off"  BY <1>6, InTail, Mailboxes DEF SupStartChild, NodeInv, StartOnce
  <2>2. QED BY <1>6, <2>1 DEF SupStartChild, NodeInv, Settled, runVars, nodeVars
<1>7. CASE SupShutdown \/ SupStopEm
  BY <1>7 DEF SupShutdown, SupStopEm, NodeInv, Settled, runVars, emVars, crVars, nodeVars
<1>8. CASE SupDown
  <2>1. /\ In("run_succeed", runQ') => In("run_succeed", runQ)
        /\ In("run_failed", runQ') => In("run_failed", runQ)
    BY <1>0, <1>8, InAppend DEF SupDown
  <2>2. QED BY <1>8, <2>1 DEF SupDown, NodeInv, Settled, runVars, emVars, crVars, nodeVars
<1>9. CASE SupTimer
  BY <1>9 DEF SupTimer, SupKillCr, SupKillEm, NodeInv, Settled, runVars, supVars, emVars,
              crVars, nodeVars
<1>10. CASE EpmdManager
  BY <1>10 DEF EpmdManager, EmContinue, EmAttempt, EmReady, EmRetry, EmGiveUp, EmReply, EmStop,
               CallStartCtRunner, NodeInv, Settled, runVars, supVars, emVars, crVars, nodeVars
<1>11. CASE CrLaunch \/ CrNodeExit
  <2>1. /\ In("DOWN", runQ') => In("DOWN", runQ)
        /\ In("run_succeed", runQ') => In("run_succeed", runQ) \/ In("exit_ok", crQ)
        /\ In("run_succeed", runQ') \/ In("run_failed", runQ') =>
             cr' = "dead" \/ In("run_succeed", runQ) \/ In("run_failed", runQ)
    <3>0. "run_succeed" \in RunMsg /\ "run_failed" \in RunMsg
      BY <1>0
    <3>1. CASE CrLaunch
      <4>1. runQ' = runQ \/ (runQ' = Append(runQ, "run_failed") /\ cr' = "dead")
        BY <3>1 DEF CrLaunch, CrEnd
      <4>2. CASE runQ' = runQ  BY <4>2
      <4>3. CASE runQ' = Append(runQ, "run_failed") /\ cr' = "dead"
        BY <1>0, <3>0, <4>3, InAppend
      <4>4. QED BY <4>1, <4>2, <4>3
    <3>2. CASE CrNodeExit
      <4>1. In(Head(crQ), crQ)  BY <3>2, InTail, Mailboxes DEF CrNodeExit, NodeInv
      <4>2. CASE Head(crQ) = "exit_ok"
        <5>1. runQ' = Append(runQ, "run_succeed") /\ cr' = "dead"
          BY <3>2, <4>2 DEF CrNodeExit, CrEnd
        <5>2. QED BY <1>0, <3>0, <4>1, <4>2, <5>1, InAppend
      <4>3. CASE Head(crQ) # "exit_ok"
        <5>1. runQ' = Append(runQ, "run_failed") /\ cr' = "dead"
          BY <3>2, <4>3 DEF CrNodeExit, CrEnd
        <5>2. QED BY <1>0, <3>0, <5>1, InAppend
      <4>4. QED BY <4>2, <4>3
    <3>3. QED BY <1>11, <3>1, <3>2
  <2>2. cr \in {"launch", "up"} /\ cr' \in {"up", "dead"}
        /\ UNCHANGED <<runPc, status, sup, em, nodeExit, lost>>
    BY <1>11 DEF CrLaunch, CrNodeExit, CrEnd, runVars, emVars, nodeVars
  <2>3. sup \notin {"off", "stop_em", "down"}
    BY <2>2 DEF NodeInv, Settled
  <2>4. QED BY <2>1, <2>2, <2>3 DEF NodeInv, NodeKnown, Settled
<1>12. CASE CrStop
  <2>1. /\ cr = "up" /\ cr' = "dead" /\ UNCHANGED <<runPc, status, sup, em, runQ, lost>>
    BY <1>12 DEF CrStop, CrEnd, runVars, emVars
  <2>2. nodeExit' = nodeExit \/ nodeExit # "ok"
    BY <1>12 DEF CrStop, TerminateNode, NodeAlive, NodeInv, NodeKnown, nodeVars
  <2>3. QED BY <2>1, <2>2 DEF NodeInv, Settled
<1>13. CASE EpmdReady \/ EpmdExit \/ StrayExit \/ EpmdPortLost \/ NodeBoot \/ NodeTestsEnd \/ NodeWritten \/ PortLost
  BY <1>13 DEF EpmdReady, EpmdExit, StrayExit, EpmdPortLost, NodeBoot, NodeTestsEnd, NodeWritten, PortLost, NodeInv,
               Settled, runVars, supVars, emVars, crVars, nodeVars
<1>14. ASSUME NEW how \in {"ok", "error"}, NodeEnd(how) PROVE Settled'
  <2>1. nodeExit # "ok"  BY <1>14 DEF NodeEnd, NodeAlive, NodeInv, NodeKnown
  <2>2. QED BY <1>14, <2>1 DEF NodeEnd, NodeInv, Settled, runVars, supVars, emVars
<1>15. QED
  BY <1>1, <1>2, <1>3, <1>4, <1>5, <1>6, <1>7, <1>8, <1>9, <1>10, <1>11, <1>12, <1>13, <1>14
     DEF Next, Runner, Supervisor, SupTimer, CtRunner, OsProcesses

LEMMA NodeInvariant == Spec => []NodeInv
<1>1. Init => NodeInv
  BY TypeInit, StartOnceInit, NodeKnownInit, SettledInit DEF NodeInv
<1>2. NodeInv /\ Next => NodeInv'
  BY TypeStep, StartOnceStep, NodeKnownStep, SettledStep DEF NodeInv
<1>3. NodeInv /\ UNCHANGED vars => NodeInv'
  BY TypeStutter DEF NodeInv, StartOnce, NodeKnown, Settled, NodeAlive, vars, runVars, supVars,
                     emVars, crVars, nodeVars
<1>4. QED BY <1>1, <1>2, <1>3, PTL DEF Spec

(***************************************************************************)
(* A test node that outlives the test binary does so for one of the four   *)
(* reasons the code has, whatever the interleaving and however many times  *)
(* epmd had to be started (ct_runner:terminate, test_runner:run_test).     *)
(***************************************************************************)
THEOREM NoUnexplainedOrphan == Spec => []NodeOrphanExplained
<1>1. NodeInv => NodeOrphanExplained
  <2> SUFFICES ASSUME NodeInv, Halted, NodeAlive
               PROVE  lost \cap {"cr_killed", "gave_up", "port_lost", "bad_timeout"} # {}
    BY DEF NodeOrphanExplained
  <2>1. \/ lost \cap {"gave_up", "bad_timeout"} # {}
        \/ cr \in {"off", "dead"}
    BY DEF NodeInv, Settled, Halted
  <2>2. cr # "off"  BY DEF NodeInv, NodeKnown, NodeAlive
  <2>3. QED BY <2>1, <2>2 DEF NodeInv, NodeKnown
<1>2. QED BY <1>1, NodeInvariant, PTL

-----------------------------------------------------------------------------
(* What is reported. *)

Reported ==
  /\ resultFile = "complete" => node \in {"post", "dead"}
  /\ runPc \in {"report", "link", "halted"} => status # "none"
  /\ runPc \in {"start", "monitor", "receive", "stopping"} => output = "none"
  /\ runPc = "link" => output # "none"
  /\ output # "none" /\ runPc = "report" => status = "failed"
  /\ ResultsAreGenuine

LEMMA ReportedInit == Init => Reported
BY DEF Init, Reported, ResultsAreGenuine

\* No other process touches what the runner reports, and results stay whole.
LEMMA ReportedOther ==
  ASSUME NodeInv, Reported, UNCHANGED runVars,
         resultFile = "complete" => resultFile' = "complete" /\ node' \in {"post", "dead"},
         resultFile' = "complete" => node' \in {"post", "dead"},
         nodeExit = "ok" => nodeExit' = "ok"
  PROVE  Reported'
BY DEF Reported, ResultsAreGenuine, runVars

LEMMA ReportedStep == NodeInv /\ Reported /\ Next => Reported'
<1> SUFFICES ASSUME NodeInv, Reported, Next PROVE Reported'
  OBVIOUS
<1>1. CASE RunStart \/ RunMonitor \/ RunReceive \/ RunTimeout \/ RunStopped
  BY <1>1 DEF RunStart, RunMonitor, RunReceive, RunTimeout, RunStopped, Report, Reported,
              ResultsAreGenuine, nodeVars
<1>2. CASE RunReport
  <2>1. output' = "results" =>
          resultFile = "complete" /\ (nodeExit = "ok" \/ timeoutFile')
    <3>1. status \in {"failed", "passed", "timeout"}
      BY <1>2 DEF RunReport, Reported, NodeInv, TypeInv, TypeOK, Status
    <3>2. status = "passed" => nodeExit = "ok"  BY DEF NodeInv, Settled
    <3>3. QED BY <1>2, <3>1, <3>2 DEF RunReport, ResultsUsable
  <2>2. output' # "none"  BY <1>2 DEF RunReport
  <2>3. QED BY <1>2, <2>1, <2>2 DEF RunReport, Reported, ResultsAreGenuine, nodeVars
<1>3. CASE RunRaise
  <2>1. CASE retried
    BY <1>3, <2>1 DEF RunRaise, Reported, ResultsAreGenuine, nodeVars
  <2>2. CASE ~retried
    BY <1>3, <2>2 DEF RunRaise, Report, Reported, ResultsAreGenuine, nodeVars
  <2>3. QED BY <2>1, <2>2
<1>4. CASE RunHalt
  BY <1>4 DEF RunHalt, Reported, ResultsAreGenuine, nodeVars
<1>5. CASE Supervisor \/ SupTimer \/ EpmdManager
  <2>1. UNCHANGED <<runVars, nodeVars>>
    BY <1>5 DEF Supervisor, SupStartChild, SupShutdown, SupStopEm, SupDown, SupTimer, SupKillCr,
                SupKillEm, EpmdManager, EmContinue, EmAttempt, EmReady, EmRetry, EmGiveUp,
                EmReply, EmStop
  <2>2. QED BY <2>1, ReportedOther DEF Reported, nodeVars
<1>6. CASE CtRunner
  <2>1. UNCHANGED <<runVars, resultFile>> /\ (node' = node \/ node' = "dead" \/ node = "none")
        /\ (nodeExit' = nodeExit \/ NodeAlive)
    BY <1>6 DEF CtRunner, CrLaunch, CrNodeExit, CrStop, CrEnd, TerminateNode, nodeVars, NodeInv,
                NodeKnown
  <2>2. QED BY <2>1, ReportedOther DEF Reported, NodeInv, NodeKnown, NodeAlive
<1>7. CASE OsProcesses
  <2>1. UNCHANGED runVars
    BY <1>7 DEF OsProcesses, EpmdReady, EpmdExit, StrayExit, EpmdPortLost, NodeBoot, NodeTestsEnd, NodeWritten, NodeEnd,
                PortLost
  <2>2. nodeExit = "ok" => UNCHANGED nodeVars
    BY <1>7 DEF OsProcesses, EpmdReady, EpmdExit, StrayExit, EpmdPortLost, NodeBoot, NodeTestsEnd, NodeWritten, NodeEnd,
                PortLost, NodeInv, NodeKnown, NodeAlive, nodeVars
  <2>3. /\ resultFile' = "complete" => node' \in {"post", "dead"}
        /\ resultFile = "complete" => resultFile' = "complete"
    BY <1>7 DEF OsProcesses, EpmdReady, EpmdExit, StrayExit, EpmdPortLost, NodeBoot, NodeTestsEnd, NodeWritten, NodeEnd,
                PortLost, Reported, nodeVars
  <2>4. QED BY <2>1, <2>2, <2>3, ReportedOther DEF nodeVars
<1>8. QED
  BY <1>1, <1>2, <1>3, <1>4, <1>5, <1>6, <1>7 DEF Next, Runner

LEMMA ReportedInvariant == Spec => [](NodeInv /\ Reported)
<1>1. NodeInv /\ Reported /\ UNCHANGED vars => Reported'
  BY ReportedOther DEF vars, nodeVars, Reported
<1>2. QED BY <1>1, NodeInvariant, ReportedInit, ReportedStep, PTL DEF Spec

(***************************************************************************)
(* Results reach the caller only when they are complete and the node ended *)
(* well or the run is marked as timed out (provide_output_file).           *)
(***************************************************************************)
THEOREM GenuineResults == Spec => []ResultsAreGenuine
<1>1. Reported => ResultsAreGenuine
  BY DEF Reported
<1>2. QED BY <1>1, ReportedInvariant, PTL

(***************************************************************************)
(* Every step of the five processes is a step of SuiteReport or changes    *)
(* nothing its reader can see: no exception, restart of the report or      *)
(* crash publishes twice, turns a failure into results, or ends with exit  *)
(* code 0 and no output. That the binary ends is left to TLC.              *)
(***************************************************************************)
THEOREM KeepsPromise == Spec => Promise!Safety
<1>1. Init => Promise!Init
  BY DEF Init, Promise!Init, Halted
<1>2. NodeInv /\ Reported /\ [Next]_vars => [Promise!Next]_(Promise!vars)
  <2> SUFFICES ASSUME NodeInv, Reported, [Next]_vars
               PROVE  Promise!Next \/ UNCHANGED Promise!vars
    OBVIOUS
  <2>1. CASE RunReport
    <3>1. output = "none" \/ output' = "broken"
      BY <2>1 DEF RunReport, ResultsUsable, Reported
    <3>2. output \in Output /\ output' \in {"results", "broken"}
      BY <2>1 DEF RunReport, NodeInv, TypeInv, TypeOK
    <3>3. ~Halted /\ ~Halted' /\ UNCHANGED exitCode
      BY <2>1 DEF RunReport, Halted
    <3>4. QED
      BY <3>1, <3>2, <3>3 DEF Promise!Next, Promise!Publish, Promise!vars, Output, Halted
  <2>2. CASE RunRaise
    <3>1. CASE retried
      BY <2>2, <3>1 DEF RunRaise, Promise!Next, Promise!End, Halted
    <3>2. CASE ~retried
      BY <2>2, <3>2 DEF RunRaise, Report, Promise!vars, Halted
    <3>3. QED BY <3>1, <3>2
  <2>3. CASE RunHalt
    <3>1. exitCode' \in {0, 1} /\ output # "none" /\ UNCHANGED output
      BY <2>3 DEF RunHalt, Reported, NodeInv, TypeInv, TypeOK
    <3>2. QED BY <2>3, <3>1 DEF RunHalt, Promise!Next, Promise!End, Halted
  <2>4. CASE RunStart \/ RunMonitor \/ RunReceive \/ RunTimeout \/ RunStopped
    BY <2>4 DEF RunStart, RunMonitor, RunReceive, RunTimeout, RunStopped, Report, Promise!vars, Halted
  <2>5. CASE Supervisor \/ SupTimer \/ EpmdManager
    BY <2>5 DEF Supervisor, SupStartChild, SupShutdown, SupStopEm, SupDown, SupTimer, SupKillCr,
                SupKillEm, EpmdManager, EmContinue, EmAttempt, EmReady, EmRetry, EmGiveUp,
                EmReply, EmStop, runVars, Promise!vars, Halted
  <2>6. CASE CtRunner \/ OsProcesses
    BY <2>6 DEF CtRunner, CrLaunch, CrNodeExit, CrStop, OsProcesses, EpmdReady, EpmdExit, StrayExit, EpmdPortLost,
                NodeBoot, NodeTestsEnd, NodeWritten, NodeEnd, PortLost, runVars, Promise!vars, Halted
  <2>7. CASE UNCHANGED vars
    BY <2>7 DEF vars, runVars, Promise!vars, Halted
  <2>8. QED BY <2>1, <2>2, <2>3, <2>4, <2>5, <2>6, <2>7 DEF Next, Runner
<1>3. QED BY <1>1, <1>2, ReportedInvariant, PTL DEF Spec, Promise!Safety

-----------------------------------------------------------------------------
(* The epmd daemon. *)

EpmdLost == lost \cap {"em_killed", "epmd_port_lost"} # {}

\* While epmd_manager lives it has a port to the daemon it spawned last, and
\* only a closed port lets an attempt leave a daemon behind.
EpmdKnown ==
  /\ env.global => ~EpmdAlive /\ ~stray /\ em \notin {"start", "listen"}
  /\ em \notin {"listen", "call", "up"} => EpmdLost \/ ~EpmdAlive
  /\ EpmdAlive => EpmdLost \/ epmdPort
  /\ stray => EpmdLost
  /\ sup = "down" => em = "dead"

LEMMA EpmdKnownInit == Init => EpmdKnown
BY DEF Init, EpmdKnown, EpmdAlive

LEMMA EpmdKnownStep == NodeInv /\ EpmdKnown /\ Next => EpmdKnown'
<1> SUFFICES ASSUME NodeInv, EpmdKnown, Next PROVE EpmdKnown'
  OBVIOUS
<1>1. CASE RunStart
  BY <1>1 DEF RunStart, NodeInv, StartOnce, EpmdKnown, EpmdLost, EpmdAlive, epmdVars
<1>2. CASE (Runner /\ ~RunStart) \/ RunTimeout
  <2>1. UNCHANGED <<env, sup, em, epmdVars>> /\ lost \subseteq lost'
    BY <1>2 DEF Runner, RunMonitor, RunReceive, RunTimeout, RunStopped, RunReport, RunRaise,
                RunHalt, supVars, emVars
  <2>2. QED BY <2>1 DEF EpmdKnown, EpmdLost, EpmdAlive, epmdVars
<1>3. CASE SupStartChild \/ SupShutdown \/ SupStopEm \/ SupDown \/ SupKillCr \/ CtRunner
  <2>1. UNCHANGED <<env, em, epmdVars>> /\ lost \subseteq lost'
    BY <1>3 DEF SupStartChild, SupShutdown, SupStopEm, SupDown, SupKillCr, CtRunner, CrLaunch,
                CrNodeExit, CrStop, CrEnd, emVars
  <2>2. sup' = "down" => em = "dead"
    BY <1>3 DEF SupStartChild, SupShutdown, SupStopEm, SupDown, SupKillCr, CtRunner, CrLaunch,
                CrNodeExit, CrStop, CrEnd, supVars, EpmdKnown
  <2>3. QED BY <2>1, <2>2 DEF EpmdKnown, EpmdLost, EpmdAlive, epmdVars
<1>4. CASE SupKillEm
  BY <1>4 DEF SupKillEm, EpmdKnown, EpmdLost, EpmdAlive
<1>5. CASE EmContinue
  <2>1. CASE env.global
    BY <1>5, <2>1 DEF EmContinue, CallStartCtRunner, EpmdKnown, EpmdLost, EpmdAlive, epmdVars
  <2>2. CASE ~env.global
    BY <1>5, <2>2 DEF EmContinue, EpmdKnown, EpmdLost, EpmdAlive, epmdVars
  <2>3. QED BY <2>1, <2>2
<1>6. CASE EmAttempt
  <2>1. em = "start" /\ ~env.global /\ (EpmdLost \/ ~EpmdAlive) /\ UNCHANGED <<env, sup, lost>>
    BY <1>6 DEF EmAttempt, supVars, EpmdKnown
  <2>2. CASE em' = "listen" /\ epmdPort' = TRUE /\ stray' = (stray \/ EpmdAlive)
    <3>1. stray' => EpmdLost
      BY <2>1, <2>2, Zenon DEF EpmdKnown
    <3>2. QED BY <2>1, <2>2, <3>1 DEF EpmdKnown, EpmdLost
  <2>3. CASE UNCHANGED <<em, epmdVars>>
    BY <2>1, <2>3 DEF EpmdKnown, EpmdLost, EpmdAlive, epmdVars
  <2>4. QED BY <1>6, <2>2, <2>3 DEF EmAttempt
<1>7. CASE EmReady \/ EmGiveUp \/ EmReply
  BY <1>7 DEF EmReady, EmGiveUp, EmReply, CallStartCtRunner, supVars, EpmdKnown, EpmdLost,
              EpmdAlive, epmdVars
<1>8. CASE EmRetry \/ EmStop
  <2>1. TerminateEpmd /\ UNCHANGED <<env, sup, stray, lost>> /\ em' \in {"start", "dead"}
        /\ (env.global => em' = "dead") /\ (em' = "start" => em = "listen" /\ sup # "down")
    BY <1>8 DEF EmRetry, EmStop, supVars, EpmdKnown
  <2>2. EpmdAlive' => ~env.global /\ EpmdLost
    <3>1. epmd' = "dead" \/ (epmd' = epmd /\ (env.global \/ ~epmdPort))
      BY <2>1 DEF TerminateEpmd
    <3>2. QED BY <3>1 DEF EpmdAlive, EpmdKnown
  <2>3. QED BY <2>1, <2>2 DEF EpmdKnown, EpmdLost
<1>9. CASE EpmdReady \/ EpmdExit \/ StrayExit \/ EpmdPortLost
  BY <1>9 DEF EpmdReady, EpmdExit, StrayExit, EpmdPortLost, supVars, emVars, EpmdKnown,
              EpmdLost, EpmdAlive
<1>10. CASE NodeBoot \/ NodeTestsEnd \/ NodeWritten \/ PortLost \/ NodeEnd("ok") \/ NodeEnd("error")
  <2>1. UNCHANGED <<env, sup, em, epmdVars>> /\ lost \subseteq lost'
    BY <1>10 DEF NodeBoot, NodeTestsEnd, NodeWritten, NodeEnd, PortLost, supVars, emVars
  <2>2. QED BY <2>1 DEF EpmdKnown, EpmdLost, EpmdAlive, epmdVars
<1>11. QED
  BY <1>1, <1>2, <1>3, <1>4, <1>5, <1>6, <1>7, <1>8, <1>9, <1>10
     DEF Next, Supervisor, SupTimer, EpmdManager, OsProcesses

(***************************************************************************)
(* A supervision tree that shut down leaves no epmd daemon of its own, not *)
(* even one of an attempt that was given up, unless it killed epmd_manager *)
(* or the port to a living daemon was closed: then kill_process, which     *)
(* asks the port for the process, kills nothing (epmd_manager:terminate    *)
(* and listen_loop, test_exec:kill_process).                               *)
(***************************************************************************)
THEOREM NoEpmdLeft == Spec => []EpmdStopsWithTree
<1>1. EpmdKnown /\ UNCHANGED vars => EpmdKnown'
  BY DEF vars, supVars, emVars, epmdVars, EpmdKnown, EpmdLost, EpmdAlive
<1>2. EpmdKnown => EpmdStopsWithTree
  BY DEF EpmdKnown, EpmdLost, EpmdStopsWithTree
<1>3. QED BY <1>1, <1>2, NodeInvariant, EpmdKnownInit, EpmdKnownStep, PTL DEF Spec

-----------------------------------------------------------------------------
(* Why a good run is reported broken. *)

TimedOut == runPc = "stopping" \/ status = "timeout" \/ retried
PortGone == lost \cap {"port_lost", "epmd_port_lost"} # {}
Excused  == "epmd_exit" \in emMsgs \/ PortGone \/ TimedOut
Failed   == nodeExit \in {"error", "killed"}
Waiting  == runPc \in {"start", "monitor", "receive"}

\* What each message stands for.
Meant ==
  /\ Waiting => status = "none"
  /\ sup = "down" => em = "dead"
  /\ In("em_exit", supQ) => em = "dead"
  /\ In("cr_exit", supQ) => cr = "dead"
  /\ In("app_stop", supQ) => TimedOut
  /\ "shutdown" \in emMsgs => sup \in {"stop_em", "down"}
  /\ "port_gone" \in emMsgs => PortGone
  /\ In("shutdown", crQ) => sup \notin {"off", "up"}
  /\ In("port_gone", crQ) => PortGone
  /\ Failed => node = "dead"
  /\ In("exit_error", crQ) => Failed
  /\ In("run_failed", runQ) => Failed \/ node = "none"

\* Why epmd_manager, the tree, ct_runner and the run came to their end.
Ending ==
  /\ em = "dead" => \/ Excused \/ sup \in {"stop_em", "down"}
                    \/ cr = "off" /\ ~In("start_child", supQ)
  /\ sup = "stop_cr" => Excused \/ cr \in {"off", "dead"}
  /\ cr = "dead" => \/ Excused \/ node = "none" \/ Failed
                    \/ nodeExit = "ok" /\ (Waiting => runQ # <<>> /\ Head(runQ) = "run_succeed")
  /\ runPc \in {"report", "link", "halted"} /\ status = "failed" =>
       /\ retried \/ sup \in {"off", "down"} \/ cr = "dead"
       /\ Excused \/ Failed \/ node = "none"

CauseInv == NodeInv /\ Meant /\ Ending

\* Sending one message sends no other.
LEMMA Sent ==
  ASSUME NEW S, NEW q \in Seq(S), NEW e \in S, NEW r, r = q \/ r = Append(q, e)
  PROVE  \A m : m # e /\ In(m, r) => In(m, q)
<1>1. CASE r = q
  BY <1>1
<1>2. CASE r = Append(q, e)
  BY <1>2, InAppend
<1>3. QED BY <1>1, <1>2

LEMMA CauseInit == Init => Meant /\ Ending
BY Empty DEF Init, Meant, Ending, Waiting, Failed

LEMMA CauseRunner == CauseInv /\ (Runner \/ RunTimeout) => Meant' /\ Ending'
<1> SUFFICES ASSUME CauseInv, Runner \/ RunTimeout PROVE Meant' /\ Ending'
  OBVIOUS
<1>0. runQ \in Seq(RunMsg) /\ supQ \in Seq(SupMsg) /\ RunMsg = {"run_succeed", "run_failed", "DOWN"}
  BY Mailboxes, Messages DEF CauseInv, NodeInv
<1> USE DEF CauseInv, Meant, Ending, TimedOut, PortGone, Excused, Failed, Waiting, Report, supVars, emVars,
            crVars, nodeVars
<1>1. CASE RunStart
  BY <1>1 DEF RunStart, NodeInv, StartOnce, Settled, NodeKnown
<1>2. CASE RunMonitor
  <2>1. In("run_failed", runQ') => In("run_failed", runQ)
    BY <1>0, <1>2, InAppend DEF RunMonitor
  <2>2. runQ # <<>> => runQ' # <<>> /\ Head(runQ') = Head(runQ)
    BY <1>0, <1>2 DEF RunMonitor
  <2>3. CASE env.shortTimeout
    BY <1>2, <2>1, <2>3 DEF RunMonitor
  <2>4. CASE ~env.shortTimeout
    BY <1>2, <2>1, <2>2, <2>4 DEF RunMonitor
  <2>5. QED BY <2>3, <2>4
<1>3. CASE RunReceive
  <2>1. \A m \in RunMsg : In(m, runQ') => In(m, runQ)
    BY <1>0, <1>3, InTail DEF RunReceive
  <2>2. In(Head(runQ), runQ) /\ Head(runQ) \in RunMsg
    BY <1>0, <1>3, InTail DEF RunReceive
  <2>3. /\ runPc = "receive" /\ runPc' = "report" /\ runQ # <<>>
        /\ status' = IF Head(runQ) = "run_succeed" THEN "passed" ELSE "failed"
        /\ UNCHANGED <<retried, sup, supQ, em, emMsgs, cr, crQ, node, nodeExit, lost>>
    BY <1>3 DEF RunReceive, Received
  <2>4. Head(runQ) = "run_failed" => (Failed \/ node = "none") /\ cr = "dead"
    BY <2>2 DEF NodeInv, Settled
  <2>5. Head(runQ) = "DOWN" => sup = "down" /\ (Excused \/ Failed \/ node = "none")
    BY <2>2, <2>3 DEF NodeInv, Settled, NodeKnown
  <2>6. Excused => Excused'
    BY <2>3
  <2>7. status' = "failed" => (sup = "down" \/ cr = "dead") /\ (Excused \/ Failed \/ node = "none")
    BY <1>0, <2>2, <2>3, <2>4, <2>5
  <2>8. Meant'
    BY <1>0, <2>1, <2>3
  <2>9. Ending'
    BY <2>3, <2>6, <2>7
  <2>10. QED BY <2>8, <2>9
<1>4. CASE RunTimeout
  <2>1. \A m \in {"em_exit", "cr_exit", "start_child"} : In(m, supQ') => In(m, supQ)
    BY <1>0, <1>4, InAppend DEF RunTimeout, SupMsg
  <2>2. QED BY <1>4, <2>1 DEF RunTimeout
<1>5. CASE RunStopped \/ RunReport \/ RunHalt
  BY <1>5 DEF RunStopped, RunReport, RunHalt
<1>6. CASE RunRaise
  <2>1. CASE retried
    BY <1>6, <2>1 DEF RunRaise
  <2>2. CASE ~retried
    BY <1>6, <2>2 DEF RunRaise
  <2>3. QED BY <2>1, <2>2
<1>7. QED BY <1>1, <1>2, <1>3, <1>4, <1>5, <1>6 DEF Runner

LEMMA CauseSupervisor == CauseInv /\ (Supervisor \/ SupTimer) => Meant' /\ Ending'
<1> SUFFICES ASSUME CauseInv, Supervisor \/ SupTimer PROVE Meant' /\ Ending'
  OBVIOUS
<1>0. /\ runQ \in Seq(RunMsg) /\ supQ \in Seq(SupMsg) /\ crQ \in Seq(CrMsg)
      /\ RunMsg = {"run_succeed", "run_failed", "DOWN"}
  BY Mailboxes, Messages DEF CauseInv, NodeInv
<1> USE DEF CauseInv, Meant, Ending, TimedOut, PortGone, Excused, Failed, Waiting, runVars, supVars, emVars,
            crVars, nodeVars
<1>1. CASE SupStartChild
  <2>1. \A m : In(m, supQ') => In(m, supQ)
    BY <1>0, <1>1, InTail DEF SupStartChild
  <2>2. In("start_child", supQ)
    BY <1>0, <1>1, InTail DEF SupStartChild
  <2>3. cr = "off" /\ node = "none"
    BY <2>2 DEF NodeInv, StartOnce, NodeKnown
  <2>4. QED BY <1>1, <2>1, <2>2, <2>3 DEF SupStartChild
<1>2. CASE SupShutdown
  <2>1. \A m : In(m, supQ') => In(m, supQ)
    BY <1>0, <1>2, InTail DEF SupShutdown
  <2>2. In(Head(supQ), supQ) /\ Head(supQ) \in {"em_exit", "cr_exit", "app_stop"}
    BY <1>0, <1>2, InTail DEF SupShutdown, EndsTree, SupMsg
  <2>3. Excused \/ cr \in {"off", "dead"}
    BY <1>2, <2>2 DEF SupShutdown
  <2>4. \A m \in {"port_gone", "exit_error"} : In(m, crQ') => In(m, crQ)
    <3>1. crQ' = crQ \/ crQ' = Append(crQ, "shutdown")
      BY <1>2 DEF SupShutdown
    <3>2. "shutdown" \in CrMsg
      BY DEF CrMsg
    <3>3. QED BY <1>0, <3>1, <3>2, Sent
  <2>5. QED BY <1>2, <2>1, <2>3, <2>4 DEF SupShutdown
<1>3. CASE SupStopEm
  BY <1>3 DEF SupStopEm
<1>4. CASE SupDown
  <2>1. In("run_failed", runQ') => In("run_failed", runQ)
    BY <1>0, <1>4, InAppend DEF SupDown
  <2>2. runQ # <<>> => runQ' # <<>> /\ Head(runQ') = Head(runQ)
    BY <1>0, <1>4 DEF SupDown
  <2>3. QED BY <1>4, <2>1, <2>2 DEF SupDown
<1>5. CASE SupKillCr \/ SupKillEm
  BY <1>5 DEF SupKillCr, SupKillEm
<1>6. QED BY <1>1, <1>2, <1>3, <1>4, <1>5 DEF Supervisor, SupTimer

LEMMA CauseEpmdManager == CauseInv /\ EpmdManager => Meant' /\ Ending'
<1> SUFFICES ASSUME CauseInv, EpmdManager PROVE Meant' /\ Ending'
  OBVIOUS
<1>0. supQ \in Seq(SupMsg)
  BY Mailboxes DEF CauseInv, NodeInv
<1>1. ASSUME NEW e \in {"start_child", "em_exit"}, supQ' = supQ \/ supQ' = Append(supQ, e)
      PROVE  \A m : m # e /\ In(m, supQ') => In(m, supQ)
  <2>1. e \in SupMsg
    BY DEF SupMsg
  <2>2. PICK q, r : q = supQ /\ r = supQ'
    OBVIOUS
  <2>3. \A m : m # e /\ In(m, r) => In(m, q)
    BY <1>0, <1>1, <2>1, <2>2, Sent
  <2>4. QED BY <2>2, <2>3
<1> USE DEF CauseInv, Meant, Ending, TimedOut, PortGone, Excused, Failed, Waiting, runVars, supVars, emVars,
            crVars, nodeVars
<1>2. CASE EmContinue \/ EmReady
  <2>1. \A m \in {"em_exit", "cr_exit", "app_stop"} : In(m, supQ') => In(m, supQ)
    <3>1. supQ' = supQ \/ supQ' = Append(supQ, "start_child")
      BY <1>2 DEF EmContinue, EmReady, CallStartCtRunner
    <3>2. QED BY <1>1, <3>1
  <2>2. QED BY <1>2, <2>1 DEF EmContinue, EmReady, CallStartCtRunner
<1>3. CASE EmAttempt \/ EmReply
  BY <1>3 DEF EmAttempt, EmReply
<1>4. CASE EmRetry
  <2>1. em = "listen" /\ cr = "off" /\ node = "none"
    BY <1>4 DEF EmRetry, NodeInv, StartOnce, NodeKnown
  <2>2. QED BY <1>4, <2>1 DEF EmRetry
<1>5. CASE EmGiveUp \/ EmStop
  <2>1. \A m \in {"start_child", "cr_exit", "app_stop"} : In(m, supQ') => In(m, supQ)
    <3>1. supQ' = Append(supQ, "em_exit")
      BY <1>5 DEF EmGiveUp, EmStop
    <3>2. QED BY <1>1, <3>1
  <2>2. QED BY <1>5, <2>1 DEF EmGiveUp, EmStop, NodeInv, StartOnce
<1>6. QED BY <1>2, <1>3, <1>4, <1>5 DEF EpmdManager

LEMMA CauseCtRunner == CauseInv /\ CtRunner => Meant' /\ Ending'
<1> SUFFICES ASSUME CauseInv, CtRunner PROVE Meant' /\ Ending'
  OBVIOUS
<1>0. /\ runQ \in Seq(RunMsg) /\ supQ \in Seq(SupMsg) /\ crQ \in Seq(CrMsg)
      /\ RunMsg = {"run_succeed", "run_failed", "DOWN"}
  BY Mailboxes, Messages DEF CauseInv, NodeInv
<1>1. supQ' = Append(supQ, "cr_exit") =>
        \A m \in {"em_exit", "app_stop", "start_child"} : In(m, supQ') => In(m, supQ)
  <2>1. "cr_exit" \in SupMsg /\ \A m \in {"em_exit", "app_stop", "start_child"} : m # "cr_exit"
    BY Messages
  <2>2. \A m : m # "cr_exit" /\ In(m, Append(supQ, "cr_exit")) => In(m, supQ)
    BY <1>0, <2>1, InAppend
  <2>3. QED BY <2>1, <2>2
<1> USE DEF CauseInv, Meant, Ending, TimedOut, PortGone, Excused, Failed, Waiting, runVars, supVars, emVars,
            nodeVars
<1>2. cr \in {"launch", "up"} /\ UNCHANGED <<runPc, status, retried, sup, em, emMsgs, lost>>
  BY DEF CtRunner, CrLaunch, CrNodeExit, CrStop
<1>3. sup \in {"up", "stop_cr"} /\ ~In("run_failed", runQ) /\ ~In("run_succeed", runQ) /\ ~In("DOWN", runQ)
  BY <1>2 DEF NodeInv, TypeInv, TypeOK, Settled, SupPhase
<1>4. runQ = <<>>
  <2>1. runQ # <<>> => In(Head(runQ), runQ) /\ Head(runQ) \in RunMsg
    BY <1>0, InTail
  <2>2. QED BY <1>0, <1>3, <2>1
<1>5. CASE CrLaunch
  <2>1. CASE cr' = "up" /\ runQ' = runQ /\ supQ' = supQ
    BY <1>2, <1>3, <1>5, <2>1 DEF CrLaunch, CrEnd, NodeInv, NodeKnown
  <2>2. CASE CrEnd /\ node' = node
    BY <1>2, <1>3, <1>1, <1>5, <2>2 DEF CrLaunch, CrEnd, NodeInv, NodeKnown
  <2>3. QED BY <1>5, <2>1, <2>2 DEF CrLaunch
<1>6. CASE CrNodeExit
  <2>1. \A m : In(m, crQ') => In(m, crQ)
    BY <1>0, <1>6, InTail DEF CrNodeExit
  <2>2. In(Head(crQ), crQ)
    BY <1>0, <1>6, InTail DEF CrNodeExit
  <2>3. CASE Head(crQ) = "exit_ok"
    <3>1. nodeExit = "ok"
      BY <2>2, <2>3 DEF NodeInv, NodeKnown
    <3>2. runQ' = <<"run_succeed">>
      BY <1>4, <1>6, <2>3 DEF CrNodeExit
    <3>3. runQ' # <<>> /\ Head(runQ') = "run_succeed" /\ ~In("run_failed", runQ')
      BY <3>2 DEF In
    <3>4. QED BY <1>2, <1>3, <1>1, <1>6, <2>1, <3>1, <3>3 DEF CrNodeExit, CrEnd
  <2>4. CASE Head(crQ) = "exit_error"
    <3>1. Failed
      BY <2>2, <2>4
    <3>2. QED BY <1>2, <1>3, <1>1, <1>6, <2>1, <3>1 DEF CrNodeExit, CrEnd
  <2>5. QED BY <1>6, <2>3, <2>4 DEF CrNodeExit
<1>7. CASE CrStop
  <2>1. \A m : In(m, crQ') => In(m, crQ)
    BY <1>0, <1>7, InTail DEF CrStop
  <2>2. In(Head(crQ), crQ)
    BY <1>0, <1>7, InTail DEF CrStop
  <2>3. Excused
    BY <1>2, <1>3, <1>7, <2>2 DEF CrStop
  <2>4. /\ UNCHANGED runQ
        /\ UNCHANGED <<node, nodeExit>> \/ (node' = "dead" /\ nodeExit' = "killed")
    <3>1. CASE portOpen /\ NodeAlive
      BY <1>7, <3>1 DEF CrStop, TerminateNode
    <3>2. CASE ~(portOpen /\ NodeAlive)
      BY <1>7, <3>2 DEF CrStop, TerminateNode
    <3>3. QED BY <3>1, <3>2
  <2>5. QED BY <1>2, <1>3, <1>1, <1>7, <2>1, <2>3, <2>4 DEF CrStop, CrEnd
<1>8. QED BY <1>5, <1>6, <1>7 DEF CtRunner

LEMMA CauseOsProcesses == CauseInv /\ OsProcesses => Meant' /\ Ending'
<1> SUFFICES ASSUME CauseInv, OsProcesses PROVE Meant' /\ Ending'
  OBVIOUS
<1>0. crQ \in Seq(CrMsg)
  BY Mailboxes DEF CauseInv, NodeInv
<1> USE DEF CauseInv, Meant, Ending, TimedOut, PortGone, Excused, Failed, Waiting, runVars, supVars, emVars,
            crVars, nodeVars
<1>1. CASE EpmdReady \/ EpmdExit \/ StrayExit \/ EpmdPortLost
  BY <1>1 DEF EpmdReady, EpmdExit, StrayExit, EpmdPortLost
<1>2. CASE NodeBoot \/ NodeTestsEnd \/ NodeWritten
  BY <1>2 DEF NodeBoot, NodeTestsEnd, NodeWritten
<1>3. ASSUME NEW how \in {"ok", "error"}, NodeEnd(how) PROVE Meant' /\ Ending'
  <2>1. \A m \in {"port_gone", "shutdown"} : In(m, crQ') => In(m, crQ)
    BY <1>0, <1>3, InAppend DEF NodeEnd, CrMsg
  <2>2. In("exit_error", crQ') => In("exit_error", crQ) \/ how = "error"
    BY <1>0, <1>3, InAppend DEF NodeEnd, CrMsg
  <2>3. node # "none" /\ node # "dead" /\ nodeExit # "ok"
    BY <1>3 DEF NodeEnd, NodeAlive, NodeInv, NodeKnown
  <2>4. QED BY ZenonT(60), <1>3, <2>1, <2>2, <2>3 DEF NodeEnd
<1>4. CASE PortLost
  <2>1. \A m \in {"exit_error", "shutdown"} : In(m, crQ') => In(m, crQ)
    BY <1>0, <1>4, InAppend DEF PortLost, CrMsg
  <2>2. QED BY <1>4, <2>1 DEF PortLost
<1>5. QED BY <1>1, <1>2, <1>3, <1>4 DEF OsProcesses

(***************************************************************************)
(* A run whose node ended with status 0 and wrote all its results is       *)
(* reported broken only after the daemon ended, a port was lost or the     *)
(* report raised: in every interleaving the good exit is the first thing   *)
(* test_runner reads, unless one of these brought the tree down before     *)
(* (run_test's receive, ct_runner:handle_info, test_exec_sup).             *)
(***************************************************************************)
THEOREM BrokenForAReason == Spec => GoodRunBrokenForAReason
<1>1. CauseInv /\ UNCHANGED vars => Meant' /\ Ending'
  BY DEF CauseInv, Meant, Ending, TimedOut, PortGone, Excused, Failed, Waiting, vars, runVars, supVars, emVars,
         crVars, nodeVars
<1>2. CauseInv /\ Next => Meant' /\ Ending'
  BY CauseRunner, CauseSupervisor, CauseEpmdManager, CauseCtRunner, CauseOsProcesses DEF Next
<1>3. CauseInv /\ [Next]_vars =>
        [nodeExit = "ok" /\ resultFile = "complete" /\ output # "broken" /\ output' = "broken"
           => \/ "epmd_exit" \in emMsgs \/ lost \cap {"port_lost", "epmd_port_lost"} # {}
              \/ retried]_vars
  <2> SUFFICES ASSUME CauseInv, Next, nodeExit = "ok", resultFile = "complete", output # "broken",
                      output' = "broken"
               PROVE  \/ "epmd_exit" \in emMsgs \/ lost \cap {"port_lost", "epmd_port_lost"} # {}
                      \/ retried
    BY DEF vars, runVars
  <2>1. RunReport
    BY DEF Next, Runner, RunStart, RunMonitor, RunReceive, RunStopped, RunRaise, RunHalt, RunTimeout,
           Supervisor, SupStartChild, SupShutdown, SupStopEm, SupDown, SupTimer, SupKillCr, SupKillEm,
           EpmdManager, EmContinue, EmAttempt, EmReady, EmRetry, EmGiveUp, EmReply, EmStop,
           CtRunner, CrLaunch, CrNodeExit, CrStop, OsProcesses, EpmdReady, EpmdExit, StrayExit, EpmdPortLost, NodeBoot,
           NodeTestsEnd, NodeWritten, NodeEnd, PortLost, runVars
  <2>2. runPc = "report" /\ status = "failed"
    BY <2>1 DEF RunReport, ResultsUsable
  <2>3. node = "dead" /\ ~Failed
    BY DEF CauseInv, NodeInv, NodeKnown, Failed
  <2>4. QED BY <2>2, <2>3 DEF CauseInv, Ending, Excused, PortGone, TimedOut
<1>4. QED BY <1>1, <1>2, <1>3, CauseInit, NodeInvariant, PTL DEF Spec, GoodRunBrokenForAReason, CauseInv
=============================================================================

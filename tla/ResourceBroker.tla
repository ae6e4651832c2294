--------------------------- MODULE ResourceBroker ---------------------------
(***************************************************************************)
(* apple/tools/resource_broker: a test run starts a broker for each kind   *)
(* of resource its tests need. A broker prepares a simulator (iOS) or none *)
(* (macOS), spawns idb companions, waits for what they say, forks a child  *)
(* that stays to end them, and reports the child's pid and the companions' *)
(* sockets. Brokers run at once and share the simulators of one device set *)
(* without a lock; every command they run has a timeout, and is not killed *)
(* when it is exceeded.                                                    *)
(*                                                                         *)
(* External: the simulator manager and simctl, the companions, and the     *)
(* consumer, who signals the child once it was told its pid. An asyncio    *)
(* process outlives its event loop. A simulator is named by its place in   *)
(* the device set, and nobody but a boot command changes its state.        *)
(***************************************************************************)
EXTENDS Naturals, Sequences, FiniteSets

CONSTANTS
  Broker,
  Requests,         \* functions from Broker to [type, companion, manager]
  RuntimeLists,     \* what simctl may list: sequences of [version, types]
  InitialSims,      \* sequences of states the device set may start with
  MacCompanions,    \* how many companions a macOS broker spawns (10)
  MaxSims,          \* bound: simulators in the device set
  MaxSignals        \* bound: signals a child gets

ASSUME MacCompanionsAssumption == MacCompanions \in Nat \ {0}
ASSUME SimsAssumption == InitialSims \subseteq Seq(STRING)

VARIABLES
  request,      \* command line of each broker
  pc,           \* where its main is
  sims,         \* states of the simulators of the device set
  listed,       \* the simulators a broker knows: [udid, state] as it was then
  chosen,       \* the simulator it took, 0 if none
  booting,      \* the simulator its boot command is at work on, 0 if none
  companion,    \* its companions: "none", "unspawned", "running" or "dead"
  said,         \* what each wrote: "nothing", a "path" or something "other"
  told,         \* the companions that were sent SIGTERM
  child,        \* "none", "unguarded", "waiting", "cleaning" or "gone"
  next,         \* the companion a cleaning child is at
  signals,      \* how many signals the child was sent
  end           \* history: how the broker, or later its child, came to its end

simVars   == <<sims, booting>>
compVars  == <<companion, said, told>>
childVars == <<child, next, signals>>
vars == <<request, pc, simVars, listed, chosen, compVars, childVars, end>>

-----------------------------------------------------------------------------
Type(b) == request[b].type

\* The companions of a broker, in the order of its list.
Companions(b) == 1..(IF Type(b) = "macos" THEN MacCompanions ELSE 1)

\* The states SimState has; a simulator may be in others.
SimState == {"Booted", "Shutdown"}

Goto(b, l) == pc' = [pc EXCEPT ![b] = l]
Fail(b, e) == Goto(b, "failed") /\ end' = [end EXCEPT ![b] = e]

Init ==
  /\ request \in Requests /\ sims \in InitialSims
  /\ pc = [b \in Broker |-> "start"] /\ end = [b \in Broker |-> "none"]
  /\ listed = [b \in Broker |-> <<>>]
  /\ chosen = [b \in Broker |-> 0] /\ booting = [b \in Broker |-> 0]
  /\ companion = [b \in Broker |-> [i \in Companions(b) |-> "none"]]
  /\ said = [b \in Broker |-> [i \in Companions(b) |-> "nothing"]]
  /\ told = [b \in Broker |-> {}]
  /\ child = [b \in Broker |-> "none"] /\ next = [b \in Broker |-> 0]
  /\ signals = [b \in Broker |-> 0]

-----------------------------------------------------------------------------
(* Preparing a simulator. *)

\* main, _create_companion: macOS needs a companion, iOS a simulator manager.
Accepted(r) == IF r.type = "macos" THEN r.companion ELSE r.manager

Start(b) ==
  /\ pc[b] = "start"
  /\ IF ~Accepted(request[b])
       THEN Fail(b, "refused")
       ELSE Goto(b, IF Type(b) = "macos" THEN "spawn" ELSE "list") /\ UNCHANGED end
  /\ UNCHANGED <<request, simVars, listed, chosen, compVars, childVars>>

\* A command exits with an error, prints what is no JSON, or exceeds its timeout
\* (execute_generic_text_producing_command); its broker raises.
CommandFails(b) ==
  /\ pc[b] \in {"list", "runtimes", "create"}
  /\ Fail(b, "command")
  /\ UNCHANGED <<request, simVars, listed, chosen, compVars, childVars>>

\* managed_simulators_from_stdout: a state that is no SimState does not decode.
Decodes == \A u \in DOMAIN sims : sims[u] \in SimState
Targets == [u \in DOMAIN sims |-> [udid |-> u, state |-> sims[u]]]

List(b) ==
  /\ pc[b] = "list"
  /\ IF ~Decodes
       THEN Fail(b, "command") /\ UNCHANGED listed
       ELSE /\ listed' = [listed EXCEPT ![b] = Targets]
            /\ Goto(b, IF sims = <<>> THEN "runtimes" ELSE "select")
            /\ UNCHANGED end
  /\ UNCHANGED <<request, simVars, chosen, compVars, childVars>>

First(places) == CHOOSE n \in places : \A m \in places : n <= m

\* _select_latest_simulator_spec: the first of the newest runtimes decides alone,
\* since a filter object is never false: without an iPhone in it next() raises.
IPhones(runtime) == SelectSeq(runtime.types, LAMBDA t : t.family = "iPhone")
Latest(runtimes) ==
  runtimes[First({n \in DOMAIN runtimes : \A m \in DOMAIN runtimes : runtimes[m].version <= runtimes[n].version})]
HasSpec(runtimes) == runtimes # <<>> /\ IPhones(Latest(runtimes)) # <<>>

ListRuntimes(b) ==
  /\ pc[b] = "runtimes"
  /\ \E runtimes \in RuntimeLists :
       IF HasSpec(runtimes) THEN Goto(b, "create") /\ UNCHANGED end ELSE Fail(b, "runtimes")
  /\ UNCHANGED <<request, simVars, listed, chosen, compVars, childVars>>

\* The simulator is there, and its broker is told in time, too late or not at all.
Create(b) ==
  /\ pc[b] = "create" /\ Len(sims) < MaxSims
  /\ sims' = Append(sims, "Shutdown")
  /\ \/ /\ listed' = [listed EXCEPT ![b] = <<[udid |-> Len(sims) + 1, state |-> "Shutdown"]>>]
        /\ Goto(b, "select") /\ UNCHANGED end
     \/ Fail(b, "command") /\ UNCHANGED listed
  /\ UNCHANGED <<request, booting, chosen, compVars, childVars>>

\* _select_simulator_with_preference: the first booted one if that is preferred
\* and there is one, else the first one, whatever its state.
Selected(b) ==
  LET booted == {n \in DOMAIN listed[b] : listed[b][n].state = "Booted"}
  IN  listed[b][IF Type(b) = "booted" /\ booted # {} THEN First(booted) ELSE 1]

NeedsBoot(b) == Type(b) = "booted" /\ Selected(b).state # "Booted"

\* What prepare_simulator is followed by.
Prepared(b) == IF request[b].companion THEN "spawn" ELSE "print"

Select(b) ==
  /\ pc[b] = "select"
  /\ chosen' = [chosen EXCEPT ![b] = Selected(b).udid]
  /\ booting' = [booting EXCEPT ![b] = IF NeedsBoot(b) THEN Selected(b).udid ELSE 0]
  /\ Goto(b, IF NeedsBoot(b) THEN "boot" ELSE Prepared(b))
  /\ UNCHANGED <<request, sims, listed, compVars, childVars, end>>

\* The boot command at work, whether or not its broker still waits for it.
BootBegins(b) ==
  /\ booting[b] # 0 /\ sims[booting[b]] = "Shutdown"
  /\ sims' = [sims EXCEPT ![booting[b]] = "Booting"]
  /\ UNCHANGED <<request, pc, booting, listed, chosen, compVars, childVars, end>>

BootEnds(b) ==
  /\ booting[b] # 0 /\ sims[booting[b]] # "Shutdown"
  /\ sims' = [sims EXCEPT ![booting[b]] = "Booted"]
  /\ booting' = [booting EXCEPT ![b] = 0]
  /\ IF pc[b] = "boot" THEN Goto(b, Prepared(b)) ELSE UNCHANGED pc
  /\ UNCHANGED <<request, listed, chosen, compVars, childVars, end>>

\* It gives up; the simulator may stay in the state it has.
BootFails(b) ==
  /\ booting[b] # 0
  /\ \/ UNCHANGED sims
     \/ sims[booting[b]] = "Booting" /\ sims' = [sims EXCEPT ![booting[b]] = "Shutdown"]
  /\ booting' = [booting EXCEPT ![b] = 0]
  /\ IF pc[b] = "boot" THEN Fail(b, "command") ELSE UNCHANGED <<pc, end>>
  /\ UNCHANGED <<request, listed, chosen, compVars, childVars>>

\* SIMULATOR_BOOT_TIMEOUT
Bug_NoBootTimeout(b) == FALSE
BootTimeout(b) ==
  /\ pc[b] = "boot"
  /\ Fail(b, "command")
  /\ UNCHANGED <<request, simVars, listed, chosen, compVars, childVars>>

-----------------------------------------------------------------------------
(* Companions. *)

\* spawn_companion, for macOS all of them in one gather: each starts or raises.
Spawn(b) ==
  /\ pc[b] = "spawn"
  /\ \E started \in SUBSET Companions(b) :
       companion' = [companion EXCEPT ![b] =
                       [i \in Companions(b) |-> IF i \in started THEN "running" ELSE "unspawned"]]
  /\ Goto(b, "spawned")
  /\ UNCHANGED <<request, simVars, listed, chosen, said, told, childVars, end>>

\* A companion writes one JSON object on its stdout, or something that raises.
Speak(b, i) ==
  /\ companion[b][i] = "running" /\ said[b][i] = "nothing"
  /\ \E what \in {"path", "other"} : said' = [said EXCEPT ![b][i] = what]
  /\ UNCHANGED <<request, pc, simVars, listed, chosen, companion, told, childVars, end>>

Die(b, i) ==
  /\ companion[b][i] = "running"
  /\ companion' = [companion EXCEPT ![b][i] = "dead"]
  /\ UNCHANGED <<request, pc, simVars, listed, chosen, said, told, childVars, end>>

\* macos_idb_companions: if one was not spawned the others are terminated in
\* order, up to one that the loop knows has ended: to terminate that raises.
EndSpawn(b) ==
  /\ pc[b] = "spawned"
  /\ IF \A i \in Companions(b) : companion[b][i] # "unspawned"
       THEN Goto(b, "wait") /\ UNCHANGED <<told, end>>
       ELSE /\ \E stop \in {i \in Companions(b) : companion[b][i] = "dead"} \cup {MacCompanions + 1} :
                 told' = [told EXCEPT ![b] = {i \in Companions(b) : companion[b][i] # "unspawned" /\ i < stop}]
            /\ Fail(b, "spawn")
  /\ UNCHANGED <<request, simVars, listed, chosen, companion, said, childVars>>

\* _read_stdout ends with an object, or raises at the end of the stream.
Pending(b) == {i \in Companions(b) : companion[b][i] = "running" /\ said[b][i] = "nothing"}

\* wait_for_idb_companions when every read has ended: each result must be one.
Bug_OneAnswered(b) == \E i \in Companions(b) : said[b][i] = "path"
AllAnswered(b) == \A i \in Companions(b) : said[b][i] = "path"
Collect(b) ==
  /\ pc[b] = "wait" /\ Pending(b) = {}
  /\ IF AllAnswered(b) THEN Goto(b, "fork") /\ UNCHANGED end ELSE Fail(b, "answers")
  /\ UNCHANGED <<request, simVars, listed, chosen, compVars, childVars>>

\* ... and when its timeout comes first: those that did not answer are ended.
Bug_NoneTerminated(b) == {}
Terminated(b) == Pending(b)
WaitTimeout(b) ==
  /\ pc[b] = "wait" /\ Pending(b) # {}
  /\ told' = [told EXCEPT ![b] = Terminated(b)]
  /\ Fail(b, "timeout")
  /\ UNCHANGED <<request, simVars, listed, chosen, companion, said, childVars>>

-----------------------------------------------------------------------------
(* The child, and the report. *)

Fork(b) ==
  /\ pc[b] = "fork"
  /\ \/ child' = [child EXCEPT ![b] = "unguarded"] /\ Goto(b, "print") /\ UNCHANGED end
     \/ Fail(b, "fork") /\ UNCHANGED child
  /\ UNCHANGED <<request, simVars, listed, chosen, compVars, next, signals>>

\* To print may raise, which leaves the child to nobody.
Report(b) ==
  /\ pc[b] = "print"
  /\ \/ Goto(b, "reported") /\ UNCHANGED end
     \/ Fail(b, "report")
  /\ UNCHANGED <<request, simVars, listed, chosen, compVars, childVars>>

\* signal.signal, after the fork.
Guard(b) ==
  /\ child[b] = "unguarded" /\ child' = [child EXCEPT ![b] = "waiting"]
  /\ UNCHANGED <<request, pc, simVars, listed, chosen, compVars, next, signals, end>>

\* A signal kills a child without handlers, wakes one that waits, and makes one
\* that cleans up run the handler again, inside the first.
Signal(b) ==
  /\ pc[b] = "reported" /\ child[b] \in {"unguarded", "waiting", "cleaning"}
  /\ signals[b] < MaxSignals /\ signals' = [signals EXCEPT ![b] = @ + 1]
  /\ IF child[b] = "unguarded"
       THEN /\ child' = [child EXCEPT ![b] = "gone"]
            /\ end' = [end EXCEPT ![b] = "killed"] /\ UNCHANGED next
       ELSE /\ child' = [child EXCEPT ![b] = "cleaning"]
            /\ next' = [next EXCEPT ![b] = 1] /\ UNCHANGED end
  /\ UNCHANGED <<request, pc, simVars, listed, chosen, compVars>>

\* _exit_gracefully: IdbCompanion.cleanup of one after the other, then exit.
Clean(b) ==
  /\ child[b] = "cleaning" /\ next[b] \in Companions(b)
  /\ told' = [told EXCEPT ![b] = @ \cup {next[b]}]
  /\ next' = [next EXCEPT ![b] = @ + 1]
  /\ UNCHANGED <<request, pc, simVars, listed, chosen, companion, said, child, signals, end>>

ChildGone(b, e) ==
  /\ child[b] = "cleaning"
  /\ child' = [child EXCEPT ![b] = "gone"] /\ end' = [end EXCEPT ![b] = e]
  /\ UNCHANGED <<request, pc, simVars, listed, chosen, compVars, next, signals>>

\* os.kill of a companion that has ended, and that its parent has waited for.
CleanRaises(b) == next[b] \in Companions(b) /\ companion[b][next[b]] = "dead" /\ ChildGone(b, "raised")
CleanEnds(b)   == next[b] \notin Companions(b) /\ ChildGone(b, "clean")

-----------------------------------------------------------------------------
\* What brokers and children do by themselves, timers included.
BrokerStep(b) ==
  \/ Start(b) \/ CommandFails(b) \/ List(b) \/ ListRuntimes(b) \/ Create(b) \/ Select(b)
  \/ BootTimeout(b) \/ Spawn(b) \/ EndSpawn(b) \/ Collect(b) \/ WaitTimeout(b)
  \/ Fork(b) \/ Report(b)
ChildStep(b) == Guard(b) \/ Clean(b) \/ CleanRaises(b) \/ CleanEnds(b)

Environment(b) ==
  \/ BootBegins(b) \/ BootEnds(b) \/ BootFails(b) \/ Signal(b)
  \/ \E i \in Companions(b) : Speak(b, i) \/ Die(b, i)

Next == \E b \in Broker : BrokerStep(b) \/ ChildStep(b) \/ Environment(b)

\* Brokers and children are processes that are scheduled, and a timer fires.
Fairness == \A b \in Broker : WF_vars(BrokerStep(b)) /\ WF_vars(ChildStep(b))

Spec == Init /\ [][Next]_vars /\ Fairness

-----------------------------------------------------------------------------
(***************************************************************************)
(* What is reported can be used: every companion of the list answered, and *)
(* who asked for a booted simulator has one that is booted, however many   *)
(* brokers listed and booted it at once (main.py:127, ios.py:183).         *)
(***************************************************************************)
ReportIsGood ==
  \A b \in Broker : pc[b] = "reported" =>
    /\ request[b].companion => \A i \in Companions(b) : said[b][i] = "path"
    /\ Type(b) = "booted" => chosen[b] # 0 /\ sims[chosen[b]] = "Booted"

\* Nobody is left that would end this broker's companions.
Over(b) == pc[b] = "failed" \/ child[b] = "gone"
Forgotten(b) == {i \in Companions(b) : companion[b][i] = "running"} \ told[b]

\* A companion that had ended stopped the clean-up before it came to the others.
StoppedAtDead(b) == \E j \in Companions(b) : companion[b][j] = "dead" /\ \A i \in Forgotten(b) : j < i

(***************************************************************************)
(* When a broker has failed or its child is gone, a companion that lives   *)
(* on without having been told to end does so for a reason the code has:   *)
(* it answered and others did not in time, or one of them answered wrongly *)
(* or died (utils.py:81-105); the clean-up stopped at a dead companion     *)
(* (macos.py:40, main.py:69); the fork failed; the child's pid was told to *)
(* nobody (main.py:131); or the child was signalled before it had its      *)
(* handlers (main.py:118). A clean exit leaves none.                       *)
(***************************************************************************)
NoneIsForgotten ==
  \A b \in Broker : Over(b) /\ Forgotten(b) # {} =>
    \/ end[b] = "timeout" /\ \A i \in Forgotten(b) : said[b][i] # "nothing"
    \/ end[b] = "answers" /\ \E i \in Companions(b) : said[b][i] # "path"
    \/ end[b] \in {"spawn", "raised"} /\ StoppedAtDead(b)
    \/ end[b] \in {"fork", "report", "killed"}

(***************************************************************************)
(* Every broker reports or fails, whatever command or companion hangs, and *)
(* a child that began to clean up goes, whatever else it is sent.          *)
(***************************************************************************)
Answers ==
  \A b \in Broker : <>(pc[b] \in {"reported", "failed"}) /\ (child[b] = "cleaning" ~> child[b] = "gone")
=============================================================================

---------------------------- MODULE DaemonShell ----------------------------
(***************************************************************************)
(* The test shell (test.erl) and the life of the node it runs tests in     *)
(* (ct_daemon, ct_daemon_node): starting, stopping, losing it, and finding *)
(* the tests of a command in it. DaemonCore has what happens in the node   *)
(* while it runs them.                                                     *)
(*                                                                         *)
(* A command is evaluated by a process of the Erlang shell. An exception   *)
(* ends that process, and with it its mailbox and its registered name. A   *)
(* call to the daemon is one step: it returns node_down as a value when    *)
(* the global name of the daemon is free, and raises when the daemon goes  *)
(* down during the call, here: when its name is not yet forgotten.         *)
(***************************************************************************)
EXTENDS Naturals, Sequences, Functions

CONSTANTS Lists,      \* the tests in each version of the code, in the order of their ids
          Specs,      \* what a user may give to rerun and run: ids and RegEx
          Nodes       \* bound: nodes that may be alive at once

\* A test is <<suite, name>>; ids count from 1 here, 0 is an expression that
\* matches all tests.
RegEx == 0

\* Versions count from 1, 0 is none.
ASSUME ListsAssumption ==
  1 \in DOMAIN Lists /\ 0 \notin DOMAIN Lists /\ \A v \in DOMAIN Lists : Lists[v] # <<>>
ASSUME SpecsAssumption == Specs \subseteq Nat /\ 0 \notin Nodes

VARIABLES
  debugging,    \* a debug session, in which the node is never reset
  phase, cmd,   \* where the evaluator is; the command [op, spec]
  todo, suite,  \* the discovered tests that are not run, the suite being run
  registered,   \* the evaluator has the name ct_daemon_node
  ready,        \* the message "ready" is in its mailbox
  port,         \* the node whose port it owns
  state,        \* the life of each node: "gone", "booting" or "up"
  global,       \* the node registered as daemon of this shell, or 0
  listing,      \* enumerated_tests: the version that was listed, or 0
  loaded,       \* the version loaded in the node, or 0
  suiteSetup,   \* the suite that is set up, "empty" or "undefined"
  disk,         \* the version of the compiled code
  touched,      \* history: suites that have run in the node
  forgotten,    \* history: those of them an exception made it forget
  seen,         \* history: the version list() last printed, or 0
  hidden        \* history: the daemon has listed again since, unasked

evalVars == <<todo, suite, cmd>>
bootVars == <<registered, ready, port>>
nodeVars == <<state, global>>
testVars == <<suiteSetup, touched, forgotten>>
listVars == <<listing, loaded, disk, seen, hidden>>
shellVars == <<debugging, phase, evalVars, bootVars, nodeVars, testVars, listVars>>

-----------------------------------------------------------------------------
Versions == DOMAIN Lists
Tests    == UNION {Range(Lists[v]) : v \in Versions}
Suites   == {t[1] : t \in Tests}

\* The name of a suite ends in _SUITE (erlang_tests.bzl): it is neither of
\* the values setup has without one.
ASSUME SuitesAssumption == Suites \cap {"undefined", "empty"} = {}

Alive  == global # 0 /\ state[global] = "up"    \* a call is answered
NoNode == global = 0                            \* a call returns node_down
Dying  == global # 0 /\ state[global] = "gone"  \* a call raises

\* Modules are loaded when they are first used.
Code == IF loaded = 0 THEN disk ELSE loaded

\* What is left when the evaluator has died.
Dies == phase' = "prompt" /\ todo' = {} /\ registered' = FALSE /\ ready' = FALSE

ShellInit ==
  /\ debugging \in BOOLEAN
  /\ phase = "prompt" /\ cmd = [op |-> "logs", spec |-> RegEx]
  /\ todo = {} /\ suite = "none"
  /\ registered = FALSE /\ ready = FALSE /\ port = 0
  /\ state = [n \in Nodes |-> "gone"] /\ global = 0
  /\ listing = 0 /\ loaded = 0 /\ disk = 1 /\ seen = 0 /\ hidden = FALSE
  /\ suiteSetup = "undefined" /\ touched = {} /\ forgotten = {}

-----------------------------------------------------------------------------
(* The commands of the user *)

\* reset: not more than a message in a debug session.
Reset == IF debugging THEN "prompt" ELSE "stop"

\* list, rerun, run, reset; logs stands for those that do without the node.
Command(op, spec) ==
  /\ phase = "prompt" /\ \E n \in Nodes : state[n] = "gone"
  /\ cmd' = [op |-> op, spec |-> spec]
  /\ phase' = IF op # "reset" THEN "init" ELSE Reset
  /\ UNCHANGED <<debugging, todo, suite, bootVars, nodeVars, testVars, listVars>>

\* c(Module): the compiled module is pushed to the node.
Compile ==
  /\ phase = "prompt" /\ disk + 1 \in Versions
  /\ disk' = disk + 1 /\ loaded' = IF Alive THEN disk + 1 ELSE loaded
  /\ UNCHANGED <<debugging, phase, evalVars, bootVars, nodeVars, testVars, listing, seen,
                 hidden>>

-----------------------------------------------------------------------------
(* ensure_initialized *)

\* init_node: a registered daemon counts as alive; else a node is started.
InitNode ==
  /\ phase = "init"
  /\ \/ /\ ~NoNode /\ phase' = "go" /\ UNCHANGED <<port, state>>
     \/ /\ NoNode /\ phase' = "register"
        /\ \E n \in Nodes : /\ state[n] = "gone"
                            /\ port' = n /\ state' = [state EXCEPT ![n] = "booting"]
  /\ UNCHANGED <<evalVars, registered, ready, global, testVars, listVars>>

\* erlang:register raises when the name is taken, the node has been started then.
Register ==
  /\ phase = "register"
  /\ IF ~registered THEN phase' = "boot" /\ registered' = TRUE /\ UNCHANGED <<ready, todo>>
                    ELSE Dies
  /\ UNCHANGED <<suite, cmd, port, nodeVars, testVars, listVars>>

\* node_main: the daemon takes the global name, or the node ends because
\* another one has it. The message is lost when nobody has the local name.
Delivered == registered
Bug_NameNotTaken == TRUE
NameNotTaken == NoNode
NodeMain(n) ==
  /\ state[n] = "booting"
  /\ IF NameNotTaken
       THEN /\ global' = n /\ state' = [state EXCEPT ![n] = "up"]
            /\ ready' = (ready \/ Delivered)
            /\ listing' = 0 /\ loaded' = 0
            /\ suiteSetup' = "undefined" /\ touched' = {} /\ forgotten' = {}
       ELSE /\ state' = [state EXCEPT ![n] = "gone"]
            /\ UNCHANGED <<global, ready, listing, loaded, testVars>>
  /\ UNCHANGED <<debugging, phase, evalVars, registered, port, disk, seen, hidden>>

BootDone ==
  /\ phase = "boot" /\ ready
  /\ phase' = "go" /\ ready' = FALSE /\ registered' = FALSE
  /\ UNCHANGED <<evalVars, port, nodeVars, testVars, listVars>>

\* exit_status: crash_on_startup, which init_node does not look at.
Bug_NoExitStatus == FALSE
ExitStatus == state[port] = "gone"
BootFails ==
  /\ phase = "boot" /\ ExitStatus
  /\ phase' = "go"
  /\ UNCHANGED <<evalVars, bootVars, nodeVars, testVars, listVars>>

\* init_group_leader; then the command itself.
SetGl ==
  /\ phase = "go"
  /\ IF Dying THEN Dies
     ELSE /\ phase' = CASE cmd.op = "logs" -> "prompt"
                     [] cmd.op = "list" -> "list"
                     [] OTHER           -> "discover"
          /\ UNCHANGED <<todo, registered, ready>>
  /\ UNCHANGED <<suite, cmd, port, nodeVars, testVars, listVars>>

-----------------------------------------------------------------------------
(* Finding the tests *)

\* handle_call list
Relist == listing' = Code /\ loaded' = Code

List ==
  /\ phase = "list"
  /\ IF Alive
       THEN /\ Relist /\ seen' = Code /\ hidden' = FALSE
            /\ phase' = "prompt" /\ UNCHANGED <<todo, registered, ready>>
       ELSE Dies /\ UNCHANGED <<listing, loaded, seen, hidden>>
  /\ UNCHANGED <<suite, cmd, port, nodeVars, testVars, disk>>

\* discover_test by id.
Known == listing # 0 /\ cmd.spec \in DOMAIN Lists[listing]
Bug_LoadedTest == Lists[IF cmd.spec \in DOMAIN Lists[Code] THEN Code ELSE listing][cmd.spec]
ListedTest == Lists[listing][cmd.spec]

\* run compiles first, rerun does not.
Found == phase' = IF cmd.op = "run" THEN "build" ELSE "collect"

\* test:discover; an id that is not known makes it list and try again.
DiscoverId ==
  /\ phase = "discover" /\ cmd.spec # RegEx /\ Alive
  /\ IF Known
       THEN /\ Found /\ todo' = {ListedTest}
            /\ UNCHANGED <<listing, loaded, hidden>>
       ELSE Relist /\ hidden' = TRUE /\ UNCHANGED <<phase, todo>>
  /\ UNCHANGED <<suite, cmd, bootVars, nodeVars, testVars, disk, seen>>

DiscoverRegEx ==
  /\ phase = "discover" /\ cmd.spec = RegEx /\ Alive
  /\ Found /\ todo' = Range(Lists[Code]) /\ loaded' = Code
  /\ UNCHANGED <<suite, cmd, bootVars, nodeVars, testVars, listing, disk, seen, hidden>>

\* Without node, rerun takes node_down for the tests to discover again; run
\* raises on it.
DiscoverNoNode ==
  /\ phase = "discover" /\ ~Alive
  /\ IF NoNode /\ cmd.op = "rerun"
       THEN phase' = "again" /\ UNCHANGED <<todo, registered, ready>>
       ELSE Dies
  /\ UNCHANGED <<suite, cmd, port, nodeVars, testVars, listVars>>

\* do_plain_test_run(node_down) goes on until a node is there by itself.
Again ==
  /\ phase = "again" /\ ~NoNode
  /\ IF Alive THEN phase' = "prompt" /\ UNCHANGED <<todo, registered, ready>> ELSE Dies
  /\ UNCHANGED <<suite, cmd, port, nodeVars, testVars, listVars>>

\* rebuild_modules, load_changed; after a change the tests are discovered
\* again and then run as in rerun.
BuildFails ==
  /\ phase = "build" /\ phase' = "prompt" /\ todo' = {}
  /\ UNCHANGED <<suite, cmd, bootVars, nodeVars, testVars, listVars>>

Build ==
  /\ phase = "build" /\ disk' \in {disk, disk + 1} \cap Versions
  /\ IF ~Alive THEN Dies /\ UNCHANGED <<cmd, loaded>>
     ELSE /\ loaded' = disk'
          /\ IF loaded' = loaded
               THEN phase' = "collect" /\ UNCHANGED <<todo, cmd>>
               ELSE phase' = "discover" /\ todo' = {} /\ cmd' = [cmd EXCEPT !.op = "rerun"]
          /\ UNCHANGED <<registered, ready>>
  /\ UNCHANGED <<suite, port, nodeVars, testVars, listing, seen, hidden>>

-----------------------------------------------------------------------------
(* collect_results *)

\* ensure_per_suite_encapsulation: reset, and if it did nothing the run goes on.
Bug_AnySetup(s) == TRUE
MayRun(s) == suiteSetup \in {"undefined", s}

RunSuite ==
  /\ phase = "collect" /\ todo # {}
  /\ IF Alive
       THEN /\ suite' \in {t[1] : t \in todo}
            /\ phase' = IF MayRun(suite') \/ debugging THEN "running" ELSE Reset
            /\ UNCHANGED <<todo, registered, ready>>
       ELSE Dies /\ UNCHANGED suite
  /\ UNCHANGED <<cmd, port, nodeVars, testVars, listVars>>

\* The tests of the suite have run: their setup remains, or none of it.
SuiteEnds ==
  /\ phase = "running" /\ Alive
  /\ phase' = "collect" /\ todo' = {t \in todo : t[1] # suite}
  /\ suiteSetup' \in {suite, "empty"} /\ touched' = touched \cup {suite}
  /\ loaded' = Code
  /\ UNCHANGED <<suite, cmd, bootVars, nodeVars, forgotten, listing, disk, seen, hidden>>

\* An exception in the daemon: it keeps its old setup, and its answer is no
\* map of results, so that the command raises too.
SuiteRaises ==
  /\ phase = "running" /\ Alive /\ Dies
  /\ touched' = touched \cup {suite} /\ loaded' = Code
  /\ forgotten' = IF suiteSetup = "undefined" THEN forgotten \cup {suite} ELSE forgotten
  /\ UNCHANGED <<suite, cmd, port, nodeVars, suiteSetup, listing, disk, seen, hidden>>

\* The node goes down while the tests run.
NodeLost ==
  /\ phase = "running" /\ ~Alive /\ Dies
  /\ UNCHANGED <<suite, cmd, port, nodeVars, testVars, listVars>>

AllRun ==
  /\ phase = "collect" /\ todo = {}
  /\ phase' = "prompt"
  /\ UNCHANGED <<evalVars, bootVars, nodeVars, testVars, listVars>>

-----------------------------------------------------------------------------
(* reset *)

\* ct_daemon_node:stop: the node is halted and waited for.
Stop ==
  /\ phase = "stop"
  /\ IF NoNode THEN Dies /\ UNCHANGED state
     ELSE /\ phase' = "restart" /\ state' = [state EXCEPT ![global] = "gone"]
          /\ UNCHANGED <<todo, registered, ready>>
  /\ UNCHANGED <<suite, cmd, port, global, testVars, listVars>>

\* ct_daemon:start with a node configuration in place of a command line: no
\* list to take the executable from.
Restart ==
  /\ phase = "restart" /\ Dies
  /\ UNCHANGED <<suite, cmd, port, nodeVars, testVars, listVars>>

-----------------------------------------------------------------------------
\* A node ends by itself, at any time.
NodeEnds(n) ==
  /\ state[n] # "gone" /\ state' = [state EXCEPT ![n] = "gone"]
  /\ UNCHANGED <<debugging, phase, evalVars, bootVars, global, testVars, listVars>>

\* The global name of a node that is gone is forgotten.
Forget ==
  /\ Dying /\ global' = 0
  /\ UNCHANGED <<debugging, phase, evalVars, bootVars, state, testVars, listVars>>

Evaluator ==
  /\ \/ InitNode \/ Register \/ BootDone \/ BootFails \/ SetGl
     \/ List \/ DiscoverId \/ DiscoverRegEx \/ DiscoverNoNode \/ Again \/ BuildFails \/ Build
     \/ RunSuite \/ SuiteEnds \/ SuiteRaises \/ NodeLost \/ AllRun \/ Stop \/ Restart
  /\ UNCHANGED debugging

ShellNext ==
  \/ \E op \in {"logs", "list", "reset"} : Command(op, RegEx)
  \/ \E op \in {"rerun", "run"}, spec \in Specs : Command(op, spec)
  \/ Compile \/ Evaluator \/ Forget
  \/ \E n \in Nodes : NodeMain(n) \/ NodeEnds(n)

\* The evaluator runs on, builds and tests end (for the tests: DaemonCore's
\* CallReturns), a node that is started either comes up or ends, and the
\* name of a node that is gone is forgotten.
ShellSpec ==
  /\ ShellInit /\ [][ShellNext]_shellVars /\ WF_shellVars(Evaluator) /\ WF_shellVars(Forget)
  /\ \A n \in Nodes : WF_shellVars(NodeMain(n))

-----------------------------------------------------------------------------
(***************************************************************************)
(* The node that is up is the one the commands talk to, and there is no    *)
(* other, though a start may be given up with its node still booting and   *)
(* another node started then (init_node, node_main).                       *)
(***************************************************************************)
OneNodeUp == \A n \in Nodes : state[n] = "up" => global = n

(***************************************************************************)
(* Tests of two suites do not run in the same node, unless an exception    *)
(* made it forget the first (ensure_per_suite_encapsulation), or in a      *)
(* debug session, where the shell says that it cannot reset the node and   *)
(* runs the second suite in it nevertheless.                               *)
(***************************************************************************)
OneSuiteInNode ==
  phase = "running" /\ Alive /\ ~debugging => \A s \in touched : s = suite \/ s \in forgotten

ById == cmd.spec # RegEx /\ phase = "discover" /\ phase' # phase /\ todo' # {}

(***************************************************************************)
(* A test given by its id is the one list() printed with it, after every   *)
(* recompilation, as long as nothing else made the daemon list again.      *)
(***************************************************************************)
IdKeepsItsTest == [][ById /\ ~hidden => todo' = {Lists[seen][cmd.spec]}]_shellVars

(***************************************************************************)
(* Every command returns or raises, but in the three ways the code has to  *)
(* go on for ever: an id that does not exist, a rerun without node, and a  *)
(* node that was ready before the shell could be told.                     *)
(***************************************************************************)
UnknownId == phase = "discover" /\ cmd.spec # RegEx /\ cmd.spec \notin DOMAIN Lists[Code]
ReadyLost == phase = "boot" /\ state[port] = "up" /\ ~ready
CommandReturns == phase # "prompt" ~> phase = "prompt" \/ UnknownId \/ phase = "again" \/ ReadyLost
=============================================================================

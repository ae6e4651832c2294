----------------------------- MODULE DaemonCore -----------------------------
(***************************************************************************)
(* The node behind the test shell: the gen_server ct_daemon_runner and     *)
(* ct_daemon_core, which keep the suite and the groups of the last test    *)
(* set up. The next test ends the levels it does not share and initialises *)
(* those it misses. Every init, end and test runs in a process of its own; *)
(* one that exceeds its timetrap is given up but goes on running.          *)
(*                                                                         *)
(* A level is a suite or a group; paths go from the suite inwards (the     *)
(* code keeps them reversed). A configuration is what its contributors     *)
(* made of it: the suite whose directories it names and, in order, the     *)
(* inits that returned it.                                                 *)
(***************************************************************************)
EXTENDS Naturals, Sequences, FiniteSets

CONSTANTS Level,     \* suites and groups
          Calls,     \* sequences of test paths, all of one suite: one run of the shell
          MaxLate,   \* bound: how many parts exceed their timetrap
          MaxMixed   \* bound: how often a debug session goes on from another suite

Path == Seq(Level) \ {<<>>}

ASSUME CallsAssumption ==
  /\ \A q \in Calls : q \in Seq(Path) /\ q # <<>>
  /\ \A q \in Calls : \A m, n \in DOMAIN q : q[m][1] = q[n][1]
ASSUME BoundAssumption == MaxLate \in Nat /\ MaxMixed \in Nat

VARIABLES
  debug,      \* a debug session: no timetraps (init_node), no reset of the node
  pc,         \* "idle", "next", "teardown", "init" or "test"
  queue,      \* tests of the call that are not done, the current one first
  setup,      \* [is, path, configs, config], see Setup and Undefined
  saved,      \* the gen_server's state, which an exception leaves as it was
  overrun,    \* parts that go on running after their timetrap
  up,         \* history: the paths whose last level really is initialised
  late,       \* history: parts that exceeded their timetrap
  reverted,   \* history: an exception undid changes to setup that had happened
  mixed       \* history: how many calls went on from the setup of another suite

daemonVars == <<pc, queue, setup, saved>>
session == <<debug, mixed>>
vars == <<daemonVars, overrun, up, late, reverted, session>>

-----------------------------------------------------------------------------
Config(suite, by) == [dirs |-> suite, by |-> by]
Undefined == [is |-> "undefined", path |-> <<>>, configs |-> <<>>, config |-> <<>>]
Kept(s) == s.is = "kept"
Setup(path, configs, config) ==
  [is |-> "kept", path |-> path, configs |-> configs, config |-> config]

Want == Head(queue)
Prefix(path, n) == SubSeq(path, 1, n)
Part(kind, path) == [kind |-> kind, path |-> path]

\* What do_fresh_setup gives a test at this path after n inits.
Fresh(path, n) == Config(path[1], Prefix(path, n))

\* get_common_prefix: what is left of the setup is what the wanted test shares.
Bug_ShareNothing(path, want) == path = <<>>
Shares(path, want) == Len(path) <= Len(want) /\ Prefix(want, Len(path)) = path

\* do_teardown_until: pop one level; its configuration was given to its end.
Popped(s) ==
  LET n == Len(s.path)
  IN  Setup(Prefix(s.path, n - 1), Prefix(s.configs, n - 1), s.configs[n])

\* do_setup_from: the configuration to go on from.
Bug_GoOnWith(s) == s.config
ConfigIn(s) == IF s.configs # <<>> THEN s.configs[Len(s.configs)] ELSE s.config

\* do_init: a level whose init returned a configuration is pushed.
Pushed(s, level) ==
  LET c == Config(s.config.dirs, Append(s.config.by, level))
  IN  Setup(Append(s.path, level), Append(s.configs, c), c)

\* do_init: of a level whose init did not return one, nothing remains.
Bug_PushAnyway(s, level) == Pushed(s, level)
Bug_ForgetSetup(s, level) == Setup(<<>>, <<>>, s.config)
AfterFailure(s, level) == s

\* scale_timetrap: whether a part can exceed its timetrap at all.
Bug_NoTimetrap == FALSE
TimesOut == ~debug

-----------------------------------------------------------------------------
Init ==
  /\ pc = "idle" /\ queue = <<>> /\ setup = Undefined /\ saved = Undefined
  /\ overrun = {} /\ up = {} /\ late = {} /\ reverted = FALSE
  /\ debug \in BOOLEAN /\ mixed = 0

\* test:ensure_per_suite_encapsulation: a setup of another suite, or one that
\* did not even get its suite, makes the shell reset the node (NodeDown).
Encapsulated(suite) == Kept(setup) => setup.path # <<>> /\ setup.path[1] = suite

\* Whether the configuration that is there was made for another suite.
Foreign(suite) ==
  Kept(setup) /\ suite # (IF setup.path = <<>> THEN setup.config.dirs ELSE setup.path[1])

\* handle_call run, with the tests the shell discovered. In a debug session
\* reset only says that it cannot, and the run goes on from what is set up.
Call(q) ==
  /\ pc = "idle" /\ (Encapsulated(q[1][1]) \/ debug)
  /\ IF Foreign(q[1][1]) THEN mixed < MaxMixed /\ mixed' = mixed + 1
                         ELSE UNCHANGED mixed
  /\ pc' = "next" /\ queue' = q /\ saved' = setup
  /\ UNCHANGED <<debug, setup, overrun, up, late, reverted>>

\* do_incremental_setup, and do_fresh_setup when there is no setup.
StartTest ==
  /\ pc = "next" /\ queue # <<>>
  /\ IF Kept(setup)
       THEN pc' = "teardown" /\ UNCHANGED setup
       ELSE /\ pc' = "init"
            /\ setup' = Setup(<<>>, <<>>, Config(Want[1], <<>>))
  /\ UNCHANGED <<queue, saved, overrun, up, late, reverted, session>>

\* A part is given up. It stays alive.
GiveUp(part) ==
  /\ TimesOut /\ Cardinality(late \cup {part}) <= MaxLate
  /\ overrun' = overrun \cup {part} /\ late' = late \cup {part}

\* The end of the innermost level, whatever it returns or how it crashes.
EndLevel(timely) ==
  /\ pc = "teardown" /\ ~Shares(setup.path, Want)
  /\ setup' = Popped(setup)
  /\ IF timely THEN up' = up \ {setup.path} /\ UNCHANGED <<overrun, late>>
               ELSE GiveUp(Part("end", setup.path)) /\ UNCHANGED up
  /\ UNCHANGED <<pc, queue, saved, reverted, session>>

EndOfTeardown ==
  /\ pc = "teardown" /\ Shares(setup.path, Want)
  /\ pc' = "init" /\ setup' = Setup(setup.path, setup.configs, ConfigIn(setup))
  /\ UNCHANGED <<queue, saved, overrun, up, late, reverted, session>>

Missing == pc = "init" /\ Len(setup.path) < Len(Want)
NextLevel == Want[Len(setup.path) + 1]
NextPath == Append(setup.path, NextLevel)

InitLevel ==
  /\ Missing
  /\ setup' = Pushed(setup, NextLevel) /\ up' = up \cup {NextPath}
  /\ UNCHANGED <<pc, queue, saved, overrun, late, reverted, session>>

\* skip, fail, an error or a crash, or the timetrap: the test is answered with it.
InitFails(timely) ==
  /\ Missing
  /\ setup' = AfterFailure(setup, NextLevel)
  /\ IF timely THEN UNCHANGED <<overrun, late>> ELSE GiveUp(Part("init", NextPath))
  /\ pc' = "next" /\ queue' = Tail(queue)
  /\ UNCHANGED <<saved, up, reverted, session>>

RunTest ==
  /\ pc = "init" /\ Len(setup.path) = Len(Want)
  /\ pc' = "test"
  /\ UNCHANGED <<queue, setup, saved, overrun, up, late, reverted, session>>

\* do_run_test returns, with a configuration the test may have saved.
TestEnds(timely) ==
  /\ pc = "test"
  /\ pc' = "next" /\ queue' = Tail(queue)
  /\ IF timely
       THEN /\ \E by \in {setup.config.by, <<>>} :
                 setup' = Setup(setup.path, setup.configs, Config(setup.config.dirs, by))
            /\ UNCHANGED <<overrun, late>>
       ELSE GiveUp(Part("test", Want)) /\ UNCHANGED setup
  /\ UNCHANGED <<saved, up, reverted, session>>

Reply ==
  /\ pc = "next" /\ queue = <<>>
  /\ pc' = "idle"
  /\ UNCHANGED <<queue, setup, saved, overrun, up, late, reverted, session>>

\* Outside the processes of the parts an exception ends the whole call and
\* the gen_server keeps its old state: the suite does not load, or one of its
\* info functions, which path_timetrap calls before every part, raises.
Raise ==
  /\ \/ pc = "next" /\ queue # <<>>
     \/ pc = "teardown" /\ ~Shares(setup.path, Want)
     \/ pc = "init"
  /\ pc' = "idle" /\ queue' = <<>> /\ setup' = saved
  /\ reverted' = (reverted \/ saved.path # setup.path)
  /\ UNCHANGED <<saved, overrun, up, late, session>>

\* A part that was given up comes to its end after all.
Late(part) ==
  /\ overrun' = overrun \ {part}
  /\ CASE part.kind = "init" -> up' \in {up, up \cup {part.path}}
       [] part.kind = "end"  -> up' = up \ {part.path}
       [] OTHER              -> UNCHANGED up
  /\ UNCHANGED <<daemonVars, late, reverted, session>>

\* The node ends: reset, the end of the shell, or a suite that halts it.
NodeDown ==
  /\ pc' = "idle" /\ queue' = <<>> /\ setup' = Undefined /\ saved' = Undefined
  /\ overrun' = {} /\ up' = {} /\ late' = {} /\ reverted' = FALSE
  /\ mixed' = 0 /\ UNCHANGED debug

Daemon == StartTest \/ EndOfTeardown \/ RunTest \/ Reply
Parts(timely) == EndLevel(timely) \/ InitFails(timely) \/ TestEnds(timely)

Next ==
  \/ \E q \in Calls : Call(q)
  \/ Daemon \/ InitLevel \/ Raise
  \/ \E timely \in BOOLEAN : Parts(timely)
  \/ \E part \in overrun : Late(part)
  \/ NodeDown

\* The daemon takes its steps and its timers fire. MaxLate parts may hang, and
\* those that are left then come to an end.
MayHang == Cardinality(late) < MaxLate
Spec == /\ Init /\ [][Next]_vars /\ WF_vars(Daemon)
        /\ WF_vars(Parts(FALSE)) /\ WF_vars(~MayHang /\ Parts(TRUE))

-----------------------------------------------------------------------------
(***************************************************************************)
(* A test gets the configuration a fresh setup of its path would have      *)
(* given it: nothing of the groups that were ended or failed before, of    *)
(* what earlier tests saved, or of another suite remains in it, in any     *)
(* sequence of calls (do_incremental_setup against do_fresh_setup). The    *)
(* exception is a debug session in which a second suite was asked for: the *)
(* node is not reset, and its inits get what the first suite left.         *)
(***************************************************************************)
ConfigAsFresh == pc = "test" => setup.config = Fresh(Want, Len(Want)) \/ (debug /\ mixed > 0)

Prefixes(path) == {Prefix(path, n) : n \in 1..Len(path)}

(***************************************************************************)
(* A test runs only when its suite and all its groups are initialised      *)
(* (test.erl:163), but for the two ways the code has to lose track of its  *)
(* setup: an end that was given up and took effect later, and an exception *)
(* after which the gen_server keeps a state that is no longer true.        *)
(***************************************************************************)
SetupIsUp ==
  pc = "test" =>
    \A p \in Prefixes(Want) : p \in up \/ Part("end", p) \in late \/ reverted

(***************************************************************************)
(* No suite or group stays initialised that the daemon does not know of    *)
(* and so will never end, unless an init or end of it was given up or an   *)
(* exception made the daemon forget it.                                    *)
(***************************************************************************)
NothingLeftBehind ==
  \A p \in up : \/ p \in Prefixes(setup.path)
               \/ Part("init", p) \in late \/ Part("end", p) \in late
               \/ reverted

(***************************************************************************)
(* The setup of a test is the shortest possible (test.erl:163): no level   *)
(* the next test shares is ended for it, and no level is initialised that  *)
(* already is, but for those the daemon has lost track of.                 *)
(***************************************************************************)
ShortestSetup ==
  [][pc' # "idle" /\ ~reverted =>
       /\ \A p \in Prefixes(setup.path) \ Prefixes(setup'.path) : p \notin Prefixes(Want)
       /\ \A p \in Prefixes(setup'.path) \ Prefixes(setup.path) :
            p \in up => Part("init", p) \in late \/ Part("end", p) \in late]_vars

(***************************************************************************)
(* Every call of the shell is answered though every part may hang: it is a *)
(* gen_server:call without a timeout, bounded by the timetraps alone,      *)
(* which a debug session does not have.                                    *)
(***************************************************************************)
CallReturns == pc # "idle" /\ ~debug ~> pc = "idle"
=============================================================================

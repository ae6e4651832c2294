# A TLA+ model of the Buck2 prelude's stateful parts

The repository is the Buck2 prelude: build rules in Starlark, and the programs the
rules run. Most of it is declarative. The parts that keep state, talk to other
processes or implement an algorithm worth stating are listed below.

The core, and the part where most processes, timers and messages meet, is the
Erlang Common Test integration under `erlang/common_test/`. It is modelled first and
in most depth. The programs that build Apple bundles, Android libraries, distributed
ThinLTO links and Rust crates, and the one that runs Python tests, come next. All paths
below are relative to `src/`.

## 1. Inventory

### Erlang test execution (`test_binary`, `test_exec`)

`test_binary run` executes one suite. State: the phase and mailbox of four Erlang
processes (the runner `test_runner:run_test`, the supervisor `test_exec_sup`, the
servers `epmd_manager` and `ct_runner`), two operating system processes (an epmd
daemon and the node that runs `ct_executor:run`), and the files `result.json`
(written by the node) and `result_exec.json` (the report). Operations: start the
tree, start epmd with retries, launch the node, notice the end of any of them, shut
the tree down, write the report. The parts interact by messages, monitors, links,
ports, a synchronous call from `epmd_manager` into its own supervisor, and files.

Hard: three events race for one `receive` of the runner; the shutdown of the tree has
a time limit, and so has each of its children; the node may be killed while it
writes its results; `epmd_manager` and its supervisor can wait for each other; a late
exception replaces a report that was already written. Correct means: the binary ends;
results are published only when they are whole; a good run is not reported broken
without a reason; nothing is left running that need not be.

### Result hook (`cth_hooks`: `cth_tpx`, `cth_tpx_role`, `cth_tpx_server`)

Common Test calls hook functions around every init, test and end. State: a stack of
groups, a flag `previous_group_failed`, the tree of results, an output buffer.
Operations: one callback for each event. Hard: the stack is inferred from the order
of callbacks, which differs for failed, skipped and repeated groups. Correct means:
each requested test is reported with what became of it.

### Result tree (`cth_tpx_test_tree`)

Pure functions on nested maps: `insert_result`, `collect_result`. Correct means: what
is collected for a test is the chain of its inits and ends in order, the outcome is
merged from them, and the right init is blamed for a missing result.

### Test shell (`test_cli_lib/test.erl`, `ct_daemon*`)

An interactive shell drives a second node. State in the shell: a command in progress,
its mailbox and registered name. State in the node: the listing that gives tests their
ids, the stack of suite and groups that are set up with the configuration each
returned, the code that is loaded. Operations: `list`, `run`, `rerun`, `reset`, `logs`,
`c(Module)`; start, stop, loss of the node; incremental setup and teardown around each
test, with timetraps. Hard: setup survives from one command to the next, so its
bookkeeping must stay true across failures, exceptions and parts that overrun their
time; ids and setup go stale when the node or the code changes; a lost or failed
start of the node meets code that assumes it is up. Correct means: a test runs in
the setup and with the configuration a fresh run would give it, an id means the test
that was listed under it, one suite runs in one node, and a command returns.

### Output capture (`io_buffer`, `bounded_buffer`)

A server that stands in for the group leader of the tests, keeps the last lines of
output and passes them on. State: a bounded queue, a flag that it is capturing.
Hard: writers run concurrently with the hook that flushes; the queue has a limit.
Correct means: what a result is reported with was written, in order, since the last
result, and what is cut off is marked.

### Apple bundles (`apple/tools/bundling`, `apple/tools/code_signing`)

One action of the build assembles a bundle, copies Swift libraries into it and signs it.
State: the bundle on disk, a file with the digests and the signing of the build before,
signing processes that run at once. Operations: decide whether to work on top of the old
bundle, copy what changed and remove what is gone, prepare entitlements and Info.plist,
sign nested code in parallel and then the whole, write the state. Hard: the old bundle was
changed after its digests were taken (signed, linked, added to); any step may fail or the
action be killed, and the next build finds what it left; one of several processes may
fail. Correct means: what is left after a build is what a build from nothing makes, a
state file that can be read describes the bundle, and a seal covers what is there.

Signing needs a provisioning profile: every profile of a directory is compared with what
the app asks for, by six checks, while time goes on. Correct means: the most specific
profile that suits is taken, a refusal has a reason, and the app keeps its entitlements.

### Apple resource broker (`apple/tools/resource_broker`)

A program started before tests run, once for each kind of resource: it prepares a
simulator, spawns idb companions, waits until they name their sockets, forks a child that
stays to end them, and reports. State: the simulators of a device set that all brokers
share, the companions of each broker, the child's list of them. Hard: brokers run at once
without a lock; a command that exceeds its timeout is not killed and takes effect later;
one of ten companions may fail, err, hang or die; the child is signalled at any time after
the report, also twice. Correct means: what is reported can be used, a companion that is
not reported or no longer wanted is told to end, and every broker comes to an end.

### Native library merging (`android/tools/merge_sequence.py`)

A program that divides a graph of targets into libraries: merge groups, split groups by
module and by exclusion, layers where a chain leaves a split group and comes back. Its
traversals go over tables that each group adds to. Correct means: the libraries do not
depend on one another in a circle, no library has targets that may not be together, and
there are no more layers than that takes.

### Distributed ThinLTO (`cxx/dist_lto`)

A link as a chain of actions that talk through files: archives are unpacked, the thin link
chooses the imports, a planner turns its indices into a plan for each object and for the
link, each object is optimised, the final link has its lines rewritten. The rules declare
the inputs of each action from the plan. Hard: one object has up to five names; archives
have members of the same name; the premerger makes units vanish into others. Correct
means: the code of each unit is linked once, each action reads what it declared, and the
linker's options reach the compiler.

### Rust crates (`rust/tools`)

Directories of dependencies, a build script, rustc behind a wrapper that reads its
diagnostics while it runs, a failure filter, and a link taken from rustc and done later.
State: the output that an incremental build keeps, the status file between the wrapper and
the filter. Hard: whether rustc failed is told by its status, its diagnostics, a signal and
the files it left, which need not agree. Correct means: consumers get code of this build
or a failure, every diagnostic arrives, and so do arguments and environment.

### Python test main (`python/tools/__test_main__.py`)

Loads tests by name, is called back by unittest, writes results and coverage. State: the
result object (current test, status, captured output), the suite that forgets tests as they
run. Hard: fixtures that fail are reported as tests that do not exist, calls about one test
overwrite one another's status, threads outlive their test. Correct means: each test asked
for is told about, truly, and the exit code agrees with the results.

### Other tools and algorithms

| Part | State | Operations | What makes it correct | Hard |
|---|---|---|---|---|
| Graph algorithms (`utils/graph_utils.bzl`) | none between calls | topological sort, traversals | order respects all edges | duplicates, cycles |
| Configuration modifiers (`cfg/modifier`) | none between calls | merge and resolve modifiers | the last applicable wins | precedence of three sources |
| Omnibus and link groups (`cxx/omnibus.bzl`, `cxx/link_groups.bzl`) | none between calls | divide a graph into libraries | every target once, in an allowed library | cycles, roots |
| Rules, declarations, toolchains, wrappers of compilers | none | build graph construction | | not modelled |

`PROJECT.json` has one entry for each part, also for those left out, with the reason.

## 2. Modules and plan

| Module | Models | Kind | Status |
|---|---|---|---|
| `TestExec` | one execution of a suite | state machine of 6 processes | done |
| `SuiteReport` | what the caller of the binary is promised | abstract specification | done |
| `TestExecProofs` | | 6 theorems | done |
| `CthTpx` | the result hook and the report for each test | state machine | done for one suite |
| `CthTpxProofs` | | 3 theorems | done |
| `TestTree` | the nested maps of the result tree | operators, part of `CthTpx` | done |
| `DaemonCore` | incremental setup in the node of the shell | state machine | done |
| `DaemonShell` | the shell's commands and the life of its node | state machine | done |
| `DaemonProofs` | on `DaemonCore` and `DaemonShell` | 7 theorems | done |
| `IoBuffer` | which output ends up in which result | state machine | done |
| `IoBufferProofs` | | 5 theorems | done |
| `BundleTree` | the tree of a bundle, assembled anew and on top of an old one | operators | done |
| `BundleSigning` | what signing does to the tree | operators | done |
| `AppleBundle` | the action that builds a bundle, again and again | state machine | done |
| `ProvisioningProfiles` | the choice of profile and identity | state machine | done |
| `AppleProofs` | on `AppleBundle` and `ProvisioningProfiles` | 3 theorems | done |
| `MergeSequence` | the native library merge | algorithm as steps | done |
| `ThinLto` | the actions of a distributed link | state machine | done |
| `RustBuild` | the actions around one crate | state machine | done |
| `ToolProofs` | on `RustBuild`, `ThinLto` and `PythonTestMain` | 4 theorems | done |
| `PythonTestMain` | the main program of Python tests under unittest | state machine | done |
| `ResourceBroker` | brokers, their companions and children | state machine | done |
| `ResourceBrokerProofs` | | 2 theorems | done |
| `Subsequences` | what list comprehensions and filters keep | operator | done |
| `SubsequenceLemmas` | lemmas that several components need | | done |
| `HookRoles` | the two roles of `cth_tpx` around one server, with its timeout | state machine | planned, 1 |
| `LinkGroups` | omnibus and link groups, on the graph traversals | algorithm as steps, reference definition | planned, 2 |
| `Modifiers` | precedence of configuration modifiers | operators, reference definition | planned, 3 |
| proofs | `BundleIsFresh` of `AppleBundle` | theorem | planned, 4 |

`TestExec` composes with `SuiteReport` by a refinement (`ImplementsReport`). `CthTpx`
fills the nested maps of `TestTree` and reports from them; a flat table kept beside them
says what should be collected. `DaemonShell` treats a run of tests as one step with
every outcome `DaemonCore` has: it returns (`CallReturns`), it raises (`Raise`), the node
goes down (`NodeDown`). `AppleBundle` is built on `BundleSigning` and that on `BundleTree`;
which profile it signs with is an input of it, and `ProvisioningProfiles` says how it is
chosen. Modules that one proof module extends give their parts different names: the specification
of `DaemonShell` is `ShellSpec`, that of `ProvisioningProfiles` is `SelectionSpec`.

Each `MC` module gives the constants of one module values for TLC; the `.cfg` files
name a specification, the constants and the properties. A definition called `Bug_...`
beside one of the model is a plausible mistake in that piece of code; putting it in the
place of the definition it stands before must break the property it is listed with in
`PROJECT.json`.

## 3. The models

### TestExec

`runPc` is the place in `run_test` and `provide_output_file`; `sup`, `em`, `cr` are the
phases of the processes; `runQ`, `supQ`, `crQ` are mailboxes in order of arrival, and
`emMsgs` is a set, because `epmd_manager` receives selectively or ends on anything.
`epmd` is the daemon that was spawned last, `epmdPort` whether the port to it is open, and
`stray` says that one of an earlier attempt is alive without a port. `node` is the other OS process, `nodeExit` how the node ended, `resultFile` how
much of `result.json` is there, `output` what the report says: `none`, `broken` (all
tests failed) or `results`. `lost` is a history variable: the ways an OS process can get
out of sight. There is one action for each handler: `RunStart`, `RunMonitor`,
`RunReceive`, `RunTimeout`, `RunStopped`, `RunReport`, `RunRaise`, `RunHalt` for the
runner; `Sup...`, `Em...`, `Cr...` for the others; `EpmdReady`, `EpmdExit`, `StrayExit`,
`EpmdPortLost`, `NodeBoot`, `NodeTestsEnd`, `NodeWritten`, `NodeEnd`, `PortLost` for what happens
outside. `TerminateEpmd` is `kill_process`, which sends no signal once the port is closed: an epmd
whose port was lost outlives the attempt (`EmRetry`) and the tree (`EmStop`). The kill of
a child after its shutdown time is an action of the supervisor's timer.

Abstracted: the contents of the results, command lines, ports and paths. Assumed: the
runner's own writes to disk succeed (`json_interfacer.erl:58` ignores the result of
`write_file`, so nothing in the program would react to it).

Fairness. Erlang's scheduler runs every process that can run, and timers fire: weak
fairness of the runner, the supervisor and its timers, the two servers. Nothing is assumed of epmd and of the node: both may hang for ever. That the
timeout of the run fires is `Timely`, which is no part of `Spec`: it is the premise of the
liveness half of `ImplementsReport` (with a node that hangs the binary ends by the timeout
alone), and `EndIsNoticed` holds without it.

### CthTpx

`spec`, `pc`, `entry`, `opened`, `caseNo`, `skip`, `suiteSkip` say where Common Test is
in the test specification built by `build_test_spec`; that part is external and is
modelled from how the hook and the runner use it. `groups`, `prevFailed`, `tree` are the
hook's state. One action per event of Common Test calls the callbacks that belong to it,
in their order: `InitSuite`, `OpenGroup`, `RunCase`, `SkipCase`, `CloseGroup`,
`EndSuite`. `Report` is `collect_result` on the registered outcomes. `truth` and
`displaced` are history: what really became of each test, and which results were
registered somewhere else or overwritten.

Not modelled: captured output, times, and the role split (`cth_tpx_role`,
`cth_tpx_server`), which is only a way to keep one state for two registrations. A
group with the `parallel` property is run in sequence.

### TestTree

`Insert` and `CollectResult` follow the Erlang functions on nested maps, with functions of
the positions in a path for their recursion: `Nodes` goes down a path, `Changed` comes back
up with the maps that a result changes, `Gathered` is the list that a descent builds. `CthTpx` inserts every result as the hook
registers it; `table` is history and has the same results without a tree, from which
`CollectedInOrder` reads what a report should list.

### DaemonCore

`setup` is the state of `ct_daemon_core` (`undefined`, or a path with the
configurations along it), `saved` the state the gen_server falls back to when a call
raises, `queue` the tests left in the call, `overrun` the parts that run on after their
timetrap. A configuration is modelled by what made it: the suite whose directories it
names and the inits that returned it in order. `debug` is a debug session, which has no
timetraps and does not reset the node: a run of a second suite then goes on from what the first
one left. `up`, `late`, `reverted`, `mixed` are history: what is really initialised, what was
given up, whether an exception undid bookkeeping, how many calls went on from another suite
(`Foreign`; the bound `MaxMixed` is on these). Actions:
`Call`, `StartTest`, `EndLevel`, `GiveUp`, `EndOfTeardown`, `InitLevel`, `InitFails`,
`RunTest`, `TestEnds`, `Reply`, `Raise`, `Late`, `NodeDown`.

Fairness. The daemon takes its steps. Up to `MaxLate` parts may hang, and the timer of
their timetrap, which `Parts(FALSE)` stands for, ends the wait for them; the parts after
that are assumed to come to an end, for a code under test that hangs for ever at every
step needs more timetraps than the bound has.

### DaemonShell

`phase`, `cmd`, `todo`, `suite` are the evaluator process of the shell; `registered`,
`ready`, `port` are what `ct_daemon_node:start` waits with; `state` and `global` are the
nodes and the global name that points to one of them; `debugging` is a debug session, in which
`Reset` does nothing and the run goes on. `listing`, `loaded`, `suiteSetup` are
in the node, `disk` is the compiled code, as a version. One action per command or
handler. A call to the daemon is one step: it is answered (`Alive`), returns `node_down`
(`NoNode`), or raises (`Dying`, between the end of a node and the moment its name is
forgotten). `Dies` is the end of the evaluator, and with it its mailbox and its registered name.
Ids count from 1 in the model and from 0 in the code. A listing of more than ten suites,
which the code answers with an error that takes the daemon down, is left out; a daemon
that goes down at any time is in.

Fairness. The evaluator runs on, a node that was started either comes up or ends, a
forgotten name is noticed. Builds and test runs end: the second is `CallReturns`.

### IoBuffer

`capture` and the bounded buffer (`buffer`, `truncated`) are the server's state, `inbox`
its mailbox. Each process waits for the answer to its request, so there is one message
of each at most. `calls` holds the calls the hook has still to make: `stop`, `flush`,
`start` before a part (`InitializeCapture`), one `flush` at its end, whose answer goes
into a result (`HandleReport`), a `stop` after the suite. The writers are the process of
the part, which writes while the part runs, and others, which outlive their part and
write between any two of these calls. A line is its writer, a number and the part in
which it was written; the length at which a line is cut is left out. `log` is what the
group leader printed, `said` and `captured` are history.

A comment says the buffer is "truncated in the middle" (`io_buffer.erl:33`); the code
keeps the tail, and the hook tells the reader of a result so (`cth_tpx.erl:502`).
`BufferIsTail` states the latter. The calls also have a time limit of five seconds,
which is not modelled.

### BundleTree, BundleSigning, AppleBundle

A tree maps paths to files, symlinks and directories; a file has a digest and who signed
it. An operation that raises yields no tree. `AssembledAnew` and `AssembledOnTop` are the
two ways of `assemble_bundle.py`: the copy that goes through a symlink or into a directory,
the links of a versioned bundle, the paths removed, the directories pruned. `Signed` and
`DrySigned` are what codesign and the dry run leave; a seal records what it covered.
`AppleBundle` is the action: `tree` and `file` are on disk and outlive it, `prev`, `added`
and `running` are its memory. `Start` reads and deletes the state file (`ReadState`),
`Assemble`, `Swift`, `Prepare`, `Spawn`, `CodesignEnds`, `CheckResults`, `SignRoot` and `Save`
are its steps, `NoContext`, `KeychainRefused`, `SaveFails` and `Dies` its ends before the
end. Builds follow one another with any of the inputs. `built` and `misplaced` are history:
the bundle the last good build left, and whether a case came up that the incremental
assembly does not handle.

codesign, swift-stdlib-tool and Buck are external. Buck deletes the output of an action
that is not incremental, and voids the state file with it. Left out: extended attributes,
modes, the contents of plists.

### ProvisioningProfiles

`case` is a request with the profiles and identities there are. `SigningContext`,
`ListIdentities`, `ReadProfiles`, `ReadEntitlements`, one `Compare` for each profile, `Select`,
`PrepareEntitlements` follow
`signing_context_with_profile_selection` and `select_best_provisioning_profile`; `Tick` lets a
profile expire in between. `Mismatch` has the checks in the code's order, which the error
reported in the end depends on (`Diagnosis`). Application names are sequences of tokens, so
that prefixes and their lengths mean something. The module also has what follows: the merge
of entitlements and the Info.plist keys. Every input may be one that cannot be read
(`case.broken`: the Info.plist, the command that lists identities, the directory, the
entitlements, the filter), and so may a profile; each of these raises. The
team a profile has to be of comes from the first keychain group of the entitlements, which
raises when it is no app ID (`app_id.py:57`). An app ID is a pair of a team and a name, any
other sequence is malformed. Left out: entitlements whose lists hold dictionaries, which
`set()` raises on (`provisioning_profile_selection.py:67`).

### MergeSequence

One step for each loop body of `get_native_linkables_by_merge_sequence` and of
`assign_names`. `StartGroup` does the bottom-up part of a group (post order, specs that
reach a target, modules below it), `AssignLayer` one round of the top-down part, `AddNodes`
the libraries and their edges, `TopoSort` and `AssignName` the names. The keys of split
groups stand for the numbers the code gives them. The traversals are recursive functions.

### ThinLto

`PrepareArchive`, `Plan`, one of `Copy`, `Skip` and `Optimise` for each object, and
`FinalLink` are the actions of the build, with the ways they fail (`PrepareFails` for a file
that is no archive and for a thin archive's member that is missing, `OutsideFails` for bitcode
in a thin archive, `Optimise` itself). A linkable is an object, an archive, a thin archive,
whose members stay where they are, or an unknown file; what each reads is compared with what the rules
declare for it (`Needs`, `Declares`; `plan` also has what the thin link wrote). A file is the set of units whose code it has. The thin
linker's choice is an input: which units it loads, imports and merges. Both planners are
there: `darwin` switches what differs. `FilterFlags` and `CleanupFlags` are the two filters
of `dist_lto_opt_gnu.py`. A flag is a form, one for each branch of the filter and for each
spelling of an option that passes it by, and a value; `Linkward` is what the linker is given
for the same flags, and `FlagsReachOpt` compares the two. Quotes in flags and a `-Wl,` flag
with more than one option after its `-mllvm` are left out.

### RustBuild

rustc (`RustcPrints`, `RustcWrites`, `ExtractLink`, `RustcExits`) runs beside the wrapper that
reads its pipe (`HandleLine`, `Finish`); then `FailureFilter`, `DeferredLink` or `HandOn`, and
`Edit` for the next build. Before that, `LinkDependencies` and `RunBuildscript`. An output is
what it is and of which build, so that one left from an earlier build is told apart.

rustc is external: it writes its output in any order with its diagnostics, may end with any
status, and may end well after an error that a lint raised. It prints lines of eight kinds, of
which the reader raises on two (`Unreadable`); the linker of a deferred link may fail
(`unlinked`).

### PythonTestMain

`Load` is the loader; `NextTest`, `Fixture`, `Begin`, `Call`, `EndTest` are unittest's loop, with
its calls on `BuckTestResult` in their order; `ThreadPrints` and `Interrupt` come at any
time; `Report` is the end of `run`. `res` is the result object. `gone` has the tests a suite
has set to `None`, which is what `_find_next_test` looks at. unittest and coverage are
external: their order of calls is the one of CPython's `suite.py` and `case.py`. Left out:
unittest's cleanup functions, a subTest that fails in a method that then skips, and that after
an interrupt unittest forgets the rest of the module's suite and not only of the class's: no
property looks at what a suite has forgotten once the loop has been stopped.

### ResourceBroker

`request` is a broker's command line, `pc` the place in its main. `sims` is the device set:
the states of the simulators, which all brokers and the boot commands change; `listed` is
what a broker was told of it and goes by, `booting` the boot command that is at work for it
whether it waits or not. `companion`, `said` and `told` are its companions, what each wrote
and which were sent SIGTERM; `child`, `next` and `signals` the forked child. `end` is history.
`Start`, `List`, `ListRuntimes`, `Create`, `Select` and `BootTimeout` prepare a simulator,
`CommandFails` is every other way a command raises, its timeout included; `Spawn`, `EndSpawn`,
`Collect` and `WaitTimeout` are the companions; `Fork`, `Report`, `Guard`, `Clean`, `CleanRaises`
and `CleanEnds` the rest. External are the boot command, the companions, and the consumer,
who sends a signal to the pid it was told.

Assumed: nobody else changes a simulator, and a companion lives on when the event loop
that spawned it is closed. A companion may die at any moment, so one that is killed with its
loop is in the model as well. A dead companion may or may not have been waited for, so that
`os.kill` raises or not. Left out: names of devices, log files, a broker that is killed.

Fairness. Brokers and children are scheduled, and the timers of a broker fire; nothing is
assumed of commands, companions and the consumer.

## 4. Runs

| Run | Shows | Bounds |
|---|---|---|
| `test_exec` | reports are whole, orphans are explained, epmd stops with the tree, a good run is broken only for a reason, ends are noticed without the timeout of the run, the refinement of `SuiteReport` with its liveness | 2 attempts to start epmd (the code has 3: two are a failed one and the one after it); every process is there, mailboxes are bounded by the protocol: nothing else is cut |
| `cth_tpx` | the hook is where Common Test is; reports are faithful or a result was displaced; what is collected is in order | siblings, a nested group and a test outside all groups, in three specifications with every outcome of each method |
| `daemon_core` | configuration as fresh (a debug session that mixes suites excepted), setup is up, nothing left behind, shortest setup, every call is answered | two suites, nested and sibling groups, calls of 1 and 2 tests in any number; 2 parts exceed their timetrap, one early and one while the first still runs; a debug session or none, and in it one call on top of another suite, with everything that may follow |
| `shell` | one node, one suite in it (a debug session excepted), ids keep their test, commands return but for known waits | two suites, 2 nodes alive at once (an old one and its successor), 2 versions of the code of which the second lacks the first test, two ids (one of which the second version does not have) and an expression |
| `io_buffer` | each output in its own result, the tail in the buffer, no line lost, or printed and reported | 3 lines of each of 2 writers and a capacity of 2: every buffer overflows; 2 parts: a result and the one after it |
| `apple_bundle` | the state file is current; a bundle built on top of another is the one built from nothing; seals hold | 50 inputs in any order, any number of builds: each kind of change between two builds (a file, an ignored file, a digest, a symlink, two for one path, a directory, a version, a framework, what is signed on copy, the identity, the profile, the configuration), each with three ways to sign; every step fails or dies |
| `profiles` | what is selected is the best, what is refused has a reason, entitlements are kept | 29 requests, seven of them with an input that cannot be read, each with up to two of 15 profiles that differ in one respect, and with chosen threes; the clock goes on once, which is enough to expire any profile before or after it is compared |
| `merge_sequence` | libraries without a cycle, valid, with as few layers as possible | every acyclic graph of 4 targets with every map to two modules and none at all, 4 merge sequences, excluded and blocked targets; chains of 5 and 6 that leave a split group twice, which layers need |
| `thin_lto` | units linked once, inputs declared, flags reach opt | links of up to 3 linkables, thin and unknown ones among them, and 4 units on both platforms, all sensible imports and merges; every sequence of up to 3 of 15 flags, which has every form between two others, and chosen fours, which `-Xlinker` needs |
| `rust` | consumers get code, diagnostics and inputs arrive | 2 builds of 3 lines with every order of lines, writes and ends; dependencies, linker arguments, values and cfgs one kind at a time |
| `python_tests` | each test asked for is told about, exit code and results agree | 2 modules of 1 and 2 classes; every way a test can go, every pair of fixtures' outcomes in a module and over a boundary, every pair of arguments, coverage, an interrupt at any time |
| `resource_broker` | reports are good, nobody is forgotten but for a reason, brokers and children come to an end | 2 brokers of each two kinds that meet (both booted, booted and unbooted, macOS, refused ones); 3 macOS companions: one before and one after any that is dead; at most 2 simulators from four device sets, one of which has a simulator that is booting; 2 signals, so that one comes into the handler |

Types are not checked in the runs: what matters of them is proved (`TypeCorrect`,
`BufferTyped`), and the modules name the ranges of their variables at VARIABLES.

No run assumes more than its specification; only `TestExec`, `DaemonCore`, `DaemonShell`
and `ResourceBroker` state fairness. The other programs are run to their end by their own loops, and nothing of
theirs has to happen eventually but for that.

Deadlock is not checked: each of these systems may stop. A program ends, a suite ends, a
server is lost, and a shell may be left alone for ever. That none of them waits for ever
in between is what the liveness properties say.

### Where the code does not do what it says

Found while modelling. The models do what the code does; where a property would otherwise
be violated, it names the exception, so that it says what holds besides.

`CthTpx` and the result tree:
- a test outside all groups after a group that did not initialise is registered in that
  group and reported failed though it passed (`cth_tpx.erl:349` against
  `cth_tpx_test_tree.erl:330`);
- a group opened twice has the failed end of its first opening overwritten, and tests are
  reported passed that the end had failed (`cth_tpx_test_tree.erl:134` against `:216`);
- a user's skip of a suite or an outer group is reported as failures of the grouped
  tests in it (`cth_tpx.erl:434` says that user skips "are reported as skips").

`TestExec`:
- an epmd whose port was closed is not killed (`test_exec.erl:31`), neither when the attempt is
  given up nor when `epmd_manager` ends: it outlives the tree.

`DaemonCore`, `DaemonShell`, `IoBuffer`:
- an exception outside a part throws away the bookkeeping of ends that have run, and the
  next test runs without its setup (`ct_daemon_runner.erl:83` against `test.erl:162`);
- a part that exceeded its timetrap runs on beside the tests after it;
- `reset()` passes a map where a command line is expected; the node is stopped and none is
  started (`test.erl:216`);
- in a debug session `reset()` only prints (`test.erl:211`), the shell goes on all the same
  (`test.erl:408`), and a second suite runs in the node of the first with its configuration
  (`ct_daemon_core.erl:161`): `ConfigAsFresh` and `OneSuiteInNode` name the exception;
- a misspelt key makes an unknown id an endless loop (`ct_daemon_runner.erl:160` against
  `:35`), and after a node that failed to start, `rerun` loops on `node_down`;
- a new node lists the tests again without printing them, so an id can mean another
  test than the one last printed;
- a listing of more than ten suites raises in the daemon (`ct_daemon_core.erl:87`; left
  out of the model);
- a request of several, or characters that are no text, end the output server, and the
  node with it (`HandleBad`).

`AppleBundle` (the exceptions are `Misplaced` and `Unlisted`):
- a file that comes in the place of a symlink is written through it, one in the place of
  a directory is written into it and lost with it; a new symlink in an incremental build
  raises when it is unlinked first; two symlinks for one path are no conflict in an incremental
  build and raise in one from nothing (`assemble_bundle.py:112`);
- `.DS_Store` files are copied by a build from nothing and passed over by an incremental one
  (`incremental_utils.py:188`), so that one that is new, changed or gone stays as it was, and one
  that is alone in its directory goes with it;
- a file directly below `Versions/A` that is gone leaves its link dangling; symlinks to
  directories are not listed and so never updated;
- a profile or entitlements that are no longer asked for stay embedded;
- the state file is voided for builds that are not incremental
  (`apple_bundle_part.bzl:207`), so the next incremental one starts from nothing;
- the options about Swift are looked at only after the bundle was changed (`main.py:532`);
- the fast ad hoc mode skips what has an ad hoc signature already, of which the seal may
  be older than the files: `SealsHold` and the signatures of `BundleIsFresh` leave it out;
- paths signed on copy that lie inside one another are signed in an order of chance
  (`codesign_bundle.py:593`), and the seal of the outer one breaks when it comes first:
  `Alone` leaves the outer ones out of `SealsHold`.

`ProvisioningProfiles`:
- a filter that leaves none of several best profiles, with no mismatch to report, ends in
  an error about itself (`codesign_bundle.py:140`);
- a wildcard after the whole name is as long a match as the exact name;
- signing again keeps an `ApplicationIdentifier` of an earlier profile.

`ResourceBroker`:
- a runtime without an iPhone is meant to be passed over (`ios.py:75`), but a filter object
  is never false: if the newest runtime has none, `next` raises (`ios.py:77`);
- a broker for an "iOS unbooted simulator" (`main.py:47`) takes the first simulator,
  which may be booted (`ios.py:163`), and may be the one another broker takes, with the same
  socket;
- a listing with a simulator that is booting or shutting down fails the broker;
- companions that answered are left behind when others did not in time, and all of
  them when one answered wrongly or died (`utils.py:82`);
- one companion that died keeps the others from being ended (`main.py:71`, `macos.py:40`);
- a child that is signalled before its handlers are set ends without ending any;
- when the report cannot be printed after the fork (`main.py:131`) the child and the companions
  stay, and nobody knows of them.

`MergeSequence`:
- a second layer of `x` and a specification named `x_1` get the same name, though
  `merge_sequence.py:91` speaks of unique names;
- with `--merge-non-asset-libs` libraries can depend on one another in a circle, which
  line 68 excludes; `MergesWithoutCycle` is about the default.

`ThinLto` (`Overwritten`, `Shadowed`):
- the loop over imports reuses the variable of the loop around it, so an object's plan
  has the merge state of its last import (`dist_lto_planner_darwin.py:279`);
- a duplicate member gets a name that another member may have, and overwrites it
  (`dist_lto_prepare.py:131`);
- an empty output of the compiler is noticed for GNU and not for Darwin;
- native archive members are read from a directory the final link does not list for them
  (`darwin_dist_lto.bzl:603`, `dist_lto.bzl:587`; `Native` in `InputsDeclared`);
- members of thin archives are looked at by path and declared by no action
  (`dist_lto_prepare.py:138`); when one is bitcode, the path of each member of its archive is
  to be made relative to a directory it is not in, which fails (`darwin_dist_lto.bzl:509`);
- options of LLVM that the linker would get are lost without an error in three spellings:
  those `IGNORE_OPT_FLAGS` names (`dist_lto_opt_gnu.py:32`), those whose `-mllvm` is in a
  `-Wl,` flag of its own, and a `-plugin-opt` behind `-Xlinker`; `FlagsReachOpt` excepts them;
- two cases of `test_dist_lto_opt.py` (lines 49 and 153) expect that `-fuse-ld=lld` and
  other `-f` flags are dropped, while `dist_lto_opt_gnu.py:112` passes every such flag on;
- malformed flags return a status where flags are expected, which then raises.

`RustBuild`:
- with an incremental build that forgives errors, an output of the build before is taken
  for one of this build (`rustc_action.py:352`);
- a line stops the action with an exception, whatever rustc ends as, when it is longer than
  the limit of the pipe (`rustc_action.py:167`, `321`), no UTF-8 (line 174 catches only what
  is no JSON), JSON but no object (line 181), or an object whose rendered text is none
  (line 224); `DiagnosticsArrive` says that the action then fails;
- a value with a backslash before a newline is changed on its way through the environment;
- `-L` and `-o` joined with their value make the next argument vanish
  (`extract_link_action.py`), and `cargo::rustc-cfg=` is not heard (`buildscript_run.py`).

`PythonTestMain` (`Hidden`):
- a test that fails and then skips in its tearDown is reported skipped, with exit code 70;
- a failed `setUpClass` gives one test of the class a result and the others none; a failed
  `tearDownClass` is blamed on the next test, which then has two results;
- a skip inside a subTest fails the test by an assertion about the result object itself;
- an interrupt ends with exit code 0 and without the results of what did not run;
- with coverage and nothing covered the second report raises, and there is no results file;
- `--failfast` and `--hide-output` do not do what they are named for.

## 5. Proofs

The theorems hold for every value of the constants that satisfies the named
assumptions; the runs above checked each of them first on a small instance.

- `TestExecProofs` (assumes `MaxAttempts \in Nat`).
  `TypeCorrect` needs, besides `TypeOK`, that `epmd_manager` listens only with attempts
  left. The other theorems rest on `NodeInv`: the type invariant, `StartOnce` (the child
  `ct_runner` is asked for and started at most once, so there is one node and one port),
  `NodeKnown` (a node that is alive has an open port in a live `ct_runner`, or `lost`
  says why not) and `Settled` (what the phases of the runner, the supervisor and the
  children imply of each other while the tree goes down). None of these is inductive
  without the others: that a node is known depends on its being started once, and that on
  the supervisor not starting children while it shuts down. From `NodeInv` follow
  `NoUnexplainedOrphan` and, with `Reported` (the status chosen by the runner against what
  the node did), `GenuineResults` and `KeepsPromise`, the safety part of the refinement;
  with `EpmdKnown` (a daemon that is alive has an open port in a live `epmd_manager`, which
  will kill it, or `lost` says why not), `NoEpmdLeft`.
  `BrokenForAReason`: by `CauseInv`. The property is about one step, the last of the run,
  and the reasons it allows lie many steps before, so the invariant carries them there: it
  says what every message that waits in a mailbox stands for (`Meant`) and why
  `epmd_manager`, the tree, `ct_runner` and the run came to their end (`Ending`), on top of
  `NodeInv`. What decides is that the good exit of the node, when it comes first, is the
  only message in the runner's mailbox.
- `CthTpxProofs` (assumes the shape of test specifications and that no case has the name
  that stands for none). `StackFollowsSuite`: by
  `GroupInv`, which adds to the property where Common Test can be (`Walk`). Every callback
  leaves the stack at the position of Common Test, or one deeper with the flag set.
  `ReportsAreFaithful` is proved in three parts, which meet in the flat `table`. The tree has
  at every path, case and phase what the table has (`Same`): an insertion changes the one
  result it is for and no other on any path (`InsertedResult`), by going along the two paths
  to where they part, from the root for a lookup, from the end for what comes back. A report
  is a failure exactly if an init or an end on the way is, or the result of the test is or is
  missing (`ReportIs`). And the table agrees with what became of each test: `ReportInv`. That
  a test which did not fail has no failure around it is not inductive, for a group that
  is opened again may have the failed end of its first time until it is closed; so the
  invariant says what is known of the groups that are open (`OpenKnown`), of the one that
  failed (`SkipKnown`), of results that belong together (`CaseKnown`, `GroupKnown`), and
  of each test why it is failed, or else which of the ends around it may still be missing or
  old (`Told`). A registration leaves every other result as it was, or has its key
  displaced (`Moved`), which is why each handler has to be argued only for what it
  registers. Recursive functions over paths are unfolded after showing that they exist, and
  inductions go over positions of one sequence (`Upwards`), which the library's theorem on
  least elements gives without an operator parameter.
  `ReportsAreInOrder` needs of that invariant only that the tree has what the table has. The
  rest is about lists: adding each result in front while going down keeps those that are there,
  the other way round (`GatheredIs`), turning a list round twice gives it back, and the first
  that failed of a list turned round is the last that failed (`BlameIsLast`).
- `DaemonProofs`, on the setup (assumes that a call has tests of one suite, which
  `collect_results` sees to). `ConfigIsFresh`: `SetupInv` says of the stack
  itself, and of the saved one, that it has a configuration for each level, and that a test
  that runs has its whole path set up; `FreshInv`, that each configuration is what a fresh
  setup gives at that height, and that a setup under way is one of the wanted suite. The second
  holds until a call goes on from another suite, which only a debug session lets it do
  (`SessionInv`). The property speaks of one moment; the invariant has
  to hold through teardowns, failed inits, exceptions and calls. `TestHasItsSetup` and
  `NothingIsLeft`: by `TrackInv` on top of `SetupInv`, which compares the stack with what is really
  up: each level of the path is up, or its end was given up, or an exception put back a
  stack that was already taken down; and only parts that overran are still running. The
  property looks only at a test that runs; what makes it true is that the stack is popped
  before an end is called and pushed after an init returned. `SetupIsShortest` is an action
  property of the same invariants: what a step ends is no prefix of what is wanted.
- `DaemonProofs`, on the shell (assumes that listings name tests of the suites there are, and that no
  suite has one of the two atoms that stand for no setup: a suite is named `..._SUITE`,
  `erlang_tests.bzl:88`). `OneNode`: by `LifeInv`, which only types the node table besides;
  `IdIsListed`: by `ListInv`, which says that outside a command nothing is left to
  do and that what was seen last is what is listed; `OneSuitePerNode`: by
  `SuiteInv`, which says that outside a debug session the node's setup tells which suites have
  touched it.
- `IoBufferProofs` (assumes that the capacity and the bounds are positive and that the hook
  is no writer). `BufferTyped` and `BufferKeepsTail`: by `BufferInv`, the types of every
  variable, the messages included, with the property stated element by element (`Kept`),
  which is inductive where an equation with `SubSeq` is awkward: a line put into a full
  buffer shifts each index by one, and the equation follows at the end. The others need
  where the hook is in its calls: `LineInv` says that each process waits for one answer
  (`OneEach`), that the calls of the hook are in one of six phases (`Phase`), that lines
  are numbered, so that no two are alike (`Numbered`), and that a line in the mailbox
  is nowhere else (`Fresh`). `NoLineVanishes` follows for each step; `PrintedOrReported`
  adds how often a line was printed (`PrintInv`); `OutputIsOwn` adds where the lines of
  the part itself are, which the phases keep from being handled before a start or after
  the report (`OwnInv`).
- `AppleProofs`, on the bundle (assumes that paths are sequences). `FileIsCurrent`: the property is
  inductive as it stands. Every build that changes the tree has removed the file first
  (`Start`), the steps in between leave it alone (`ChangesKeepTheFile`), and only the last
  one writes it, with the tree as it is then. The order of these is the proof: reading the
  file without removing it (`Bug_KeepState`) breaks the case of `Start`.
  `SealsAreWhole`: by `SealInv`. While nested code is being signed, what is in the hands of
  a process is not sealed yet and everything signed before is sealed with what is
  inside it; once the nested code is signed all of it is, and the root at the end. A seal
  covers what lies below its path, so signing a path leaves alone every seal but those of
  the paths above it (`SignedElsewhere`, on prefixes of paths): the theorem is that no path
  is signed after one above it, for bundles of any depth and any number of processes.
- `AppleProofs`, on the choice of a profile (assumes that what is listed are sequences, that a
  profile has a certificate, that an app without an entitlements file declares none, and that a
  profile may add the app ID, which `prepare_code_signing_entitlements.py:38` relies on).
  `ChoiceIsJust`: by `SelectionInv`, which says of each phase what is known. While profiles are
  compared, those that matched are in the list, each at its place among those compared, and
  nobody is missing who suits by now (`Compared`); the others are counted with their reasons.
  The clock goes on in between, and each profile was compared at
  a time of its own; what saves the result is that time only takes profiles away: whoever still
  suits at the end did when it was compared (`FewerSuit`), so no rival is missing, and it
  is the match lengths in the list that decide. Uniqueness under the strict search follows from the
  positions that a filtered list keeps (`OnlySeveral`). After the choice the
  entitlements and the Info.plist are proved key by key.
- `SubsequenceLemmas` has what the proofs about lists rest on. `Upwards` is induction over the
  positions of a sequence, from the library's theorem on least elements, as a property of a
  set. `Only(s, S)` is `SelectSeq` with a set in place of an operator, written as a function of
  positions: `OnlyPositions` says that it keeps the elements in the set, each at one
  position, in their order; that it is empty, or has several elements, exactly if the
  sequence has none, or several, follows.
- `ToolProofs` (assumes of Rust that a deferred link does not forgive errors, as the rules have
  it). `CodeIsHandedOn`: by `IInv`, which adds what each phase leaves to the next: the exit
  statuses there are, `EndedWell` (a good end of rustc means that its output is there and of
  this build), `OwnOutput` (a build that forgives has no older output while rustc runs) and
  `AfterAction` (what the status file and the output say of one another). The property
  itself speaks only of the end; that the status was taken before the placeholder is written
  is what makes it true. `DiagnosticsAreKept`: by `ReadInv`. What was printed is what was
  read and what is still in the pipe (`Piped`); the diagnostics of what was read are those
  written, each at its place, in the same order, none twice (`Followed`: there is
  a strictly increasing function of places); and the action ends only with the pipe empty and rustc
  waited for, or at a line that the reader raises on, which no step passes (`Passed`), failing if
  and only if it should (`Over`). It holds for output of any length.
  `LinkReadsWhatItDeclares`, for links whose linkables, archives and imports are lists and whose
  imports come from bitcode: by `LinkInv`, which says of the plan, from the moment it is there, that
  what the thin link wrote for each object is covered by what the plan makes the action
  declare (`ThinDeclared`), and each line of the final index by what the final link declares
  (`LinesDeclared`), both but for members of thin archives, the latter but for native members,
  too. The step that establishes them is `Plan`: a line of an `.imports` file stands
  for a file that `read_imports` finds again, merged or not (`ImportsAreRead`), and the kind of
  every path is the one its linkable calls for (`AllFilesAre`), so that the split by archive
  index is the split by kind. What `FlattenSeq` joins is proved in `FlattenIs`, and that the
  lists stay lists in `Mapped`, `Appended` and `JoinIsSequence`.
  `ExitCodeTells`, for programs whose modules have distinct names and whose files have finitely many
  lines: by `MainInv`. Between the results and the flag behind the exit code stands a test that
  runs, so the invariant is about the calls that unittest has still to make (`InTest`): only a
  failure follows a failure, unless the test is `Hidden`; a subtest fails before anything
  else, while the status still is what `startTest` made it; and a status that fails at the end
  is in the flag. `ResultsTell` is that every failed result is in the flag, `FailedIsTold` that the
  flag was raised by a failed result, a hidden test, or the test that runs, which will fail.
  `CallsAre` has the calls there can be. That a test which runs was asked for comes from the loader
  (`SuitesAre`): by way of a module, a class, a test or a package, whichever the name stands for
  (`OwnIs`, `InsideIs`), the name is a prefix of that of each test it loads (`PrefixesOf`).
  `CoverageTells` has the coverage of a file, line by line.
- `ResourceBrokerProofs` (assumes that there is a macOS companion at all and that simulators
  have states). `OnlyForAReason`:
  by `BInv`, which says of each broker by itself, since one broker's step leaves the others'
  companions alone (`Undisturbed`), that it has no companion before it spawns (`Stage`),
  that a child that cleans up has told everyone it is past (`Cleaned`), and that the excuse it
  had when it ended stands (`Excused`). The property is not inductive: a companion that said
  nothing when a sibling failed may say something later, so the excuse has to name the one
  that erred or died. `ReportsAreGood`: by `SInv`. Here brokers do share something, the
  simulators, and it matters that no step of any broker unboots one (`Grows`): then what a
  broker read in its listing stays true although others act in between (`Listed`), the
  simulator it waits for is the one it chose (`Boots`), and it is up from then on (`IsUp`).

Only model-checked: liveness (`EndIsNoticed`, the liveness half of `ImplementsReport`,
`CallReturns`, `CommandReturns`, `Answers`), which is out of the prover's reach; all of
`MergeSequence`, and `LinkedOnce` and `FlagsReachOpt` of `ThinLto`, which
compute by recursive functions and folds over their inputs, so that a proof would be an
induction over data; `EveryTestIsTold`, which counts the results of each test, and needs of the
loader how often a test is in its suites, not only which ones are; `BundleIsFresh`, which compares an incremental build with one from nothing, both
of them folds over the parts; and `InputsArrive`, which compares what folds compute with a
sequence filtered by `SelectSeq`, recursive in the standard module.

## 6. Not modelled

Build rules and declarations construct a graph once and keep nothing; where a rule decides
what a modelled program is given (the inputs of a ThinLTO action, the environment of
rustc, the state file of a bundle), the model has that decision. Report writers, parsers and
printers translate formats. Wrappers of compilers run one process. Vendored code is
left to those who wrote it. The modules still planned are in section 2; the
one hazard without a property, groups that run their tests in parallel over one stack of
`cth_tpx`, is in `PROJECT.json` with the reason.

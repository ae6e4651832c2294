------------------------------ MODULE RustBuild ------------------------------
(***************************************************************************)
(* A Rust crate that is built again and again: the build script that runs  *)
(* first, the action around rustc that reads its diagnostics while it      *)
(* runs, the failure filter that hands on what rustc made, and a link that *)
(* is taken from rustc and done by a later action. rustc, the script, the  *)
(* linker and the build system are external.                               *)
(***************************************************************************)
EXTENDS Integers, Sequences, FiniteSets, Functions, SequencesExt

CONSTANTS Inputs  \* crates, see InputAssumption

\* infallible: with --failure-filter; deferred: the link is; crates: names and
\* hashes of dependencies with names known late; linker: rustc's arguments for
\* the linker, pairs of a form and a value; env: a value, as characters; script,
\* cfgs, manifest: the build script's lines, rustc's cfgs and a directory;
\* builds and lines: bounds on the builds and on the lines of each.
ASSUME InputAssumption == \A i \in Inputs :
  /\ {i.incremental, i.infallible, i.deferred} \subseteq BOOLEAN /\ {i.builds, i.lines} \subseteq Nat
  /\ ~(i.infallible /\ i.deferred)
  /\ \A k, l \in DOMAIN i.linker : i.linker[k][1] = "script" /\ i.linker[l][1] = "script" => k = l
  /\ \A k \in DOMAIN i.linker : i.linker[k][1] \in {"-L", "-o"} =>
       k < Len(i.linker) /\ i.linker[k + 1][1] = "path"

VARIABLES
  input,
  build,    \* the number of the build
  pc,
  dirs,     \* deps_dirs
  flags,    \* rustc_flags, the cfgs that the build script asked for
  rustc,    \* <<>> while it runs, or its exit status
  printed,  \* every line of rustc in this build
  pipe,     \* those not yet read
  json,     \* the diagnostics written
  got,      \* got_error_diag
  output,   \* the required output: <<>>, or what it is and of which build
  status,   \* build_status, or <<>>
  handed,   \* what consumers get: as output
  code,     \* the exit status of the failure filter, or of the action
  command   \* the command of the deferred link

vars == <<input, build, pc, dirs, flags, rustc, printed, pipe, json, got, output, status, handed, code, command>>
process == <<rustc, printed, pipe, json, got>>

\* Lines that the reader raises on, as a macro may print them: unreadable is
\* JSON but no object, no UTF-8, or longer than the limit of the pipe;
\* unrendered is an object whose rendered text is none.
Unreadable == {"unreadable", "unrendered"}
Lines == Unreadable \cup {"text", "warning", "unused", "unused none", "unused denied", "error"}

Init ==
  /\ input \in Inputs /\ build = 0 /\ pc = "deps" /\ dirs = <<>> /\ flags = <<>>
  /\ rustc = <<0>> /\ printed = <<>> /\ pipe = <<>> /\ json = <<>> /\ got = FALSE
  /\ output = <<>> /\ status = <<>> /\ handed = <<>> /\ code = 0 /\ command = <<>>

-----------------------------------------------------------------------------
(* Before the compilation *)

\* Directories of -Ldependency, functions from file names to artifacts.
Bug_DepsDirs(crates) ==
  <<FoldLeft(LAMBDA dir, c : (<<c.name, c.hash>> :> c.artifact) @@ dir, <<>>, crates)>>
DepsDirs(crates) ==
  FoldLeft(LAMBDA ds, c : LET file == <<c.name, c.hash>>
                          IN  IF file \in DOMAIN Last(ds) THEN Append(ds, file :> c.artifact)
                              ELSE Append(Front(ds), (file :> c.artifact) @@ Last(ds)),
           <<<<>>>>, crates)

LinkDependencies ==
  /\ pc = "deps" /\ pc' = "script" /\ dirs' = DepsDirs(input.crates)
  /\ UNCHANGED <<input, build, flags, process, output, status, handed, code, command>>

\* cfg_env: the cfgs of the target for the build script, the values of a key
\* joined in order; a cfg is a key and a value, which is "" for a key alone.
OfTarget(c) == c[1] \in {"unix", "windows", "target_feature"}
Bug_CfgEnv(cfgs) == FoldLeft(LAMBDA env, c : (c[1] :> <<c[2]>>) @@ env, <<>>, SelectSeq(cfgs, OfTarget))
CfgEnv(cfgs) ==
  LET Value(c) == IF c[2] = "" THEN "1" ELSE c[2]
  IN  FoldLeft(LAMBDA env, c : (c[1] :> IF c[1] \in DOMAIN env THEN Append(env[c[1]], Value(c))
                                        ELSE <<Value(c)>>) @@ env,
               <<>>, SelectSeq(cfgs, OfTarget))

\* create_cwd: no toolchain file may choose another rustc for the script.
CreateCwd(manifest) == manifest \ {"rust-toolchain", "rust-toolchain.toml"}

\* What the script prints: each of its lines when its condition holds, a value
\* of a key in the environment, or the rustc that it finds.
Prints(line, env, cwd) ==
  CASE line.key = "always" -> TRUE
    [] line.key = "rustc" -> (line.value = "own") <=> ("rust-toolchain.toml" \notin cwd)
    [] OTHER -> line.key \in DOMAIN env /\ line.value \in Range(env[line.key])
ScriptFlags(env, cwd) ==
  LET out == SelectSeq(input.script, LAMBDA l : Prints(l, env, cwd))
  IN  SelectSeq(out, LAMBDA l : l.form = "cargo:rustc-cfg")

\* rustc is tried first, for the target too, as a script rarely tells that it
\* has none; the script may fail, too.
RunBuildscript ==
  /\ pc = "script"
  /\ \E host, target, ends \in BOOLEAN :
       IF host /\ target /\ ends
       THEN pc' = "start" /\ flags' = ScriptFlags(CfgEnv(input.cfgs), CreateCwd(input.manifest))
       ELSE pc' = "stopped" /\ flags' = <<>>
  /\ UNCHANGED <<input, build, dirs, process, output, status, handed, code, command>>

\* Python's replace, of a two-character string, and of one character.
Replaced(s, ab, by) ==
  LET r[k \in 0..Len(s)] ==
        IF k = 0 THEN <<>>
        ELSE IF k > 1 /\ <<s[k - 1], s[k]>> = ab THEN r[k - 2] \o by ELSE Append(r[k - 1], s[k])
  IN  r[Len(s)]
Newlines(s, by) == FlattenSeq([k \in DOMAIN s |-> IF s[k] = "NL" THEN by ELSE <<s[k]>>])

\* process_env of the rules and what the action makes of it.
Escape(s) == Newlines(Replaced(s, <<"\\", "n">>, <<"\\", "NL">>), <<"\\", "n">>)
Bug_Unescape(s) == Replaced(s, <<"\\", "n">>, <<"NL">>)
Unescape(s) == Replaced(Replaced(s, <<"\\", "n">>, <<"NL">>), <<"\\", "NL">>, <<"\\", "n">>)

\* An incremental build keeps the outputs of the one before.
StartRustc ==
  /\ pc = "start" /\ build < input.builds /\ pc' = "compile" /\ build' = build + 1
  /\ output' = IF input.incremental THEN output ELSE <<>>
  /\ rustc' = <<>> /\ printed' = <<>> /\ pipe' = <<>> /\ json' = <<>> /\ got' = FALSE
  /\ status' = <<>> /\ handed' = <<>> /\ command' = <<>> /\ code' = 0
  /\ UNCHANGED <<input, dirs, flags>>

-----------------------------------------------------------------------------
(* rustc *)

Errors == {"error", "unused denied"}
Printed(l) == l \in Range(printed)

RustcPrints(l) ==
  /\ rustc = <<>> /\ Len(printed) < input.lines
  /\ printed' = Append(printed, l) /\ pipe' = Append(pipe, l)
  /\ UNCHANGED <<input, build, pc, dirs, flags, rustc, json, got, output, status, handed, code, command>>

\* It writes no output once it has found an error; a deferred link is not its.
RustcWrites ==
  /\ rustc = <<>> /\ ~Printed("error") /\ ~input.deferred
  /\ output' = <<"code", build>>
  /\ UNCHANGED <<input, build, pc, dirs, flags, process, status, handed, code, command>>

\* process_link_args, over a linker's arguments.
Bug_ProcessLinkArgs(args) ==
  LET r[k \in 1..Len(args) + 2] ==
        IF k > Len(args) THEN [args |-> <<>>, script |-> <<>>, objects |-> {}]
        ELSE LET a == args[k]
             IN  CASE a[1] = "script" -> [r[k + 1] EXCEPT !.script = <<a[2]>>]
                   [] a[1] = "object" -> [r[k + 1] EXCEPT !.objects = @ \cup {a[2]}]
                   [] a[1] \in {"rlib", "-L", "-o"} -> r[k + 1]
                   [] OTHER -> [r[k + 1] EXCEPT !.args = <<a>> \o @]
  IN  r[1]
ProcessLinkArgs(args) ==
  LET r[k \in 1..Len(args) + 2] ==
        IF k > Len(args) THEN [args |-> <<>>, script |-> <<>>, objects |-> {}]
        ELSE LET a == args[k]
             IN  CASE a[1] = "script" -> [r[k + 1] EXCEPT !.script = <<a[2]>>]
                   [] a[1] = "object" -> [r[k + 1] EXCEPT !.objects = @ \cup {a[2]}]
                   [] a[1] = "rlib" -> r[k + 1]
                   [] a[1] \in {"-L", "-o"} -> r[k + 2]
                   [] OTHER -> [r[k + 1] EXCEPT !.args = <<a>> \o @]
  IN  r[1]

\* rustc calls what it takes for the linker, extract_link_action.py.
ExtractLink ==
  /\ rustc = <<>> /\ ~Printed("error") /\ input.deferred /\ command = <<>>
  /\ command' = <<ProcessLinkArgs(input.linker)>>
  /\ UNCHANGED <<input, build, pc, dirs, flags, process, output, status, handed, code>>

\* It ends well with its output, with an error, on a bug of its own or by a signal.
Made == IF input.deferred THEN command # <<>> ELSE output = <<"code", build>>
RustcExits ==
  /\ rustc = <<>>
  /\ rustc' \in {<<1>>, <<-9>>} \cup IF Made /\ ~Printed("error") THEN {<<0>>} ELSE {}
  /\ UNCHANGED <<input, build, pc, dirs, flags, printed, pipe, json, got, output, status, handed, code, command>>

-----------------------------------------------------------------------------
(* rustc_action.py *)

\* One round of the loop of handle_output.
Bug_IsError(l) == l = "error"
IsError(l) == l \in Errors
HandleLine ==
  /\ pc = "compile" /\ pipe # <<>> /\ pipe' = Tail(pipe)
  /\ LET l == Head(pipe)
     IN  /\ json' = IF l \in {"text", "unused none", "unreadable"} THEN json ELSE Append(json, l)
         /\ got' = (got \/ IsError(l))
         /\ IF l \in Unreadable THEN pc' = "failed" /\ code' = 1 ELSE UNCHANGED <<pc, code>>
  /\ UNCHANGED <<input, build, dirs, flags, rustc, printed, output, status, handed, command>>

\* The end of main, once the pipe is at its end and rustc was waited for.
Bug_Created == output # <<>> \/ got
Created == output # <<>>
Finish ==
  /\ pc = "compile" /\ pipe = <<>> /\ rustc # <<>>
  /\ LET res == IF rustc[1] = 0 /\ got THEN 1 ELSE rustc[1]
         forgiven == input.infallible /\ res > 0 /\ got
     IN  /\ status' = IF res >= 0 /\ input.infallible THEN <<res, Created>> ELSE <<>>
         /\ output' = IF forgiven /\ output = <<>> THEN <<"placeholder", build>> ELSE output
         /\ code' = IF forgiven THEN 0 ELSE res
         /\ pc' = IF res = 0 \/ forgiven THEN "made" ELSE "failed"
  /\ UNCHANGED <<input, build, dirs, flags, process, handed, command>>

-----------------------------------------------------------------------------
(* What follows the action *)

\* failure_filter_action.py: a hard link, or the status of the compilation.
FailureFilter ==
  /\ pc = "made" /\ input.infallible /\ pc' = "done"
  /\ IF status[2] THEN handed' = output /\ code' = 0 ELSE handed' = <<>> /\ code' = status[1]
  /\ UNCHANGED <<input, build, dirs, flags, process, output, status, command>>

\* deferred_link_action.py, with the objects as the directory lists them; the
\* linker may fail.
Command == LET c == command[1]
           IN  [script |-> c.script, objects |-> c.objects, args |-> c.args]
DeferredLink ==
  /\ pc = "made" /\ input.deferred
  /\ \/ pc' = "done" /\ output' = <<"code", build>> /\ handed' = output' /\ UNCHANGED code
     \/ pc' = "unlinked" /\ code' = 1 /\ UNCHANGED <<output, handed>>
  /\ UNCHANGED <<input, build, dirs, flags, process, status, command>>

HandOn ==
  /\ pc = "made" /\ ~input.infallible /\ ~input.deferred /\ pc' = "done" /\ handed' = output
  /\ UNCHANGED <<input, build, dirs, flags, process, output, status, code, command>>

Edit ==
  /\ pc \in {"done", "unlinked", "failed"} /\ rustc # <<>> /\ pc' = "start"
  /\ UNCHANGED <<input, build, dirs, flags, process, output, status, handed, code, command>>

Next ==
  \/ LinkDependencies \/ RunBuildscript \/ StartRustc
  \/ \E l \in Lines : RustcPrints(l)
  \/ RustcWrites \/ ExtractLink \/ RustcExits
  \/ HandleLine \/ Finish
  \/ FailureFilter \/ DeferredLink \/ HandOn \/ Edit

Spec == Init /\ [][Next]_vars

-----------------------------------------------------------------------------
(* Properties *)

\* What consumers are handed was made by rustc in this build, and when nothing
\* is handed on the build fails (failure_filter.bzl:10-13). An incremental build
\* that forgives errors is left out: there the output of the build before is
\* taken for one of this build (rustc_action.py:352).
ConsumersGetCode == pc = "done" /\ ~(input.incremental /\ input.infallible) =>
  IF handed = <<>> THEN code # 0 ELSE handed = <<"code", build>> /\ code = 0

\* The places in the output of rustc of the diagnostics in json: one each, in order.
IsDiagnostic(l) == l \notin {"text", "unused none"} \cup Unreadable
Places(place) ==
  /\ \A k \in DOMAIN json : json[k] = printed[place[k]]
  /\ \A k, m \in DOMAIN json : k < m => place[k] < place[m]
  /\ Range(place) = {n \in DOMAIN printed : IsDiagnostic(printed[n])}

\* Whoever asks for diagnostics gets every one that rustc printed, in order,
\* also of a crate that does not compile: then, too, the action succeeds
\* (rust_library.bzl:287-290). An error that rustc ended well with fails it,
\* and it fails for no other reason than an exit status or, always then, a line
\* that the reader raises on (rustc_action.py:167, 174, 321).
Raises == \E l \in Unreadable : Printed(l)
DiagnosticsArrive ==
  pc \in {"made", "done", "unlinked", "failed"} =>
    IF Raises THEN pc = "failed"
    ELSE /\ \E place \in [DOMAIN json -> DOMAIN printed] : Places(place)
         /\ LET errors == Range(printed) \cap Errors # {}
                bad == errors \/ rustc # <<0>>
                shown == errors /\ rustc[1] >= 0
            IN  (pc = "failed") <=> IF input.infallible THEN bad /\ ~shown ELSE bad

\* The later link has every object, the version script and the other arguments
\* in order, without the metadata, search paths and output of rustc's own run.
LinkIsKept == pc = "done" /\ input.deferred =>
  LET args == input.linker
      Of(form) == {args[k][2] : k \in {x \in DOMAIN args : args[x][1] = form}}
  IN  /\ Command.objects = Of("object") /\ Range(Command.script) = Of("script")
      /\ Command.args = SelectSeq(args, LAMBDA a : a[1] = "flag")

\* Every crate is found under its name in one of the directories.
DepsAreFound == pc # "deps" => \A k \in DOMAIN input.crates :
  LET c == input.crates[k] file == <<c.name, c.hash>>
  IN  Cardinality({d \in DOMAIN dirs : file \in DOMAIN dirs[d] /\ dirs[d][file] = c.artifact}) = 1

\* A value of the environment with no backslash before a newline is unchanged.
EnvIsKept == LET s == input.env IN
  (\A k \in 1..Len(s) - 1 : <<s[k], s[k + 1]>> # <<"\\", "NL">>) => Unescape(Escape(s)) = s

\* The crate is built with what the script asked for on this target with this
\* rustc, as rustc's own list of cfgs and the build's toolchain have it.
ScriptIsHeard == pc \notin {"deps", "script", "stopped"} =>
  LET Holds(l) == CASE l.key = "always" -> TRUE
                    [] l.key = "rustc" -> l.value = "own"
                    [] OTHER -> OfTarget(<<l.key>>) /\ \E k \in DOMAIN input.cfgs :
                         input.cfgs[k] = <<l.key, IF l.value = "1" THEN "" ELSE l.value>>
  IN  flags = SelectSeq(input.script, LAMBDA l : l.form = "cargo:rustc-cfg" /\ Holds(l))

\* What the rules give to rustc and rustc to its linker arrives, through the
\* files and actions in between: the link that is done later is the one that
\* rustc asked for (extract_link_action.py:63-102), dependencies with the same
\* name do not hide one another (transitive_dependency_symlinks.py:42-45), the
\* environment is that of the target (build.bzl:1495-1498), and so are the cfgs
\* that the build script asked for (buildscript_run.py:53-79).
InputsArrive == LinkIsKept /\ DepsAreFound /\ EnvIsKept /\ ScriptIsHeard
=============================================================================

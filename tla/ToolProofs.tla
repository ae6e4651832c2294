----------------------------- MODULE ToolProofs -----------------------------
(***************************************************************************)
(* The tools of three build rules. For every crate, every order of the     *)
(* lines, writes and exits of rustc, and any number of builds: what        *)
(* consumers of a crate are handed was made by rustc in this build, or the *)
(* build fails; and whoever asks for the diagnostics gets them all, in     *)
(* order. For every distributed link, whatever the thin link chooses: its  *)
(* actions read only what they declare. For every program of Python tests, *)
(* whatever fails, in whichever order its threads print: the exit code and *)
(* the results agree.                                                      *)
(***************************************************************************)
EXTENDS RustBuild, ThinLto, PythonTestMain, SubsequenceLemmas, SequenceTheorems, TLAPS

Code == <<"code", build>>
Past == {"compile", "made", "done"}

\* Only the exit statuses that rustc ends with, in each build anew.
Statuses == rustc \in {<<>>, <<0>>, <<1>>, <<-9>>} /\ build \in Nat

\* A build whose output may be left from an earlier one does not forgive.
Forgetful == ~(input.incremental /\ input.infallible)
Deferred == input.deferred => ~input.infallible

\* rustc ended well only with its output, in which case the code is there.
EndedWell == pc \in Past /\ rustc = <<0>> => Made

\* While rustc runs a build that forgives has no other output than its own.
OwnOutput == pc = "compile" /\ input.infallible /\ Forgetful => output \in {<<>>, Code}

\* What an action that succeeded leaves for the ones after it.
AfterAction == pc = "made" =>
  /\ code = 0
  /\ ~input.infallible => rustc = <<0>>
  /\ input.infallible /\ Forgetful =>
       IF status[2] THEN output = Code ELSE status[1] # 0

IInv == Statuses /\ Deferred /\ EndedWell /\ OwnOutput /\ AfterAction /\ ConsumersGetCode

LEMMA InitIsInvariant == Init => IInv
<1> SUFFICES ASSUME Init PROVE IInv
  OBVIOUS
<1>1. input \in Inputs /\ pc = "deps" /\ rustc = <<0>> /\ build = 0
  BY DEF Init
<1>2. Deferred
  BY <1>1, InputAssumption DEF Deferred
<1> QED
  BY <1>1, <1>2 DEF IInv, Statuses, EndedWell, Past, OwnOutput, AfterAction, ConsumersGetCode

\* The steps of rustc itself, which say nothing of what follows.
LEMMA RustcKeeps == ASSUME IInv, (\E l \in Lines : RustcPrints(l)) \/ RustcWrites \/ ExtractLink \/ RustcExits
                    PROVE IInv'
<1>1. CASE \E l \in Lines : RustcPrints(l)
  <2>1. /\ rustc = <<>> /\ rustc' = rustc
        /\ UNCHANGED <<input, build, pc, output, status, handed, code, command>>
    BY <1>1 DEF RustcPrints
  <2> QED
    BY <2>1 DEF IInv, Statuses, Deferred, Forgetful, EndedWell, Made, OwnOutput, AfterAction, ConsumersGetCode, Code
<1>2. CASE RustcWrites
  <2>1. /\ rustc = <<>> /\ rustc' = rustc /\ output' = Code
        /\ UNCHANGED <<input, build, pc, status, handed, code, command>>
    BY <1>2 DEF RustcWrites, process, Code
  <2>2. pc = "made" => input.infallible
    BY <2>1 DEF IInv, AfterAction
  <2>3. AfterAction'
    BY <2>1, <2>2 DEF IInv, AfterAction, Forgetful, Code
  <2> QED
    BY <2>1, <2>3 DEF IInv, Statuses, Deferred, Forgetful, EndedWell, OwnOutput, ConsumersGetCode, Code
<1>3. CASE ExtractLink
  <2>1. /\ rustc = <<>> /\ rustc' = rustc
        /\ UNCHANGED <<input, build, pc, output, status, handed, code>>
    BY <1>3 DEF ExtractLink, process
  <2> QED
    BY <2>1 DEF IInv, Statuses, Deferred, Forgetful, EndedWell, OwnOutput, AfterAction, ConsumersGetCode, Code
<1>4. CASE RustcExits
  <2>1. /\ rustc = <<>> /\ rustc' \in {<<0>>, <<1>>, <<-9>>} /\ (rustc' = <<0>> => Made)
        /\ UNCHANGED <<input, build, pc, output, status, handed, code, command>>
    BY <1>4 DEF RustcExits
  <2>2. Made' <=> Made
    BY <2>1 DEF Made
  <2>3. pc = "made" => input.infallible
    BY <2>1 DEF IInv, AfterAction
  <2> QED
    BY <2>1, <2>2, <2>3 DEF IInv, Statuses, Deferred, Forgetful, EndedWell, OwnOutput, AfterAction, ConsumersGetCode, Code
<1> QED
  BY <1>1, <1>2, <1>3, <1>4

\* The action: one line, and its end.
LEMMA ActionKeeps == ASSUME IInv, HandleLine \/ Finish PROVE IInv'
<1>1. CASE HandleLine
  <2>1. /\ pc = "compile" /\ pc' \in {"compile", "failed"}
        /\ UNCHANGED <<input, build, rustc, output, status, handed, command>>
    BY <1>1 DEF HandleLine
  <2> QED
    BY <2>1 DEF IInv, Statuses, Deferred, Forgetful, EndedWell, Past, Made, OwnOutput, AfterAction, ConsumersGetCode, Code
<1>2. CASE Finish
  <2> DEFINE result == IF rustc[1] = 0 /\ got THEN 1 ELSE rustc[1]
             forgiven == input.infallible /\ result > 0 /\ got
  <2>1. /\ pc = "compile" /\ rustc # <<>> /\ pc' \in {"made", "failed"}
        /\ status' = IF result >= 0 /\ input.infallible THEN <<result, Created>> ELSE <<>>
        /\ output' = IF forgiven /\ output = <<>> THEN <<"placeholder", build>> ELSE output
        /\ code' = IF forgiven THEN 0 ELSE result
        /\ (pc' = "made") <=> (result = 0 \/ forgiven)
        /\ UNCHANGED <<input, build, rustc, handed, command>>
    BY <1>2 DEF Finish, process
  <2>2. rustc[1] \in {0, 1, -9} /\ (rustc[1] = 0 => rustc = <<0>>)
    BY <2>1 DEF IInv, Statuses
  <2>3. result \in {0, 1, -9} /\ (result = 0 => rustc = <<0>>)
    BY <2>2
  <2> HIDE DEF result, forgiven
  <2>4. rustc = <<0>> => Made
    BY <2>1 DEF IInv, EndedWell, Past
  <2>5. rustc = <<0>> => Made'
    <3>1. output # <<>> => output' = output
      BY <2>1
    <3> QED
      BY <2>1, <2>4, <3>1 DEF Made
  <2>6. ASSUME pc' = "made" PROVE code' = 0 /\ (~input.infallible => rustc = <<0>>)
    BY <2>1, <2>3, <2>6 DEF forgiven
  <2>7. ASSUME pc' = "made", input.infallible, Forgetful
        PROVE  IF status'[2] THEN output' = Code ELSE status'[1] # 0
    <3>1. result >= 0 /\ output \in {<<>>, Code}
      BY <2>1, <2>3, <2>7 DEF IInv, OwnOutput, forgiven
    <3>2. status' = <<result, Created>>
      BY <2>1, <2>7, <3>1
    <3>3. CASE Created
      <4>1. output # <<>> /\ output = Code
        BY <3>1, <3>3 DEF Created
      <4>2. output' = Code
        BY <2>1, <4>1
      <4>3. status'[2]
        BY <3>2, <3>3
      <4> QED
        BY <4>2, <4>3
    <3>4. CASE ~Created
      <4>1. output = <<>>
        BY <3>4 DEF Created
      <4>2. ~input.deferred
        BY <2>7 DEF IInv, Deferred
      <4>3. result # 0
        BY <2>3, <2>4, <4>1, <4>2 DEF Made
      <4> QED
        BY <2>3, <3>1, <3>2, <3>4, <4>3
    <3> QED
      BY <3>3, <3>4
  <2>8. Deferred' /\ Statuses' /\ OwnOutput' /\ ConsumersGetCode'
    BY <2>1 DEF IInv, Deferred, Statuses, OwnOutput, ConsumersGetCode
  <2>9. AfterAction'
    BY <2>1, <2>6, <2>7 DEF AfterAction, Forgetful, Code
  <2>10. EndedWell'
    BY <2>1, <2>5 DEF EndedWell
  <2> QED
    BY <2>8, <2>9, <2>10 DEF IInv
<1> QED
  BY <1>1, <1>2

\* What follows the action hands on.
LEMMA HandingKeeps == ASSUME IInv, FailureFilter \/ DeferredLink \/ HandOn PROVE IInv'
<1>1. /\ pc = "made" /\ pc' \in {"done", "unlinked"} /\ UNCHANGED <<input, build, rustc, command>>
  BY DEF FailureFilter, DeferredLink, HandOn, process
<1>2. Statuses' /\ Deferred' /\ OwnOutput' /\ AfterAction'
  BY <1>1 DEF IInv, Statuses, Deferred, OwnOutput, AfterAction
<1>3. rustc = <<0>> => Made
  BY <1>1 DEF IInv, EndedWell, Past
<1>4. code = 0 /\ (~input.infallible => rustc = <<0>>)
  BY <1>1 DEF IInv, AfterAction
<1>5. CASE FailureFilter
  <2>1. /\ input.infallible /\ output' = output
        /\ IF status[2] THEN handed' = output /\ code' = 0 ELSE handed' = <<>> /\ code' = status[1]
    BY <1>5 DEF FailureFilter
  <2>2. Forgetful => IF status[2] THEN output = Code ELSE status[1] # 0
    BY <1>1, <2>1 DEF IInv, AfterAction
  <2>3. ASSUME Forgetful PROVE IF handed' = <<>> THEN code' # 0 ELSE handed' = Code /\ code' = 0
    <3>1. CASE status[2]
      BY <2>1, <2>2, <2>3, <3>1 DEF Code
    <3>2. CASE ~status[2]
      BY <2>1, <2>2, <2>3, <3>2
    <3> QED
      BY <3>1, <3>2
  <2>4. ConsumersGetCode'
    BY <1>1, <2>3 DEF ConsumersGetCode, Forgetful, Code
  <2>5. EndedWell'
    BY <1>1, <1>3, <2>1 DEF EndedWell, Made
  <2> QED
    BY <1>2, <2>4, <2>5 DEF IInv
<1>6. CASE DeferredLink
  <2>1. /\ input.deferred
        /\ pc' = "unlinked" \/ (output' = Code /\ handed' = Code /\ code' = code)
    BY <1>6 DEF DeferredLink, Code
  <2>2. ConsumersGetCode'
    BY <1>1, <1>4, <2>1 DEF ConsumersGetCode, Code
  <2>3. EndedWell'
    BY <1>1, <1>3, <2>1 DEF EndedWell, Made, Past
  <2> QED
    BY <1>2, <2>2, <2>3 DEF IInv
<1>7. CASE HandOn
  <2>1. ~input.infallible /\ ~input.deferred /\ handed' = output /\ output' = output /\ code' = code
    BY <1>7 DEF HandOn
  <2>2. output = Code
    BY <1>3, <1>4, <2>1 DEF Made, Code
  <2>3. ConsumersGetCode'
    BY <1>1, <1>4, <2>1, <2>2 DEF ConsumersGetCode, Code
  <2>4. EndedWell'
    BY <1>1, <1>3, <2>1 DEF EndedWell, Made
  <2> QED
    BY <1>2, <2>3, <2>4 DEF IInv
<1> QED
  BY <1>5, <1>6, <1>7

\* The build starts: what it keeps is no output of a build that forgives.
LEMMA StartKeeps == ASSUME IInv, LinkDependencies \/ RunBuildscript \/ StartRustc \/ Edit PROVE IInv'
<1>1. CASE LinkDependencies \/ RunBuildscript \/ Edit
  <2>1. /\ pc' \in {"script", "start", "stopped"}
        /\ UNCHANGED <<input, build, rustc>>
    BY <1>1 DEF LinkDependencies, RunBuildscript, Edit, process
  <2> QED
    BY <2>1 DEF IInv, Statuses, Deferred, EndedWell, Past, OwnOutput, AfterAction, ConsumersGetCode
<1>2. CASE StartRustc
  <2>1. /\ pc' = "compile" /\ build' = build + 1 /\ rustc' = <<>> /\ input' = input
        /\ output' = IF input.incremental THEN output ELSE <<>>
    BY <1>2 DEF StartRustc
  <2>2. OwnOutput'
    BY <2>1 DEF OwnOutput, Forgetful
  <2> QED
    BY <2>1, <2>2 DEF IInv, Statuses, Deferred, EndedWell, AfterAction, ConsumersGetCode
<1> QED
  BY <1>1, <1>2

\* Consumers are handed code of this build, or the build fails.
THEOREM CodeIsHandedOn == Spec => []ConsumersGetCode
<1>1. IInv /\ [Next]_vars => IInv'
  <2> SUFFICES ASSUME IInv, [Next]_vars PROVE IInv'
    OBVIOUS
  <2>1. CASE UNCHANGED vars
    BY <2>1 DEF vars, IInv, Statuses, Deferred, Forgetful, EndedWell, Past, Made, OwnOutput, AfterAction, ConsumersGetCode, Code
  <2> QED
    BY <2>1, RustcKeeps, ActionKeeps, HandingKeeps, StartKeeps DEF Next
<1>2. IInv => ConsumersGetCode
  BY DEF IInv
<1> QED
  BY <1>1, <1>2, InitIsInvariant, PTL DEF Spec

-----------------------------------------------------------------------------
(* The diagnostics *)

\* How many lines the action has read, and that the pipe has the others.
Read == Len(printed) - Len(pipe)
Piped ==
  /\ printed \in Seq(Lines) /\ pipe \in Seq(Lines) /\ json \in Seq(Lines)
  /\ Len(pipe) <= Len(printed)
  /\ \A k \in 1..Len(pipe) : pipe[k] = printed[Read + k]

\* The places of the diagnostics in the first n lines.
PlacesIn(place, part, whole, n) ==
  /\ place \in [1..Len(part) -> 1..n]
  /\ \A k \in 1..Len(part) : part[k] = whole[place[k]]
  /\ \A k, m \in 1..Len(part) : k < m => place[k] < place[m]
  /\ \A m \in 1..n : IsDiagnostic(whole[m]) <=> \E k \in 1..Len(part) : place[k] = m

\* Of what was read, every diagnostic is written and every error is known.
Followed == ~Raises =>
  /\ \E place : PlacesIn(place, json, printed, Read)
  /\ got <=> \E n \in 1..Read : printed[n] \in Errors

\* Whether the action fails, once it has read all there is.
HasErrors == \E n \in 1..Len(printed) : printed[n] \in Errors
Fails == /\ HasErrors \/ rustc # <<0>>
         /\ ~(input.infallible /\ HasErrors /\ rustc[1] >= 0)
Over == pc \in {"made", "done", "unlinked", "failed"} =>
  IF Raises THEN pc = "failed" ELSE pipe = <<>> /\ rustc # <<>> /\ (pc = "failed" <=> Fails)

\* The reader has not gone on after a line that it raises on.
Passed == pc = "compile" => \A n \in 1..Read : printed[n] \notin Unreadable

\* Who has ended well, or waits for a next build, has no rustc running.
Ended == pc \in {"made", "done", "unlinked"} => rustc # <<>>

ReadInv == Piped /\ Followed /\ Over /\ Passed /\ Ended /\ Statuses

LEMMA NothingRead == \E place : PlacesIn(place, <<>>, <<>>, 0)
<1>1. PlacesIn([k \in {} |-> 0], <<>>, <<>>, 0)
  BY DEF PlacesIn
<1> QED
  BY <1>1

\* A longer output has the same diagnostics in the same places.
LEMMA MorePrinted ==
  ASSUME NEW place, NEW part, NEW whole \in Seq(Lines), NEW n \in 0..Len(whole), NEW l \in Lines,
         PlacesIn(place, part, whole, n)
  PROVE  PlacesIn(place, part, Append(whole, l), n)
<1>1. \A m \in 1..n : Append(whole, l)[m] = whole[m]
  OBVIOUS
<1> QED
  BY <1>1 DEF PlacesIn

\* The next line is a diagnostic, which gets the place behind the others, or not.
LEMMA OneMoreRead ==
  ASSUME NEW place, NEW part \in Seq(Lines), NEW whole \in Seq(Lines),
         NEW n \in Nat, n < Len(whole), PlacesIn(place, part, whole, n)
  PROVE  \E p : PlacesIn(p, IF IsDiagnostic(whole[n + 1]) THEN Append(part, whole[n + 1]) ELSE part, whole, n + 1)
<1>1. CASE ~IsDiagnostic(whole[n + 1])
  <2>1. \A k \in 1..Len(part) : place[k] # n + 1
    BY DEF PlacesIn
  <2>2. PlacesIn(place, part, whole, n + 1)
    BY <1>1, <2>1 DEF PlacesIn
  <2> QED
    BY <1>1, <2>2
<1>2. CASE IsDiagnostic(whole[n + 1])
  <2> DEFINE more == Append(part, whole[n + 1])
             p == [k \in 1..Len(more) |-> IF k = Len(more) THEN n + 1 ELSE place[k]]
  <2>1. /\ Len(part) \in Nat /\ Len(more) = Len(part) + 1 /\ more[Len(more)] = whole[n + 1]
        /\ \A k \in 1..Len(part) : more[k] = part[k]
    OBVIOUS
  <2> HIDE DEF more
  <2>2. p[Len(more)] = n + 1 /\ \A k \in 1..Len(part) : p[k] = place[k] /\ place[k] \in 1..n
    BY <2>1 DEF PlacesIn
  <2>3. p \in [1..Len(more) -> 1..(n + 1)]
    <3>1. ASSUME NEW k \in 1..Len(more) PROVE p[k] \in 1..(n + 1)
      <4>1. CASE k = Len(more)
        BY <4>1
      <4>2. CASE k # Len(more)
        <5>1. k \in 1..Len(part)
          BY <2>1, <4>2
        <5>2. place[k] \in 1..n
          BY <2>2, <5>1
        <5> QED
          BY <4>2, <5>2
      <4> QED
        BY <4>1, <4>2
    <3> QED
      BY <3>1
  <2> HIDE DEF p
  <2>4. \A k \in 1..Len(more) : more[k] = whole[p[k]]
    BY <2>1, <2>2 DEF PlacesIn
  <2>5. \A k, m \in 1..Len(more) : k < m => p[k] < p[m]
    <3> SUFFICES ASSUME NEW k \in 1..Len(more), NEW m \in 1..Len(more), k < m PROVE p[k] < p[m]
      OBVIOUS
    <3>1. k \in 1..Len(part)
      BY <2>1
    <3>2. CASE m = Len(more)
      BY <2>2, <3>1, <3>2
    <3>3. CASE m # Len(more)
      <4>1. m \in 1..Len(part)
        BY <2>1, <3>3
      <4>2. place[k] < place[m]
        BY <3>1, <4>1 DEF PlacesIn
      <4> QED
        BY <2>2, <3>1, <4>1, <4>2
    <3> QED
      BY <3>2, <3>3
  <2>6. \A m \in 1..(n + 1) : IsDiagnostic(whole[m]) <=> \E k \in 1..Len(more) : p[k] = m
    <3> SUFFICES ASSUME NEW m \in 1..(n + 1)
                 PROVE  IsDiagnostic(whole[m]) <=> \E k \in 1..Len(more) : p[k] = m
      OBVIOUS
    <3>1. CASE m = n + 1
      BY <1>2, <2>1, <2>2, <3>1
    <3>2. CASE m # n + 1
      <4>1. m \in 1..n
        BY <3>2
      <4>2. IsDiagnostic(whole[m]) <=> \E k \in 1..Len(part) : place[k] = m
        BY <4>1 DEF PlacesIn
      <4>3. (\E k \in 1..Len(more) : p[k] = m) <=> \E k \in 1..Len(part) : place[k] = m
        <5>1. ASSUME NEW k \in 1..Len(more), p[k] = m PROVE k \in 1..Len(part) /\ place[k] = m
          <6>1. k # Len(more)
            BY <2>2, <3>2, <5>1
          <6>2. k \in 1..Len(part)
            BY <2>1, <6>1
          <6> QED
            BY <2>2, <5>1, <6>2
        <5>2. ASSUME NEW k \in 1..Len(part), place[k] = m PROVE k \in 1..Len(more) /\ p[k] = m
          <6>1. k \in 1..Len(more)
            BY <2>1
          <6> QED
            BY <2>2, <5>2, <6>1
        <5> QED
          BY <5>1, <5>2
      <4> QED
        BY <4>2, <4>3
    <3> QED
      BY <3>1, <3>2
  <2>7. PlacesIn(p, more, whole, n + 1)
    BY <2>3, <2>4, <2>5, <2>6 DEF PlacesIn
  <2> QED
    BY <1>2, <2>7 DEF more
<1> QED
  BY <1>1, <1>2

LEMMA InitReads == Init => ReadInv
<1> SUFFICES ASSUME Init PROVE ReadInv
  OBVIOUS
<1>1. printed = <<>> /\ pipe = <<>> /\ json = <<>> /\ got = FALSE /\ pc = "deps" /\ rustc = <<0>> /\ build = 0
  BY DEF Init
<1>2. Len(printed) = 0 /\ Len(pipe) = 0 /\ Read = 0
  BY <1>1 DEF Read
<1>3. Piped
  BY <1>1, <1>2 DEF Piped
<1>4. Followed
  BY <1>1, <1>2, NothingRead DEF Followed
<1> QED
  BY <1>1, <1>2, <1>3, <1>4 DEF ReadInv, Over, Passed, Ended, Statuses

\* rustc prints a line, which waits in the pipe.
LEMMA PrintKeepsReading ==
  ASSUME ReadInv, NEW l \in Lines, RustcPrints(l) PROVE ReadInv'
<1>1. /\ rustc = <<>> /\ printed' = Append(printed, l) /\ pipe' = Append(pipe, l)
      /\ UNCHANGED <<build, pc, rustc, json, got>>
  BY DEF RustcPrints
<1>2. /\ printed \in Seq(Lines) /\ pipe \in Seq(Lines) /\ json \in Seq(Lines)
      /\ Len(pipe) <= Len(printed) /\ Len(pipe) \in Nat /\ Len(printed) \in Nat
  BY DEF ReadInv, Piped
<1>3. /\ printed' \in Seq(Lines) /\ pipe' \in Seq(Lines) /\ json' \in Seq(Lines)
      /\ Len(pipe') = Len(pipe) + 1 /\ Len(printed') = Len(printed) + 1
  BY <1>1, <1>2
<1>4. Read' = Read /\ Read \in 0..Len(printed)
  BY <1>2, <1>3 DEF Read
<1>5. /\ \A k \in 1..Len(printed) : printed'[k] = printed[k]
      /\ \A k \in 1..Len(pipe) : pipe'[k] = pipe[k]
      /\ printed'[Len(printed) + 1] = l /\ pipe'[Len(pipe) + 1] = l
  BY <1>1, <1>2
<1>6. Piped'
  <2>1. ASSUME NEW k \in 1..Len(pipe') PROVE pipe'[k] = printed'[Read + k]
    <3>1. CASE k = Len(pipe')
      <4>1. Read + k = Len(printed) + 1
        BY <1>2, <1>3, <3>1 DEF Read
      <4> QED
        BY <1>3, <1>5, <3>1, <4>1
    <3>2. CASE k # Len(pipe')
      <4>1. k \in 1..Len(pipe) /\ Read + k \in 1..Len(printed)
        BY <1>2, <1>3, <3>2 DEF Read
      <4>2. pipe[k] = printed[Read + k]
        BY <4>1 DEF ReadInv, Piped
      <4> QED
        BY <1>5, <4>1, <4>2
    <3> QED
      BY <3>1, <3>2
  <2> QED
    BY <1>2, <1>3, <1>4, <2>1 DEF Piped
<1>7. Raises => Raises'
  <2>1. ASSUME NEW x, Printed(x) PROVE Printed(x)'
    <3>1. PICK n \in DOMAIN printed : x = printed[n]
      BY <2>1 DEF Printed, Range
    <3>2. n \in 1..Len(printed) /\ n \in DOMAIN printed'
      BY <1>2, <1>3
    <3>3. x = printed'[n]
      BY <1>5, <3>1, <3>2
    <3> QED
      BY <3>2, <3>3 DEF Printed, Range
  <2>2. Unreadable' = Unreadable
    BY DEF Unreadable
  <2> QED
    BY <2>1, <2>2, Zenon DEF Raises
<1>8. Followed'
  <2> SUFFICES ASSUME ~Raises'
               PROVE  /\ \E place : PlacesIn(place, json, printed', Read)
                      /\ got <=> \E n \in 1..Read : printed'[n] \in Errors
    BY <1>1, <1>4 DEF Followed
  <2>1. PICK place : PlacesIn(place, json, printed, Read)
    BY <1>7 DEF ReadInv, Followed
  <2>2. PlacesIn(place, json, printed', Read)
    BY <1>1, <1>2, <1>4, <2>1, MorePrinted
  <2>3. \A n \in 1..Read : printed'[n] = printed[n]
    BY <1>2, <1>4, <1>5
  <2>4. got <=> \E n \in 1..Read : printed[n] \in Errors
    BY <1>7 DEF ReadInv, Followed
  <2> QED
    BY <2>2, <2>3, <2>4
<1>9. Over'
  BY <1>1, <1>7 DEF ReadInv, Over, Ended
<1>10. Passed'
  <2>1. \A n \in 1..Read : printed'[n] = printed[n]
    BY <1>2, <1>4, <1>5
  <2> QED
    BY <1>1, <1>4, <2>1 DEF ReadInv, Passed
<1> QED
  BY <1>1, <1>6, <1>8, <1>9, <1>10 DEF ReadInv, Ended, Statuses

\* A line is read: it stops the action, or it is followed as it should be.
LEMMA LineKeepsReading ==
  ASSUME ReadInv, HandleLine PROVE ReadInv'
<1> DEFINE l == Head(pipe)
<1>1. /\ pc = "compile" /\ pipe # <<>> /\ pipe' = Tail(pipe)
      /\ UNCHANGED <<build, rustc, printed>>
      /\ json' \in {json, Append(json, l)}
  BY DEF HandleLine
<1>2. /\ json' = IF l \in {"text", "unused none", "unreadable"} THEN json ELSE Append(json, l)
      /\ got' <=> got \/ IsError(l)
      /\ IF l \in Unreadable THEN pc' = "failed" ELSE pc' = pc
  BY DEF HandleLine
<1>3. /\ printed \in Seq(Lines) /\ pipe \in Seq(Lines) /\ json \in Seq(Lines)
      /\ Len(pipe) <= Len(printed) /\ Len(pipe) \in Nat \ {0} /\ Len(printed) \in Nat
      /\ l \in Lines /\ l = pipe[1]
  BY <1>1 DEF ReadInv, Piped
<1>4. /\ pipe' \in Seq(Lines) /\ Len(pipe') = Len(pipe) - 1
      /\ \A k \in 1..Len(pipe') : pipe'[k] = pipe[k + 1]
  BY <1>1, <1>3
<1>5. Read' = Read + 1 /\ Read \in Nat /\ Read < Len(printed)
  BY <1>1, <1>3, <1>4 DEF Read
<1>6. l = printed[Read + 1]
  <2>1. 1 \in 1..Len(pipe)
    BY <1>3
  <2>2. pipe[1] = printed[Read + 1]
    BY <2>1 DEF ReadInv, Piped
  <2> QED
    BY <1>3, <2>2
<1> HIDE DEF l
<1>7. json' \in Seq(Lines)
  <2>1. json \in Seq(Lines) /\ Append(json, l) \in Seq(Lines)
    BY <1>3
  <2> QED
    BY <1>1, <2>1
<1>8. Piped'
  <2>1. ASSUME NEW k \in 1..Len(pipe') PROVE pipe'[k] = printed[Read + 1 + k]
    <3>1. k + 1 \in 1..Len(pipe) /\ Read + (k + 1) = Read + 1 + k
      BY <1>3, <1>4, <1>5
    <3>2. pipe[k + 1] = printed[Read + (k + 1)]
      BY <3>1 DEF ReadInv, Piped
    <3> QED
      BY <1>4, <3>1, <3>2
  <2>2. printed' = printed /\ Len(pipe') <= Len(printed)
    BY <1>1, <1>3, <1>4
  <2>3. \A k \in 1..Len(pipe') : pipe'[k] = printed'[Read' + k]
    BY <1>5, <2>1, <2>2
  <2> QED
    BY <1>3, <1>4, <1>7, <2>2, <2>3 DEF Piped
<1>9. l \in Unreadable => Raises
  <2>1. Read + 1 \in DOMAIN printed
    BY <1>3, <1>5
  <2>2. l \in Range(printed)
    BY <1>6, <2>1 DEF Range
  <2> QED
    BY <2>2 DEF Printed, Raises
<1>10. Raises' <=> Raises
  BY <1>1 DEF Raises, Printed
<1>11. Followed'
  <2> SUFFICES ASSUME ~Raises
               PROVE  /\ \E place : PlacesIn(place, json', printed, Read + 1)
                      /\ got' <=> \E n \in 1..(Read + 1) : printed[n] \in Errors
    BY <1>1, <1>5, <1>10 DEF Followed
  <2>1. /\ json' = IF IsDiagnostic(l) THEN Append(json, l) ELSE json
        /\ got' <=> (got \/ l \in Errors)
    BY <1>2, <1>9 DEF IsDiagnostic, IsError, Unreadable
  <2>2. PICK place : PlacesIn(place, json, printed, Read)
    BY DEF ReadInv, Followed
  <2>3. \E p : PlacesIn(p, json', printed, Read + 1)
    BY <1>3, <1>5, <1>6, <2>1, <2>2, OneMoreRead
  <2>4. got <=> \E n \in 1..Read : printed[n] \in Errors
    BY DEF ReadInv, Followed
  <2>5. (\E n \in 1..(Read + 1) : printed[n] \in Errors)
          <=> (\E n \in 1..Read : printed[n] \in Errors) \/ printed[Read + 1] \in Errors
    BY <1>5
  <2> QED
    BY <1>6, <2>1, <2>3, <2>4, <2>5
<1>12. Over'
  BY <1>1, <1>2, <1>9, <1>10 DEF Over
<1>13. Passed'
  <2>1. pc' = "compile" => l \notin Unreadable
    BY <1>2
  <2>2. \A n \in 1..(Read + 1) : n \in 1..Read \/ n = Read + 1
    BY <1>5
  <2> QED
    BY <1>1, <1>5, <1>6, <2>1, <2>2 DEF ReadInv, Passed
<1> QED
  BY <1>1, <1>2, <1>8, <1>11, <1>12, <1>13 DEF ReadInv, Ended, Statuses

\* The action ends when it has read all lines.
LEMMA FinishKeepsReading ==
  ASSUME ReadInv, Finish PROVE ReadInv'
<1> DEFINE result == IF rustc[1] = 0 /\ got THEN 1 ELSE rustc[1]
           forgiven == input.infallible /\ result > 0 /\ got
<1>1. /\ pc = "compile" /\ pipe = <<>> /\ rustc # <<>> /\ pc' \in {"made", "failed"}
      /\ pc' = "failed" <=> ~(result = 0 \/ forgiven)
      /\ UNCHANGED <<input, build, rustc, printed, pipe, json, got>>
  BY DEF Finish, process
<1>2. Piped' /\ Followed' /\ Passed' /\ Ended' /\ Statuses'
  BY <1>1 DEF ReadInv, Piped, Followed, Read, Raises, Printed, Passed, Ended, Statuses
<1>3. ~Raises
  <2>1. Read = Len(printed) /\ DOMAIN printed = 1..Len(printed)
    BY <1>1 DEF ReadInv, Piped, Read
  <2> QED
    BY <1>1, <2>1 DEF ReadInv, Passed, Raises, Printed, Range
<1>4. Over'
  <2> SUFFICES pc' = "failed" <=> Fails
    BY <1>1, <1>3 DEF Over, Raises, Printed, Fails, HasErrors
  <2>1. got <=> HasErrors
    <3>1. Read = Len(printed)
      BY <1>1 DEF ReadInv, Piped, Read
    <3> QED
      BY <1>3, <3>1 DEF ReadInv, Followed, HasErrors
  <2>2. rustc \in {<<0>>, <<1>>, <<-9>>}
    BY <1>1 DEF ReadInv, Statuses
  <2>3. CASE rustc = <<0>>
    <3>1. result = IF got THEN 1 ELSE 0
      BY <2>3
    <3> QED
      BY <1>1, <2>1, <2>3, <3>1 DEF Fails
  <2>4. CASE rustc = <<1>>
    <3>1. result = 1 /\ rustc # <<0>>
      BY <2>4
    <3> QED
      BY <1>1, <2>1, <2>4, <3>1 DEF Fails
  <2>5. CASE rustc = <<-9>>
    <3>1. result = -9 /\ rustc # <<0>>
      BY <2>5
    <3> QED
      BY <1>1, <2>1, <2>5, <3>1 DEF Fails
  <2> QED
    BY <2>2, <2>3, <2>4, <2>5
<1> QED
  BY <1>2, <1>4 DEF ReadInv

LEMMA OthersKeepReading ==
  ASSUME ReadInv,
         \/ LinkDependencies \/ RunBuildscript \/ RustcWrites \/ ExtractLink \/ RustcExits
         \/ FailureFilter \/ DeferredLink \/ HandOn \/ Edit
  PROVE  ReadInv'
<1>1. UNCHANGED <<input, build, printed, pipe, json, got>>
  BY DEF LinkDependencies, RunBuildscript, RustcWrites, ExtractLink, RustcExits,
         FailureFilter, DeferredLink, HandOn, Edit, process
<1>2. \/ rustc' = rustc /\ pc' \notin {"compile", "made", "done", "unlinked", "failed"}
      \/ rustc' = rustc /\ pc' = pc
      \/ rustc' = rustc /\ pc = "made" /\ pc' \in {"done", "unlinked"}
      \/ rustc = <<>> /\ rustc' \in {<<0>>, <<1>>, <<-9>>} /\ pc' = pc
  BY DEF LinkDependencies, RunBuildscript, RustcWrites, ExtractLink, RustcExits,
         FailureFilter, DeferredLink, HandOn, Edit, process
<1>3. Piped' /\ Followed' /\ Passed' /\ Ended' /\ Statuses'
  BY <1>1, <1>2 DEF ReadInv, Piped, Followed, Read, Raises, Printed, Passed, Ended, Statuses
<1>4. Over'
  BY <1>1, <1>2 DEF ReadInv, Over, Raises, Printed, Fails, HasErrors
<1> QED
  BY <1>3, <1>4 DEF ReadInv

LEMMA StartReads == ASSUME ReadInv, StartRustc PROVE ReadInv'
<1>1. printed' = <<>> /\ pipe' = <<>> /\ json' = <<>> /\ got' = FALSE /\ pc' = "compile" /\ rustc' = <<>>
      /\ build' = build + 1
  BY DEF StartRustc
<1>2. Len(printed') = 0 /\ Len(pipe') = 0 /\ Read' = 0
  BY <1>1 DEF Read
<1>3. Piped'
  BY <1>1, <1>2 DEF Piped
<1>4. Followed'
  BY <1>1, <1>2, NothingRead DEF Followed
<1> QED
  BY <1>1, <1>2, <1>3, <1>4 DEF ReadInv, Over, Passed, Ended, Statuses

LEMMA ReadingArrives == ReadInv => DiagnosticsArrive
<1> SUFFICES ASSUME ReadInv, pc \in {"made", "done", "unlinked", "failed"}, ~Raises
             PROVE  DiagnosticsArrive
  BY DEF DiagnosticsArrive, ReadInv, Over
<1>1. pipe = <<>> /\ rustc # <<>> /\ (pc = "failed" <=> Fails)
  BY DEF ReadInv, Over
<1>2. /\ printed \in Seq(Lines) /\ json \in Seq(Lines)
      /\ DOMAIN printed = 1..Len(printed) /\ DOMAIN json = 1..Len(json) /\ Read = Len(printed)
  BY <1>1 DEF ReadInv, Piped, Read
<1>3. PICK place : PlacesIn(place, json, printed, Len(printed))
  BY <1>2 DEF ReadInv, Followed
<1>4. place \in [DOMAIN json -> DOMAIN printed]
  BY <1>2, <1>3 DEF PlacesIn
<1>5. Range(place) = {n \in DOMAIN printed : IsDiagnostic(printed[n])}
  <2>1. Range(place) = {place[k] : k \in 1..Len(json)}
    BY <1>3 DEF PlacesIn, Range
  <2>2. \A k \in 1..Len(json) : place[k] \in 1..Len(printed)
    BY <1>3 DEF PlacesIn
  <2>3. \A m \in 1..Len(printed) :
          IsDiagnostic(printed[m]) <=> \E k \in 1..Len(json) : place[k] = m
    BY <1>3 DEF PlacesIn
  <2> QED
    BY <1>2, <2>1, <2>2, <2>3
<1>6. Places(place)
  BY <1>2, <1>3, <1>5 DEF Places, PlacesIn
<1>7. (Range(printed) \cap Errors # {}) <=> HasErrors
  BY <1>2 DEF HasErrors, Range
<1> QED
  BY <1>1, <1>4, <1>6, <1>7 DEF DiagnosticsArrive, Fails

\* Every diagnostic is handed on, in order, and the action fails exactly for the
\* reasons there are: for any inputs and any number and order of lines, also such
\* as the action raises on, however far rustc is ahead of the action that reads.
THEOREM DiagnosticsAreKept == Spec => []DiagnosticsArrive
<1>1. ReadInv /\ [Next]_vars => ReadInv'
  <2> SUFFICES ASSUME ReadInv, [Next]_vars PROVE ReadInv'
    OBVIOUS
  <2>1. CASE UNCHANGED vars
    BY <2>1 DEF vars, process, ReadInv, Piped, Followed, Over, Passed, Ended, Read, Raises, Printed, Fails, HasErrors, Statuses
  <2> QED
    BY <2>1, PrintKeepsReading, LineKeepsReading, FinishKeepsReading, OthersKeepReading, StartReads DEF Next
<1> QED
  BY <1>1, InitReads, ReadingArrives, PTL DEF Spec

-----------------------------------------------------------------------------
(* Lists that are put together. *)

\* The values of f are the beginnings of ss, each as one list.
AreFlat(f, ss) == f = [i \in 1..Len(ss) |-> IF i = 1 THEN ss[i] ELSE f[i - 1] \o ss[i]]

LEMMA FlatExist ==
  ASSUME NEW S, NEW ss \in Seq(S)
  PROVE  \E f : AreFlat(f, ss)
<1> DEFINE F(k, f) == IF k = 1 THEN ss[k] ELSE f[k - 1] \o ss[k]
           Upto(f, n) == f = [k \in 1..n |-> F(k, f)]
           Right == {n \in 0..Len(ss) : \E f : Upto(f, n)}
<1>1. 0 \in Right
  <2> DEFINE z == [k \in 1..0 |-> 0]
  <2>1. \A k \in 1..0 : FALSE
    OBVIOUS
  <2>2. z = [k \in 1..0 |-> F(k, z)]
    BY <2>1, Zenon
  <2>3. 0 \in 0..Len(ss)
    OBVIOUS
  <2>4. QED BY <2>2, <2>3, Zenon
<1>2. ASSUME NEW n \in 0..(Len(ss) - 1), n \in Right PROVE n + 1 \in Right
  <2>1. PICK f : Upto(f, n)
    BY <1>2, Zenon
  <2> DEFINE g == [k \in 1..(n + 1) |-> F(k, f)]
  <2>2. \A k \in 1..n : g[k] = f[k]
    <3>1. \A k \in 1..n : f[k] = F(k, f)
      BY <2>1, Zenon
    <3>2. \A k \in 1..n : k \in 1..(n + 1)
      OBVIOUS
    <3>3. QED BY <3>1, <3>2, Zenon
  <2>3. \A k \in 1..(n + 1) : F(k, f) = F(k, g)
    <3>1. \A k \in 1..(n + 1) : k = 1 \/ k - 1 \in 1..n
      OBVIOUS
    <3>2. QED BY <3>1, <2>2, Zenon
  <2>4. g = [k \in 1..(n + 1) |-> F(k, g)]
    BY <2>3, Zenon
  <2>5. n + 1 \in 0..Len(ss)
    OBVIOUS
  <2>6. QED BY <2>4, <2>5, Zenon
<1> HIDE DEF Right
<1>3. Len(ss) \in Nat
  OBVIOUS
<1>4. Len(ss) \in Right
  <2>1. \A k \in 0..Len(ss) : k \in Right
    BY <1>1, <1>2, <1>3, Upwards
  <2>2. QED BY <1>3, <2>1
<1>5. QED BY <1>4, Zenon DEF Right, AreFlat

LEMMA JoinedRange ==
  ASSUME NEW S, NEW s \in Seq(S), NEW t \in Seq(S)
  PROVE  \A x : x \in Range(s \o t) <=> x \in Range(s) \/ x \in Range(t)
<1> DEFINE j == s \o t
<1>1. /\ Len(s) \in Nat /\ Len(t) \in Nat /\ DOMAIN s = 1..Len(s) /\ DOMAIN t = 1..Len(t)
      /\ DOMAIN j = 1..(Len(s) + Len(t))
      /\ \A i \in 1..Len(s) : j[i] = s[i] /\ i \in DOMAIN j
      /\ \A i \in 1..Len(t) : j[Len(s) + i] = t[i] /\ Len(s) + i \in DOMAIN j
  OBVIOUS
<1> HIDE DEF j
<1>2. \A i \in DOMAIN j : i \in 1..Len(s) \/ \E k \in 1..Len(t) : i = Len(s) + k
  <2> SUFFICES ASSUME NEW i \in DOMAIN j, i \notin 1..Len(s) PROVE \E k \in 1..Len(t) : i = Len(s) + k
    OBVIOUS
  <2>1. i - Len(s) \in 1..Len(t) /\ i = Len(s) + (i - Len(s))
    BY <1>1
  <2>2. QED BY <2>1, Zenon
<1>3. ASSUME NEW x, x \in Range(j) PROVE x \in Range(s) \/ x \in Range(t)
  <2>1. PICK i \in DOMAIN j : x = j[i]
    BY <1>3, Zenon DEF Range
  <2>2. QED BY <1>1, <1>2, <2>1, Zenon DEF Range
<1>4. ASSUME NEW x, x \in Range(s) \/ x \in Range(t) PROVE x \in Range(j)
  BY <1>1, <1>4, Zenon DEF Range
<1>5. QED BY <1>3, <1>4, Zenon DEF j

\* What is in the list that FlattenSeq makes of lists is what is in one of them.
LEMMA FlattenIs ==
  ASSUME NEW S, NEW ss \in Seq(Seq(S))
  PROVE  /\ FlattenSeq(ss) \in Seq(S)
         /\ \A x : x \in Range(FlattenSeq(ss)) <=> \E i \in 1..Len(ss) : x \in Range(ss[i])
<1>1. CASE Len(ss) = 0
  <2>1. FlattenSeq(ss) = <<>>
    BY <1>1 DEF FlattenSeq
  <2>2. Range(<<>>) = {}
    BY DEF Range
  <2>3. QED BY <1>1, <2>1, <2>2
<1>2. CASE Len(ss) # 0
  <2> DEFINE f == CHOOSE g : AreFlat(g, ss)
             L == Len(ss)
  <2>1. AreFlat(f, ss)
    BY FlatExist, Zenon
  <2>2. FlattenSeq(ss) = f[L]
    BY <1>2, Zenon DEF FlattenSeq, AreFlat
  <2> HIDE DEF f
  <2>3. L \in Nat /\ L # 0 /\ \A n \in 1..L : ss[n] \in Seq(S)
    BY <1>2
  <2>4. \A n \in 1..L : f[n] = IF n = 1 THEN ss[n] ELSE f[n - 1] \o ss[n]
    BY <2>1, Zenon DEF AreFlat
  <2> DEFINE In1(x, n) == \E i \in 1..n : x \in Range(ss[i])
             Right == {n \in 0..L : n = 0 \/ (f[n] \in Seq(S) /\ \A x : x \in Range(f[n]) <=> In1(x, n))}
  <2>5. 0 \in Right
    BY <2>3
  <2>6. ASSUME NEW n \in 0..(L - 1), n \in Right PROVE n + 1 \in Right
    <3>1. n + 1 \in 1..L /\ n + 1 \in 0..L /\ ss[n + 1] \in Seq(S) /\ (n + 1) - 1 = n
          /\ (n + 1 = 1 <=> n = 0) /\ \A i \in 1..(n + 1) : i = n + 1 \/ i \in 1..n
      BY <2>3
    <3>2. CASE n = 0
      <4>1. f[n + 1] = ss[n + 1]
        BY <2>4, <3>1, <3>2
      <4>2. \A x : In1(x, n + 1) <=> x \in Range(ss[n + 1])
        <5>1. \A i \in 1..(n + 1) : i = n + 1
          BY <3>1, <3>2
        <5>2. n + 1 \in 1..(n + 1)
          BY <3>1
        <5>3. QED BY <5>1, <5>2, Zenon
      <4>3. QED BY <3>1, <4>1, <4>2
    <3>3. CASE n # 0
      <4>1. f[n + 1] = f[n] \o ss[n + 1] /\ f[n] \in Seq(S) /\ \A x : x \in Range(f[n]) <=> In1(x, n)
        BY <2>4, <2>6, <3>1, <3>3
      <4>2. f[n + 1] \in Seq(S)
        BY <3>1, <4>1
      <4>3. \A x : x \in Range(f[n + 1]) <=> x \in Range(f[n]) \/ x \in Range(ss[n + 1])
        BY <3>1, <4>1, JoinedRange
      <4>4. \A x : In1(x, n + 1) <=> In1(x, n) \/ x \in Range(ss[n + 1])
        <5>1. n + 1 \in 1..(n + 1) /\ \A i \in 1..n : i \in 1..(n + 1)
          BY <3>1
        <5>2. QED BY <3>1, <5>1, Zenon
      <4>5. QED BY <3>1, <4>1, <4>2, <4>3, <4>4, Zenon
    <3>4. QED BY <3>2, <3>3
  <2> HIDE DEF Right
  <2>7. L \in Right
    <3>1. \A k \in 0..L : k \in Right
      BY <2>3, <2>5, <2>6, Upwards
    <3>2. QED BY <2>3, <3>1
  <2>8. f[L] \in Seq(S) /\ \A x : x \in Range(f[L]) <=> In1(x, L)
    BY <2>3, <2>7 DEF Right
  <2>9. QED BY <2>2, <2>8
<1>3. QED BY <1>1, <1>2

-----------------------------------------------------------------------------
(* A distributed link: what the actions of a plan read, they declare. *)

IsSequence(s) == s \in Seq(Range(s))

\* The path of a file of the build, from what the planner reads of it.
IsFile(p) == /\ p[2] \in Linkables
             /\ p = IF IsArchive(p[2]) THEN <<Directory(p[2]), p[2], p[3]>> ELSE <<"object", p[2], <<>>>>

ThinDeclared == \A p \in DOMAIN plan.objects :
  /\ IsFile(p)
  /\ plan.objects[p].bc => \A q \in Range(plan.thin[p]) : q[1] = "member" \/ <<q[1], q[2]>> \in Declares(p)

LinesDeclared == \A p \in Range(plan.lines) :
  p[1] = "member" \/ Native(p) \/ p \in LinkInputs \/ InOptDir(p)

OnlyMembers == \A p \in undeclared : p[1] = "member"

\* A plan that is made names what its actions read, but for members of thin
\* archives and, of the final link, for native members.
LinkInv ==
  /\ link \in Links /\ InputsDeclared /\ (phase \in {"prepare", "opt"} => OnlyMembers)
  /\ \A i \in DOMAIN prepared : IsSequence(prepared[i].known)
  /\ phase = "opt" => ThinDeclared /\ LinesDeclared

LEMMA LinkOf == ASSUME link \in Links
  PROVE  /\ link.linkables \in Seq(Range(link.linkables)) /\ link.darwin \in BOOLEAN
         /\ \A i \in Linkables : IsSequence(Members(i))
         /\ \A u \in link.lto : link.imports[u] \in Seq(link.lto)
         /\ DOMAIN link.imports = link.lto
<1>1. \A i \in Linkables : link.linkables[i] \in Range(link.linkables)
  BY Zenon DEF Linkables, Range
<1>2. QED BY <1>1, LinkAssumption DEF Members, IsSequence

LEMMA OfItsRange ==
  ASSUME NEW S, NEW t \in Seq(S)
  PROVE  IsSequence(t) /\ Range(t) \subseteq S /\ DOMAIN t = 1..Len(t)
BY DEF Range, IsSequence

LEMMA JoinIsSequence ==
  ASSUME NEW ss, IsSequence(ss), \A i \in DOMAIN ss : IsSequence(ss[i])
  PROVE  /\ IsSequence(FlattenSeq(ss))
         /\ \A x : x \in Range(FlattenSeq(ss)) <=> \E i \in DOMAIN ss : x \in Range(ss[i])
<1> DEFINE S == UNION {Range(ss[i]) : i \in DOMAIN ss}
<1>1. DOMAIN ss = 1..Len(ss) /\ \A i \in DOMAIN ss : Range(ss[i]) \subseteq S
  BY DEF IsSequence
<1>2. \A T, U : T \subseteq U => Seq(T) \subseteq Seq(U)
  OBVIOUS
<1>3. \A i \in 1..Len(ss) : ss[i] \in Seq(S)
  BY <1>1, <1>2, Zenon DEF IsSequence
<1> HIDE DEF S
<1>4. ss \in Seq(Seq(S))
  BY <1>3 DEF IsSequence
<1>5. FlattenSeq(ss) \in Seq(S) /\ \A x : x \in Range(FlattenSeq(ss)) <=> \E i \in 1..Len(ss) : x \in Range(ss[i])
  BY <1>4, FlattenIs
<1>6. IsSequence(FlattenSeq(ss))
  BY <1>5, OfItsRange
<1>7. QED BY <1>1, <1>5, <1>6

LEMMA OnlyIsSequence ==
  ASSUME NEW s, IsSequence(s), NEW S
  PROVE  /\ IsSequence(Only(s, S))
         /\ \A x : x \in Range(Only(s, S)) <=> x \in Range(s) /\ x \in S
<1> DEFINE t == Only(s, S)
<1>1. /\ t \in Seq(Range(s)) /\ \A i \in 1..Len(t) : t[i] \in S /\ \E k \in 1..Len(s) : s[k] = t[i]
      /\ \A k \in 1..Len(s) : s[k] \in S => \E i \in 1..Len(t) : t[i] = s[k]
  BY OnlyType, OnlyElements DEF IsSequence
<1>2. DOMAIN s = 1..Len(s)
  BY DEF IsSequence
<1> HIDE DEF t
<1>3. DOMAIN t = 1..Len(t) /\ IsSequence(t)
  BY <1>1, OfItsRange
<1>4. ASSUME NEW x, x \in Range(t) PROVE x \in Range(s) /\ x \in S
  BY <1>1, <1>2, <1>3, <1>4, Zenon DEF Range
<1>5. ASSUME NEW x \in S, x \in Range(s) PROVE x \in Range(t)
  BY <1>1, <1>2, <1>3, <1>5, Zenon DEF Range
<1>6. QED BY <1>3, <1>4, <1>5 DEF t

\* A list with a value for each position of another.
LEMMA Mapped ==
  ASSUME NEW s, IsSequence(s), NEW t, t = [k \in DOMAIN s |-> t[k]]
  PROVE  IsSequence(t) /\ DOMAIN t = DOMAIN s
<1>1. DOMAIN s = 1..Len(s) /\ Len(s) \in Nat
  BY DEF IsSequence
<1>2. DOMAIN t = DOMAIN s
  OBVIOUS
<1>3. \A k \in 1..Len(s) : t[k] \in Range(t)
  BY <1>1, <1>2, Zenon DEF Range
<1>4. t = [k \in 1..Len(s) |-> t[k]]
  BY <1>1
<1>5. QED BY <1>1, <1>2, <1>3, <1>4 DEF IsSequence

LEMMA Appended ==
  ASSUME NEW s, NEW t, IsSequence(s), IsSequence(t)
  PROVE  IsSequence(s \o t) /\ \A x \in Range(s \o t) : x \in Range(s) \/ x \in Range(t)
<1>1. s \in Seq(Range(s) \cup Range(t)) /\ t \in Seq(Range(s) \cup Range(t))
  BY DEF IsSequence
<1>2. s \o t \in Seq(Range(s) \cup Range(t))
  BY <1>1
<1>3. QED BY <1>1, <1>2, OfItsRange, JoinedRange

-----------------------------------------------------------------------------
\* What is unpacked of an archive is a list of names.
LEMMA ExtractedIs ==
  ASSUME link \in Links, NEW i \in Linkables
  PROVE  IsSequence(Extract(i).known) /\ IsSequence(ListThin(i).known)
<1> DEFINE names == Names(i)
           positions == [k \in DOMAIN names |-> k]
           at == Only(positions, {k \in DOMAIN names : \A l \in 1..k - 1 : names[l] # names[k]})
           firsts == Firsts(names)
           All(n) == Instances(i, firsts[n])
           moved == [n \in DOMAIN firsts |-> IF Len(All(n)) = 1 THEN <<>>
                       ELSE [k \in DOMAIN All(n) |-> <<GenFilename(All(n)[k][1], k), All(n)[k][2], k>>]]
           extras == Only(Moves(i), {m \in Range(Moves(i)) : m[3] > 1})
           others == [k \in DOMAIN extras |-> extras[k][1]]
<1>1. IsSequence(Members(i))
  BY LinkOf
<1>2. IsSequence(names)
  <2>1. names = [k \in DOMAIN Members(i) |-> names[k]]
    BY DEF Names
  <2>2. QED BY <1>1, <2>1, Mapped
<1>3. IsSequence(positions)
  <2>1. positions = [k \in DOMAIN names |-> positions[k]]
    OBVIOUS
  <2>2. QED BY <1>2, <2>1, Mapped
<1>4. IsSequence(at)
  BY <1>3, OnlyIsSequence
<1>5. IsSequence(firsts)
  <2>1. firsts = [n \in DOMAIN at |-> names[at[n]]]
    BY Zenon DEF Firsts
  <2> HIDE DEF firsts, at
  <2>2. firsts = [n \in DOMAIN at |-> firsts[n]]
    BY <2>1
  <2>3. QED BY <1>4, <2>2, Mapped
<1>6. ASSUME NEW n \in DOMAIN firsts PROVE IsSequence(moved[n])
  <2>1. IsSequence(All(n))
    BY <1>1, OnlyIsSequence DEF Instances
  <2> DEFINE some == [k \in DOMAIN All(n) |-> <<GenFilename(All(n)[k][1], k), All(n)[k][2], k>>]
  <2>2. IsSequence(some)
    <3>1. some = [k \in DOMAIN All(n) |-> some[k]]
      BY Zenon
    <3> HIDE DEF some, All
    <3>2. QED BY <2>1, <3>1, Mapped
  <2>3. IsSequence(<<>>)
    BY DEF IsSequence
  <2>4. moved[n] = IF Len(All(n)) = 1 THEN <<>>
                   ELSE [k \in DOMAIN All(n) |-> <<GenFilename(All(n)[k][1], k), All(n)[k][2], k>>]
    OBVIOUS
  <2>5. QED BY <2>2, <2>3, <2>4, Zenon
<1>7. IsSequence(moved) /\ DOMAIN moved = DOMAIN firsts
  <2>1. moved = [n \in DOMAIN firsts |-> moved[n]]
    BY Zenon
  <2> HIDE DEF moved, firsts
  <2>2. QED BY <1>5, <2>1, Mapped
<1>8. Moves(i) = FlattenSeq(moved)
  BY Zenon DEF Moves
<1>9. IsSequence(Moves(i))
  BY <1>6, <1>7, <1>8, JoinIsSequence
<1>10. IsSequence(extras)
  BY <1>9, OnlyIsSequence
<1>11. IsSequence(others)
  <2>1. others = [k \in DOMAIN extras |-> others[k]]
    BY Zenon
  <2> HIDE DEF others, extras
  <2>2. QED BY <1>10, <2>1, Mapped
<1>12. Extract(i).known = firsts \o others
  BY Zenon DEF Extract
<1> HIDE DEF firsts, others
<1>13. IsSequence(firsts \o others)
  BY <1>5, <1>11, Appended
<1>14. ListThin(i).known = names
  BY Zenon DEF ListThin
<1>15. QED BY <1>2, <1>12, <1>13, <1>14

Unpacked == link \in Links /\ DOMAIN prepared = ArchiveIds /\ \A i \in DOMAIN prepared : IsSequence(prepared[i].known)

LEMMA AllFilesAre ==
  ASSUME Unpacked
  PROVE  IsSequence(AllFiles) /\ \A p \in Range(AllFiles) : IsFile(p)
<1> DEFINE all == [i \in Linkables |-> Files(i)]
<1>1. link.linkables \in Seq(Range(link.linkables)) /\ IsSequence(link.linkables)
  BY LinkOf DEF IsSequence, Unpacked
<1>2. IsSequence(all) /\ DOMAIN all = Linkables
  <2>1. all = [i \in DOMAIN link.linkables |-> all[i]]
    BY Zenon DEF Linkables
  <2> HIDE DEF all
  <2>2. QED BY <1>1, <2>1, Mapped DEF Linkables
<1>3. ASSUME NEW i \in Linkables PROVE IsSequence(Files(i)) /\ \A p \in Range(Files(i)) : IsFile(p)
  <2>1. CASE IsArchive(i)
    <3> DEFINE known == prepared[i].known
               files == [k \in DOMAIN known |-> <<Directory(i), i, known[k]>>]
    <3>1. IsSequence(known)
      BY <2>1 DEF Unpacked, ArchiveIds
    <3>2. Files(i) = files
      BY <2>1, Zenon DEF Files
    <3>3. IsSequence(files)
      <4>1. files = [k \in DOMAIN known |-> files[k]]
        BY Zenon
      <4> HIDE DEF files, known
      <4>2. QED BY <3>1, <4>1, Mapped
    <3>4. \A k \in DOMAIN files : files[k] = <<Directory(i), i, known[k]>>
      BY Zenon
    <3>5. \A p \in Range(files) : \E k \in DOMAIN files : p = <<Directory(i), i, known[k]>>
      BY <3>4, Zenon DEF Range
    <3>6. \A p \in Range(files) : IsFile(p)
      BY <2>1, <3>5 DEF IsFile
    <3>7. QED BY <3>2, <3>3, <3>6, Zenon
  <2>2. CASE ~IsArchive(i)
    <3>1. Files(i) = <<<<"object", i, <<>>>>>>
      BY <2>2, Zenon DEF Files
    <3>2. Range(Files(i)) = {<<"object", i, <<>>>>} /\ IsSequence(Files(i))
      BY <3>1 DEF Range, IsSequence
    <3>3. QED BY <2>2, <3>2 DEF IsFile
  <2>3. QED BY <2>1, <2>2
<1>4. AllFiles = FlattenSeq(all)
  BY Zenon DEF AllFiles
<1>5. \A i \in Linkables : all[i] = Files(i)
  BY Zenon
<1> HIDE DEF all
<1>6. IsSequence(AllFiles) /\ \A x \in Range(AllFiles) : \E i \in Linkables : x \in Range(Files(i))
  BY <1>2, <1>3, <1>4, <1>5, JoinIsSequence
<1>7. QED BY <1>3, <1>6

\* A file that the thin link takes code from is one that the planner finds.
LEMMA ImportsAreRead ==
  ASSUME Unpacked, NEW p \in Range(AllFiles), Bitcode(p), NEW q \in Range(ImportLines(p))
  PROVE  \E r \in Range(ReadImports(p)) : r \in Range(AllFiles) /\ q = ImportPath(r)
<1> DEFINE of == Only(link.imports[UnitAt(p)], {u \in link.lto : PathsOf(u) # {}})
           lines == ImportLines(p)
           read == ReadImports(p)
           Found(k, r) == r \in Range(AllFiles) /\ Bitcode(r) /\ ImportPath(r) = lines[k]
<1>1. IsSequence(link.imports[UnitAt(p)])
  BY LinkOf, OfItsRange DEF Unpacked, Bitcode
<1>2. \A x \in Range(of) : x \in link.lto /\ PathsOf(x) # {}
  <2>1. \A x : x \in Range(of) => x \in {u \in link.lto : PathsOf(u) # {}}
    BY <1>1, OnlyIsSequence, Zenon
  <2>2. QED BY <2>1, Zenon
<1> HIDE DEF of
<1>3. DOMAIN lines = DOMAIN of /\ \A k \in DOMAIN of : lines[k] = ImportPath(CHOOSE x \in PathsOf(of[k]) : TRUE)
  BY Zenon DEF ImportLines, of
<1>4. DOMAIN read = DOMAIN lines
  BY Zenon DEF ReadImports
<1>5. \A k \in DOMAIN lines : read[k] = CHOOSE x \in {y \in Range(AllFiles) : Bitcode(y)} : ImportPath(x) = lines[k]
  BY Zenon DEF ReadImports
<1> HIDE DEF lines, read
<1>6. PICK k \in DOMAIN lines : q = lines[k]
  BY Zenon DEF Range, lines
<1>7. PICK x : x \in PathsOf(of[k]) /\ lines[k] = ImportPath(x)
  <2>1. of[k] \in Range(of)
    BY <1>3, Zenon DEF Range
  <2>2. PathsOf(of[k]) # {}
    BY <1>2, <2>1, Zenon
  <2>3. (CHOOSE y \in PathsOf(of[k]) : TRUE) \in PathsOf(of[k])
    BY <2>2, Zenon
  <2>4. QED BY <1>3, <2>3, Zenon
<1>8. Found(k, x)
  <2>1. of[k] \in link.lto
    BY <1>2, <1>3, Zenon DEF Range
  <2>2. x \in Range(AllFiles) /\ UnitAt(x) = of[k]
    BY <1>7, Zenon DEF PathsOf
  <2>3. QED BY <1>7, <2>1, <2>2, Zenon DEF Bitcode
<1>9. Found(k, read[k])
  BY <1>5, <1>8, Zenon
<1>10. read[k] \in Range(read)
  BY <1>4, Zenon DEF Range
<1>11. QED BY <1>6, <1>9, <1>10, Zenon DEF read

LEMMA ImportsDeclared ==
  ASSUME LinkInv, Plan, NEW p \in Range(AllFiles), Bitcode(p), NEW q \in Range(ImportLines(p))
  PROVE  q[1] = "member" \/ <<q[1], q[2]>> \in Declares(p)'
<1>0. Unpacked /\ link' = link /\ plan' = Planned
  BY DEF Plan, LinkInv, Unpacked
<1>1. PICK r \in Range(ReadImports(p)) : r \in Range(AllFiles) /\ q = ImportPath(r)
  BY <1>0, ImportsAreRead
<1>2. IsFile(r)
  BY <1>0, <1>1, AllFilesAre
<1>3. q[2] = r[2] /\ (q[1] = r[1] \/ (link.premerger /\ q[1] = "merged"))
  <2>1. \/ q = r
        \/ link.premerger /\ q = <<"merged", r[2], r[3]>>
    BY <1>1, Zenon DEF ImportPath
  <2>2. QED BY <2>1
<1> DEFINE deps == plan'.objects[p].deps
<1>4. deps = Imports(p)
  <2>1. plan'.objects = [x \in Range(AllFiles) |-> ObjectPlan(x)]
    BY <1>0 DEF Planned
  <2>2. plan'.objects[p] = ObjectPlan(p)
    BY <2>1, Zenon
  <2>3. QED BY <2>2 DEF ObjectPlan
<1>5. IF IsArchive(r[2]) THEN r[2] \in deps.archives /\ r[1] \in {"objects", "member"}
                         ELSE r[2] \in deps.imports /\ r[1] = "object"
  <2>1. /\ deps.imports = {x[2] : x \in {y \in Range(ReadImports(p)) : ~IsArchive(y[2])}}
        /\ deps.archives = {x[2] : x \in {y \in Range(ReadImports(p)) : IsArchive(y[2])}}
    BY <1>4 DEF Imports
  <2>2. r[1] = IF IsArchive(r[2]) THEN Directory(r[2]) ELSE "object"
    BY <1>2 DEF IsFile
  <2>3. Directory(r[2]) \in {"objects", "member"}
    BY DEF Directory
  <2>4. QED BY <2>1, <2>2, <2>3, Zenon
<1>6. /\ {<<"object", i>> : i \in deps.imports} \subseteq Declares(p)'
      /\ {<<"objects", i>> : i \in deps.archives} \subseteq Declares(p)'
      /\ link.premerger => {<<"merged", i>> : i \in deps.imports \cup deps.archives} \subseteq Declares(p)'
  BY <1>0 DEF Declares
<1> HIDE DEF deps
<1>7. QED BY <1>3, <1>5, <1>6, Zenon

LEMMA FinalLinesDeclared == ASSUME LinkInv, Plan PROVE LinesDeclared'
<1>0. Unpacked /\ link' = link /\ prepared' = prepared /\ plan' = Planned
  BY DEF Plan, LinkInv, Unpacked
<1>1. IsSequence(AllFiles) /\ \A p \in Range(AllFiles) : IsFile(p)
  BY <1>0, AllFilesAre
<1> DEFINE crt == IF link.darwin THEN <<>> ELSE <<<<"crt", 0, <<>>>>>>
           own == Only(AllFiles, {x \in Range(AllFiles) : Loaded(x)})
           full == FullLines
           kept == Only(full, {x \in Range(full) : ~Dropped(x)})
<1>2. IsSequence(own) /\ \A x \in Range(own) : x \in Range(AllFiles) /\ Loaded(x)
  BY <1>1, OnlyIsSequence
<1>3. IsSequence(crt) /\ \A x \in Range(crt) : x = <<"crt", 0, <<>>>> /\ ~link.darwin
  <2>1. CASE link.darwin
    BY <2>1 DEF IsSequence, Range
  <2>2. CASE ~link.darwin
    <3>1. crt = <<<<"crt", 0, <<>>>>>>
      BY <2>2
    <3> HIDE DEF crt
    <3>2. IsSequence(crt) /\ Range(crt) = {<<"crt", 0, <<>>>>}
      BY <3>1 DEF IsSequence, Range
    <3>3. QED BY <2>2, <3>2
  <2>3. QED BY <2>1, <2>2
<1>4. IsSequence(full) /\ \A x \in Range(full) : x \in Range(crt) \/ x \in Range(own)
  <2>1. full = crt \o own
    BY Zenon DEF FullLines
  <2> HIDE DEF full, crt, own
  <2>2. QED BY <1>2, <1>3, <2>1, Appended
<1> HIDE DEF full, own
<1>5. IsSequence(kept) /\ \A x \in Range(kept) : x \in Range(full) /\ ~Dropped(x)
  <2>1. \A x : x \in Range(kept) => x \in Range(full) /\ x \in {y \in Range(full) : ~Dropped(y)}
    BY <1>4, OnlyIsSequence, Zenon
  <2>2. QED BY <1>4, <2>1, OnlyIsSequence
<1>6. \A x \in Range(kept) : x \in Range(AllFiles) /\ Loaded(x)
  <2>1. \A x \in Range(crt) : Dropped(x)
    BY <1>3 DEF Dropped
  <2> HIDE DEF kept, crt
  <2>2. QED BY <1>2, <1>4, <1>5, <2>1
<1>7. \A x \in Range(IndexLines) : x \in Range(AllFiles) /\ Bitcode(x)
  BY <1>1, OnlyIsSequence DEF IndexLines
<1>8. \A x \in Range(AllFiles) : Loaded(x) /\ Bitcode(x) => x \in Range(IndexLines)
  BY <1>1, OnlyIsSequence DEF IndexLines
<1>9. /\ plan'.lines = FinalLines
      /\ plan'.index = {x[2] : x \in Range(IndexLines)}
      /\ plan'.nonLto = {i \in Linkables : ~IsArchive(i) /\ ~Bitcode(Files(i)[1])}
  BY <1>0 DEF Planned
<1>10. ASSUME NEW line \in Range(FinalLines) PROVE \E x \in Range(kept) : line = FinalLine(x)
  <2>1. FinalLines = [k \in DOMAIN kept |-> FinalLine(kept[k])]
    BY Zenon DEF FinalLines, full
  <2> HIDE DEF kept
  <2>2. QED BY <2>1, Zenon DEF Range
<1>11. ASSUME NEW line \in Range(FinalLines)
       PROVE  line[1] = "member" \/ Native(line)' \/ line \in LinkInputs' \/ InOptDir(line)'
  <2>1. PICK x \in Range(kept) : line = FinalLine(x)
    BY <1>10, <1>11
  <2>2. x \in Range(AllFiles) /\ Loaded(x) /\ IsFile(x)
    BY <1>1, <1>6, <2>1
  <2> HIDE DEF kept
  <2>3. CASE x \in Range(IndexLines)
    <3>1. line = OptPath(x) /\ x[2] \in plan'.index
      BY <1>9, <2>1, <2>3, Zenon DEF FinalLine
    <3>2. CASE IsArchive(x[2])
      BY <1>0, <2>2, <3>1, <3>2 DEF OptPath, InOptDir, IsFile, ArchiveIds, IsArchive, Linkables
    <3>3. CASE ~IsArchive(x[2])
      <4>1. line = <<"opt", x[2], <<>>>> /\ x[2] \in (Linkables \ ArchiveIds)'
        BY <1>0, <2>2, <3>1, <3>3 DEF OptPath, IsFile, ArchiveIds, IsArchive, Linkables
      <4>2. QED BY <3>1, <4>1 DEF LinkInputs
    <3>4. QED BY <3>2, <3>3
  <2>4. CASE x \notin Range(IndexLines)
    <3>1. line = x /\ ~Bitcode(x)
      BY <1>8, <2>1, <2>2, <2>4, Zenon DEF FinalLine
    <3>2. CASE IsArchive(x[2])
      <4>1. x[1] \in {"objects", "member"}
        BY <2>2, <3>2 DEF IsFile, Directory
      <4>2. UnitAt(x)' = UnitAt(x)
        BY <1>0 DEF UnitAt, Instances, Members
      <4>3. Bitcode(x)' <=> Bitcode(x)
        BY <1>0, <4>2 DEF Bitcode
      <4>4. QED BY <3>1, <4>1, <4>3 DEF Native
    <3>3. CASE ~IsArchive(x[2])
      <4>1. x[2] \in Linkables /\ x = <<"object", x[2], <<>>>>
        BY <2>2, <3>3, Zenon DEF IsFile
      <4>2. Files(x[2])[1] = x
        <5>1. Files(x[2]) = <<x>>
          BY <3>3, <4>1, Zenon DEF Files
        <5>2. QED BY <5>1
      <4>3. x[2] \in plan'.nonLto
        BY <1>9, <3>1, <3>3, <4>1, <4>2, Zenon
      <4>4. x[2] \notin plan'.index
        <5>1. ASSUME NEW y \in Range(IndexLines), y[2] = x[2] PROVE FALSE
          <6>1. y \in Range(AllFiles) /\ Bitcode(y) /\ IsFile(y)
            BY <1>1, <1>7, <5>1
          <6>2. y = <<"object", x[2], <<>>>>
            BY <3>3, <5>1, <6>1 DEF IsFile
          <6>3. QED BY <3>1, <4>1, <6>1, <6>2, Zenon
        <5>2. QED BY <1>9, <5>1, Zenon
      <4>5. QED BY <3>1, <4>1, <4>3, <4>4 DEF LinkInputs
    <3>4. QED BY <3>2, <3>3
  <2>5. QED BY <2>3, <2>4
<1>12. QED BY <1>9, <1>11 DEF LinesDeclared

LEMMA PlanKeepsLink == ASSUME LinkInv, Plan PROVE LinkInv'
<1>1. /\ link' = link /\ prepared' = prepared /\ plan' = Planned /\ Unpacked
      /\ undeclared' = undeclared \cup {p \in Range(AllFiles) : p[1] = "member"}
  BY DEF Plan, LinkInv, Unpacked
<1>2. plan'.objects = [p \in Range(AllFiles) |-> ObjectPlan(p)]
      /\ plan'.thin = [p \in {x \in Range(AllFiles) : Bitcode(x)} |-> ImportLines(p)]
  BY <1>1 DEF Planned
<1>3. ASSUME NEW p \in DOMAIN plan'.objects
      PROVE  /\ IsFile(p)'
             /\ plan'.objects[p].bc => \A q \in Range(plan'.thin[p]) :
                                        q[1] = "member" \/ <<q[1], q[2]>> \in Declares(p)'
  <2>1. p \in Range(AllFiles) /\ plan'.objects[p] = ObjectPlan(p)
    BY <1>2, <1>3, Zenon
  <2>2. IsFile(p)'
    BY <1>1, <2>1, AllFilesAre DEF IsFile, Linkables, IsArchive, Directory, IsThin
  <2>3. ASSUME plan'.objects[p].bc, NEW q \in Range(plan'.thin[p])
        PROVE  q[1] = "member" \/ <<q[1], q[2]>> \in Declares(p)'
    <3>1. Bitcode(p)
      BY <2>1, <2>3 DEF ObjectPlan
    <3>2. plan'.thin[p] = ImportLines(p)
      BY <1>2, <2>1, <3>1, Zenon
    <3>3. QED BY <2>1, <2>3, <3>1, <3>2, ImportsDeclared
  <2>4. QED BY <2>2, <2>3
<1>4. ThinDeclared'
  BY <1>3 DEF ThinDeclared
<1>5. LinesDeclared'
  BY FinalLinesDeclared
<1>6. OnlyMembers'
  BY <1>1 DEF Plan, LinkInv, OnlyMembers
<1>7. QED BY <1>1, <1>4, <1>5, <1>6 DEF LinkInv, OnlyMembers, InputsDeclared

LEMMA PrepareKeepsLink == ASSUME LinkInv, NEW i \in Linkables, PrepareArchive(i) PROVE LinkInv'
<1>1. /\ link' = link /\ phase = "prepare" /\ phase' = "prepare"
      /\ prepared' = [j \in DOMAIN prepared \cup {i} |->
                        IF j # i THEN prepared[j] ELSE IF IsThin(i) THEN ListThin(i) ELSE Extract(i)]
      /\ undeclared' = undeclared \cup (IF IsThin(i) THEN MemberPaths(i) ELSE {})
  BY DEF PrepareArchive
<1>2. IsSequence(Extract(i).known) /\ IsSequence(ListThin(i).known)
  BY ExtractedIs DEF LinkInv
<1>3. \A j \in DOMAIN prepared' : IsSequence(prepared'[j].known)
  BY <1>1, <1>2, Zenon DEF LinkInv
<1>4. OnlyMembers'
  BY <1>1 DEF LinkInv, OnlyMembers, MemberPaths
<1>5. QED BY <1>1, <1>3, <1>4 DEF LinkInv, OnlyMembers, InputsDeclared

LEMMA SamePlanDeclares ==
  ASSUME LinkInv, link' = link, plan' = plan, prepared' = prepared, phase = "opt",
         phase' \in {"opt", "linked", "failed"}, InputsDeclared', phase' = "opt" => OnlyMembers'
  PROVE  LinkInv'
<1>1. \A p : (p \in LinkInputs <=> (p \in LinkInputs)') /\ (InOptDir(p) <=> InOptDir(p)')
             /\ (IsFile(p) <=> IsFile(p)') /\ Declares(p)' = Declares(p)
  BY DEF LinkInputs, InOptDir, IsFile, Declares, BitcodeInput, Linkables, ArchiveIds, IsArchive, Directory, IsThin
<1>2. \A p : Native(p) <=> Native(p)'
  <2>1. \A p : UnitAt(p)' = UnitAt(p)
    BY DEF UnitAt, Instances, Members
  <2>2. QED BY <2>1 DEF Native, Bitcode
<1>3. ThinDeclared /\ LinesDeclared /\ link \in Links /\ \A i \in DOMAIN prepared : IsSequence(prepared[i].known)
  BY DEF LinkInv
<1>4. ThinDeclared'
  BY <1>1, <1>3 DEF ThinDeclared
<1>5. LinesDeclared'
  BY <1>2, <1>1, <1>3 DEF LinesDeclared
<1>6. QED BY <1>3, <1>4, <1>5 DEF LinkInv

LEMMA OptimiseDeclares == ASSUME LinkInv, NEW p \in DOMAIN plan.objects, Optimise(p) PROVE OnlyMembers'
<1>1. plan.objects[p].bc /\ ~Outside(p) /\ OnlyMembers /\ ThinDeclared
  BY DEF Optimise, Pending, LinkInv
<1>2. undeclared' = undeclared \cup {q \in Needs(p) : <<q[1], q[2]>> \notin Declares(p)}
  BY DEF Optimise
<1>3. IsFile(p) /\ \A q \in Range(plan.thin[p]) : q[1] = "member" \/ <<q[1], q[2]>> \in Declares(p)
  BY <1>1 DEF ThinDeclared
<1>4. <<BitcodeInput(p)[1], BitcodeInput(p)[2]>> \in Declares(p)
  <2>1. BitcodeInput(p)[2] = p[2] /\ (BitcodeInput(p)[1] = "merged" \/ BitcodeInput(p)[1] = p[1])
    BY DEF BitcodeInput
  <2>2. CASE IsArchive(p[2])
    <3>1. p[1] = "objects"
      <4>1. p[1] # "member"
        BY <1>1, Zenon DEF Outside
      <4>2. QED BY <1>3, <2>2, <4>1 DEF IsFile, Directory
    <3>2. {<<"objects", p[2]>>, <<"merged", p[2]>>} \subseteq Declares(p)
      BY <2>2 DEF Declares
    <3>3. QED BY <2>1, <3>1, <3>2
  <2>3. CASE ~IsArchive(p[2])
    <3>1. <<BitcodeInput(p)[1], p[2]>> \in Declares(p)
      BY <2>3 DEF Declares
    <3>2. QED BY <2>1, <3>1
  <2>4. QED BY <2>2, <2>3
<1>5. \A q \in Needs(p) : q[1] = "member" \/ <<q[1], q[2]>> \in Declares(p)
  BY <1>3, <1>4, Zenon DEF Needs
<1>6. QED BY <1>1, <1>2, <1>5 DEF OnlyMembers

LEMMA FinalLinkDeclares == ASSUME LinkInv, FinalLink PROVE InputsDeclared'
<1>1. OnlyMembers /\ LinesDeclared /\ link' = link /\ prepared' = prepared
  BY DEF FinalLink, LinkInv
<1>2. undeclared' = undeclared \cup {p \in Range(plan.lines) : p \notin LinkInputs /\ ~InOptDir(p)}
  BY DEF FinalLink
<1>3. \A p : Native(p) => Native(p)'
  <2>1. \A p : UnitAt(p)' = UnitAt(p)
    BY <1>1 DEF UnitAt, Instances, Members
  <2>2. QED BY <1>1, <2>1 DEF Native, Bitcode
<1>4. QED BY <1>1, <1>2, <1>3 DEF LinesDeclared, OnlyMembers, InputsDeclared

\* No action of a distributed link reads a file that it did not declare, though
\* what the thin link imports is known only when the plan is there: the plan's
\* imports are split as the actions find them, merged files are mapped back,
\* and each line of the final index is an optimised, copied or native object.
\* Not declared are the members of thin archives, which are read where they
\* are, and of the final link the native members of archives.
THEOREM LinkReadsWhatItDeclares == LinkSpec => []InputsDeclared
<1>1. LinkInit => LinkInv
  <2>1. LinkInit => link \in Links /\ undeclared = {} /\ phase = "prepare" /\ prepared = <<>>
    BY DEF LinkInit
  <2>2. DOMAIN <<>> = {}
    OBVIOUS
  <2>3. QED BY <2>1, <2>2 DEF LinkInv, OnlyMembers, InputsDeclared
<1>2. LinkInv /\ [LinkNext]_linkVars => LinkInv'
  <2> SUFFICES ASSUME LinkInv, [LinkNext]_linkVars PROVE LinkInv'
    OBVIOUS
  <2>1. CASE \E i \in Linkables : PrepareArchive(i)
    BY <2>1, PrepareKeepsLink
  <2>7. CASE \E i \in Linkables : PrepareFails(i)
    BY <2>7 DEF PrepareFails, LinkInv, InputsDeclared, OnlyMembers, Native, Bitcode, UnitAt
  <2>2. CASE Plan
    BY <2>2, PlanKeepsLink
  <2>3. ASSUME NEW p \in DOMAIN plan.objects, Copy(p) \/ Skip(p) \/ OutsideFails(p) \/ Optimise(p) PROVE LinkInv'
    <3>1. link' = link /\ plan' = plan /\ prepared' = prepared /\ phase = "opt" /\ phase' \in {"opt", "failed"}
      BY <2>3, Zenon DEF Copy, Skip, OutsideFails, Optimise, Pending
    <3>2. OnlyMembers'
      <4>1. CASE Optimise(p)
        BY <4>1, OptimiseDeclares
      <4>2. CASE Copy(p) \/ Skip(p) \/ OutsideFails(p)
        BY <3>1, <4>2 DEF Copy, Skip, OutsideFails, LinkInv, OnlyMembers
      <4>3. QED BY <2>3, <4>1, <4>2
    <3>3. InputsDeclared'
      BY <3>2 DEF OnlyMembers, InputsDeclared
    <3>4. QED BY <3>1, <3>2, <3>3, SamePlanDeclares
  <2>4. CASE FinalLink
    <3>1. link' = link /\ plan' = plan /\ prepared' = prepared /\ phase = "opt" /\ phase' = "linked"
      BY <2>4 DEF FinalLink
    <3>2. QED BY <2>4, <3>1, FinalLinkDeclares, SamePlanDeclares
  <2>5. CASE UNCHANGED linkVars
    <3>1. link' = link /\ plan' = plan /\ prepared' = prepared /\ phase' = phase /\ undeclared' = undeclared
      BY <2>5 DEF linkVars
    <3>2. InputsDeclared' /\ (OnlyMembers => OnlyMembers')
      BY <3>1 DEF LinkInv, InputsDeclared, OnlyMembers, Native, Bitcode, UnitAt, Instances, Members
    <3>3. CASE phase # "opt"
      BY <3>1, <3>2, <3>3 DEF LinkInv
    <3>4. CASE phase = "opt"
      BY <3>1, <3>2, <3>4, SamePlanDeclares DEF LinkInv
    <3>5. QED BY <3>3, <3>4
  <2>6. QED BY <2>1, <2>2, <2>3, <2>4, <2>5, <2>7 DEF LinkNext
<1>3. LinkInv => InputsDeclared
  BY DEF LinkInv, InputsDeclared
<1>4. QED BY <1>1, <1>2, <1>3, PTL DEF LinkSpec

-----------------------------------------------------------------------------
(* Loading: what is loaded was asked for. *)

Lists(ss) == IsSequence(ss) /\ \A g \in DOMAIN ss : IsSequence(ss[g])
Holds(ss, x) == \E g \in DOMAIN ss : x \in Range(ss[g])

LEMMA ProgramOf == ASSUME NEW p \in Programs
  PROVE  /\ IsSequence(p.modules) /\ p.args \in Seq(Seq(STRING))
         /\ \A i, j \in DOMAIN p.modules : i # j => p.modules[i].name # p.modules[j].name
         /\ \A i \in DOMAIN p.modules :
              /\ p.modules[i].name \in Seq(STRING) /\ IsSequence(p.modules[i].classes)
              /\ \A j \in DOMAIN p.modules[i].classes :
                   /\ p.modules[i].classes[j].name \in STRING /\ IsSequence(p.modules[i].classes[j].tests)
                   /\ \A k \in DOMAIN p.modules[i].classes[j].tests : p.modules[i].classes[j].tests[k].name \in STRING
<1>1. \A i \in DOMAIN p.modules : p.modules[i] \in Range(p.modules)
  BY Zenon DEF Range
<1>2. \A i \in DOMAIN p.modules : \A j \in DOMAIN p.modules[i].classes :
        /\ p.modules[i].classes[j] \in Range(p.modules[i].classes)
        /\ \A k \in DOMAIN p.modules[i].classes[j].tests :
             p.modules[i].classes[j].tests[k] \in Range(p.modules[i].classes[j].tests)
  BY Zenon DEF Range
<1>3. /\ IsSequence(p.modules) /\ p.args \in Seq(Seq(STRING))
      /\ \A i, j \in DOMAIN p.modules : i # j => p.modules[i].name # p.modules[j].name
  BY ProgramAssumption, Zenon DEF IsSequence
<1>4. \A m \in Range(p.modules) :
        /\ m.name \in Seq(STRING) /\ IsSequence(m.classes)
        /\ \A c \in Range(m.classes) : /\ c.name \in STRING /\ IsSequence(c.tests)
                                       /\ \A t \in Range(c.tests) : t.name \in STRING
  BY ProgramAssumption, Zenon DEF IsSequence
<1>5. QED BY <1>1, <1>2, <1>3, <1>4, Zenon

LEMMA TestsAre == ASSUME NEW p
  PROVE  \A t : t \in Tests(p) <=> \E i \in DOMAIN p.modules : \E j \in DOMAIN p.modules[i].classes :
                                     \E k \in DOMAIN p.modules[i].classes[j].tests : t = <<i, j, k>>
<1> DEFINE At(i, j) == {<<i, j, k>> : k \in DOMAIN p.modules[i].classes[j].tests}
           In(i) == UNION {At(i, j) : j \in DOMAIN p.modules[i].classes}
<1>1. Tests(p) = UNION {In(i) : i \in DOMAIN p.modules}
  BY Zenon DEF Tests
<1>2. \A i, j, t : t \in At(i, j) <=> \E k \in DOMAIN p.modules[i].classes[j].tests : t = <<i, j, k>>
  BY Zenon
<1> HIDE DEF At
<1>3. \A i, t : t \in In(i) <=> \E j \in DOMAIN p.modules[i].classes : t \in At(i, j)
  BY Zenon
<1> HIDE DEF In
<1>4. \A t : t \in Tests(p) <=> \E i \in DOMAIN p.modules : t \in In(i)
  BY <1>1, Zenon
<1>5. \A i, t : t \in In(i) <=> \E j \in DOMAIN p.modules[i].classes :
                 \E k \in DOMAIN p.modules[i].classes[j].tests : t = <<i, j, k>>
  BY <1>2, <1>3
<1>6. QED BY <1>4, <1>5

LEMMA TestsOfAre ==
  ASSUME NEW p \in Programs, NEW i \in DOMAIN p.modules, NEW j \in DOMAIN p.modules[i].classes
  PROVE  /\ IsSequence(TestsOf(p, i, j))
         /\ \A t : t \in Range(TestsOf(p, i, j)) <=>
                     t \in Tests(p) /\ t[1] = i /\ t[2] = j /\ Case(p, t).name \in p.regex
<1> DEFINE tests == p.modules[i].classes[j].tests
           every == [k \in DOMAIN tests |-> <<i, j, k>>]
<1>1. IsSequence(tests)
  BY ProgramOf
<1>2. IsSequence(every)
  <2>1. every = [k \in DOMAIN tests |-> every[k]]
    BY Zenon
  <2> HIDE DEF every, tests
  <2>2. QED BY <1>1, <2>1, Mapped
<1>3. \A t : t \in Range(every) <=> \E k \in DOMAIN tests : t = <<i, j, k>>
  BY Zenon DEF Range
<1>4. \A t : t \in Range(every) <=> t \in Tests(p) /\ t[1] = i /\ t[2] = j
  <2>1. \A t : t \in Range(every) => t \in Tests(p) /\ t[1] = i /\ t[2] = j
    <3> SUFFICES ASSUME NEW t, t \in Range(every) PROVE t \in Tests(p) /\ t[1] = i /\ t[2] = j
      OBVIOUS
    <3>1. PICK k \in DOMAIN tests : t = <<i, j, k>>
      BY <1>3, Zenon
    <3>2. t \in Tests(p)
      BY <3>1, TestsAre, Zenon
    <3>3. QED BY <3>1, <3>2
  <2>2. ASSUME NEW t \in Tests(p), t[1] = i, t[2] = j PROVE t \in Range(every)
    <3>1. PICK i1 \in DOMAIN p.modules : \E j1 \in DOMAIN p.modules[i1].classes :
            \E k \in DOMAIN p.modules[i1].classes[j1].tests : t = <<i1, j1, k>>
      BY <2>2, TestsAre
    <3>2. PICK j1 \in DOMAIN p.modules[i1].classes : \E k \in DOMAIN p.modules[i1].classes[j1].tests : t = <<i1, j1, k>>
      BY <3>1, Zenon
    <3>3. PICK k \in DOMAIN p.modules[i1].classes[j1].tests : t = <<i1, j1, k>>
      BY <3>2, Zenon
    <3>4. i1 = i /\ j1 = j
      BY <2>2, <3>3
    <3>5. QED BY <1>3, <3>3, <3>4, Zenon
  <2>3. QED BY <2>1, <2>2, Zenon
<1>5. TestsOf(p, i, j) = Only(every, {t \in Range(every) : Case(p, t).name \in p.regex})
  BY Zenon DEF TestsOf
<1> HIDE DEF every
<1>6. /\ IsSequence(TestsOf(p, i, j))
      /\ \A t : t \in Range(TestsOf(p, i, j)) <=>
                  t \in Range(every) /\ t \in {x \in Range(every) : Case(p, x).name \in p.regex}
  BY <1>2, <1>5, OnlyIsSequence
<1>7. QED BY <1>4, <1>6, Zenon

LEMMA FromModuleIs ==
  ASSUME NEW p \in Programs, NEW i \in DOMAIN p.modules
  PROVE  /\ Lists(FromModule(p, i))
         /\ \A t : Holds(FromModule(p, i), t) <=> t \in Tests(p) /\ t[1] = i /\ Case(p, t).name \in p.regex
<1> DEFINE f == FromModule(p, i) D == DOMAIN p.modules[i].classes
<1>1. f = [j \in D |-> TestsOf(p, i, j)]
  BY Zenon DEF FromModule
<1>2. IsSequence(p.modules[i].classes)
  BY ProgramOf
<1> HIDE DEF f
<1>3. IsSequence(f) /\ DOMAIN f = D
  <2>1. f = [j \in D |-> f[j]]
    BY <1>1
  <2>2. QED BY <1>2, <2>1, Mapped
<1>4. \A j \in D : f[j] = TestsOf(p, i, j)
  BY <1>1
<1>5. Lists(f)
  BY <1>3, <1>4, TestsOfAre DEF Lists
<1>6. \A t : Holds(f, t) <=> \E j \in D : t \in Tests(p) /\ t[1] = i /\ t[2] = j /\ Case(p, t).name \in p.regex
  <2>1. \A t : \A j \in D : t \in Range(f[j]) <=> t \in Tests(p) /\ t[1] = i /\ t[2] = j /\ Case(p, t).name \in p.regex
    BY <1>4, TestsOfAre
  <2>2. QED BY <1>3, <2>1, Zenon DEF Holds
<1>7. ASSUME NEW t \in Tests(p), t[1] = i PROVE t[2] \in D
  <2>1. PICK i1 \in DOMAIN p.modules : \E j1 \in DOMAIN p.modules[i1].classes :
          \E k \in DOMAIN p.modules[i1].classes[j1].tests : t = <<i1, j1, k>>
    BY <1>7, TestsAre
  <2>2. PICK j1 \in DOMAIN p.modules[i1].classes : \E k \in DOMAIN p.modules[i1].classes[j1].tests : t = <<i1, j1, k>>
    BY <2>1, Zenon
  <2>3. i1 = i /\ t[2] = j1
    BY <1>7, <2>2
  <2>4. QED BY <2>2, <2>3
<1>8. QED BY <1>5, <1>6, <1>7, Zenon DEF f

LEMMA PrefixAgrees ==
  ASSUME NEW S, NEW a \in Seq(S), NEW s \in Seq(S)
  PROVE  IsPrefix(a, s) <=> Len(a) <= Len(s) /\ \A k \in 1..Len(a) : a[k] = s[k]
<1> DEFINE t == SubSeq(s, 1, Len(a))
<1>1. Len(a) \in Nat /\ Len(s) \in Nat /\ SubSeq(a, 1, Len(a)) = a
  BY SubSeqFull, LenProperties
<1>2. ASSUME Len(a) <= Len(s)
      PROVE  t \in Seq(S) /\ Len(t) = Len(a) /\ \A k \in 1..Len(a) : t[k] = s[k]
  BY <1>1, <1>2
<1>3. CASE Len(a) <= Len(s)
  <2>1. (\A k \in 1..Len(a) : a[k] = s[k]) <=> a = t
    <3> HIDE DEF t
    <3>1. a = t => \A k \in 1..Len(a) : a[k] = s[k]
      BY <1>2, <1>3
    <3>2. ASSUME \A k \in 1..Len(a) : a[k] = s[k] PROVE a = t
      <4>1. \A k \in 1..Len(a) : a[k] = t[k]
        BY <1>2, <1>3, <3>2
      <4>2. t \in Seq(S) /\ Len(a) = Len(t)
        BY <1>2, <1>3
      <4>3. QED BY <4>1, <4>2, SeqEqual
    <3>3. QED BY <3>1, <3>2
  <2>2. QED BY <1>1, <1>3, <2>1 DEF IsPrefix
<1>4. QED BY <1>3 DEF IsPrefix

\* A part of a test's name is a prefix of it.
LEMMA PrefixesOf ==
  ASSUME NEW S, NEW s \in Seq(S), NEW c \in S, NEW n \in S
  PROVE  /\ IsPrefix(s, s \o <<c, n>>) /\ IsPrefix(Append(s, c), s \o <<c, n>>)
         /\ IsPrefix(s \o <<c, n>>, s \o <<c, n>>)
         /\ \A a \in Seq(S) : IsStrictPrefix(a, s) => IsPrefix(a, s \o <<c, n>>)
<1> DEFINE two == <<c, n>> f == s \o two a0 == Append(s, c)
<1>1. two \in Seq(S) /\ Len(two) = 2 /\ two[1] = c
  <2>1. two = [k \in 1..2 |-> IF k = 1 THEN c ELSE n]
    OBVIOUS
  <2>2. two \in Seq(S) /\ Len(two) = 2
    OBVIOUS
  <2>3. QED BY <2>1, <2>2
<1> HIDE DEF two
<1>2. f \in Seq(S) /\ Len(f) = Len(s) + 2
      /\ \A k \in 1..(Len(s) + Len(two)) : f[k] = IF k <= Len(s) THEN s[k] ELSE two[k - Len(s)]
  <2>1. f \in Seq(S) /\ Len(f) = Len(s) + Len(two)
    BY <1>1, ConcatProperties, Zenon
  <2>2. \A k \in 1..(Len(s) + Len(two)) : f[k] = IF k <= Len(s) THEN s[k] ELSE two[k - Len(s)]
    BY <1>1, ConcatProperties, Zenon
  <2>3. QED BY <1>1, <2>1, <2>2
<1>3. a0 \in Seq(S) /\ Len(a0) = Len(s) + 1 /\ a0[Len(s) + 1] = c
      /\ \A k \in 1..Len(s) : a0[k] = s[k]
  BY AppendProperties
<1>4. Len(s) \in Nat
  BY LenProperties
<1> HIDE DEF f, a0
<1>5. f[Len(s) + 1] = c /\ \A k \in 1..Len(s) : f[k] = s[k]
  <2>1. Len(s) + 1 \in 1..(Len(s) + Len(two)) /\ (Len(s) + 1) - Len(s) = 1 /\ ~(Len(s) + 1 <= Len(s))
    BY <1>1, <1>4
  <2>2. f[Len(s) + 1] = two[1]
    BY <1>2, <2>1
  <2>3. ASSUME NEW k \in 1..Len(s) PROVE f[k] = s[k]
    <3>1. k \in 1..(Len(s) + Len(two)) /\ k <= Len(s)
      BY <1>1, <1>4
    <3>2. QED BY <1>2, <3>1
  <2>4. QED BY <1>1, <2>2, <2>3
<1>6. IsPrefix(s, f) /\ IsPrefix(f, f)
  <2>1. Len(s) <= Len(f) /\ Len(f) <= Len(f)
    BY <1>2, <1>4
  <2>2. QED BY <1>2, <1>5, <2>1, PrefixAgrees
<1>7. IsPrefix(a0, f)
  <2>1. ASSUME NEW k \in 1..Len(a0) PROVE a0[k] = f[k]
    <3>1. k = Len(s) + 1 \/ k \in 1..Len(s)
      BY <1>3, <1>4
    <3>2. QED BY <1>3, <1>5, <3>1
  <2>2. Len(a0) <= Len(f)
    BY <1>2, <1>3, <1>4
  <2>3. QED BY <1>2, <1>3, <2>1, <2>2, PrefixAgrees
<1>8. ASSUME NEW a \in Seq(S), IsStrictPrefix(a, s) PROVE IsPrefix(a, f)
  <2>1. Len(a) \in Nat /\ Len(a) <= Len(s) /\ \A k \in 1..Len(a) : a[k] = s[k]
    BY <1>8, LenProperties, PrefixAgrees DEF IsStrictPrefix
  <2>2. ASSUME NEW k \in 1..Len(a) PROVE a[k] = f[k]
    <3>1. k \in 1..Len(s)
      BY <1>4, <2>1
    <3>2. QED BY <1>5, <2>1, <3>1
  <2>3. Len(a) <= Len(f)
    BY <1>2, <1>4, <2>1
  <2>4. QED BY <1>2, <2>2, <2>3, PrefixAgrees
<1>9. QED BY <1>6, <1>7, <1>8 DEF f, a0, two

\* The test t is one that an argument with this name stands for.
Stands(p, name, t) ==
  /\ t \in Tests(p) /\ IsPrefix(name, FullName(p, t))
  /\ Case(p, t).name \in p.regex \/ name = FullName(p, t)
  /\ ~\E u \in Tests(p) : Module(p, u).name = name /\ u[1] # t[1] /\ Case(p, u).name \in p.regex

LEMMA NamesOf ==
  ASSUME NEW p \in Programs, NEW t \in Tests(p)
  PROVE  /\ t[1] \in DOMAIN p.modules /\ t[2] \in DOMAIN p.modules[t[1]].classes
         /\ t = <<t[1], t[2], t[3]>>
         /\ \A a \in {Module(p, t).name, ClassName(p, t), FullName(p, t)} : IsPrefix(a, FullName(p, t))
         /\ \A a \in Seq(STRING) : IsStrictPrefix(a, Module(p, t).name) => IsPrefix(a, FullName(p, t))
<1>1. PICK i \in DOMAIN p.modules : \E j \in DOMAIN p.modules[i].classes :
        \E k \in DOMAIN p.modules[i].classes[j].tests : t = <<i, j, k>>
  BY TestsAre
<1>2. PICK j \in DOMAIN p.modules[i].classes : \E k \in DOMAIN p.modules[i].classes[j].tests : t = <<i, j, k>>
  BY <1>1
<1>3. PICK k \in DOMAIN p.modules[i].classes[j].tests : t = <<i, j, k>>
  BY <1>2
<1>4. t[1] = i /\ t[2] = j /\ t[3] = k
  BY <1>3
<1>5. /\ p.modules[i].name \in Seq(STRING) /\ p.modules[i].classes[j].name \in STRING
      /\ p.modules[i].classes[j].tests[k].name \in STRING
  BY ProgramOf
<1>6. /\ Module(p, t).name = p.modules[i].name
      /\ ClassName(p, t) = Append(p.modules[i].name, p.modules[i].classes[j].name)
      /\ FullName(p, t) = p.modules[i].name \o <<p.modules[i].classes[j].name, p.modules[i].classes[j].tests[k].name>>
  BY <1>4 DEF Module, Class, Case, ClassName, FullName
<1>7. /\ IsPrefix(Module(p, t).name, FullName(p, t)) /\ IsPrefix(ClassName(p, t), FullName(p, t))
      /\ IsPrefix(FullName(p, t), FullName(p, t))
      /\ \A a \in Seq(STRING) : IsStrictPrefix(a, Module(p, t).name) => IsPrefix(a, FullName(p, t))
  BY <1>5, <1>6, PrefixesOf
<1>8. QED BY <1>3, <1>4, <1>7

LEMMA ClassesAre == ASSUME NEW p
  PROVE  \A c : c \in Classes(p) <=> \E i \in DOMAIN p.modules : \E j \in DOMAIN p.modules[i].classes : c = <<i, j>>
<1> DEFINE In(i) == {<<i, j>> : j \in DOMAIN p.modules[i].classes}
<1>1. Classes(p) = UNION {In(i) : i \in DOMAIN p.modules}
  BY Zenon DEF Classes
<1>2. \A i, c : c \in In(i) <=> \E j \in DOMAIN p.modules[i].classes : c = <<i, j>>
  BY Zenon
<1> HIDE DEF In
<1>3. \A c : c \in Classes(p) <=> \E i \in DOMAIN p.modules : c \in In(i)
  BY <1>1, Zenon
<1>4. QED BY <1>2, <1>3

LEMMA OneList ==
  ASSUME NEW s, IsSequence(s)
  PROVE  Lists(<<s>>) /\ \A x : Holds(<<s>>, x) <=> x \in Range(s)
<1>1. DOMAIN <<s>> = {1} /\ <<s>>[1] = s /\ <<s>> \in Seq({s})
  OBVIOUS
<1>2. IsSequence(<<s>>)
  BY <1>1, OfItsRange
<1>3. QED BY <1>1, <1>2, Zenon DEF Lists, Holds

LEMMA OwnIs ==
  ASSUME NEW p \in Programs, NEW name \in Seq(STRING)
  PROVE  /\ Lists(Own(p, name))
         /\ \A t : Holds(Own(p, name), t) => Stands(p, name, t)
         /\ \/ \E t : Holds(Own(p, name), t)
            \/ ~\E u \in Tests(p) : Module(p, u).name = name /\ Case(p, u).name \in p.regex
<1> DEFINE of == Named(p, name)
           own == Own(p, name)
           Other(t) == \E u \in Tests(p) : Module(p, u).name = name /\ u[1] # t[1] /\ Case(p, u).name \in p.regex
           Some == \E u \in Tests(p) : Module(p, u).name = name /\ Case(p, u).name \in p.regex
<1>1. /\ of.modules = {i \in DOMAIN p.modules : p.modules[i].name = name}
      /\ of.classes = {c \in Classes(p) : ClassName(p, c) = name}
      /\ of.tests = {t \in Tests(p) : FullName(p, t) = name}
  BY DEF Named
<1>2. own = IF of.modules # {} THEN FromModule(p, CHOOSE i \in of.modules : TRUE)
            ELSE IF of.classes # {} THEN <<TestsOf(p, (CHOOSE c \in of.classes : TRUE)[1], (CHOOSE c \in of.classes : TRUE)[2])>>
            ELSE IF of.tests # {} THEN <<<<CHOOSE t \in of.tests : TRUE>>>> ELSE <<>>
  BY Zenon DEF Own
<1> HIDE DEF of, own
<1>3. CASE of.modules # {}
  <2>1. PICK i \in of.modules : own = FromModule(p, i)
    BY <1>2, <1>3
  <2>2. i \in DOMAIN p.modules /\ p.modules[i].name = name
    BY <1>1, <2>1
  <2>3. Lists(own) /\ \A t : Holds(own, t) <=> t \in Tests(p) /\ t[1] = i /\ Case(p, t).name \in p.regex
    BY <2>1, <2>2, FromModuleIs
  <2>4. \A u \in Tests(p) : Module(p, u).name = name => u[1] = i
    <3>1. ASSUME NEW u \in Tests(p), Module(p, u).name = name PROVE u[1] = i
      <4>1. u[1] \in DOMAIN p.modules /\ p.modules[u[1]].name = name
        BY <3>1, NamesOf DEF Module
      <4>2. QED BY <2>2, <4>1, ProgramOf
    <3>2. QED BY <3>1
  <2>5. ASSUME NEW t, Holds(own, t) PROVE Stands(p, name, t)
    <3>1. t \in Tests(p) /\ t[1] = i /\ Case(p, t).name \in p.regex
      BY <2>3, <2>5
    <3>2. Module(p, t).name = name
      BY <2>2, <3>1 DEF Module
    <3>3. IsPrefix(name, FullName(p, t))
      BY <3>1, <3>2, NamesOf
    <3>4. QED BY <2>4, <3>1, <3>3 DEF Stands
  <2>6. Some => \E t : Holds(own, t)
    BY <2>3, <2>4
  <2>7. QED BY <2>3, <2>5, <2>6 DEF own
<1>4. CASE of.modules = {}
  <2>1. ~\E u \in Tests(p) : Module(p, u).name = name
    <3>1. ASSUME NEW u \in Tests(p), Module(p, u).name = name PROVE FALSE
      <4>1. u[1] \in DOMAIN p.modules /\ p.modules[u[1]].name = name
        BY <3>1, NamesOf DEF Module
      <4>2. QED BY <1>1, <1>4, <4>1
    <3>2. QED BY <3>1
  <2>2. CASE of.classes # {}
    <3>1. PICK c \in of.classes : own = <<TestsOf(p, c[1], c[2])>>
      BY <1>2, <1>4, <2>2
    <3>2. PICK i \in DOMAIN p.modules : \E j \in DOMAIN p.modules[i].classes : c = <<i, j>>
      BY <1>1, <3>1, ClassesAre
    <3>3. PICK j \in DOMAIN p.modules[i].classes : c = <<i, j>>
      BY <3>2
    <3>4. c[1] = i /\ c[2] = j /\ ClassName(p, c) = name
      BY <1>1, <3>1, <3>3
    <3>5. own = <<TestsOf(p, i, j)>>
      BY <3>1, <3>4
    <3>6. Lists(own) /\ \A t : Holds(own, t) <=> t \in Range(TestsOf(p, i, j))
      BY <3>5, OneList, TestsOfAre
    <3>7. ASSUME NEW t, Holds(own, t) PROVE Stands(p, name, t)
      <4>1. t \in Tests(p) /\ t[1] = i /\ t[2] = j /\ Case(p, t).name \in p.regex
        BY <3>6, <3>7, TestsOfAre
      <4>2. ClassName(p, t) = name
        BY <3>4, <4>1 DEF ClassName, Module, Class
      <4>3. IsPrefix(name, FullName(p, t))
        BY <4>1, <4>2, NamesOf
      <4>4. QED BY <2>1, <4>1, <4>3 DEF Stands
    <3>8. QED BY <2>1, <3>6, <3>7 DEF own
  <2>3. CASE of.classes = {} /\ of.tests # {}
    <3>1. PICK t \in of.tests : own = <<<<t>>>>
      BY <1>2, <1>4, <2>3
    <3>2. t \in Tests(p) /\ FullName(p, t) = name
      BY <1>1, <3>1
    <3>3. IsSequence(<<t>>) /\ Range(<<t>>) = {t}
      BY DEF IsSequence, Range
    <3>4. Lists(own) /\ \A x : Holds(own, x) <=> x = t
      BY <3>1, <3>3, OneList
    <3>5. IsPrefix(name, FullName(p, t))
      BY <3>2, NamesOf
    <3>6. Stands(p, name, t)
      BY <2>1, <3>2, <3>5 DEF Stands
    <3>7. QED BY <2>1, <3>4, <3>6 DEF own
  <2>4. CASE of.classes = {} /\ of.tests = {}
    <3>1. own = <<>>
      BY <1>2, <1>4, <2>4
    <3>2. Lists(own) /\ \A x : ~Holds(own, x)
      BY <3>1 DEF Lists, IsSequence, Holds
    <3>3. QED BY <2>1, <3>2 DEF own
  <2>5. QED BY <2>2, <2>3, <2>4
<1>5. QED BY <1>3, <1>4

LEMMA JoinedHolds ==
  ASSUME NEW ss, Lists(ss)
  PROVE  IsSequence(FlattenSeq(ss)) /\ \A x : x \in Range(FlattenSeq(ss)) <=> Holds(ss, x)
BY JoinIsSequence DEF Lists, Holds

LEMMA InsideIs ==
  ASSUME NEW p \in Programs, NEW name \in Seq(STRING)
  PROVE  /\ IsSequence(Inside(p, name))
         /\ \A k \in DOMAIN Inside(p, name) :
              /\ Inside(p, name)[k] \in DOMAIN p.modules
              /\ \A t \in Tests(p) : t[1] = Inside(p, name)[k] /\ Case(p, t).name \in p.regex => Stands(p, name, t)
<1> DEFINE own == FlattenSeq(Own(p, name))
           all == [i \in DOMAIN p.modules |-> i]
           in == Only(all, {i \in DOMAIN p.modules : IsStrictPrefix(name, p.modules[i].name)})
<1>1. IsSequence(own) /\ \A t : t \in Range(own) <=> Holds(Own(p, name), t)
  BY OwnIs, JoinedHolds
<1>2. Inside(p, name) = IF own = <<>> THEN in ELSE <<>>
  <2>1. Named(p, name).inside = in
    BY DEF Named
  <2> HIDE DEF in
  <2>2. QED BY <2>1 DEF Inside
<1>3. CASE own # <<>>
  BY <1>2, <1>3 DEF IsSequence
<1>4. CASE own = <<>>
  <2>1. ~\E u \in Tests(p) : Module(p, u).name = name /\ Case(p, u).name \in p.regex
    <3>1. \A t : t \notin Range(own)
      BY <1>4 DEF Range
    <3>2. QED BY <1>1, <3>1, OwnIs
  <2>2. IsSequence(all)
    <3>1. all = [i \in DOMAIN p.modules |-> all[i]]
      BY Zenon
    <3> HIDE DEF all
    <3>2. QED BY <3>1, ProgramOf, Mapped
  <2> HIDE DEF all, own
  <2>3. /\ IsSequence(in)
        /\ \A i : i \in Range(in) => i \in {j \in DOMAIN p.modules : IsStrictPrefix(name, p.modules[j].name)}
    BY <2>2, OnlyIsSequence
  <2> HIDE DEF in
  <2>4. ASSUME NEW k \in DOMAIN in
        PROVE  /\ in[k] \in DOMAIN p.modules
               /\ \A t \in Tests(p) : t[1] = in[k] /\ Case(p, t).name \in p.regex => Stands(p, name, t)
    <3>1. in[k] \in Range(in)
      BY Zenon DEF Range
    <3>2. in[k] \in DOMAIN p.modules /\ IsStrictPrefix(name, p.modules[in[k]].name)
      BY <2>3, <3>1
    <3>3. ASSUME NEW t \in Tests(p), t[1] = in[k], Case(p, t).name \in p.regex PROVE Stands(p, name, t)
      <4>1. IsStrictPrefix(name, Module(p, t).name)
        BY <3>2, <3>3 DEF Module
      <4>2. IsPrefix(name, FullName(p, t))
        BY <4>1, NamesOf
      <4>3. QED BY <2>1, <3>3, <4>2 DEF Stands
    <3>4. QED BY <3>2, <3>3
  <2>5. QED BY <1>2, <1>4, <2>3, <2>4 DEF own
<1>5. QED BY <1>3, <1>4

\* Lists of lists that are joined.
LEMMA ListsJoin ==
  ASSUME NEW ll, IsSequence(ll), \A k \in DOMAIN ll : Lists(ll[k])
  PROVE  /\ Lists(FlattenSeq(ll))
         /\ \A x : Holds(FlattenSeq(ll), x) => \E k \in DOMAIN ll : Holds(ll[k], x)
<1> DEFINE f == FlattenSeq(ll)
<1>1. \A k \in DOMAIN ll : IsSequence(ll[k])
  BY DEF Lists
<1>2. IsSequence(f) /\ \A x : x \in Range(f) <=> \E k \in DOMAIN ll : x \in Range(ll[k])
  BY <1>1, JoinIsSequence
<1> HIDE DEF f
<1>3. \A g \in DOMAIN f : \E k \in DOMAIN ll : f[g] \in Range(ll[k])
  BY <1>2, Zenon DEF Range
<1>4. \A g \in DOMAIN f : \E k \in DOMAIN ll : \E h \in DOMAIN ll[k] : f[g] = ll[k][h]
  BY <1>3, Zenon DEF Range
<1>5. \A g \in DOMAIN f : IsSequence(f[g])
  BY <1>4, Zenon DEF Lists
<1>6. \A x : Holds(f, x) => \E k \in DOMAIN ll : Holds(ll[k], x)
  BY <1>4, Zenon DEF Holds
<1>7. QED BY <1>2, <1>5, <1>6 DEF Lists, f

LEMMA LoadArgIs ==
  ASSUME NEW p \in Programs, NEW name \in Seq(STRING)
  PROVE  Lists(LoadArg(p, name)) /\ \A t : Holds(LoadArg(p, name), t) => Stands(p, name, t)
<1> DEFINE in == Inside(p, name)
           ll == [k \in DOMAIN in |-> FromModule(p, in[k])]
<1>1. LoadArg(p, name) = IF in = <<>> THEN Own(p, name) ELSE FlattenSeq(ll)
  BY Zenon DEF LoadArg
<1>2. IsSequence(ll)
  <2>1. ll = [k \in DOMAIN in |-> ll[k]]
    BY Zenon
  <2> HIDE DEF ll
  <2>2. QED BY <2>1, InsideIs, Mapped
<1>3. DOMAIN ll = DOMAIN in /\ \A k \in DOMAIN in : ll[k] = FromModule(p, in[k])
  BY Zenon
<1> HIDE DEF ll
<1>4. \A k \in DOMAIN in : /\ in[k] \in DOMAIN p.modules
                           /\ \A t \in Tests(p) : t[1] = in[k] /\ Case(p, t).name \in p.regex => Stands(p, name, t)
  BY InsideIs
<1> HIDE DEF in
<1>5. \A k \in DOMAIN ll : Lists(ll[k]) /\ \A t : Holds(ll[k], t) => Stands(p, name, t)
  BY <1>3, <1>4, FromModuleIs
<1>6. Lists(FlattenSeq(ll)) /\ \A t : Holds(FlattenSeq(ll), t) => Stands(p, name, t)
  BY <1>2, <1>5, ListsJoin
<1>7. QED BY <1>1, <1>6, OwnIs

LEMMA SuitesAre ==
  ASSUME NEW p \in Programs
  PROVE  Lists(Suites(p)) /\ \A t : Holds(Suites(p), t) => t \in Asked(p)
<1>1. CASE p.args = <<>>
  <2> DEFINE ll == [i \in DOMAIN p.modules |-> FromModule(p, i)]
  <2>1. Suites(p) = FlattenSeq(ll)
    BY <1>1, Zenon DEF Suites
  <2>2. IsSequence(ll)
    <3>1. ll = [i \in DOMAIN p.modules |-> ll[i]]
      BY Zenon
    <3> HIDE DEF ll
    <3>2. QED BY <3>1, ProgramOf, Mapped
  <2>3. DOMAIN ll = DOMAIN p.modules /\ \A i \in DOMAIN p.modules : ll[i] = FromModule(p, i)
    BY Zenon
  <2> HIDE DEF ll
  <2>4. \A i \in DOMAIN ll : Lists(ll[i]) /\ \A t : Holds(ll[i], t) => t \in Tests(p) /\ Case(p, t).name \in p.regex
    BY <2>3, FromModuleIs
  <2>5. Lists(FlattenSeq(ll)) /\ \A t : Holds(FlattenSeq(ll), t) => t \in Tests(p) /\ Case(p, t).name \in p.regex
    BY <2>2, <2>4, ListsJoin
  <2>6. QED BY <1>1, <2>1, <2>5, Zenon DEF Asked
<1>2. CASE p.args # <<>>
  <2> DEFINE ll == [k \in DOMAIN p.args |-> LoadArg(p, p.args[k])]
  <2>1. Suites(p) = FlattenSeq(ll)
    BY <1>2, Zenon DEF Suites
  <2>2. IsSequence(p.args) /\ \A k \in DOMAIN p.args : p.args[k] \in Seq(STRING)
    <3>1. p.args \in Seq(Seq(STRING))
      BY ProgramOf
    <3>2. QED BY <3>1, OfItsRange, ElementOfSeq
  <2>3. IsSequence(ll)
    <3>1. ll = [k \in DOMAIN p.args |-> ll[k]]
      BY Zenon
    <3> HIDE DEF ll
    <3>2. QED BY <2>2, <3>1, Mapped
  <2>4. DOMAIN ll = DOMAIN p.args /\ \A k \in DOMAIN p.args : ll[k] = LoadArg(p, p.args[k])
    BY Zenon
  <2> HIDE DEF ll
  <2>5. \A k \in DOMAIN ll : Lists(ll[k]) /\ \A t : Holds(ll[k], t) => Stands(p, p.args[k], t)
    BY <2>2, <2>4, LoadArgIs
  <2>6. Lists(FlattenSeq(ll)) /\ \A t : Holds(FlattenSeq(ll), t) => \E k \in DOMAIN p.args : Stands(p, p.args[k], t)
    BY <2>3, <2>4, <2>5, ListsJoin
  <2>7. ASSUME NEW t, NEW k \in DOMAIN p.args, Stands(p, p.args[k], t) PROVE t \in Asked(p)
    <3>1. t \in Tests(p) /\ k \in AskedBy(p, t)
      BY <2>7, Zenon DEF Stands, AskedBy
    <3>2. QED BY <1>2, <3>1, Zenon DEF Asked
  <2>8. QED BY <2>1, <2>6, <2>7
<1>3. QED BY <1>1, <1>2

LEMMA NumberedAre ==
  ASSUME NEW ss, Lists(ss)
  PROVE  /\ IsSequence(Numbered(ss))
         /\ \A k \in DOMAIN Numbered(ss) : Holds(ss, Numbered(ss)[k][1])
<1> DEFINE L(g) == [k \in DOMAIN ss[g] |-> <<ss[g][k], g>>]
           ll == [g \in DOMAIN ss |-> L(g)]
<1>1. Numbered(ss) = FlattenSeq(ll)
  BY Zenon DEF Numbered
<1>2. ASSUME NEW g \in DOMAIN ss
      PROVE  IsSequence(L(g)) /\ \A x \in Range(L(g)) : x[1] \in Range(ss[g])
  <2> DEFINE s == ss[g] l == L(g)
  <2>1. IsSequence(s)
    BY DEF Lists
  <2>2. l = [k \in DOMAIN s |-> l[k]]
    BY Zenon
  <2>3. \A k \in DOMAIN l : l[k] = <<s[k], g>> /\ k \in DOMAIN s
    BY Zenon
  <2> HIDE DEF l, s
  <2>4. IsSequence(l)
    BY <2>1, <2>2, Mapped
  <2>5. \A x \in Range(l) : \E k \in DOMAIN s : x = <<s[k], g>>
    BY <2>3, Zenon DEF Range
  <2>6. \A x \in Range(l) : \E k \in DOMAIN s : x[1] = s[k]
    BY <2>5
  <2>7. \A x \in Range(l) : x[1] \in Range(s)
    BY <2>6, Zenon DEF Range
  <2>8. QED BY <2>4, <2>7 DEF l, s
<1>3. IsSequence(ll)
  <2>1. ll = [g \in DOMAIN ss |-> ll[g]]
    BY Zenon
  <2> HIDE DEF ll
  <2>2. QED BY <2>1, Mapped DEF Lists
<1>4. DOMAIN ll = DOMAIN ss /\ \A g \in DOMAIN ss : ll[g] = L(g)
  BY Zenon
<1> HIDE DEF ll, L
<1>5. Lists(ll) /\ \A g \in DOMAIN ss : \A x \in Range(ll[g]) : x[1] \in Range(ss[g])
  BY <1>2, <1>3, <1>4 DEF Lists
<1> DEFINE f == FlattenSeq(ll)
<1>6. IsSequence(f) /\ \A x : x \in Range(f) <=> Holds(ll, x)
  BY <1>5, JoinedHolds
<1> HIDE DEF f
<1>7. \A x \in Range(f) : Holds(ss, x[1])
  BY <1>4, <1>5, <1>6, Zenon DEF Holds
<1>8. \A k \in DOMAIN f : f[k] \in Range(f)
  BY Zenon DEF Range
<1>9. QED BY <1>1, <1>6, <1>7, <1>8 DEF f

-----------------------------------------------------------------------------
(* The main program of Python tests: its exit code agrees with its results. *)

Failing == {"failure", "subfail", "subskip", "unexpected"}
Ending == {"skip", "success", "expected"}
Unfinished(t) == Case(program, t).thread

\* While a test runs, the calls that are still to come decide what it ends as:
\* nothing but a skip that hides it comes after a failure.
InTest == stage = "test" =>
  /\ res.current \in Asked(program) /\ calls \in Seq(Failing \cup Ending \cup {"prints"})
  /\ \/ Hidden(Case(program, res.current))
     \/ \A k, l \in 1..Len(calls) : k < l /\ calls[k] \in Failing => calls[l] \in Failing
  /\ \A k, l \in 1..Len(calls) : calls[k] = "subfail" /\ l < k => calls[l] = "prints"
  /\ res.status # FAILURE => \A k \in 1..Len(calls) : calls[k] # "subfail"
  /\ res.status = FAILURE => res.failed \/ \E k \in 1..Len(calls) : calls[k] # "prints"
  /\ IsSequence(res.output) /\ \A t \in Range(res.output) : t = res.current \/ Unfinished(t)
  /\ res.current \in Range(res.output) \/ \E k \in 1..Len(calls) : calls[k] = "prints"

\* What failed is in the results, or was hidden, or will be there.
FailedIsTold == res.failed =>
  \/ \E r \in Results : r.type = FAILURE
  \/ \E t \in Asked(program) : Hidden(Case(program, t))
  \/ stage = "test" /\ res.status = FAILURE /\ \A k \in 1..Len(calls) : calls[k] \in Failing

ResultsTell ==
  /\ IsSequence(res.results) /\ res.failed \in BOOLEAN /\ (stage = "load" => ~res.failed)
  /\ DOMAIN res = {"current", "status", "output", "results", "failed", "listed", "coverage"}
  /\ \A r \in Results : r.type = FAILURE => res.failed
  /\ \A r \in Results : ~r.fixture =>
       r.of[2] \in Range(r.output) /\ \A t \in Range(r.output) \ {r.of[2]} : Unfinished(t)

MainInv ==
  /\ program \in Programs /\ number \in Nat \ {0} /\ (stage = "enter" => number \in DOMAIN suite)
  /\ IsSequence(suite) /\ \A k \in DOMAIN suite : suite[k][1] \in Asked(program)
  /\ \A t \in threads : Unfinished(t)
  /\ ResultsTell /\ InTest /\ FailedIsTold /\ ExitTells

LEMMA CaseOf ==
  ASSUME NEW p \in Programs, NEW t \in Tests(p)
  PROVE  LET c == Case(p, t)
         IN  /\ {c.setUp, c.tearDown} \subseteq Outcomes /\ {c.skipped, c.expected, c.thread} \subseteq BOOLEAN
             /\ c.method \in Outcomes \cup {"subfail", "subskip"} /\ (c.expected => c.method \in Outcomes)
<1>1. PICK i \in DOMAIN p.modules : \E j \in DOMAIN p.modules[i].classes :
        \E k \in DOMAIN p.modules[i].classes[j].tests : t = <<i, j, k>>
  BY TestsAre
<1>2. PICK j \in DOMAIN p.modules[i].classes : \E k \in DOMAIN p.modules[i].classes[j].tests : t = <<i, j, k>>
  BY <1>1
<1>3. PICK k \in DOMAIN p.modules[i].classes[j].tests : t = <<i, j, k>>
  BY <1>2
<1>4. Case(p, t) = p.modules[i].classes[j].tests[k]
  BY <1>3 DEF Case, Class, Module
<1>5. \A m \in Range(p.modules) : \A d \in Range(m.classes) : \A c \in Range(d.tests) :
        /\ {c.setUp, c.tearDown} \subseteq Outcomes /\ {c.skipped, c.expected, c.thread} \subseteq BOOLEAN
        /\ c.method \in Outcomes \cup {"subfail", "subskip"} /\ (c.expected => c.method \in Outcomes)
  BY ProgramAssumption, Zenon
<1>6. /\ p.modules[i] \in Range(p.modules) /\ p.modules[i].classes[j] \in Range(p.modules[i].classes)
      /\ p.modules[i].classes[j].tests[k] \in Range(p.modules[i].classes[j].tests)
  BY Zenon DEF Range
<1>7. QED BY <1>4, <1>5, <1>6

LEMMA Pairs == \A x, y : <<x>> \o <<y>> = <<x, y>> /\ <<x>> \o <<>> = <<x>>
<1> SUFFICES ASSUME NEW x, NEW y PROVE <<x>> \o <<y>> = <<x, y>> /\ <<x>> \o <<>> = <<x>>
  BY Zenon
<1> DEFINE S == {x, y} one == <<x>> other == <<y>> two == <<x, y>> j == one \o other
<1>1. one \in Seq(S) /\ other \in Seq(S) /\ Len(one) = 1 /\ Len(other) = 1 /\ one[1] = x /\ other[1] = y
  OBVIOUS
<1>2. two \in Seq(S) /\ Len(two) = 2 /\ two[1] = x /\ two[2] = y
  OBVIOUS
<1> HIDE DEF S, one, other, two
<1>3. one \o <<>> = one
  BY <1>1, ConcatEmptySeq
<1>4. j \in Seq(S) /\ Len(j) = Len(one) + Len(other)
      /\ \A i \in 1..(Len(one) + Len(other)) : j[i] = IF i <= Len(one) THEN one[i] ELSE other[i - Len(one)]
  BY <1>1, ConcatProperties, Zenon
<1> HIDE DEF j
<1>5. j[1] = x /\ j[2] = y /\ Len(j) = 2
  BY <1>1, <1>4
<1>6. \A i \in 1..Len(j) : j[i] = two[i]
  <2>1. \A i \in 1..2 : i = 1 \/ i = 2
    OBVIOUS
  <2>2. QED BY <1>2, <1>5, <2>1
<1>7. j \in Seq(S) /\ two \in Seq(S) /\ Len(j) = Len(two)
  BY <1>2, <1>4, <1>5
<1>8. j = two
  BY <1>6, <1>7, SeqEqual
<1>9. QED BY <1>3, <1>8 DEF j, one, other, two

LEMMA CallsAre ==
  ASSUME NEW p \in Programs, NEW t \in Tests(p), NEW c, c = Case(p, t)
  PROVE  \E x, y \in Failing \cup Ending :
           \/ Calls(c) = <<x>>
           \/ Calls(c) = <<x, y>> /\ y # "subfail" /\ (Hidden(c) \/ (x \in Failing => y \in Failing))
<1>0. /\ c.setUp \in Outcomes /\ c.tearDown \in Outcomes /\ c.skipped \in BOOLEAN /\ c.expected \in BOOLEAN
      /\ c.method \in Outcomes \cup {"subfail", "subskip"} /\ (c.expected => c.method \in Outcomes)
  BY CaseOf
<1> DEFINE expected == c.expected /\ c.method = "fail"
           method == IF expected THEN <<>> ELSE Part(c.method)
           parts == method \o Part(c.tearDown)
           said == IF expected THEN <<"expected">> ELSE IF c.expected THEN <<"unexpected">> ELSE <<"success">>
<1>1. Calls(c) = IF c.skipped THEN <<"skip">> ELSE IF c.setUp # "ok" THEN Part(c.setUp)
                 ELSE IF parts # <<>> THEN parts ELSE said
  BY Zenon DEF Calls
<1>2. /\ Part("ok") = <<>> /\ Part("fail") = <<"failure">> /\ Part("skip") = <<"skip">>
      /\ Part("subfail") = <<"subfail">> /\ Part("subskip") = <<"subskip">>
  BY DEF Part
<1>3. \E x \in Failing \cup Ending : said = <<x>>
  BY DEF Failing, Ending
<1>4. CASE c.skipped \/ c.setUp # "ok"
  BY <1>0, <1>1, <1>2, <1>4 DEF Failing, Ending, Outcomes
<1>5. CASE ~c.skipped /\ c.setUp = "ok"
  <2>1. Calls(c) = IF parts # <<>> THEN parts ELSE said
    BY <1>1, <1>5
  <2>2. method = <<>> \/ \E x \in {"failure", "skip", "subfail", "subskip"} : method = <<x>>
    BY <1>0, <1>2 DEF Outcomes
  <2>3. (\E x \in {"failure", "subfail", "subskip"} : method = <<x>>) =>
          c.method \in {"fail", "subfail", "subskip"} /\ ~c.expected
    BY <1>0, <1>2 DEF Outcomes
  <2>4. \/ c.tearDown = "ok" /\ Part(c.tearDown) = <<>>
        \/ c.tearDown = "fail" /\ Part(c.tearDown) = <<"failure">>
        \/ c.tearDown = "skip" /\ Part(c.tearDown) = <<"skip">>
    BY <1>0, <1>2 DEF Outcomes
  <2>5. CASE c.tearDown = "skip" /\ \E x \in {"failure", "subfail", "subskip"} : method = <<x>>
    <3>1. Hidden(c)
      BY <1>5, <2>3, <2>5 DEF Hidden, CaseFails
    <3>2. PICK x \in {"failure", "subfail", "subskip"} : method = <<x>>
      BY <2>5
    <3> HIDE DEF method
    <3>3. parts = <<x, "skip">>
      BY <2>4, <2>5, <3>2, Pairs
    <3>4. QED BY <2>1, <3>1, <3>3 DEF Failing, Ending
  <2>6. CASE ~(c.tearDown = "skip" /\ \E x \in {"failure", "subfail", "subskip"} : method = <<x>>)
    <3> HIDE DEF method, said
    <3>1. CASE method = <<>>
      <4>1. parts = Part(c.tearDown)
        BY <2>4, <3>1
      <4>2. QED BY <1>3, <2>1, <2>4, <4>1 DEF Failing, Ending
    <3>2. CASE \E x \in {"failure", "skip", "subfail", "subskip"} : method = <<x>>
      <4>1. PICK x \in {"failure", "skip", "subfail", "subskip"} : method = <<x>>
        BY <3>2
      <4>2. CASE c.tearDown = "ok"
        <5>1. parts = <<x>>
          BY <2>4, <4>1, <4>2, Pairs
        <5>2. QED BY <2>1, <5>1 DEF Failing, Ending
      <4>3. CASE c.tearDown = "fail"
        <5>1. parts = <<x, "failure">>
          BY <2>4, <4>1, <4>3, Pairs
        <5>2. QED BY <2>1, <5>1 DEF Failing, Ending
      <4>4. CASE c.tearDown = "skip"
        <5>1. parts = <<x, "skip">> /\ x = "skip"
          BY <2>4, <2>6, <4>1, <4>4, Pairs
        <5>2. QED BY <2>1, <5>1 DEF Failing, Ending
      <4>5. QED BY <2>4, <4>2, <4>3, <4>4
    <3>3. QED BY <2>2, <3>1, <3>2
  <2>7. QED BY <2>5, <2>6
<1>6. QED BY <1>0, <1>4, <1>5

LEMMA OneMore ==
  ASSUME NEW s, IsSequence(s), NEW e
  PROVE  IsSequence(Append(s, e)) /\ \A x : x \in Range(Append(s, e)) <=> x \in Range(s) \/ x = e
<1> DEFINE S == Range(s) \cup {e} t == Append(s, e)
<1>1. s \in Seq(S) /\ e \in S
  BY DEF IsSequence
<1>2. /\ t \in Seq(S) /\ Len(t) = Len(s) + 1 /\ t[Len(s) + 1] = e /\ \A i \in 1..Len(s) : t[i] = s[i]
      /\ Len(s) \in Nat /\ DOMAIN s = 1..Len(s) /\ DOMAIN t = 1..Len(t)
  BY <1>1, AppendProperties, LenProperties
<1> HIDE DEF t
<1>3. IsSequence(t) /\ Range(t) \subseteq S
  BY <1>2, OfItsRange
<1>4. /\ \A i \in 1..Len(s) : i \in DOMAIN t
      /\ Len(s) + 1 \in DOMAIN t
  BY <1>2
<1>5. ASSUME NEW x, x \in Range(s) \/ x = e PROVE x \in Range(t)
  BY <1>2, <1>4, <1>5, Zenon DEF Range
<1>6. QED BY <1>3, <1>5 DEF t

LEMMA InitTells == MainInit => MainInv
<1> SUFFICES ASSUME MainInit PROVE MainInv
  OBVIOUS
<1>1. /\ program \in Programs /\ stage = "load" /\ suite = <<>> /\ number = 1 /\ threads = {} /\ res = NewResult
  BY DEF MainInit
<1>2. /\ res.results = <<>> /\ res.failed = FALSE
      /\ DOMAIN res = {"current", "status", "output", "results", "failed", "listed", "coverage"}
  BY <1>1 DEF NewResult
<1>3. DOMAIN <<>> = {} /\ Range(<<>>) = {} /\ IsSequence(<<>>)
  BY DEF Range, IsSequence
<1>4. Results = {} /\ IsSequence(res.results)
  BY <1>2, <1>3 DEF Results
<1>5. ResultsTell
  BY <1>2, <1>4 DEF ResultsTell
<1>6. InTest /\ FailedIsTold /\ ExitTells
  BY <1>1, <1>2 DEF InTest, FailedIsTold, ExitTells
<1>7. QED BY <1>1, <1>3, <1>5, <1>6 DEF MainInv

\* What leaves the results and the tests as they are, outside of a test.
LEMMA SameResults ==
  ASSUME MainInv, program' = program, res' = res, stage \notin {"test", "ended"}, stage' \notin {"test", "ended", "load"}
  PROVE  ResultsTell' /\ InTest' /\ FailedIsTold' /\ ExitTells'
<1>1. ResultsTell'
  BY DEF MainInv, ResultsTell, Results, Unfinished
<1>2. InTest' /\ ExitTells'
  BY DEF InTest, ExitTells
<1>3. FailedIsTold'
  BY DEF MainInv, FailedIsTold, Results
<1>4. QED BY <1>1, <1>2, <1>3

LEMMA LoadTells == ASSUME MainInv, Load PROVE MainInv'
<1>1. /\ stage = "load" /\ program' = program /\ number' = number /\ threads' = threads /\ program \in Programs
      /\ ~res.failed /\ ResultsTell
  BY DEF Load, MainInv, ResultsTell
<1>2. (\A t \in threads : Unfinished(t))' /\ number' \in Nat \ {0}
  BY <1>1 DEF MainInv, Unfinished
<1>3. CASE ~CanLoad(program)
  <2>1. stage' = "ended" /\ exit' = <<1>> /\ suite' = suite /\ res' = res
    BY <1>3 DEF Load
  <2>2. ResultsTell'
    BY <1>1, <2>1 DEF ResultsTell, Results, Unfinished
  <2>3. ExitTells'
    BY <1>1, <1>3, <2>1, <2>2 DEF ExitTells, ResultsTell, Results, Unfinished
  <2>4. InTest' /\ FailedIsTold'
    BY <1>1, <2>1 DEF InTest, FailedIsTold
  <2>5. QED BY <1>1, <1>2, <2>1, <2>2, <2>3, <2>4 DEF MainInv
<1>4. CASE CanLoad(program) /\ program.list
  <2>1. /\ stage' = "ended" /\ exit' = <<0>> /\ suite' = suite
        /\ res' = [res EXCEPT !.listed = FlattenSeq(Suites(program))]
    BY <1>4 DEF Load
  <2>2. res'.results = res.results /\ res'.failed = res.failed /\ DOMAIN res' = DOMAIN res
    BY <2>1
  <2>3. ResultsTell'
    BY <1>1, <2>1, <2>2 DEF ResultsTell, Results, Unfinished
  <2>4. ExitTells'
    BY <1>1, <1>4, <2>1, <2>2, <2>3 DEF ExitTells, ResultsTell, Results, Unfinished
  <2>5. InTest' /\ FailedIsTold'
    BY <1>1, <2>1, <2>2 DEF InTest, FailedIsTold
  <2>6. QED BY <1>1, <1>2, <2>1, <2>3, <2>4, <2>5 DEF MainInv
<1>5. CASE CanLoad(program) /\ ~program.list
  <2>1. stage' = "next" /\ res' = res /\ suite' = Numbered(Suites(program))
    BY <1>5 DEF Load
  <2>2. Lists(Suites(program)) /\ \A t : Holds(Suites(program), t) => t \in Asked(program)
    BY <1>1, SuitesAre
  <2>3. IsSequence(suite') /\ \A k \in DOMAIN suite' : suite'[k][1] \in Asked(program')
    BY <1>1, <2>1, <2>2, NumberedAre
  <2>4. ResultsTell' /\ InTest' /\ FailedIsTold' /\ ExitTells'
    BY <1>1, <2>1, SameResults
  <2>5. QED BY <1>1, <1>2, <2>1, <2>3, <2>4 DEF MainInv
<1>6. QED BY <1>3, <1>4, <1>5

LEMMA NextTestTells == ASSUME MainInv, NextTest PROVE MainInv'
<1>1. /\ stage = "next" /\ program' = program /\ suite' = suite /\ number' = number /\ threads' = threads /\ res' = res
      /\ stage' \in {"enter", "finish"} /\ (stage' = "enter" => ~(number > Len(suite)))
  BY DEF NextTest, order
<1>2. IsSequence(suite) /\ number \in Nat \ {0} /\ program \in Programs /\ (\A k \in DOMAIN suite : suite[k][1] \in Asked(program))
      /\ (\A t \in threads : Unfinished(t))
  BY DEF MainInv
<1>3. stage' = "enter" => number \in DOMAIN suite
  BY <1>1, <1>2 DEF IsSequence
<1>4. ResultsTell' /\ InTest' /\ FailedIsTold' /\ ExitTells'
  BY <1>1, SameResults
<1>5. QED BY <1>1, <1>2, <1>3, <1>4 DEF MainInv, Unfinished

LEMMA InterruptTells == ASSUME MainInv, Interrupt PROVE MainInv'
<1>1. /\ stage' = stage /\ stage # "ended" /\ program' = program /\ suite' = suite /\ number' = number
      /\ threads' = threads /\ res' = res /\ calls' = calls
  BY DEF Interrupt, order
<1>2. ResultsTell'
  BY <1>1 DEF MainInv, ResultsTell, Results, Unfinished
<1>3. InTest'
  BY <1>1 DEF MainInv, InTest, Unfinished
<1>4. FailedIsTold'
  BY <1>1 DEF MainInv, FailedIsTold, Results
<1>5. ExitTells'
  BY <1>1 DEF ExitTells
<1>6. QED BY <1>1, <1>2, <1>3, <1>4, <1>5 DEF MainInv, Unfinished

\* A result that is added.
LEMMA AddedTells ==
  ASSUME MainInv, stage # "ended", NEW e, program' = program,
         res'.results = Append(res.results, e), DOMAIN res' = DOMAIN res,
         res'.failed \in BOOLEAN, res.failed => res'.failed, e.type = FAILURE => res'.failed,
         res'.failed => res.failed \/ e.type = FAILURE, stage' \notin {"load", "test", "ended"},
         ~e.fixture => e.of[2] \in Range(e.output) /\ \A t \in Range(e.output) \ {e.of[2]} : Unfinished(t),
         stage = "test" => (res.status = FAILURE => e.type = FAILURE)
  PROVE  ResultsTell' /\ InTest' /\ FailedIsTold' /\ ExitTells'
<1>1. ResultsTell /\ FailedIsTold
  BY DEF MainInv
<1>2. IsSequence(res'.results) /\ \A r : r \in Results' <=> r \in Results \/ r = e
  BY <1>1, OneMore DEF ResultsTell, Results
<1>3. ResultsTell'
  <2>1. \A r \in Results' : r.type = FAILURE => res'.failed
    BY <1>1, <1>2 DEF ResultsTell
  <2>2. \A r \in Results : ~r.fixture =>
          r.of[2] \in Range(r.output) /\ \A t \in Range(r.output) \ {r.of[2]} : Unfinished(t)
    BY <1>1 DEF ResultsTell
  <2>3. \A r \in Results' : ~r.fixture =>
          r.of[2] \in Range(r.output) /\ \A t \in Range(r.output) \ {r.of[2]} : Unfinished(t)
    BY <1>2, <2>2
  <2>4. \A t : Unfinished(t)' <=> Unfinished(t)
    BY DEF Unfinished
  <2>5. DOMAIN res' = {"current", "status", "output", "results", "failed", "listed", "coverage"}
    BY <1>1 DEF ResultsTell
  <2>6. QED BY <1>2, <2>1, <2>3, <2>4, <2>5 DEF ResultsTell
<1>4. FailedIsTold'
  <2>1. CASE e.type = FAILURE
    BY <1>2, <2>1 DEF FailedIsTold
  <2>2. CASE e.type # FAILURE
    <3>1. res'.failed => \/ \E r \in Results : r.type = FAILURE
                         \/ \E t \in Asked(program) : Hidden(Case(program, t))
      BY <1>1, <2>2 DEF FailedIsTold
    <3>2. QED BY <1>2, <3>1 DEF FailedIsTold
  <2>3. QED BY <2>1, <2>2
<1>5. InTest' /\ ExitTells'
  BY DEF InTest, ExitTells
<1>6. QED BY <1>3, <1>4, <1>5

LEMMA HolderIs ==
  ASSUME ResultsTell, NEW f, NEW h, h = AddHolder(res, f)
  PROVE  /\ DOMAIN h = DOMAIN res
         /\ \E e : /\ h.results = Append(res.results, e) /\ e.fixture = TRUE
                   /\ h.failed = (res.failed \/ e.type = FAILURE)
<1> DEFINE name == IF FindNextTest = None THEN f.id ELSE <<"test", FindNextTest>>
           call == IF f.outcome = "skip" THEN "skip" ELSE "failure"
           r == [StartTest(res, None) EXCEPT !.status = Status(call), !.failed = (@ \/ call = "failure")]
           e == [of |-> name, type |-> r.status, output |-> r.output, fixture |-> TRUE]
<1>1. h = StopTest(r, name, TRUE)
  BY Zenon DEF AddHolder
<1> HIDE DEF name
<1>2. /\ DOMAIN r = DOMAIN res /\ r.results = res.results /\ r.status = Status(call)
      /\ r.failed = (res.failed \/ call = "failure")
  <2>1. DOMAIN res = {"current", "status", "output", "results", "failed", "listed", "coverage"}
    BY DEF ResultsTell
  <2> DEFINE b == StartTest(res, None)
  <2>2. DOMAIN b = DOMAIN res /\ b.results = res.results /\ b.failed = res.failed
    BY <2>1 DEF StartTest
  <2> HIDE DEF b, call
  <2>3. QED BY <2>1, <2>2 DEF b
<1>3. (call = "failure" <=> Status(call) = FAILURE)
  BY DEF Status, FAILURE, SKIPPED
<1> HIDE DEF r, call
<1>4. DOMAIN h = DOMAIN r /\ h.failed = r.failed /\ h.results = Append(r.results, e)
  <2>1. DOMAIN r = {"current", "status", "output", "results", "failed", "listed", "coverage"}
    BY <1>2 DEF ResultsTell
  <2>2. QED BY <1>1, <2>1 DEF StopTest
<1>5. e.fixture = TRUE /\ e.type = r.status
  OBVIOUS
<1> HIDE DEF e
<1>6. h.failed = (res.failed \/ e.type = FAILURE)
  BY <1>2, <1>3, <1>4, <1>5
<1>7. QED BY <1>2, <1>4, <1>5, <1>6

LEMMA FixtureTells == ASSUME MainInv, Fixture PROVE MainInv'
<1>1. /\ stage \in {"enter", "finish"} /\ stage' = stage /\ program' = program /\ suite' = suite /\ number' = number
      /\ threads' = threads
      /\ res' = IF Head(fixtures).outcome # "ok" THEN AddHolder(res, Head(fixtures)) ELSE res
  BY DEF Fixture, order
<1>2. ResultsTell /\ res.failed \in BOOLEAN
  BY DEF MainInv, ResultsTell
<1>3. ResultsTell' /\ InTest' /\ FailedIsTold' /\ ExitTells'
  <2>1. CASE res' = res
    BY <1>1, <2>1, SameResults
  <2>2. CASE res' = AddHolder(res, Head(fixtures))
    <3>1. PICK e : /\ res'.results = Append(res.results, e) /\ e.fixture = TRUE
                   /\ res'.failed = (res.failed \/ e.type = FAILURE)
      BY <1>2, <2>2, HolderIs
    <3>2. DOMAIN res' = DOMAIN res
      BY <1>2, <2>2, HolderIs
    <3>3. QED BY <1>1, <1>2, <3>1, <3>2, AddedTells
  <2>3. QED BY <1>1, <2>1, <2>2
<1>4. QED BY <1>1, <1>3 DEF MainInv, Unfinished

LEMMA EndTestTells == ASSUME MainInv, EndTest PROVE MainInv'
<1>1. /\ stage = "test" /\ calls = <<>> /\ stage' = "next" /\ program' = program /\ suite' = suite
      /\ number' = number + 1 /\ threads' = threads /\ res' = StopTest(res, <<"test", res.current>>, FALSE)
  BY DEF EndTest, order
<1>2. ResultsTell /\ InTest /\ FailedIsTold
  BY DEF MainInv
<1> DEFINE e == [of |-> <<"test", res.current>>, type |-> res.status, output |-> res.output, fixture |-> FALSE]
<1>3. DOMAIN res' = DOMAIN res /\ res'.failed = res.failed /\ res'.results = Append(res.results, e)
  <2>1. DOMAIN res = {"current", "status", "output", "results", "failed", "listed", "coverage"}
    BY <1>2 DEF ResultsTell
  <2>2. QED BY <1>1, <2>1 DEF StopTest
<1>4. /\ e.of[2] = res.current /\ e.type = res.status /\ e.output = res.output /\ e.fixture = FALSE
  OBVIOUS
<1> HIDE DEF e
<1>5. /\ res.status = FAILURE => res.failed
      /\ res.current \in Range(res.output) /\ \A t \in Range(res.output) : t = res.current \/ Unfinished(t)
  BY <1>1, <1>2 DEF InTest
<1>6. ResultsTell' /\ InTest' /\ FailedIsTold' /\ ExitTells'
  BY <1>1, <1>2, <1>3, <1>4, <1>5, AddedTells DEF ResultsTell
<1>7. QED BY <1>1, <1>6 DEF MainInv, Unfinished

LEMMA PrintsFirst ==
  ASSUME NEW w, NEW x, NEW y
  PROVE  <<w>> \o <<x>> = <<w, x>> /\ <<w>> \o <<x, y>> = <<w, x, y>>
<1> DEFINE S == {w, x, y} one == <<w>> two == <<x, y>> three == <<w, x, y>> j == one \o two
<1>1. /\ one \in Seq(S) /\ Len(one) = 1 /\ one[1] = w
      /\ two \in Seq(S) /\ Len(two) = 2 /\ two[1] = x /\ two[2] = y
      /\ three \in Seq(S) /\ Len(three) = 3 /\ three[1] = w /\ three[2] = x /\ three[3] = y
  OBVIOUS
<1> HIDE DEF S, one, two, three
<1>2. j \in Seq(S) /\ Len(j) = Len(one) + Len(two)
      /\ \A i \in 1..(Len(one) + Len(two)) : j[i] = IF i <= Len(one) THEN one[i] ELSE two[i - Len(one)]
  BY <1>1, ConcatProperties, Zenon
<1> HIDE DEF j
<1>3. j[1] = w /\ j[2] = x /\ j[3] = y /\ Len(j) = 3
  BY <1>1, <1>2
<1>4. \A i \in 1..Len(j) : j[i] = three[i]
  <2>1. \A i \in 1..3 : i = 1 \/ i = 2 \/ i = 3
    OBVIOUS
  <2>2. QED BY <1>1, <1>3, <2>1
<1>5. j \in Seq(S) /\ three \in Seq(S) /\ Len(j) = Len(three)
  BY <1>1, <1>2, <1>3
<1>6. j = three
  BY <1>4, <1>5, SeqEqual
<1>7. QED BY <1>6, Pairs DEF j, one, two, three

LEMMA BeginTells == ASSUME MainInv, Begin PROVE MainInv'
<1> DEFINE t == suite[number][1] c == Case(program, t)
<1>1. /\ stage = "enter" /\ program' = program /\ suite' = suite /\ threads' = threads /\ program \in Programs
      /\ ResultsTell /\ FailedIsTold /\ t \in Asked(program) /\ number \in Nat \ {0}
  BY DEF Begin, order, MainInv
<1>2. CASE setUpFailed.class \/ setUpFailed.module
  <2>1. stage' = "next" /\ number' = number + 1 /\ res' = res
    BY <1>2 DEF Begin
  <2>2. ResultsTell' /\ InTest' /\ FailedIsTold' /\ ExitTells'
    BY <1>1, <2>1, SameResults
  <2>3. QED BY <1>1, <2>1, <2>2 DEF MainInv, Unfinished
<1>3. CASE ~(setUpFailed.class \/ setUpFailed.module)
  <2>1. stage' = "test" /\ number' = number /\ res' = StartTest(res, t) /\ calls' = <<"prints">> \o Calls(c)
    BY <1>3 DEF Begin
  <2>2. /\ DOMAIN res' = DOMAIN res /\ res'.results = res.results /\ res'.failed = res.failed
        /\ res'.current = t /\ res'.output = <<>> /\ res'.status = FAILURE
    <3>1. DOMAIN res = {"current", "status", "output", "results", "failed", "listed", "coverage"}
      BY <1>1 DEF ResultsTell
    <3> HIDE DEF t
    <3>2. QED BY <2>1, <3>1 DEF StartTest
  <2>3. ResultsTell'
    BY <1>1, <2>1, <2>2 DEF ResultsTell, Results, Unfinished
  <2>4. FailedIsTold'
    BY <1>1, <2>1, <2>2 DEF FailedIsTold, Results
  <2>5. ExitTells'
    BY <2>1 DEF ExitTells
  <2>6. InTest'
    <3>1. t \in Tests(program)
      BY <1>1 DEF Asked
    <3>2. PICK x \in Failing \cup Ending, y \in Failing \cup Ending :
            \/ Calls(c) = <<x>>
            \/ Calls(c) = <<x, y>> /\ y # "subfail" /\ (Hidden(c) \/ (x \in Failing => y \in Failing))
      BY <1>1, <3>1, CallsAre
    <3> HIDE DEF t, c
    <3>3. x # "prints" /\ y # "prints" /\ "prints" \notin Failing
      BY DEF Failing, Ending
    <3>4. \/ calls' = <<"prints", x>>
          \/ calls' = <<"prints", x, y>> /\ y # "subfail" /\ (Hidden(c) \/ (x \in Failing => y \in Failing))
      BY <2>1, <3>2, PrintsFirst
    <3>5. /\ calls' \in Seq(Failing \cup Ending \cup {"prints"}) /\ 1 \in 1..Len(calls') /\ 2 \in 1..Len(calls')
          /\ calls'[1] = "prints" /\ calls'[2] = x
          /\ (Hidden(c) \/ \A k, l \in 1..Len(calls') : k < l /\ calls'[k] \in Failing => calls'[l] \in Failing)
          /\ \A k, l \in 1..Len(calls') : calls'[k] = "subfail" /\ l < k => calls'[l] = "prints"
      <4>1. CASE calls' = <<"prints", x>>
        <5>1. Len(calls') = 2 /\ calls'[1] = "prints" /\ calls'[2] = x /\ calls' \in Seq(Failing \cup Ending \cup {"prints"})
          BY <4>1
        <5>2. QED BY <3>3, <5>1
      <4>2. CASE calls' = <<"prints", x, y>> /\ y # "subfail" /\ (Hidden(c) \/ (x \in Failing => y \in Failing))
        <5>1. /\ Len(calls') = 3 /\ calls'[1] = "prints" /\ calls'[2] = x /\ calls'[3] = y
              /\ calls' \in Seq(Failing \cup Ending \cup {"prints"})
          BY <4>2
        <5>2. \A k, l \in 1..3 : k < l => k = 1 \/ (k = 2 /\ l = 3)
          OBVIOUS
        <5>3. QED BY <3>3, <4>2, <5>1, <5>2
      <4>3. QED BY <3>4, <4>1, <4>2
    <3>6. Range(<<>>) = {} /\ IsSequence(<<>>)
      BY DEF Range, IsSequence
    <3>7. Case(program', res'.current) = c /\ res'.current \in Asked(program')
      BY <1>1, <2>2 DEF c, t
    <3>8. QED BY <2>2, <3>3, <3>5, <3>6, <3>7 DEF InTest
  <2>7. QED BY <1>1, <2>1, <2>3, <2>4, <2>5, <2>6 DEF MainInv, Unfinished
<1>4. QED BY <1>2, <1>3

LEMMA ThreadTells == ASSUME MainInv, NEW t \in threads, ThreadPrints(t) PROVE MainInv'
<1>1. /\ stage \in {"next", "enter", "test", "finish"} /\ stage' = stage /\ program' = program /\ suite' = suite
      /\ number' = number /\ threads' = threads \ {t} /\ calls' = calls
      /\ res' = [res EXCEPT !.output = Append(@, t)] /\ Unfinished(t)
  BY DEF ThreadPrints, order, MainInv
<1>2. ResultsTell /\ FailedIsTold /\ InTest
  BY DEF MainInv
<1>3. /\ DOMAIN res' = DOMAIN res /\ res'.results = res.results /\ res'.failed = res.failed
      /\ res'.current = res.current /\ res'.status = res.status /\ res'.output = Append(res.output, t)
  <2>1. DOMAIN res = {"current", "status", "output", "results", "failed", "listed", "coverage"}
    BY <1>2 DEF ResultsTell
  <2>2. QED BY <1>1, <2>1
<1>4. ResultsTell' /\ FailedIsTold'
  BY <1>1, <1>2, <1>3 DEF ResultsTell, FailedIsTold, Results, Unfinished
<1>5. ExitTells'
  BY <1>1 DEF ExitTells
<1>6. InTest'
  <2> SUFFICES ASSUME stage = "test" PROVE InTest'
    BY <1>1 DEF InTest
  <2>1. IsSequence(res'.output) /\ \A u : u \in Range(res'.output) <=> u \in Range(res.output) \/ u = t
    BY <1>2, <1>3, OneMore DEF InTest
  <2>2. \A u \in Range(res'.output) : u = res'.current \/ Unfinished(u)'
    BY <1>1, <1>2, <1>3, <2>1 DEF InTest, Unfinished
  <2>3. QED BY <1>1, <1>2, <1>3, <2>1, <2>2 DEF InTest
<1>7. QED BY <1>1, <1>4, <1>5, <1>6 DEF MainInv, Unfinished

LEMMA CallTells == ASSUME MainInv, Call PROVE MainInv'
<1> DEFINE T == Tail(calls) K == Failing \cup Ending \cup {"prints"} call == calls[1]
<1>1. /\ stage = "test" /\ stage' = stage /\ calls # <<>> /\ program' = program /\ suite' = suite /\ number' = number
      /\ program \in Programs
  BY DEF Call, order, MainInv
<1>2. ResultsTell /\ FailedIsTold /\ InTest /\ calls \in Seq(K)
  BY <1>1 DEF MainInv, InTest
<1>3. Head(calls) = call /\ call \in K /\ 1 \in 1..Len(calls) /\ Len(calls) \in Nat
  BY <1>1, <1>2
<1>4. T \in Seq(K) /\ Len(T) = Len(calls) - 1 /\ \A k \in 1..Len(T) : T[k] = calls[k + 1] /\ k + 1 \in 1..Len(calls)
  BY <1>1, <1>2, <1>3, HeadTailProperties
<1>5. \A k \in 1..Len(calls) : k = 1 \/ (k - 1 \in 1..Len(T) /\ T[k - 1] = calls[k])
  BY <1>3, <1>4
<1>6. DOMAIN res = {"current", "status", "output", "results", "failed", "listed", "coverage"} /\ res.failed \in BOOLEAN
  BY <1>2 DEF ResultsTell
<1>7. /\ res.current \in Asked(program)
      /\ \/ Hidden(Case(program, res.current))
         \/ \A k, l \in 1..Len(calls) : k < l /\ calls[k] \in Failing => calls[l] \in Failing
      /\ \A k, l \in 1..Len(calls) : calls[k] = "subfail" /\ l < k => calls[l] = "prints"
      /\ res.status # FAILURE => \A k \in 1..Len(calls) : calls[k] # "subfail"
      /\ res.status = FAILURE => res.failed \/ \E k \in 1..Len(calls) : calls[k] # "prints"
      /\ IsSequence(res.output) /\ \A t \in Range(res.output) : t = res.current \/ Unfinished(t)
      /\ res.current \in Range(res.output) \/ \E k \in 1..Len(calls) : calls[k] = "prints"
  BY <1>1, <1>2 DEF InTest
<1> HIDE DEF T, K, call
\* The calls that are left keep what is said of all of them.
<1>8. \/ Hidden(Case(program, res.current))
      \/ /\ \A k, l \in 1..Len(T) : k < l /\ T[k] \in Failing => T[l] \in Failing
         /\ call \in Failing => \A k \in 1..Len(T) : T[k] \in Failing
  <2> SUFFICES ASSUME \A k, l \in 1..Len(calls) : k < l /\ calls[k] \in Failing => calls[l] \in Failing
               PROVE  /\ \A k, l \in 1..Len(T) : k < l /\ T[k] \in Failing => T[l] \in Failing
                      /\ call \in Failing => \A k \in 1..Len(T) : T[k] \in Failing
    BY <1>7
  <2>1. ASSUME NEW k \in 1..Len(T), NEW l \in 1..Len(T), k < l, T[k] \in Failing PROVE T[l] \in Failing
    <3>1. k + 1 \in 1..Len(calls) /\ l + 1 \in 1..Len(calls) /\ k + 1 < l + 1 /\ calls[k + 1] \in Failing /\ T[l] = calls[l + 1]
      BY <1>4, <2>1
    <3>2. QED BY <3>1
  <2>2. ASSUME call \in Failing, NEW k \in 1..Len(T) PROVE T[k] \in Failing
    <3>1. 1 < k + 1 /\ k + 1 \in 1..Len(calls) /\ calls[1] \in Failing /\ T[k] = calls[k + 1]
      BY <1>4, <2>2 DEF call
    <3>2. QED BY <1>3, <3>1
  <2>3. QED BY <2>1, <2>2
<1>9. /\ call = "prints" /\ (\E k \in 1..Len(calls) : calls[k] # "prints") => \E k \in 1..Len(T) : T[k] # "prints"
      /\ call # "prints" /\ (\E k \in 1..Len(calls) : calls[k] = "prints") => \E k \in 1..Len(T) : T[k] = "prints"
      /\ (\A k \in 1..Len(calls) : calls[k] \in Failing) => call \in Failing /\ \A k \in 1..Len(T) : T[k] \in Failing
  BY <1>3, <1>4, <1>5 DEF call
<1>10. Failing \cap {"prints", "skip", "success", "expected"} = {}
  BY DEF Failing
<1>11. ExitTells'
  BY <1>1 DEF ExitTells
<1>16. /\ \A k, l \in 1..Len(T) : T[k] = "subfail" /\ l < k => T[l] = "prints"
       /\ res.status # FAILURE => call # "subfail" /\ \A k \in 1..Len(T) : T[k] # "subfail"
       /\ call # "prints" => \A k \in 1..Len(T) : T[k] # "subfail"
  <2>1. ASSUME NEW k \in 1..Len(T), NEW l \in 1..Len(T), T[k] = "subfail", l < k PROVE T[l] = "prints"
    <3>1. k + 1 \in 1..Len(calls) /\ l + 1 \in 1..Len(calls) /\ l + 1 < k + 1 /\ calls[k + 1] = "subfail" /\ T[l] = calls[l + 1]
      BY <1>4, <2>1
    <3>2. QED BY <1>7, <3>1
  <2>2. ASSUME call # "prints", NEW k \in 1..Len(T) PROVE T[k] # "subfail"
    <3>1. 1 < k + 1 /\ k + 1 \in 1..Len(calls) /\ T[k] = calls[k + 1]
      BY <1>4, <2>2
    <3>2. QED BY <1>3, <1>7, <2>2, <3>1 DEF call
  <2>3. res.status # FAILURE => call # "subfail" /\ \A k \in 1..Len(T) : T[k] # "subfail"
    BY <1>3, <1>4, <1>7 DEF call
  <2>4. QED BY <2>1, <2>2, <2>3
<1>12. CASE call = "prints"
  <2>1. /\ res' = [res EXCEPT !.output = Append(@, res.current)] /\ calls' = T
        /\ threads' = IF Case(program, res.current).thread THEN threads \cup {res.current} ELSE threads
    BY <1>3, <1>12 DEF Call, T
  <2>2. /\ DOMAIN res' = DOMAIN res /\ res'.results = res.results /\ res'.failed = res.failed
        /\ res'.current = res.current /\ res'.status = res.status /\ res'.output = Append(res.output, res.current)
    BY <1>6, <2>1
  <2>3. IsSequence(res'.output) /\ \A u : u \in Range(res'.output) <=> u \in Range(res.output) \/ u = res.current
    BY <1>7, <2>2, OneMore
  <2>4. ResultsTell'
    BY <1>1, <1>2, <2>2 DEF ResultsTell, Results, Unfinished
  <2>5. FailedIsTold'
    BY <1>1, <1>2, <1>3, <1>9, <1>10, <1>12, <2>1, <2>2 DEF FailedIsTold, Results
  <2>6. InTest'
    <3>1. \A u \in Range(res'.output) : u = res'.current \/ Unfinished(u)'
      BY <1>1, <1>7, <2>2, <2>3 DEF Unfinished
    <3>2. res'.status = FAILURE => res'.failed \/ \E k \in 1..Len(calls') : calls'[k] # "prints"
      BY <1>7, <1>9, <1>12, <2>1, <2>2
    <3>3. calls' \in Seq(K) /\ res'.current \in Asked(program') /\ res'.current \in Range(res'.output)
      BY <1>1, <1>4, <1>7, <2>1, <2>2, <2>3
    <3>4. \/ Hidden(Case(program', res'.current))
          \/ \A k, l \in 1..Len(calls') : k < l /\ calls'[k] \in Failing => calls'[l] \in Failing
      BY <1>1, <1>8, <2>1, <2>2
    <3>5. QED BY <1>16, <2>1, <2>2, <2>3, <3>1, <3>2, <3>3, <3>4 DEF InTest, K
  <2>7. \A t \in threads' : Unfinished(t)'
    BY <1>1, <2>1 DEF MainInv, Unfinished
  <2>8. QED BY <1>1, <1>11, <2>4, <2>5, <2>6, <2>7 DEF MainInv
<1>13. CASE call = "subskip"
  <2>1. res' = res /\ threads' = threads /\ calls' = <<"failure">> \o T
    BY <1>3, <1>13 DEF Call, T
  <2> DEFINE C == calls'
  <2>2. C \in Seq(K) /\ Len(C) = Len(calls) /\ C[1] = "failure" /\ \A k \in 1..Len(calls) : k # 1 => C[k] = calls[k]
    <3>1. "failure" \in K
      BY DEF K, Failing
    <3>2. <<"failure">> \in Seq(K) /\ Len(<<"failure">>) = 1 /\ <<"failure">>[1] = "failure"
      BY <3>1
    <3> DEFINE one == <<"failure">>
    <3>0. C = one \o T /\ one \in Seq(K)
      BY <2>1, <3>2
    <3> HIDE DEF one, C
    <3>3. /\ C \in Seq(K) /\ Len(C) = Len(one) + Len(T)
          /\ \A k \in 1..(Len(one) + Len(T)) : C[k] = IF k <= Len(one) THEN one[k] ELSE T[k - Len(one)]
      BY <1>4, <3>0, ConcatProperties, Zenon
    <3>4. Len(one) = 1 /\ one[1] = "failure"
      BY <3>2 DEF one
    <3>5. Len(C) = Len(calls) /\ C[1] = "failure"
      BY <1>3, <1>4, <3>3, <3>4
    <3>6. ASSUME NEW k \in 1..Len(calls), k # 1 PROVE C[k] = calls[k]
      <4>1. k \in 1..(Len(one) + Len(T)) /\ ~(k <= Len(one)) /\ k - Len(one) = k - 1
        BY <1>3, <1>4, <3>4, <3>6
      <4>2. QED BY <1>5, <3>3, <3>6, <4>1
    <3>7. QED BY <3>3, <3>5, <3>6
  <2> HIDE DEF C
  <2>3. \A k \in 1..Len(calls) : (C[k] \in Failing <=> calls[k] \in Failing) /\ (C[k] = "prints" <=> calls[k] = "prints")
    <3>1. "failure" \in Failing /\ "subskip" \in Failing
      BY DEF Failing
    <3>2. QED BY <1>13, <2>2, <3>1 DEF call
  <2>4. ResultsTell'
    BY <1>1, <1>2, <2>1 DEF ResultsTell, Results, Unfinished
  <2>5. FailedIsTold'
    BY <1>1, <1>2, <2>1, <2>2, <2>3 DEF FailedIsTold, Results, C
  <2>6. InTest'
    <3>1. res'.status = FAILURE => res'.failed \/ \E k \in 1..Len(C) : C[k] # "prints"
      BY <1>7, <2>1, <2>2, <2>3
    <3>2. res'.current \in Range(res'.output) \/ \E k \in 1..Len(C) : C[k] = "prints"
      BY <1>7, <2>1, <2>2, <2>3
    <3>3. \/ Hidden(Case(program', res'.current))
          \/ \A k, l \in 1..Len(C) : k < l /\ C[k] \in Failing => C[l] \in Failing
      BY <1>1, <1>7, <2>1, <2>2, <2>3
    <3>4. IsSequence(res'.output) /\ \A t \in Range(res'.output) : t = res'.current \/ Unfinished(t)'
      BY <1>1, <1>7, <2>1 DEF Unfinished
    <3>5. /\ \A k, l \in 1..Len(C) : C[k] = "subfail" /\ l < k => C[l] = "prints"
          /\ res'.status # FAILURE => \A k \in 1..Len(C) : C[k] # "subfail"
      BY <1>3, <1>7, <1>13, <2>1, <2>2 DEF call
    <3>6. QED BY <1>1, <1>7, <2>1, <2>2, <3>1, <3>2, <3>3, <3>4, <3>5 DEF InTest, K, C
  <2>7. QED BY <1>1, <1>11, <2>1, <2>4, <2>5, <2>6 DEF MainInv, Unfinished
\* A call that says what became of the test.
<1>14. CASE call \notin {"prints", "subskip"}
  <2>1. threads' = threads /\ calls' = T
    BY <1>3, <1>14 DEF Call, T
  <2>2. /\ DOMAIN res' = DOMAIN res /\ res'.results = res.results /\ res'.current = res.current
        /\ res'.output = res.output /\ res'.failed = (res.failed \/ call \in Failing)
        /\ res'.status = IF call = "subfail" THEN res.status ELSE Status(call)
    <3>1. CASE call = "subfail"
      <4>1. res' = [res EXCEPT !.failed = TRUE]
        BY <1>3, <3>1 DEF Call
      <4>2. call \in Failing
        BY <3>1 DEF Failing
      <4>3. QED BY <1>6, <3>1, <4>1, <4>2
    <3>2. CASE call # "subfail"
      <4>1. res' = [res EXCEPT !.status = Status(call), !.failed = (@ \/ call \in {"failure", "unexpected"})]
        BY <1>3, <1>14, <3>2 DEF Call
      <4>2. call \in {"failure", "unexpected"} <=> call \in Failing
        BY <1>14, <3>2 DEF Failing
      <4> HIDE DEF call
      <4>3. /\ DOMAIN res' = DOMAIN res /\ res'.results = res.results /\ res'.current = res.current
            /\ res'.output = res.output /\ res'.status = Status(call)
            /\ res'.failed = (res.failed \/ call \in {"failure", "unexpected"})
        BY <1>6, <4>1
      <4>4. QED BY <3>2, <4>2, <4>3
    <3>3. QED BY <3>1, <3>2
  <2>3. Status(call) = FAILURE <=> call \in Failing
    BY <1>3, <1>14 DEF Status, Failing, Ending, K, FAILURE, SUCCESS, SKIPPED
  <2>4. ResultsTell'
    <3>1. \A r \in Results : r.type = FAILURE => res'.failed
      BY <1>2, <2>2 DEF ResultsTell
    <3>2. \A r \in Results : ~r.fixture =>
            r.of[2] \in Range(r.output) /\ \A t \in Range(r.output) \ {r.of[2]} : Unfinished(t)
      BY <1>2 DEF ResultsTell
    <3>3. Results' = Results /\ \A t : Unfinished(t)' <=> Unfinished(t)
      BY <1>1, <2>2 DEF Results, Unfinished
    <3>4. IsSequence(res'.results) /\ res'.failed \in BOOLEAN /\ stage' # "load"
      BY <1>1, <1>2, <1>6, <2>2 DEF ResultsTell
    <3>5. DOMAIN res' = {"current", "status", "output", "results", "failed", "listed", "coverage"}
      BY <1>6, <2>2
    <3>6. QED BY <3>1, <3>2, <3>3, <3>4, <3>5 DEF ResultsTell
  <2>5. FailedIsTold'
    <3> DEFINE Told == \/ \E r \in Results : r.type = FAILURE
                       \/ \E t \in Asked(program) : Hidden(Case(program, t))
    <3>1. ASSUME res'.failed PROVE Told \/ (res'.status = FAILURE /\ \A k \in 1..Len(T) : T[k] \in Failing)
      <4>1. CASE call \in Failing
        <5>1. CASE Hidden(Case(program, res.current))
          BY <1>7, <5>1
        <5>2. CASE ~Hidden(Case(program, res.current))
          <6>1. \A k \in 1..Len(T) : T[k] \in Failing
            BY <1>8, <4>1, <5>2
          <6>2. CASE call # "subfail"
            BY <2>2, <2>3, <4>1, <6>1, <6>2
          <6>3. CASE call = "subfail"
            <7>1. res'.status = FAILURE
              BY <1>16, <2>2, <6>3
            <7>2. QED BY <6>1, <7>1
          <6>4. QED BY <6>2, <6>3
        <5>3. QED BY <5>1, <5>2
      <4>2. CASE call \notin Failing
        <5>1. res.failed
          BY <2>2, <3>1, <4>2
        <5>2. ~\A k \in 1..Len(calls) : calls[k] \in Failing
          BY <1>9, <4>2
        <5>3. QED BY <1>2, <5>1, <5>2 DEF FailedIsTold
      <4>3. QED BY <4>1, <4>2
    <3>2. Results' = Results /\ Asked(program') = Asked(program) /\ Case(program', res.current) = Case(program, res.current)
      BY <1>1, <2>2 DEF Results
    <3>3. QED BY <1>1, <2>1, <3>1, <3>2 DEF FailedIsTold
  <2>6. InTest'
    <3>1. res'.status = FAILURE => res'.failed \/ \E k \in 1..Len(T) : T[k] # "prints"
      <4>1. CASE call # "subfail"
        BY <2>2, <2>3, <4>1
      <4>2. CASE call = "subfail"
        BY <2>2, <4>2 DEF Failing
      <4>3. QED BY <4>1, <4>2
    <3>2. res'.current \in Range(res'.output) \/ \E k \in 1..Len(T) : T[k] = "prints"
      BY <1>7, <1>9, <1>14, <2>2
    <3>3. \/ Hidden(Case(program', res'.current))
          \/ \A k, l \in 1..Len(T) : k < l /\ T[k] \in Failing => T[l] \in Failing
      BY <1>1, <1>8, <2>2
    <3>4. IsSequence(res'.output) /\ \A t \in Range(res'.output) : t = res'.current \/ Unfinished(t)'
      BY <1>1, <1>7, <2>2 DEF Unfinished
    <3>5. res'.current \in Asked(program') /\ T \in Seq(Failing \cup Ending \cup {"prints"})
      BY <1>1, <1>4, <1>7, <2>2 DEF K
    <3>6. \A k \in 1..Len(T) : T[k] # "subfail"
      BY <1>14, <1>16
    <3>7. QED BY <1>16, <2>1, <3>1, <3>2, <3>3, <3>4, <3>5, <3>6 DEF InTest
  <2>7. QED BY <1>1, <1>11, <2>1, <2>4, <2>5, <2>6 DEF MainInv, Unfinished
<1>15. QED BY <1>12, <1>13, <1>14

LEMMA FiniteHasGreatest ==
  ASSUME NEW S, S \subseteq Nat, IsFiniteSet(S), S # {}
  PROVE  \E x \in S : \A y \in S : y <= x
<1>1. PICK s \in Seq(S) : \A y \in S : \E n \in 1..Len(s) : s[n] = y
  BY DEF IsFiniteSet
<1>2. s # <<>> /\ \A n \in 1..Len(s) : s[n] \in S
  <2>1. PICK y \in S : TRUE
    OBVIOUS
  <2>2. PICK n \in 1..Len(s) : s[n] = y
    BY <1>1, <2>1
  <2>3. Len(s) # 0
    BY <2>2
  <2>4. QED BY <2>3, ElementOfSeq
<1> DEFINE size == [n \in 1..Len(s) |-> s[n]]
<1>3. size \in [1..Len(s) -> Nat]
  BY <1>2
<1>4. \A n \in 1..Len(s) : size[n] = s[n]
  OBVIOUS
<1> HIDE DEF size
<1>5. PICK n \in 1..Len(s) : \A l \in 1..Len(s) : size[l] <= size[n]
  BY <1>2, <1>3, HasGreatest
<1>6. \A y \in S : y <= s[n]
  BY <1>1, <1>4, <1>5
<1>7. QED BY <1>2, <1>6

LEMMA FilesAre ==
  ASSUME NEW p \in Programs, NEW f \in p.files
  PROVE  /\ f.included \in BOOLEAN /\ f.omitted \in BOOLEAN
         /\ f.executed \subseteq f.statements /\ f.statements \cap f.excluded = {}
         /\ f.statements \cup f.excluded \subseteq Nat \ {0} /\ IsFiniteSet(f.statements \cup f.excluded)
<1>1. \A g \in p.files : /\ {g.included, g.omitted} \subseteq BOOLEAN
                         /\ g.executed \subseteq g.statements /\ g.statements \cap g.excluded = {}
                         /\ g.statements \cup g.excluded \subseteq Nat \ {0}
                         /\ IsFiniteSet(g.statements \cup g.excluded)
  BY ProgramAssumption, Zenon
<1>2. QED BY <1>1

\* What is reported of a file tells of every line as it was executed.
LEMMA CoverageTells ==
  ASSUME program \in Programs, NEW f \in Reported, NEW s, s = CovStr(Analysis(f))
  PROVE  /\ s # <<>> /\ f.executed = {k \in DOMAIN s : s[k] = "C"}
         /\ f.statements \ f.executed = {k \in DOMAIN s : s[k] = "U"}
<1>1. f \in program.files /\ f.included /\ ~f.omitted /\ f.executed # {}
  BY DEF Reported
<1>2. /\ f.executed \subseteq f.statements /\ f.statements \cap f.excluded = {}
      /\ f.statements \cup f.excluded \subseteq Nat \ {0} /\ IsFiniteSet(f.statements \cup f.excluded)
  BY <1>1, FilesAre
<1> DEFINE a == Analysis(f) of == a.statements \cup a.excluded \cup a.missing
           line(k) == IF k \in a.missing THEN "U" ELSE IF k \in a.excluded THEN "X"
                      ELSE IF k \in a.statements THEN "C" ELSE "N"
           last == CHOOSE x \in of : \A y \in of : y <= x
<1>3. a.statements = f.statements /\ a.excluded = f.excluded /\ a.missing = f.statements \ f.executed
  BY <1>1 DEF Analysis, Wiped, Omit
<1>4. s = IF of = {} THEN <<>> ELSE [k \in 1..last |-> line(k)]
  BY Zenon DEF CovStr
<1>5. of = f.statements \cup f.excluded /\ of # {}
  BY <1>1, <1>2, <1>3
<1>6. last \in of /\ \A y \in of : y <= last
  <2> HIDE DEF of
  <2>1. \E x \in of : \A y \in of : y <= x
    BY <1>2, <1>5, FiniteHasGreatest
  <2>2. QED BY <2>1
<1> HIDE DEF last
<1>7. \A k : /\ line(k) = "C" <=> k \in f.executed \/ (k \in f.executed /\ k \in f.statements)
             /\ line(k) = "U" <=> k \in f.statements \ f.executed
  <2>1. \A k : line(k) = IF k \in f.statements \ f.executed THEN "U" ELSE IF k \in f.excluded THEN "X"
                         ELSE IF k \in f.statements THEN "C" ELSE "N"
    BY <1>3
  <2> HIDE DEF line
  <2>2. QED BY <1>2, <2>1
<1> HIDE DEF of, line, a
<1>8. DOMAIN s = 1..last /\ \A k \in 1..last : s[k] = line(k)
  BY <1>4, <1>5
<1>9. last \in Nat \ {0} /\ \A k \in f.statements : k \in 1..last
  BY <1>2, <1>5, <1>6
<1>10. s # <<>>
  <2>1. 1 \in DOMAIN s
    BY <1>8, <1>9
  <2>2. DOMAIN <<>> = {}
    OBVIOUS
  <2>3. QED BY <2>1, <2>2
<1>11. QED BY <1>2, <1>7, <1>8, <1>9, <1>10

LEMMA ReportTells == ASSUME MainInv, Report PROVE MainInv'
<1>1. /\ stage = "finish" /\ stage' = "ended" /\ program' = program /\ suite' = suite /\ number' = number
      /\ threads' = threads /\ program \in Programs
      /\ res' = IF program.coverage THEN [res EXCEPT !.coverage = GetCoverage] ELSE res
      /\ exit' = IF program.coverage /\ program.show /\ Reported = {} THEN <<1>>
                 ELSE IF res.failed THEN <<70>> ELSE <<0>>
  BY DEF Report, order, MainInv
<1>2. ResultsTell /\ FailedIsTold
  BY DEF MainInv
<1>3. /\ DOMAIN res' = DOMAIN res /\ res'.results = res.results /\ res'.failed = res.failed
      /\ program.coverage => res'.coverage = GetCoverage
  <2>1. DOMAIN res = {"current", "status", "output", "results", "failed", "listed", "coverage"}
    BY <1>2 DEF ResultsTell
  <2> DEFINE coverage == GetCoverage
  <2> HIDE DEF coverage
  <2>2. res' = IF program.coverage THEN [res EXCEPT !.coverage = coverage] ELSE res
    BY <1>1 DEF coverage
  <2>3. QED BY <2>1, <2>2 DEF coverage
<1>4. Results' = Results /\ Reported' = Reported /\ \A t : Unfinished(t)' <=> Unfinished(t)
  BY <1>1, <1>3 DEF Results, Reported, Unfinished
<1>5. ResultsTell'
  BY <1>1, <1>2, <1>3, <1>4 DEF ResultsTell
<1>6. FailedIsTold' /\ InTest'
  BY <1>1, <1>2, <1>3, <1>4 DEF FailedIsTold, InTest
<1>7. ExitTells'
  <2> DEFINE failures == {r \in Results : r.type = FAILURE}
  <2>1. <<0>> # <<1>> /\ <<0>> # <<70>> /\ <<1>> # <<70>>
    OBVIOUS
  <2>2. exit' = <<0>> => failures = {}
    BY <1>1, <1>2, <2>1 DEF ResultsTell
  <2>3. exit' = <<70>> => failures # {} \/ \E t \in Asked(program) : Hidden(Case(program, t))
    BY <1>1, <1>2, <2>1 DEF FailedIsTold
  <2>4. exit' = <<1>> => program.coverage /\ Reported = {}
    BY <1>1, <2>1
  <2>5. ASSUME program.coverage, NEW f \in Reported
        PROVE  \E c \in res'.coverage :
                 /\ c[1] = f.name /\ f.executed = {k \in DOMAIN c[2] : c[2][k] = "C"}
                 /\ f.statements \ f.executed = {k \in DOMAIN c[2] : c[2][k] = "U"}
    <3> DEFINE s == CovStr(Analysis(f))
    <3>1. /\ s # <<>> /\ f.executed = {k \in DOMAIN s : s[k] = "C"}
          /\ f.statements \ f.executed = {k \in DOMAIN s : s[k] = "U"}
      BY <1>1, <2>5, CoverageTells
    <3>2. <<f.name, s>> \in res'.coverage
      BY <1>3, <2>5, <3>1, Zenon DEF GetCoverage
    <3> HIDE DEF s
    <3>3. <<f.name, s>>[1] = f.name /\ <<f.name, s>>[2] = s
      OBVIOUS
    <3>4. QED BY <3>1, <3>2, <3>3
  <2>6. \A r \in Results : ~r.fixture =>
          r.of[2] \in Range(r.output) /\ \A t \in Range(r.output) \ {r.of[2]} : Unfinished(t)
    BY <1>2 DEF ResultsTell
  <2>7. /\ Results' = Results /\ Reported' = Reported /\ program' = program /\ CanLoad(program') = CanLoad(program)
        /\ \A t : Case(program', t).thread = Unfinished(t)
    BY <1>1, <1>4 DEF Unfinished
  <2>8. QED BY <1>1, <2>2, <2>3, <2>4, <2>5, <2>6, <2>7, Zenon DEF ExitTells
<1>8. QED BY <1>1, <1>4, <1>5, <1>6, <1>7 DEF MainInv

\* The exit code of the program and the results agree, whatever fails and in
\* whichever order and whatever the threads of tests still print, but for tests
\* that skip after they failed; the output of a test is in its result, and each
\* line of a file that is to be covered is told as it was executed
\* (BuckTestResult and MainProgram.run of __test_main__.py).
THEOREM ExitCodeTells == MainSpec => []ExitTells
<1>1. ASSUME MainInv, [MainNext]_mainVars PROVE MainInv'
  <2>1. CASE MainNext
    BY <1>1, <2>1, LoadTells, NextTestTells, FixtureTells, BeginTells, CallTells, EndTestTells, ThreadTells,
       InterruptTells, ReportTells DEF MainNext
  <2>2. CASE UNCHANGED mainVars
    <3>1. /\ program' = program /\ stage' = stage /\ suite' = suite /\ number' = number /\ calls' = calls
          /\ threads' = threads /\ res' = res /\ exit' = exit
      BY <2>2 DEF mainVars
    <3>2. ResultsTell' /\ InTest' /\ FailedIsTold'
      BY <1>1, <3>1 DEF MainInv, ResultsTell, InTest, FailedIsTold, Results, Unfinished
    <3>3. Results' = Results /\ Reported' = Reported
      BY <3>1 DEF Results, Reported
    <3>4. ExitTells'
      BY <1>1, <3>1, <3>3, Zenon DEF MainInv, ExitTells
    <3>5. QED BY <1>1, <3>1, <3>2, <3>4 DEF MainInv, Unfinished
  <2>3. QED BY <1>1, <2>1, <2>2
<1>2. MainInv => ExitTells
  BY DEF MainInv
<1>3. QED BY InitTells, <1>1, <1>2, PTL DEF MainSpec
=============================================================================

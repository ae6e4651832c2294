------------------------------ MODULE IoBuffer ------------------------------
(***************************************************************************)
(* The capture of output: the server io_buffer stands in for the group     *)
(* leader of all that runs in the test node, keeps the last lines in a     *)
(* bounded_buffer and passes them on. The hook cth_tpx has it capture from *)
(* before a part and empties it into the result of the part. A part is     *)
(* what runs between two results: an init, an end, or a test with its end. *)
(*                                                                         *)
(* Every request and every call waits for its answer, so each process has  *)
(* one message in the mailbox at most. The processes are that of the part  *)
(* that runs and others, which may outlive their part. A line is           *)
(* <<writer, number, part>>, with the part that ran when it was written.   *)
(***************************************************************************)
EXTENDS Naturals, Sequences, FiniteSets, Functions

CONSTANTS MaxElements,   \* capacity of the buffer
          Others,        \* processes beside the part's own
          MaxLines,      \* bound: lines of each process
          MaxParts       \* bound: parts of the suite

ASSUME BufferAssumption == {MaxElements, MaxLines, MaxParts} \subseteq Nat \ {0}

Part == "part"
Writers == {Part} \cup Others
Hook == "hook"
ASSUME WritersAssumption == Part \notin Others /\ Hook \notin Writers

VARIABLES
  passThrough, \* option: captured lines are printed too
  up,          \* the server runs
  inbox,       \* its mailbox: [from, op, line]
  capture,     \* it captures
  buffer,      \* the elements of the bounded buffer
  truncated,   \* the flag of the bounded buffer
  log,         \* what the group leader has printed
  pc, calls,   \* the hook: where it is, and the calls it still has to make
  part,        \* number of the part
  results,     \* [lines, truncated] for each part
  said,        \* history: the lines written
  captured     \* history: lines captured since the buffer was emptied

bufferVars == <<capture, buffer, truncated>>
hookVars == <<pc, calls, part>>
vars == <<passThrough, up, inbox, bufferVars, log, hookVars, results, said, captured>>

-----------------------------------------------------------------------------
Waiting(p) == \E n \in DOMAIN inbox : inbox[n].from = p
HookIdle == calls = <<>> /\ ~Waiting(Hook)

\* bounded_buffer:put
Bug_DropNew(line) ==
  IF Len(buffer) < MaxElements THEN buffer' = Append(buffer, line) /\ UNCHANGED truncated
  ELSE UNCHANGED buffer /\ truncated' = TRUE
Put(line) ==
  IF Len(buffer) < MaxElements THEN buffer' = Append(buffer, line) /\ UNCHANGED truncated
  ELSE buffer' = Append(Tail(buffer), line) /\ truncated' = TRUE

Bug_NotEmptied == UNCHANGED <<buffer, truncated>> /\ captured' = <<>>
Emptied == buffer' = <<>> /\ truncated' = FALSE /\ captured' = <<>>

Init ==
  /\ passThrough \in BOOLEAN /\ up = TRUE /\ inbox = <<>>
  /\ capture = FALSE /\ buffer = <<>> /\ truncated = FALSE /\ log = <<>>
  /\ pc = "between" /\ calls = <<>> /\ part = 0 /\ results = <<>>
  /\ said = {} /\ captured = <<>>

-----------------------------------------------------------------------------
(* The writers. Requests that read, or set options, change nothing here.    *)

\* io:put_chars, or what the server cannot take: see HandleBad.
Write(w, op) ==
  /\ up /\ ~Waiting(w)
  /\ w = Part => pc = "running" /\ HookIdle
  /\ \E n \in 1..MaxLines :
       /\ n = Cardinality({l \in said : l[1] = w}) + 1
       /\ said' = said \cup {<<w, n, part>>}
       /\ inbox' = Append(inbox, [from |-> w, op |-> op, line |-> <<w, n, part>>])
  /\ UNCHANGED <<passThrough, up, bufferVars, log, hookVars, results, captured>>

-----------------------------------------------------------------------------
(* The hook *)

\* initialize_stdout_capture
Bug_FlushFirst == <<"flush", "stop", "start">>
Bug_NoStop == <<"flush", "start">>
InitializeCapture == <<"stop", "flush", "start">>

BeginPart ==
  /\ up /\ pc = "between" /\ HookIdle /\ part < MaxParts
  /\ pc' = "running" /\ part' = part + 1 /\ calls' = InitializeCapture
  /\ UNCHANGED <<passThrough, up, inbox, bufferVars, log, results, said, captured>>

\* add_result
EndPart ==
  /\ up /\ pc = "running" /\ HookIdle /\ ~Waiting(Part)
  /\ pc' = "between" /\ calls' = <<"report">>
  /\ UNCHANGED <<passThrough, up, inbox, bufferVars, log, part, results, said, captured>>

\* The test and the end of a test case follow on its init in the same capture.
GoOn ==
  /\ up /\ pc = "between" /\ HookIdle /\ part \in 1..(MaxParts - 1)
  /\ pc' = "running" /\ part' = part + 1
  /\ UNCHANGED <<passThrough, up, inbox, bufferVars, log, calls, results, said, captured>>

\* clear_suite, which also forgets the server.
EndSuite ==
  /\ up /\ pc = "between" /\ HookIdle
  /\ pc' = "ended" /\ calls' = <<"stop">>
  /\ UNCHANGED <<passThrough, up, inbox, bufferVars, log, part, results, said, captured>>

Call ==
  /\ up /\ calls # <<>> /\ ~Waiting(Hook)
  /\ calls' = Tail(calls)
  /\ inbox' = Append(inbox, [from |-> Hook, op |-> Head(calls), line |-> <<>>])
  /\ UNCHANGED <<passThrough, up, bufferVars, log, pc, part, results, said, captured>>

-----------------------------------------------------------------------------
(* The server *)

Received(op) == up /\ inbox # <<>> /\ Head(inbox).op = op /\ inbox' = Tail(inbox)

HandlePut ==
  /\ Received("put")
  /\ LET line == Head(inbox).line IN
       /\ IF capture THEN Put(line) /\ captured' = Append(captured, line)
                     ELSE UNCHANGED <<buffer, truncated, captured>>
       /\ log' = IF ~capture \/ passThrough THEN Append(log, line) ELSE log
  /\ UNCHANGED <<passThrough, up, capture, hookVars, results, said>>

\* Several requests in one, where multi_request goes on with the first in the
\* place of the others, or characters that are no text: an exception ends the
\* server, and the node with it.
HandleBad ==
  /\ Received("bad")
  /\ IF capture THEN up' = FALSE /\ UNCHANGED log
                ELSE log' = Append(log, Head(inbox).line) /\ UNCHANGED up
  /\ UNCHANGED <<passThrough, bufferVars, hookVars, results, said, captured>>

HandleStart ==
  /\ Received("start") /\ capture' = TRUE
  /\ UNCHANGED <<passThrough, up, buffer, truncated, log, hookVars, results, said, captured>>

\* What is in the buffer is printed, and stays there.
HandleStop ==
  /\ Received("stop") /\ capture' = FALSE /\ log' = log \o buffer
  /\ UNCHANGED <<passThrough, up, buffer, truncated, hookVars, results, said, captured>>

HandleFlush ==
  /\ Received("flush") /\ Emptied
  /\ UNCHANGED <<passThrough, up, capture, log, hookVars, results, said>>

\* flush, with the answer kept in the result.
HandleReport ==
  /\ Received("report") /\ Emptied
  /\ results' = Append(results, [lines |-> buffer, truncated |-> truncated])
  /\ UNCHANGED <<passThrough, up, capture, log, hookVars, said>>

Next ==
  \/ \E w \in Writers, op \in {"put", "bad"} : Write(w, op)
  \/ BeginPart \/ EndPart \/ GoOn \/ EndSuite \/ Call
  \/ HandlePut \/ HandleBad \/ HandleStart \/ HandleStop \/ HandleFlush \/ HandleReport

Spec == Init /\ [][Next]_vars

-----------------------------------------------------------------------------
Lines == Writers \X (1..MaxLines) \X (0..MaxParts)
Result == [lines : Seq(Lines), truncated : BOOLEAN]

TypeOK ==
  /\ passThrough \in BOOLEAN /\ up \in BOOLEAN /\ capture \in BOOLEAN
  /\ \A n \in DOMAIN inbox :
       inbox[n].op \in {"put", "bad", "stop", "flush", "start", "report"}
  /\ buffer \in Seq(Lines) /\ Len(buffer) <= MaxElements /\ truncated \in BOOLEAN
  /\ pc \in {"between", "running", "ended"} /\ part \in 0..MaxParts
  /\ results \in Seq(Result) /\ log \in Seq(Lines)
  /\ said \subseteq Lines /\ captured \in Seq(Lines)

(***************************************************************************)
(* What a part itself has written is in the result of that part and of no  *)
(* other, all of it unless the result is marked truncated; only other      *)
(* processes write into the result of a later part (add_result).           *)
(***************************************************************************)
OwnOutput ==
  \A n \in DOMAIN results :
    LET own == {l \in Range(results[n].lines) : l[1] = Part} IN
    /\ \A l \in own : l[3] = n
    /\ ~results[n].truncated => \A l \in said : l[1] = Part /\ l[3] = n => l \in own

(***************************************************************************)
(* The buffer has the last lines captured since it was emptied, in their   *)
(* order, and is marked truncated exactly when these are not all of them.  *)
(***************************************************************************)
BufferIsTail ==
  LET n == Len(captured) IN
  /\ truncated <=> n > MaxElements
  /\ buffer = SubSeq(captured, IF truncated THEN n - MaxElements + 1 ELSE 1, n)

Times(line) == Cardinality({n \in DOMAIN log : log[n] = line})
Reported == UNION {Range(results[n].lines) : n \in DOMAIN results}

(***************************************************************************)
(* A line in a result is printed once if captured lines are passed on and  *)
(* not at all if they are not: the stop that prints the rest of the buffer *)
(* never prints what a result has or will have (the order of the calls in  *)
(* initialize_stdout_capture against writers that do not wait for it).     *)
(***************************************************************************)
ReportedOrPrinted ==
  \A line \in Reported : Times(line) = (IF passThrough THEN 1 ELSE 0)

(***************************************************************************)
(* A line leaves the buffer into a result, or when it has been printed, or *)
(* pushed out with the result marked truncated: none disappears between    *)
(* two parts, or when two processes write at the end of a part.            *)
(***************************************************************************)
LeavesForAReason ==
  [][\A line \in Range(buffer) \ Range(buffer') :
       line \in Reported' \cup Range(log') \/ truncated']_vars
=============================================================================

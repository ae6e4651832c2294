--------------------------- MODULE IoBufferProofs ---------------------------
(***************************************************************************)
(* For every capacity, any number of writers and any interleaving of them  *)
(* with the hook: the buffer holds the end of what was captured, and each  *)
(* line ends where it should, in one result, in the log, or both.          *)
(*                                                                         *)
(* BufferInv states the first element by element: SubSeq is put in at the  *)
(* very end only. LineInv says where the hook is in its calls, seen from   *)
(* the server, and that a line in the mailbox is nowhere else; what is     *)
(* printed (PrintInv) and what is the part's own (OwnInv) rest on it.      *)
(***************************************************************************)
EXTENDS IoBuffer, FiniteSetTheorems, TLAPS

HookOp == {"stop", "flush", "start", "report"}
Message == [from : Writers, op : {"put", "bad"}, line : Lines]
             \cup [from : {Hook}, op : HookOp, line : {<<>>}]

TypeInv ==
  /\ passThrough \in BOOLEAN /\ up \in BOOLEAN /\ capture \in BOOLEAN
  /\ inbox \in Seq(Message) /\ calls \in Seq(HookOp)
  /\ buffer \in Seq(Lines) /\ truncated \in BOOLEAN
  /\ pc \in {"between", "running", "ended"} /\ part \in 0..MaxParts
  /\ results \in Seq(Result) /\ log \in Seq(Lines)
  /\ said \subseteq Lines /\ captured \in Seq(Lines)

\* The buffer is the end of what was captured.
Kept ==
  /\ truncated <=> Len(captured) > MaxElements
  /\ Len(captured) > MaxElements => Len(buffer) = MaxElements
  /\ Len(captured) <= MaxElements => Len(buffer) = Len(captured)
  /\ \A i \in 1..Len(buffer) : buffer[i] = captured[Len(captured) - Len(buffer) + i]

BufferInv == TypeInv /\ Kept

LEMMA Capacity == /\ MaxElements \in Nat /\ MaxElements > 0
                  /\ MaxLines \in Nat /\ MaxParts \in Nat /\ MaxParts > 0
BY BufferAssumption

LEMMA BufferInit == Init => BufferInv
<1> SUFFICES ASSUME Init PROVE BufferInv
  OBVIOUS
<1>1. TypeInv
  <2>1. part \in 0..MaxParts
    BY Capacity DEF Init
  <2>2. /\ inbox \in Seq(Message) /\ calls \in Seq(HookOp) /\ buffer \in Seq(Lines)
        /\ results \in Seq(Result) /\ log \in Seq(Lines) /\ captured \in Seq(Lines)
    BY DEF Init
  <2>3. QED BY <2>1, <2>2 DEF Init, TypeInv
<1>2. Kept     BY Capacity DEF Init, Kept
<1>3. QED BY <1>1, <1>2 DEF BufferInv

LEMMA Received1 ==
  ASSUME TypeInv, NEW op, Received(op)
  PROVE  /\ inbox' \in Seq(Message) /\ Head(inbox) \in Message
         /\ op \in {"put", "bad"} => Head(inbox).line \in Lines
<1>1. inbox \in Seq(Message) /\ inbox # <<>> /\ inbox' = Tail(inbox) /\ Head(inbox).op = op
  BY DEF TypeInv, Received
<1>2. Head(inbox) \in Message /\ inbox' \in Seq(Message)
  BY <1>1
<1>3. op \in {"put", "bad"} => Head(inbox).line \in Lines
  BY <1>1, <1>2 DEF Message, HookOp
<1>4. QED BY <1>2, <1>3

\* What the server does with a line: it captures it, and Kept still holds.
LEMMA PutKeeps ==
  ASSUME TypeInv, Kept, NEW line \in Lines, Put(line), captured' = Append(captured, line)
  PROVE  /\ buffer' \in Seq(Lines) /\ truncated' \in BOOLEAN /\ captured' \in Seq(Lines)
         /\ Kept'
<1> DEFINE n == Len(captured)
           m == Len(buffer)
<1>1. buffer \in Seq(Lines) /\ captured \in Seq(Lines) /\ truncated \in BOOLEAN
  BY DEF TypeInv
<1>2. /\ captured' \in Seq(Lines) /\ Len(captured') = n + 1 /\ captured'[n + 1] = line
      /\ \A i \in 1..n : captured'[i] = captured[i]
  BY <1>1
<1>3. /\ n \in Nat /\ m \in Nat /\ m <= n /\ m <= MaxElements
      /\ truncated <=> n > MaxElements
      /\ n > MaxElements => m = MaxElements
      /\ n <= MaxElements => m = n
      /\ \A i \in 1..m : buffer[i] = captured[n - m + i]
  BY <1>1, Capacity DEF Kept
<1>4. CASE m < MaxElements
  <2>1. buffer' = Append(buffer, line) /\ truncated' = truncated
    BY <1>4 DEF Put
  <2>2. m = n  BY <1>3, <1>4, Capacity
  <2>3. /\ buffer' \in Seq(Lines) /\ Len(buffer') = m + 1 /\ buffer'[m + 1] = line
        /\ \A i \in 1..m : buffer'[i] = buffer[i]
    BY <1>1, <2>1
  <2>4. \A i \in 1..Len(buffer') : buffer'[i] = captured'[Len(captured') - Len(buffer') + i]
    BY <1>2, <1>3, <2>2, <2>3
  <2>5. /\ truncated' <=> Len(captured') > MaxElements
        /\ Len(captured') > MaxElements => Len(buffer') = MaxElements
        /\ Len(captured') <= MaxElements => Len(buffer') = Len(captured')
    BY <1>2, <1>3, <1>4, <2>1, <2>2, <2>3, Capacity
  <2>6. QED BY <1>1, <1>2, <2>1, <2>3, <2>4, <2>5 DEF Kept
<1>5. CASE ~(m < MaxElements)
  <2>1. buffer' = Append(Tail(buffer), line) /\ truncated' = TRUE
    BY <1>5 DEF Put
  <2>2. m = MaxElements /\ n >= MaxElements /\ buffer # <<>>
    BY <1>1, <1>3, <1>5, Capacity
  <2>3. /\ Tail(buffer) \in Seq(Lines) /\ Len(Tail(buffer)) = m - 1
        /\ \A i \in 1..(m - 1) : Tail(buffer)[i] = buffer[i + 1]
    BY <1>1, <2>2
  <2>4. /\ buffer' \in Seq(Lines) /\ Len(buffer') = m /\ buffer'[m] = line
        /\ \A i \in 1..(m - 1) : buffer'[i] = buffer[i + 1]
    BY <2>1, <2>2, <2>3, Capacity
  <2>5. \A i \in 1..(m - 1) : buffer'[i] = captured'[n + 1 - m + i]
    <3> SUFFICES ASSUME NEW i \in 1..(m - 1) PROVE buffer'[i] = captured'[n + 1 - m + i]
      OBVIOUS
    <3>2. i + 1 \in 1..m /\ n - m + (i + 1) = n + 1 - m + i /\ n + 1 - m + i \in 1..n
      BY <1>3
    <3>3. buffer'[i] = captured[n + 1 - m + i]
      BY <1>3, <2>4, <3>2
    <3>4. QED BY <1>2, <3>2, <3>3
  <2>6. \A i \in 1..Len(buffer') : buffer'[i] = captured'[Len(captured') - Len(buffer') + i]
    <3>1. \A i \in 1..m : buffer'[i] = captured'[n + 1 - m + i]
      <4> SUFFICES ASSUME NEW i \in 1..m PROVE buffer'[i] = captured'[n + 1 - m + i]
        OBVIOUS
      <4>1. CASE i = m
        BY <1>2, <1>3, <2>4, <4>1
      <4>2. CASE i # m
        <5>1. i \in 1..(m - 1)  BY <1>3, <4>2
        <5>2. QED BY <2>5, <5>1
      <4>3. QED BY <4>1, <4>2
    <3>2. Len(buffer') = m /\ Len(captured') = n + 1
      BY <1>2, <2>4
    <3>3. n \in Nat /\ m \in Nat  BY <1>3
    <3> HIDE DEF n, m
    <3> SUFFICES ASSUME NEW i \in 1..Len(buffer')
                 PROVE  buffer'[i] = captured'[Len(captured') - Len(buffer') + i]
      OBVIOUS
    <3>4. i \in 1..m  BY <3>2
    <3>5. Len(captured') - Len(buffer') + i = n + 1 - m + i
      BY <3>3, <3>2
    <3>6. buffer'[i] = captured'[n + 1 - m + i]  BY <3>1, <3>4
    <3>7. QED BY <3>5, <3>6
  <2>7. /\ truncated' <=> Len(captured') > MaxElements
        /\ Len(captured') > MaxElements => Len(buffer') = MaxElements
        /\ Len(captured') <= MaxElements => Len(buffer') = Len(captured')
    BY <1>2, <1>3, <2>1, <2>2, <2>4, Capacity
  <2>8. QED BY <1>2, <2>1, <2>4, <2>6, <2>7 DEF Kept
<1>6. QED BY <1>4, <1>5

LEMMA EmptiedKeeps ==
  ASSUME Emptied PROVE /\ buffer' \in Seq(Lines) /\ truncated' \in BOOLEAN
                       /\ captured' \in Seq(Lines) /\ Kept'
<1>1. buffer' = <<>> /\ captured' = <<>> /\ truncated' = FALSE
  BY DEF Emptied
<1>2. Len(buffer') = 0 /\ Len(captured') = 0
  BY <1>1
<1>3. buffer' \in Seq(Lines) /\ captured' \in Seq(Lines)
  BY <1>1
<1>4. Kept'
  BY <1>1, <1>2, Capacity DEF Kept
<1>5. QED BY <1>1, <1>3, <1>4

LEMMA BufferNext == BufferInv /\ [Next]_vars => BufferInv'
<1> SUFFICES ASSUME TypeInv, Kept, [Next]_vars PROVE TypeInv' /\ Kept'
  BY DEF BufferInv
<1> DEFINE Frame == UNCHANGED <<buffer, truncated, captured>>
<1>1. ASSUME Frame PROVE Kept'
  BY <1>1 DEF Kept
<1>2. ASSUME NEW w \in Writers, NEW op \in {"put", "bad"}, Write(w, op) PROVE TypeInv' /\ Kept'
  <2>1. PICK n \in 1..MaxLines :
          /\ said' = said \cup {<<w, n, part>>}
          /\ inbox' = Append(inbox, [from |-> w, op |-> op, line |-> <<w, n, part>>])
    BY <1>2 DEF Write
  <2>2. <<w, n, part>> \in Lines
    BY DEF TypeInv, Lines
  <2>3. [from |-> w, op |-> op, line |-> <<w, n, part>>] \in Message
    BY <2>2 DEF Message
  <2>4. inbox' \in Seq(Message) /\ said' \subseteq Lines
    <3>1. inbox \in Seq(Message) /\ said \subseteq Lines
      BY DEF TypeInv
    <3>2. QED BY <2>1, <2>2, <2>3, <3>1
  <2>5. Frame /\ UNCHANGED <<passThrough, up, capture, log, pc, calls, part, results>>
    BY <1>2 DEF Write, bufferVars, hookVars
  <2>6. QED BY <1>1, <2>4, <2>5 DEF TypeInv
<1>3. ASSUME BeginPart \/ EndPart \/ GoOn \/ EndSuite PROVE TypeInv' /\ Kept'
  <2>1. pc' \in {"between", "running", "ended"} /\ part' \in 0..MaxParts /\ calls' \in Seq(HookOp)
    <3>1. part \in 0..MaxParts /\ calls \in Seq(HookOp) /\ pc \in {"between", "running", "ended"}
      BY DEF TypeInv
    <3>2. InitializeCapture \in Seq(HookOp) /\ <<"report">> \in Seq(HookOp) /\ <<"stop">> \in Seq(HookOp)
      BY DEF InitializeCapture, HookOp
    <3>3. CASE BeginPart  BY <3>1, <3>2, <3>3, Capacity DEF BeginPart
    <3>4. CASE EndPart    BY <3>1, <3>2, <3>4 DEF EndPart
    <3>5. CASE GoOn       BY <3>1, <3>5, Capacity DEF GoOn
    <3>6. CASE EndSuite   BY <3>1, <3>2, <3>6 DEF EndSuite
    <3>7. QED BY <1>3, <3>3, <3>4, <3>5, <3>6
  <2>2. Frame /\ UNCHANGED <<passThrough, up, inbox, capture, log, results, said>>
    BY <1>3 DEF BeginPart, EndPart, GoOn, EndSuite, bufferVars
  <2>3. QED BY <1>1, <2>1, <2>2 DEF TypeInv
<1>4. CASE Call
  <2>1. calls \in Seq(HookOp) /\ calls # <<>>
    BY <1>4 DEF Call, TypeInv
  <2>2. calls' \in Seq(HookOp) /\ Head(calls) \in HookOp
    BY <1>4, <2>1 DEF Call
  <2>3. [from |-> Hook, op |-> Head(calls), line |-> <<>>] \in Message
    BY <2>2 DEF Message
  <2>4. inbox' \in Seq(Message)
    BY <1>4, <2>3 DEF Call, TypeInv
  <2>5. Frame /\ UNCHANGED <<passThrough, up, capture, log, pc, part, results, said>>
    BY <1>4 DEF Call, bufferVars
  <2>6. QED BY <1>1, <2>2, <2>4, <2>5 DEF TypeInv
<1>5. CASE HandlePut
  <2> DEFINE line == Head(inbox).line
  <2>1. Received("put")  BY <1>5 DEF HandlePut
  <2>2. inbox' \in Seq(Message) /\ line \in Lines
    BY <2>1, Received1
  <2>3. log' \in Seq(Lines)
    BY <1>5, <2>2 DEF HandlePut, TypeInv
  <2>4. /\ buffer' \in Seq(Lines) /\ truncated' \in BOOLEAN /\ captured' \in Seq(Lines)
        /\ Kept'
    <3>1. CASE capture
      <4>1. Put(line) /\ captured' = Append(captured, line)
        BY <1>5, <3>1 DEF HandlePut
      <4>2. QED BY <2>2, <4>1, PutKeeps
    <3>2. CASE ~capture
      <4>1. Frame  BY <1>5, <3>2 DEF HandlePut
      <4>2. QED BY <1>1, <4>1 DEF TypeInv
    <3>3. QED BY <3>1, <3>2
  <2>5. UNCHANGED <<passThrough, up, capture, pc, calls, part, results, said>>
    BY <1>5 DEF HandlePut, hookVars
  <2>6. QED BY <2>2, <2>3, <2>4, <2>5 DEF TypeInv
<1>6. CASE HandleBad
  <2>1. Received("bad")  BY <1>6 DEF HandleBad
  <2>2. inbox' \in Seq(Message) /\ Head(inbox).line \in Lines
    BY <2>1, Received1
  <2>3. log' \in Seq(Lines) /\ up' \in BOOLEAN
    <3>1. log \in Seq(Lines) /\ up \in BOOLEAN
      BY DEF TypeInv
    <3>2. CASE capture   BY <1>6, <3>1, <3>2 DEF HandleBad
    <3>3. CASE ~capture  BY <1>6, <2>2, <3>1, <3>3 DEF HandleBad
    <3>4. QED BY <3>2, <3>3
  <2>4. Frame /\ UNCHANGED <<passThrough, capture, pc, calls, part, results, said>>
    BY <1>6 DEF HandleBad, bufferVars, hookVars
  <2>5. QED BY <1>1, <2>2, <2>3, <2>4 DEF TypeInv
<1>7. CASE HandleStart
  <2>1. inbox' \in Seq(Message)
    BY <1>7, Received1 DEF HandleStart
  <2>2. capture' \in BOOLEAN
        /\ Frame /\ UNCHANGED <<passThrough, up, log, pc, calls, part, results, said>>
    BY <1>7 DEF HandleStart, hookVars
  <2>3. QED BY <1>1, <2>1, <2>2 DEF TypeInv
<1>8. CASE HandleStop
  <2>1. inbox' \in Seq(Message)
    BY <1>8, Received1 DEF HandleStop
  <2>2. capture' \in BOOLEAN /\ log' \in Seq(Lines)
    <3>1. log \in Seq(Lines) /\ buffer \in Seq(Lines)
      BY DEF TypeInv
    <3>2. log' = log \o buffer /\ capture' = FALSE
      BY <1>8 DEF HandleStop
    <3>3. log \o buffer \in Seq(Lines)
      BY <3>1
    <3>4. QED BY <3>2, <3>3
  <2>3. Frame /\ UNCHANGED <<passThrough, up, pc, calls, part, results, said>>
    BY <1>8 DEF HandleStop, hookVars
  <2>4. QED BY <1>1, <2>1, <2>2, <2>3 DEF TypeInv
<1>9. CASE HandleFlush
  <2>1. inbox' \in Seq(Message)
    BY <1>9, Received1 DEF HandleFlush
  <2>2. /\ buffer' \in Seq(Lines) /\ truncated' \in BOOLEAN /\ captured' \in Seq(Lines)
        /\ Kept'
    BY <1>9, EmptiedKeeps DEF HandleFlush
  <2>3. UNCHANGED <<passThrough, up, capture, log, pc, calls, part, results, said>>
    BY <1>9 DEF HandleFlush, hookVars
  <2>4. QED BY <2>1, <2>2, <2>3 DEF TypeInv
<1>10. CASE HandleReport
  <2>1. inbox' \in Seq(Message)
    BY <1>10, Received1 DEF HandleReport
  <2>2. /\ buffer' \in Seq(Lines) /\ truncated' \in BOOLEAN /\ captured' \in Seq(Lines)
        /\ Kept'
    BY <1>10, EmptiedKeeps DEF HandleReport
  <2>3. results' \in Seq(Result)
    <3>1. results \in Seq(Result) /\ buffer \in Seq(Lines) /\ truncated \in BOOLEAN
      BY DEF TypeInv
    <3>2. [lines |-> buffer, truncated |-> truncated] \in Result
      BY <3>1 DEF Result
    <3>3. QED BY <1>10, <3>1, <3>2 DEF HandleReport
  <2>4. UNCHANGED <<passThrough, up, capture, log, pc, calls, part, said>>
    BY <1>10 DEF HandleReport, hookVars
  <2>5. QED BY <2>1, <2>2, <2>3, <2>4 DEF TypeInv
<1>11. CASE UNCHANGED vars
  <2>1. Frame /\ UNCHANGED <<passThrough, up, inbox, capture, log, pc, calls, part, results, said>>
    BY <1>11 DEF vars, bufferVars, hookVars
  <2>2. QED BY <1>1, <2>1 DEF TypeInv
<1>12. QED
  BY <1>2, <1>3, <1>4, <1>5, <1>6, <1>7, <1>8, <1>9, <1>10, <1>11 DEF Next

LEMMA BufferInvariant == Spec => []BufferInv
<1>1. QED BY BufferInit, BufferNext, PTL DEF Spec

(***************************************************************************)
(* Every value is of its type, and the buffer never has more elements than *)
(* its capacity, though put has no clause for a longer one.                *)
(***************************************************************************)
THEOREM BufferTyped == Spec => []TypeOK
<1>1. BufferInv => TypeOK
  <2> SUFFICES ASSUME TypeInv, Kept PROVE TypeOK
    BY DEF BufferInv
  <2>2. Len(buffer) <= MaxElements
    <3>1. Len(captured) \in Nat
      BY DEF TypeInv
    <3>2. QED BY <3>1, Capacity DEF Kept
  <2>3. \A n \in DOMAIN inbox : inbox[n].op \in {"put", "bad", "stop", "flush", "start", "report"}
    <3>1. inbox \in Seq(Message)
      BY DEF TypeInv
    <3>2. \A n \in DOMAIN inbox : inbox[n] \in Message
      BY <3>1
    <3>3. QED BY <3>2 DEF Message, HookOp
  <2>4. QED BY <2>2, <2>3 DEF TypeInv, TypeOK
<1>2. QED BY <1>1, BufferInvariant, PTL

(***************************************************************************)
(* A result has the end of what was captured, in order, and is marked      *)
(* exactly when something was cut off, for every capacity (bounded_buffer: *)
(* the tail is kept, as cth_tpx tells the reader of the result).           *)
(***************************************************************************)
THEOREM BufferKeepsTail == Spec => []BufferIsTail
<1>1. BufferInv => BufferIsTail
  <2> DEFINE n == Len(captured)
             first == IF truncated THEN n - MaxElements + 1 ELSE 1
  <2> SUFFICES ASSUME TypeInv, Kept
                 PROVE  (truncated <=> n > MaxElements) /\ buffer = SubSeq(captured, first, n)
    BY DEF BufferInv, BufferIsTail
  <2>2. /\ buffer \in Seq(Lines) /\ captured \in Seq(Lines) /\ n \in Nat
        /\ truncated \in BOOLEAN
    BY DEF TypeInv
  <2>3. /\ truncated <=> n > MaxElements
        /\ n > MaxElements => Len(buffer) = MaxElements
        /\ n <= MaxElements => Len(buffer) = n
        /\ \A i \in 1..Len(buffer) : buffer[i] = captured[n - Len(buffer) + i]
    BY DEF Kept
  <2>4. first \in 1..(n + 1) /\ Len(buffer) = n - first + 1
    <3>1. CASE truncated
      <4>1. n > MaxElements /\ Len(buffer) = MaxElements /\ first = n - MaxElements + 1
        BY <2>3, <3>1
      <4>2. QED BY <2>2, <4>1, Capacity
    <3>2. CASE ~truncated
      <4>1. ~(n > MaxElements) /\ first = 1
        BY <2>3, <3>2
      <4>2. Len(buffer) = n
        BY <2>2, <2>3, <4>1, Capacity
      <4>3. QED BY <2>2, <4>1, <4>2
    <3>3. QED BY <3>1, <3>2
  <2> HIDE DEF first
  <2>5. \A i \in 1..(n - first + 1) : buffer[i] = captured[first + i - 1]
    <3> SUFFICES ASSUME NEW i \in 1..(n - first + 1) PROVE buffer[i] = captured[first + i - 1]
      OBVIOUS
    <3>2. i \in 1..Len(buffer) /\ n - Len(buffer) + i = first + i - 1
      BY <2>2, <2>4
    <3>3. QED BY <2>3, <3>2
  <2>6. /\ SubSeq(captured, first, n) \in Seq(Lines)
        /\ Len(SubSeq(captured, first, n)) = n - first + 1
        /\ \A i \in 1..(n - first + 1) : SubSeq(captured, first, n)[i] = captured[first + i - 1]
    BY <2>2, <2>4
  <2>7. buffer = SubSeq(captured, first, n)
    BY <2>2, <2>4, <2>5, <2>6
  <2>8. QED BY <2>3, <2>7
<1>2. QED BY <1>1, BufferInvariant, PTL

-----------------------------------------------------------------------------
(* What the hook and the server know of one another.                       *)

From(p) == {inbox[i] : i \in {j \in DOMAIN inbox : inbox[j].from = p}}

\* Each process waits for its answer.
OneEach == \A i, j \in DOMAIN inbox : inbox[i].from = inbox[j].from => i = j

\* The hook's next call is op, made or still to be made, and then those of rest.
Pending(op, rest) ==
  \/ calls # <<>> /\ Head(calls) = op /\ Tail(calls) = rest /\ From(Hook) = {}
  \/ calls = rest /\ \E m \in From(Hook) : m.op = op

\* The results there are: those of all parts, or of all but the last.
AllTold == part = Len(results)
LastToTell == part = Len(results) + 1

OwnLines == {l \in said : l[1] = Part}
Setup == pc = "running" /\ LastToTell /\ \A l \in OwnLines : l[3] # part

Idle ==
  /\ calls = <<>> /\ From(Hook) = {}
  /\ IF pc = "running" THEN LastToTell /\ capture
                       ELSE AllTold /\ (pc = "between" /\ part > 0 => capture)
ToStop == Pending("stop", <<"flush", "start">>) /\ Setup
ToFlush ==
  Pending("flush", <<"start">>) /\ Setup /\ ~capture /\ Range(buffer) \subseteq Range(log)
ToStart == Pending("start", <<>>) /\ Setup /\ ~capture /\ buffer = <<>>
ToReport == Pending("report", <<>>) /\ pc = "between" /\ LastToTell /\ capture
ToEnd == Pending("stop", <<>>) /\ pc = "ended" /\ AllTold
Phase == Idle \/ ToStop \/ ToFlush \/ ToStart \/ ToReport \/ ToEnd

Placed == Range(log) \cup Range(captured) \cup Reported

\* No line is like another, and none is of a part to come.
Numbered ==
  /\ IsFiniteSet(said)
  /\ \A l \in said : l[2] <= Cardinality({k \in said : k[1] = l[1]}) /\ l[3] <= part
  /\ Placed \subseteq said

\* What is in the mailbox is nowhere else.
Fresh ==
  \A w \in Writers : \A m \in From(w) :
    m.line[1] = w /\ m.line \in said /\ m.line \notin Placed

\* Where the lines of the part itself are.
OwnKnown ==
  /\ \A m \in From(Part) : pc = "running" /\ Idle /\ m.line[3] = part
  /\ \A l \in Range(captured) : l[1] = Part => l[3] = part /\ LastToTell
  /\ up => \A l \in OwnLines : l[3] > Len(results) =>
             l \in Range(captured) \/ \E m \in From(Part) : m.line = l

Once == IF passThrough THEN 1 ELSE 0
PrintedOnce ==
  /\ Range(captured) \cap Reported = {}
  /\ capture => \A line \in Range(buffer) : Times(line) = Once

LineInv == BufferInv /\ OneEach /\ Phase /\ Numbered /\ Fresh

(* The mailbox *)

LEMMA Known == \A p : Waiting(p) <=> From(p) # {}
BY DEF Waiting, From

LEMMA Sent ==
  ASSUME inbox \in Seq(Message), OneEach, NEW m \in Message, ~Waiting(m.from),
         inbox' = Append(inbox, m)
  PROVE  /\ OneEach'
         /\ \A p : p = m.from => From(p)' = {m}
         /\ \A p : p # m.from => From(p)' = From(p)
<1> DEFINE n == Len(inbox)
<1>1. /\ n \in Nat /\ DOMAIN inbox = 1..n /\ DOMAIN inbox' = 1..(n + 1)
      /\ inbox'[n + 1] = m /\ \A i \in 1..n : inbox'[i] = inbox[i]
  OBVIOUS
<1>2. \A i \in 1..n : inbox[i].from # m.from
  BY <1>1 DEF Waiting
<1> HIDE DEF n
<1>3. OneEach'
  <2> SUFFICES ASSUME NEW i \in 1..(n + 1), NEW j \in 1..(n + 1), inbox'[i].from = inbox'[j].from
               PROVE  i = j
    BY <1>1 DEF OneEach
  <2>1. CASE i \in 1..n /\ j \in 1..n   BY <1>1, <2>1 DEF OneEach
  <2>2. CASE i \in 1..n /\ j = n + 1    BY <1>1, <1>2, <2>2
  <2>3. CASE i = n + 1 /\ j \in 1..n    BY <1>1, <1>2, <2>3
  <2>4. QED BY <1>1, <2>1, <2>2, <2>3
<1>4. ASSUME NEW p, p = m.from PROVE From(p)' = {m}
  BY <1>1, <1>2, <1>4 DEF From
<1>5. ASSUME NEW p, p # m.from PROVE From(p)' = From(p)
  <2>1. {j \in DOMAIN inbox' : inbox'[j].from = p} = {j \in DOMAIN inbox : inbox[j].from = p}
    BY <1>1, <1>5
  <2>2. \A j \in {i \in DOMAIN inbox : inbox[i].from = p} : inbox'[j] = inbox[j]
    BY <1>1
  <2>3. QED BY <2>1, <2>2 DEF From
<1>6. QED BY <1>3, <1>4, <1>5

LEMMA Taken ==
  ASSUME inbox \in Seq(Message), OneEach, inbox # <<>>, inbox' = Tail(inbox)
  PROVE  /\ OneEach'
         /\ \A p : p = Head(inbox).from => From(p) = {Head(inbox)} /\ From(p)' = {}
         /\ \A p : p # Head(inbox).from => From(p)' = From(p)
<1>1. PICK n \in Nat : Len(inbox) = n + 1
  OBVIOUS
<1>2. /\ DOMAIN inbox = 1..(n + 1) /\ DOMAIN inbox' = 1..n /\ Head(inbox) = inbox[1]
      /\ \A i \in 1..n : inbox'[i] = inbox[i + 1]
  BY <1>1
<1>3. \A i \in 1..n : i + 1 \in DOMAIN inbox /\ inbox[i + 1].from # inbox[1].from
  <2>1. \A i \in 1..n : i + 1 \in DOMAIN inbox /\ i + 1 # 1 /\ 1 \in DOMAIN inbox
    BY <1>2
  <2>2. QED BY <2>1 DEF OneEach
<1>4. OneEach'
  <2> SUFFICES ASSUME NEW i \in 1..n, NEW j \in 1..n, inbox'[i].from = inbox'[j].from
               PROVE  i = j
    BY <1>2 DEF OneEach
  <2>1. i + 1 = j + 1
    BY <1>2, <1>3 DEF OneEach
  <2>2. QED BY <2>1
<1>5. ASSUME NEW p, p = Head(inbox).from PROVE From(p) = {Head(inbox)} /\ From(p)' = {}
  <2>1. \A i \in DOMAIN inbox : inbox[i].from = p <=> i = 1
    BY <1>2, <1>5 DEF OneEach
  <2>2. \A i \in DOMAIN inbox' : inbox'[i].from # p
    BY <1>2, <1>3, <1>5
  <2>3. 1 \in DOMAIN inbox
    BY <1>2
  <2>4. From(p) = {inbox[1]}
    BY <2>1, <2>3 DEF From
  <2>5. From(p)' = {}
    BY <2>2 DEF From
  <2>6. QED BY <1>2, <2>4, <2>5
<1>6. ASSUME NEW p, p # Head(inbox).from PROVE From(p)' = From(p)
  <2>1. ASSUME NEW m \in From(p) PROVE m \in From(p)'
    <3>1. PICK i \in DOMAIN inbox : inbox[i].from = p /\ m = inbox[i]
      BY DEF From
    <3>2. PICK k \in 1..n : i = k + 1
      <4>1. i # 1 /\ i \in 1..(n + 1)  BY <1>2, <1>6, <3>1
      <4>2. i - 1 \in 1..n /\ i = (i - 1) + 1  BY <4>1
      <4>3. QED BY <4>2
    <3>3. k \in DOMAIN inbox' /\ inbox'[k] = m
      BY <1>2, <3>1, <3>2
    <3>4. QED BY <3>1, <3>3 DEF From
  <2>2. ASSUME NEW m \in From(p)' PROVE m \in From(p)
    <3>1. PICK i \in DOMAIN inbox' : inbox'[i].from = p /\ m = inbox'[i]
      BY DEF From
    <3>2. i + 1 \in DOMAIN inbox /\ inbox[i + 1] = m
      BY <1>2, <1>3, <3>1
    <3>3. QED BY <3>1, <3>2 DEF From
  <2>3. QED BY <2>1, <2>2
<1>7. QED BY <1>4, <1>5, <1>6

LEMMA LineParts ==
  ASSUME NEW l \in Lines
  PROVE  /\ l[1] \in Writers /\ l[2] \in Nat /\ l[3] \in Nat
         /\ l = <<l[1], l[2], l[3]>>
BY Capacity DEF Lines

LEMMA Names == Part \in Writers /\ Hook \notin Writers /\ Hook # Part
BY WritersAssumption DEF Writers

\* The server takes a call of the hook.
LEMMA HookServed ==
  ASSUME TypeInv, OneEach, NEW op \in HookOp, Received(op)
  PROVE  /\ OneEach' /\ From(Hook)' = {}
         /\ \A p \in Writers : From(p)' = From(p)
         /\ \E m \in From(Hook) : m.op = op
         /\ \A m \in From(Hook) : m.op = op
<1>1. inbox \in Seq(Message) /\ inbox # <<>> /\ inbox' = Tail(inbox) /\ Head(inbox).op = op
  BY DEF TypeInv, Received
<1>2. Head(inbox) \in Message
  BY <1>1
<1>3. Head(inbox).from = Hook
  BY <1>1, <1>2 DEF Message, HookOp
<1>4. /\ OneEach' /\ From(Hook) = {Head(inbox)} /\ From(Hook)' = {}
      /\ \A p : p # Hook => From(p)' = From(p)
  BY <1>1, <1>3, Taken
<1>5. QED BY <1>1, <1>4, Names

\* The server takes a line of a writer.
LEMMA WriterServed ==
  ASSUME TypeInv, OneEach, NEW op \in {"put", "bad"}, Received(op)
  PROVE  \E w \in Writers :
           /\ OneEach' /\ From(w) = {Head(inbox)} /\ From(w)' = {}
           /\ \A p : p # w => From(p)' = From(p)
           /\ From(Hook)' = From(Hook) /\ Head(inbox).line \in Lines
<1>1. inbox \in Seq(Message) /\ inbox # <<>> /\ inbox' = Tail(inbox) /\ Head(inbox).op = op
  BY DEF TypeInv, Received
<1>2. Head(inbox) \in Message /\ Head(inbox).line \in Lines
  BY <1>1, Received1
<1>3. PICK w \in Writers : Head(inbox).from = w
  BY <1>1, <1>2 DEF Message, HookOp
<1>4. /\ OneEach' /\ From(w) = {Head(inbox)} /\ From(w)' = {}
      /\ \A p : p # w => From(p)' = From(p)
  BY <1>1, <1>3, Taken
<1>5. QED BY <1>2, <1>4, Names

-----------------------------------------------------------------------------
(* The hook's phases *)

\* What call the server is asked for tells the phase.
LEMMA AskedPhase ==
  ASSUME Phase, NEW op \in HookOp, \E m \in From(Hook) : m.op = op,
         \A m \in From(Hook) : m.op = op
  PROVE  /\ op = "stop" => \/ ToStop /\ calls = <<"flush", "start">>
                           \/ ToEnd /\ calls = <<>>
         /\ op = "flush" => ToFlush /\ calls = <<"start">>
         /\ op = "start" => ToStart /\ calls = <<>>
         /\ op = "report" => ToReport /\ calls = <<>>
<1>1. From(Hook) # {} /\ ~Idle
  BY DEF Idle
<1>2. ASSUME NEW o, NEW rest, Pending(o, rest) PROVE o = op /\ calls = rest
  BY <1>1, <1>2 DEF Pending
<1>3. CASE ToStop    BY <1>2, <1>3 DEF ToStop
<1>4. CASE ToFlush   BY <1>2, <1>4 DEF ToFlush
<1>5. CASE ToStart   BY <1>2, <1>5 DEF ToStart
<1>6. CASE ToReport  BY <1>2, <1>6 DEF ToReport
<1>7. CASE ToEnd     BY <1>2, <1>7 DEF ToEnd
<1>8. QED BY <1>1, <1>3, <1>4, <1>5, <1>6, <1>7 DEF Phase

\* The phase stays when the hook and the server's answers to it do.
LEMMA PhaseStays ==
  ASSUME Phase, UNCHANGED <<calls, pc, part, results, capture>>, From(Hook)' = From(Hook),
         ~capture => buffer' = buffer, Range(log) \subseteq Range(log)',
         ~Idle => OwnLines' \subseteq OwnLines
  PROVE  Phase' /\ (Idle => Idle') /\ UNCHANGED <<AllTold, LastToTell>>
<1>1. UNCHANGED <<AllTold, LastToTell>>
  BY DEF AllTold, LastToTell
<1>2. Idle => Idle'
  BY <1>1 DEF Idle
<1>3. ASSUME NEW o, NEW rest, Pending(o, rest) PROVE Pending(o, rest)' /\ ~Idle
  BY <1>3 DEF Pending, Idle
<1>4. ASSUME Setup, ~Idle PROVE Setup'
  BY <1>1, <1>4 DEF Setup
<1>5. ASSUME ToStop PROVE Phase'
  BY <1>3, <1>4, <1>5 DEF ToStop, Phase
<1>6. ASSUME ToFlush PROVE Phase'
  BY <1>3, <1>4, <1>6 DEF ToFlush, Phase, Range
<1>7. ASSUME ToStart PROVE Phase'
  BY <1>3, <1>4, <1>7 DEF ToStart, Phase
<1>8. ASSUME ToReport PROVE Phase'
  BY <1>1, <1>3, <1>8 DEF ToReport, Phase
<1>9. ASSUME ToEnd PROVE Phase'
  BY <1>1, <1>3, <1>9 DEF ToEnd, Phase
<1>10. QED BY <1>1, <1>2, <1>5, <1>6, <1>7, <1>8, <1>9 DEF Phase

\* A call is made.
LEMMA PhaseCall ==
  ASSUME TypeInv, Phase, OneEach, Call
  PROVE  /\ Phase' /\ OneEach' /\ \A p \in Writers : From(p)' = From(p)
         /\ UNCHANGED <<AllTold, LastToTell>> /\ ~Idle
<1>1. /\ UNCHANGED <<pc, part, results, capture, buffer, log, said>>
      /\ calls # <<>> /\ calls' = Tail(calls) /\ From(Hook) = {} /\ ~Waiting(Hook)
      /\ inbox \in Seq(Message) /\ calls \in Seq(HookOp)
      /\ inbox' = Append(inbox, [from |-> Hook, op |-> Head(calls), line |-> <<>>])
  BY Known DEF Call, bufferVars, TypeInv
<1>2. Head(calls) \in HookOp
  BY <1>1
<1>3. [from |-> Hook, op |-> Head(calls), line |-> <<>>] \in Message
  BY <1>2 DEF Message
<1>4. /\ OneEach' /\ From(Hook)' = {[from |-> Hook, op |-> Head(calls), line |-> <<>>]}
      /\ \A p : p # Hook => From(p)' = From(p)
  BY <1>1, <1>3, Sent
<1>5. ~Idle /\ UNCHANGED <<AllTold, LastToTell>>
  BY <1>1 DEF Idle, AllTold, LastToTell
<1>6. ASSUME NEW o, NEW rest, Pending(o, rest) PROVE Pending(o, rest)'
  BY <1>1, <1>4, <1>6 DEF Pending
<1>7. Setup => Setup'
  BY <1>1, <1>5 DEF Setup, OwnLines
<1>8. ASSUME ToStop PROVE Phase'
  BY <1>6, <1>7, <1>8 DEF ToStop, Phase
<1>9. ASSUME ToFlush PROVE Phase'
  BY <1>1, <1>6, <1>7, <1>9 DEF ToFlush, Phase, Range
<1>10. ASSUME ToStart PROVE Phase'
  BY <1>1, <1>6, <1>7, <1>10 DEF ToStart, Phase
<1>11. ASSUME ToReport PROVE Phase'
  BY <1>1, <1>5, <1>6, <1>11 DEF ToReport, Phase
<1>12. ASSUME ToEnd PROVE Phase'
  BY <1>1, <1>5, <1>6, <1>12 DEF ToEnd, Phase
<1>13. Phase'
  BY <1>5, <1>8, <1>9, <1>10, <1>11, <1>12 DEF Phase
<1>14. QED BY <1>4, <1>5, <1>13, Names

\* The hook turns to another part, ends one, or the suite.
LEMMA PhaseHook ==
  ASSUME TypeInv, Phase, Numbered, BeginPart \/ EndPart \/ GoOn \/ EndSuite
  PROVE  Phase' /\ Idle /\ (GoOn => Idle')
<1>1. /\ UNCHANGED <<inbox, results, capture, buffer, log, said>>
      /\ calls = <<>> /\ From(Hook) = {} /\ From(Hook)' = {}
  <2>1. HookIdle /\ UNCHANGED <<inbox, results, capture, buffer, log, said>>
    BY DEF BeginPart, EndPart, GoOn, EndSuite, bufferVars
  <2>2. QED BY <2>1, Known DEF HookIdle, From
<1>2. Idle
  <2>1. ASSUME NEW o, NEW rest PROVE ~Pending(o, rest)
    BY <1>1 DEF Pending
  <2>2. QED BY <2>1 DEF Phase, ToStop, ToFlush, ToStart, ToReport, ToEnd
<1>3. Len(results) \in Nat /\ part \in Nat
  BY Capacity DEF TypeInv
<1>4. ASSUME AllTold, part' = part + 1, UNCHANGED results PROVE LastToTell'
  BY <1>3, <1>4 DEF AllTold, LastToTell
<1>5. CASE BeginPart
  <2>1. pc = "between" /\ pc' = "running" /\ part' = part + 1 /\ calls' = <<"stop", "flush", "start">>
    BY <1>5 DEF BeginPart, InitializeCapture
  <2>2. LastToTell'
    BY <1>1, <1>2, <1>4, <2>1 DEF Idle
  <2>3. \A l \in OwnLines : l[3] \in Nat /\ l[3] <= part
    BY LineParts DEF Numbered, OwnLines, TypeInv
  <2>4. Setup'
    BY <1>1, <1>3, <2>1, <2>2, <2>3 DEF Setup, OwnLines
  <2>5. Pending("stop", <<"flush", "start">>)'
    BY <1>1, <2>1 DEF Pending
  <2>6. ~GoOn
    <3>1. calls' # <<>>  BY <2>1
    <3>2. QED BY <1>1, <3>1 DEF GoOn
  <2>7. QED BY <1>2, <2>4, <2>5, <2>6 DEF Phase, ToStop
<1>6. CASE EndPart
  <2>1. pc = "running" /\ pc' = "between" /\ UNCHANGED part /\ calls' = <<"report">>
    BY <1>6 DEF EndPart
  <2>2. LastToTell' /\ capture'
    BY <1>1, <1>2, <2>1 DEF Idle, LastToTell
  <2>3. Pending("report", <<>>)'
    BY <1>1, <2>1 DEF Pending
  <2>4. QED BY <1>2, <1>6, <2>1, <2>2, <2>3 DEF Phase, ToReport, GoOn
<1>7. CASE GoOn
  <2>1. pc = "between" /\ part > 0 /\ pc' = "running" /\ part' = part + 1 /\ calls' = calls
    BY <1>7, Capacity DEF GoOn
  <2>2. LastToTell' /\ capture'
    BY <1>1, <1>2, <1>4, <2>1 DEF Idle
  <2>3. Idle'
    BY <1>1, <2>1, <2>2 DEF Idle
  <2>4. QED BY <1>2, <2>3 DEF Phase
<1>8. CASE EndSuite
  <2>1. pc = "between" /\ pc' = "ended" /\ UNCHANGED part /\ calls' = <<"stop">>
    BY <1>8 DEF EndSuite
  <2>2. AllTold'
    BY <1>1, <1>2, <2>1 DEF Idle, AllTold
  <2>3. Pending("stop", <<>>)'
    BY <1>1, <2>1 DEF Pending
  <2>4. QED BY <1>2, <1>8, <2>1, <2>2, <2>3 DEF Phase, ToEnd, GoOn
<1>9. QED BY <1>5, <1>6, <1>7, <1>8

-----------------------------------------------------------------------------
(* Lines: where they are, and how often they are printed *)

LEMMA RangeAppend ==
  ASSUME NEW S, NEW s \in Seq(S), NEW x \in S
  PROVE  Range(Append(s, x)) = Range(s) \cup {x}
<1>1. /\ Len(s) \in Nat /\ DOMAIN s = 1..Len(s) /\ DOMAIN Append(s, x) = 1..(Len(s) + 1)
      /\ Append(s, x)[Len(s) + 1] = x /\ \A i \in 1..Len(s) : Append(s, x)[i] = s[i]
  OBVIOUS
<1>2. QED BY <1>1 DEF Range

LEMMA RangeConcat ==
  ASSUME NEW S, NEW s \in Seq(S), NEW t \in Seq(S)
  PROVE  Range(s \o t) = Range(s) \cup Range(t)
<1>1. /\ Len(s) \in Nat /\ Len(t) \in Nat /\ DOMAIN s = 1..Len(s) /\ DOMAIN t = 1..Len(t)
      /\ DOMAIN (s \o t) = 1..(Len(s) + Len(t))
      /\ \A i \in 1..Len(s) : (s \o t)[i] = s[i]
      /\ \A i \in 1..Len(t) : (s \o t)[Len(s) + i] = t[i]
  OBVIOUS
<1>2. ASSUME NEW x \in Range(s \o t) PROVE x \in Range(s) \cup Range(t)
  <2>1. PICK i \in 1..(Len(s) + Len(t)) : x = (s \o t)[i]
    BY <1>1 DEF Range
  <2>2. CASE i <= Len(s)
    BY <1>1, <2>1, <2>2 DEF Range
  <2>3. CASE ~(i <= Len(s))
    <3>1. i - Len(s) \in 1..Len(t) /\ Len(s) + (i - Len(s)) = i
      BY <1>1, <2>3
    <3>2. x = t[i - Len(s)]
      BY <1>1, <2>1, <3>1
    <3>3. QED BY <1>1, <3>1, <3>2 DEF Range
  <2>4. QED BY <2>2, <2>3
<1>3. ASSUME NEW x \in Range(s) PROVE x \in Range(s \o t)
  <2>1. PICK i \in 1..Len(s) : x = s[i]  BY <1>1, <1>3 DEF Range
  <2>2. i \in DOMAIN (s \o t) /\ (s \o t)[i] = x  BY <1>1, <2>1
  <2>3. QED BY <2>2 DEF Range
<1>4. ASSUME NEW x \in Range(t) PROVE x \in Range(s \o t)
  <2>1. PICK i \in 1..Len(t) : x = t[i]  BY <1>1, <1>4 DEF Range
  <2>2. Len(s) + i \in DOMAIN (s \o t) /\ (s \o t)[Len(s) + i] = x  BY <1>1, <2>1
  <2>3. QED BY <2>2 DEF Range
<1>5. QED BY <1>2, <1>3, <1>4

LEMMA RangeEmpty == Range(<<>>) = {}
BY DEF Range

\* The buffer has captured lines, and all of them if it is not truncated.
LEMMA BufferCaptured ==
  ASSUME BufferInv
  PROVE  /\ Range(buffer) \subseteq Range(captured)
         /\ ~truncated => Range(captured) \subseteq Range(buffer)
<1>1. /\ buffer \in Seq(Lines) /\ captured \in Seq(Lines) /\ truncated \in BOOLEAN
      /\ Len(captured) \in Nat /\ Len(buffer) \in Nat
      /\ DOMAIN captured = 1..Len(captured) /\ DOMAIN buffer = 1..Len(buffer)
  BY DEF BufferInv, TypeInv
<1>2. /\ truncated <=> Len(captured) > MaxElements
      /\ Len(captured) > MaxElements => Len(buffer) = MaxElements
      /\ Len(captured) <= MaxElements => Len(buffer) = Len(captured)
      /\ \A i \in 1..Len(buffer) : buffer[i] = captured[Len(captured) - Len(buffer) + i]
  BY DEF BufferInv, Kept
<1>3. /\ Len(buffer) <= Len(captured)
      /\ ~truncated => Len(buffer) = Len(captured)
  <2> DEFINE n == Len(captured)
             m == Len(buffer)
  <2>1. /\ n \in Nat /\ m \in Nat /\ (truncated <=> n > MaxElements)
        /\ (n > MaxElements => m = MaxElements) /\ (n <= MaxElements => m = n)
    BY <1>1, <1>2
  <2> HIDE DEF n, m
  <2>2. m <= n /\ (~truncated => m = n)
    BY <2>1, Capacity
  <2>3. QED BY <2>2 DEF n, m
<1>4. ASSUME NEW x \in Range(buffer) PROVE x \in Range(captured)
  <2>1. PICK i \in 1..Len(buffer) : x = buffer[i]  BY <1>1, <1>4 DEF Range
  <2>2. Len(captured) - Len(buffer) + i \in DOMAIN captured
    <3>1. /\ Len(captured) \in Nat /\ Len(buffer) \in Nat /\ Len(buffer) <= Len(captured)
          /\ DOMAIN captured = 1..Len(captured)
      BY <1>1, <1>3
    <3>2. QED BY <3>1
  <2>3. QED BY <1>2, <2>1, <2>2 DEF Range
<1>5. ASSUME ~truncated, NEW x \in Range(captured) PROVE x \in Range(buffer)
  <2>1. Len(buffer) = Len(captured)
    BY <1>3, <1>5
  <2>2. PICK i \in 1..Len(captured) : x = captured[i]  BY <1>1, <1>5 DEF Range
  <2>3. i \in DOMAIN buffer /\ Len(captured) - Len(buffer) + i = i
    BY <1>1, <2>1
  <2>4. QED BY <1>1, <1>2, <2>2, <2>3 DEF Range
<1>6. QED BY <1>4, <1>5

LEMMA ReportedAppend ==
  ASSUME TypeInv, NEW r \in Result, results' = Append(results, r)
  PROVE  /\ Reported' = Reported \cup Range(r.lines)
         /\ Len(results') = Len(results) + 1 /\ results'[Len(results) + 1] = r
         /\ \A n \in DOMAIN results : results'[n] = results[n]
         /\ DOMAIN results' = DOMAIN results \cup {Len(results) + 1}
<1>1. /\ Len(results) \in Nat /\ DOMAIN results = 1..Len(results)
      /\ DOMAIN results' = 1..(Len(results) + 1) /\ Len(results') = Len(results) + 1
      /\ results'[Len(results) + 1] = r
      /\ \A n \in 1..Len(results) : results'[n] = results[n]
  BY DEF TypeInv
<1>2. DOMAIN results' = DOMAIN results \cup {Len(results) + 1}
  BY <1>1
<1>3. Reported' = Reported \cup Range(r.lines)
  <2>1. ASSUME NEW x \in Reported' PROVE x \in Reported \cup Range(r.lines)
    <3>1. PICK n \in DOMAIN results' : x \in Range(results'[n].lines)
      BY <2>1 DEF Reported
    <3>2. CASE n \in DOMAIN results
      BY <1>1, <3>1, <3>2 DEF Reported
    <3>3. CASE n = Len(results) + 1
      BY <1>1, <3>1, <3>3
    <3>4. QED BY <1>2, <3>2, <3>3
  <2>2. ASSUME NEW x \in Reported PROVE x \in Reported'
    <3>1. PICK n \in DOMAIN results : x \in Range(results[n].lines)
      BY <2>2 DEF Reported
    <3>2. n \in DOMAIN results' /\ results'[n] = results[n]
      BY <1>1
    <3>3. QED BY <3>1, <3>2 DEF Reported
  <2>3. ASSUME NEW x \in Range(r.lines) PROVE x \in Reported'
    <3>1. Len(results) + 1 \in DOMAIN results' /\ results'[Len(results) + 1] = r
      BY <1>1
    <3>2. QED BY <2>3, <3>1 DEF Reported
  <2>4. QED BY <2>1, <2>2, <2>3
<1>4. QED BY <1>1, <1>2, <1>3

Places(line) == {n \in DOMAIN log : log[n] = line}

LEMMA PlacesFinite ==
  ASSUME log \in Seq(Lines), NEW line
  PROVE  IsFiniteSet(Places(line)) /\ Times(line) = Cardinality(Places(line)) /\ Times(line) \in Nat
<1>1. Places(line) \subseteq 1..Len(log) /\ Len(log) \in Nat
  BY DEF Places
<1>2. IsFiniteSet(1..Len(log))
  BY <1>1, FS_Interval
<1>3. IsFiniteSet(Places(line))
  BY <1>1, <1>2, FS_Subset
<1>4. QED BY <1>3, FS_CardinalityType DEF Times, Places

LEMMA TimesZero ==
  ASSUME NEW line, line \notin Range(log) PROVE Times(line) = 0
<1>1. {n \in DOMAIN log : log[n] = line} = {}
  BY DEF Range
<1>2. QED BY <1>1, FS_EmptySet DEF Times

LEMMA TimesAppend ==
  ASSUME log \in Seq(Lines), NEW x \in Lines, log' = Append(log, x)
  PROVE  /\ \A l : l = x => Times(l)' = Times(l) + 1
         /\ \A l : l # x => Times(l)' = Times(l)
<1>1. /\ Len(log) \in Nat /\ DOMAIN log = 1..Len(log) /\ DOMAIN log' = 1..(Len(log) + 1)
      /\ log'[Len(log) + 1] = x /\ \A i \in 1..Len(log) : log'[i] = log[i]
  OBVIOUS
<1>2. ASSUME NEW l, l = x PROVE Times(l)' = Times(l) + 1
  <2>1. Places(l)' = Places(l) \cup {Len(log) + 1} /\ Len(log) + 1 \notin Places(l)
    BY <1>1, <1>2 DEF Places
  <2>2. IsFiniteSet(Places(l)) /\ Times(l) = Cardinality(Places(l))
    BY PlacesFinite
  <2>3. Cardinality(Places(l)') = Cardinality(Places(l)) + 1
    BY <2>1, <2>2, FS_AddElement
  <2>4. QED BY <2>2, <2>3 DEF Times, Places
<1>3. ASSUME NEW l, l # x PROVE Times(l)' = Times(l)
  <2>1. Places(l)' = Places(l)
    BY <1>1, <1>3 DEF Places
  <2>2. QED BY <2>1 DEF Times, Places
<1>4. QED BY <1>2, <1>3

LEMMA TimesConcat ==
  ASSUME log \in Seq(Lines), buffer \in Seq(Lines), log' = log \o buffer
  PROVE  \A l : l \notin Range(buffer) => Times(l)' = Times(l)
<1>1. /\ Len(log) \in Nat /\ Len(buffer) \in Nat
      /\ DOMAIN log = 1..Len(log) /\ DOMAIN buffer = 1..Len(buffer)
      /\ DOMAIN log' = 1..(Len(log) + Len(buffer))
      /\ \A i \in 1..Len(log) : log'[i] = log[i]
      /\ \A i \in 1..Len(buffer) : log'[Len(log) + i] = buffer[i]
  OBVIOUS
<1>2. \A i \in DOMAIN log' : i \in DOMAIN log \/ log'[i] \in Range(buffer)
  <2> SUFFICES ASSUME NEW i \in DOMAIN log', i \notin DOMAIN log PROVE log'[i] \in Range(buffer)
    OBVIOUS
  <2>1. i - Len(log) \in 1..Len(buffer) /\ Len(log) + (i - Len(log)) = i
    BY <1>1
  <2>2. log'[i] = buffer[i - Len(log)]
    BY <1>1, <2>1
  <2>3. QED BY <1>1, <2>1, <2>2 DEF Range
<1>3. ASSUME NEW l, l \notin Range(buffer) PROVE Times(l)' = Times(l)
  <2>1. Places(l)' = Places(l)
    BY <1>1, <1>2, <1>3 DEF Places
  <2>2. QED BY <2>1 DEF Times, Places
<1>4. QED BY <1>3

-----------------------------------------------------------------------------
(* The steps, and what LineInv says after each *)

LEMMA FreshStays ==
  ASSUME Fresh, UNCHANGED said, \A w \in Writers : From(w)' \subseteq From(w),
         \A w \in Writers : \A m \in From(w)' : m.line \in Placed' => m.line \in Placed
  PROVE  Fresh'
BY DEF Fresh

LEMMA NumberedStays ==
  ASSUME Numbered, UNCHANGED said, TypeInv, part' = part \/ part' = part + 1,
         Placed' \subseteq said
  PROVE  Numbered'
<1>1. part \in Nat /\ \A l \in said : l[3] \in Nat
  BY LineParts, Capacity DEF TypeInv
<1>2. \A l \in said : l[3] <= part'
  <2>1. \A l \in said : l[3] <= part  BY DEF Numbered
  <2>2. part' = part \/ part' = part + 1  OBVIOUS
  <2>3. QED BY <1>1, <2>1, <2>2
<1>3. said' = said /\ \A v : {k \in said' : k[1] = v} = {k \in said : k[1] = v}
  OBVIOUS
<1>4. \A l \in said' : l[2] <= Cardinality({k \in said' : k[1] = l[1]})
  BY <1>3 DEF Numbered
<1>5. QED BY <1>2, <1>3, <1>4 DEF Numbered

LEMMA WriteStep ==
  ASSUME LineInv, NEW w \in Writers, NEW op \in {"put", "bad"}, Write(w, op)
  PROVE  /\ OneEach' /\ Phase' /\ Numbered' /\ Fresh'
         /\ Placed' = Placed /\ (Idle => Idle') /\ UNCHANGED <<AllTold, LastToTell>>
         /\ w = Part => pc = "running" /\ Idle
         /\ \E line \in Lines :
              /\ line[1] = w /\ line[3] = part /\ line \notin said
              /\ said' = said \cup {line}
              /\ (\E m \in From(w)' : m.line = line)
              /\ \A m \in From(w)' : m.line = line
         /\ \A p : p # w => From(p)' = From(p)
<1>1. TypeInv /\ OneEach /\ Phase /\ Numbered /\ Fresh
  BY DEF LineInv, BufferInv
<1>2. PICK n \in 1..MaxLines :
        /\ n = Cardinality({l \in said : l[1] = w}) + 1
        /\ said' = said \cup {<<w, n, part>>}
        /\ inbox' = Append(inbox, [from |-> w, op |-> op, line |-> <<w, n, part>>])
  BY DEF Write
<1>3. PICK line : line = <<w, n, part>>
  OBVIOUS
<1>4. line \in Lines /\ line[1] = w /\ line[2] = n /\ line[3] = part
  BY <1>1, <1>3 DEF TypeInv, Lines
<1>5. PICK m : m = [from |-> w, op |-> op, line |-> line]
  OBVIOUS
<1>6. m \in Message /\ m.from = w /\ m.line = line
  BY <1>4, <1>5 DEF Message
<1>7. /\ UNCHANGED <<capture, buffer, log, pc, calls, part, results, captured>>
      /\ ~Waiting(w) /\ (w = Part => pc = "running" /\ HookIdle)
  BY DEF Write, bufferVars, hookVars
<1>8. /\ OneEach' /\ From(w)' = {m} /\ \A p : p # w => From(p)' = From(p)
  BY <1>1, <1>2, <1>3, <1>5, <1>6, <1>7, Sent DEF TypeInv
<1>9. From(Hook)' = From(Hook)
  BY <1>8, Names
<1>10. Placed' = Placed
  BY <1>7 DEF Placed, Reported, Range
<1>11. w = Part => pc = "running" /\ Idle
  <2> SUFFICES ASSUME w = Part PROVE pc = "running" /\ Idle
    OBVIOUS
  <2>1. pc = "running" /\ calls = <<>> /\ From(Hook) = {}
    BY <1>7, Known DEF HookIdle
  <2>2. ASSUME NEW o, NEW rest PROVE ~Pending(o, rest)
    BY <2>1 DEF Pending
  <2>3. QED BY <1>1, <2>1, <2>2 DEF Phase, ToStop, ToFlush, ToStart, ToReport, ToEnd
<1>12. Phase' /\ (Idle => Idle') /\ UNCHANGED <<AllTold, LastToTell>>
  <2>1. ~Idle => OwnLines' \subseteq OwnLines
    BY <1>2, <1>3, <1>4, <1>11 DEF OwnLines
  <2>2. Range(log) \subseteq Range(log)'
    BY <1>7 DEF Range
  <2>3. QED BY <1>1, <1>7, <1>9, <2>1, <2>2, PhaseStays
<1>13. line \notin said /\ Numbered'
  <2> DEFINE Of(v) == {k \in said : k[1] = v}
  <2>1. \A v : IsFiniteSet(Of(v)) /\ Cardinality(Of(v)) \in Nat
    <3> SUFFICES ASSUME NEW v PROVE IsFiniteSet(Of(v)) /\ Cardinality(Of(v)) \in Nat
      OBVIOUS
    <3>1. Of(v) \subseteq said /\ IsFiniteSet(said)
      BY <1>1 DEF Numbered
    <3>2. IsFiniteSet(Of(v))
      BY <3>1, FS_Subset
    <3>3. QED BY <3>2, FS_CardinalityType
  <2>2. n = Cardinality(Of(w)) + 1
    BY <1>2
  <2>3. \A l \in said : l[2] \in Nat /\ l[2] <= Cardinality(Of(l[1])) /\ l[3] <= part
    BY <1>1, LineParts DEF Numbered, TypeInv
  <2> HIDE DEF Of
  <2>4. line \notin said
    <3> SUFFICES ASSUME line \in said PROVE FALSE
      OBVIOUS
    <3>1. n <= Cardinality(Of(w)) /\ Cardinality(Of(w)) \in Nat
      BY <1>4, <2>1, <2>3
    <3>2. QED BY <2>2, <3>1
  <2>5. ASSUME NEW v, v # w PROVE {k \in said' : k[1] = v} = Of(v)
    BY <1>2, <1>3, <1>4, <2>5 DEF Of
  <2>6. Cardinality({k \in said' : k[1] = w}) = n
    <3>1. {k \in said' : k[1] = w} = Of(w) \cup {line} /\ line \notin Of(w)
      BY <1>2, <1>3, <1>4, <2>4 DEF Of
    <3>2. Cardinality(Of(w) \cup {line}) = Cardinality(Of(w)) + 1
      BY <2>1, <3>1, FS_AddElement
    <3>3. QED BY <2>2, <3>1, <3>2
  <2>7. ASSUME NEW l \in said'
        PROVE l[2] <= Cardinality({k \in said' : k[1] = l[1]}) /\ l[3] <= part
    <3>1. CASE l = line
      <4>1. n \in Nat /\ part \in Nat  BY <1>1, <1>2, Capacity DEF TypeInv
      <4>2. l[1] = w /\ l[2] = n /\ l[3] = part  BY <1>4, <3>1
      <4>3. {k \in said' : k[1] = l[1]} = {k \in said' : k[1] = w}  BY <4>2
      <4>4. QED BY <2>6, <4>1, <4>2, <4>3
    <3>2. CASE l # line
      <4>1. l \in said  BY <1>2, <1>3, <3>2
      <4>2. CASE l[1] # w
        BY <2>3, <2>5, <4>1, <4>2
      <4>3. CASE l[1] = w
        <5>1. l[2] \in Nat /\ l[2] <= Cardinality(Of(w)) /\ Cardinality(Of(w)) \in Nat
          BY <2>1, <2>3, <4>1, <4>3
        <5>2. l[2] <= n
          BY <2>2, <5>1
        <5>3. QED BY <2>3, <2>6, <4>1, <4>3, <5>2
      <4>4. QED BY <4>2, <4>3
    <3>3. QED BY <3>1, <3>2
  <2>8. IsFiniteSet(said')
    BY <1>1, <1>2, FS_AddElement DEF Numbered
  <2>9. QED BY <1>1, <1>2, <1>7, <1>10, <2>4, <2>7, <2>8 DEF Numbered
<1>14. Fresh'
  <2> SUFFICES ASSUME NEW p \in Writers, NEW k \in From(p)'
               PROVE  k.line[1] = p /\ k.line \in said' /\ k.line \notin Placed'
    BY DEF Fresh
  <2>1. CASE p = w
    BY <1>1, <1>2, <1>3, <1>4, <1>6, <1>8, <1>10, <1>13, <2>1 DEF Numbered
  <2>2. CASE p # w
    BY <1>1, <1>2, <1>8, <1>10, <2>2 DEF Fresh
  <2>3. QED BY <2>1, <2>2
<1>15. QED BY <1>2, <1>3, <1>4, <1>6, <1>8, <1>10, <1>11, <1>12, <1>13, <1>14

LEMMA HookStep ==
  ASSUME LineInv, BeginPart \/ EndPart \/ GoOn \/ EndSuite
  PROVE  /\ OneEach' /\ Phase' /\ Numbered' /\ Fresh' /\ Idle
         /\ (GoOn => Idle') /\ Placed' = Placed /\ \A p : From(p)' = From(p)
<1>1. TypeInv /\ OneEach /\ Phase /\ Numbered /\ Fresh
  BY DEF LineInv, BufferInv
<1>2. UNCHANGED <<inbox, results, log, said, captured>> /\ (part' = part \/ part' = part + 1)
  BY DEF BeginPart, EndPart, GoOn, EndSuite, bufferVars
<1>3. OneEach' /\ Placed' = Placed /\ \A p : From(p)' = From(p)
  BY <1>1, <1>2 DEF OneEach, Placed, Reported, Range, From
<1>4. Phase' /\ Idle /\ (GoOn => Idle')
  BY <1>1, PhaseHook
<1>5. Numbered'
  BY <1>1, <1>2, <1>3, NumberedStays DEF Numbered
<1>6. Fresh'
  BY <1>1, <1>2, <1>3, FreshStays
<1>7. QED BY <1>3, <1>4, <1>5, <1>6

LEMMA CallStep ==
  ASSUME LineInv, Call
  PROVE  /\ OneEach' /\ Phase' /\ Numbered' /\ Fresh' /\ ~Idle /\ Placed' = Placed
         /\ UNCHANGED <<AllTold, LastToTell>> /\ \A p \in Writers : From(p)' = From(p)
<1>1. TypeInv /\ OneEach /\ Phase /\ Numbered /\ Fresh
  BY DEF LineInv, BufferInv
<1>2. UNCHANGED <<results, log, said, captured, part>>
  BY DEF Call, bufferVars
<1>3. Placed' = Placed
  BY <1>2 DEF Placed, Reported, Range
<1>4. /\ OneEach' /\ Phase' /\ ~Idle /\ UNCHANGED <<AllTold, LastToTell>>
      /\ \A p \in Writers : From(p)' = From(p)
  BY <1>1, PhaseCall
<1>5. Numbered'
  BY <1>1, <1>2, <1>3, NumberedStays DEF Numbered
<1>6. Fresh'
  BY <1>1, <1>2, <1>3, <1>4, FreshStays
<1>7. QED BY <1>3, <1>4, <1>5, <1>6

\* A line comes out of the mailbox.
LEMMA LineStep ==
  ASSUME LineInv, NEW op \in {"put", "bad"}, Received(op),
         UNCHANGED <<calls, pc, part, results, capture, said>>,
         ~capture => buffer' = buffer, Range(log) \subseteq Range(log)',
         Placed' \subseteq Placed \cup {Head(inbox).line}
  PROVE  /\ OneEach' /\ Phase' /\ Numbered' /\ Fresh'
         /\ (Idle => Idle') /\ UNCHANGED <<AllTold, LastToTell>>
         /\ Head(inbox).line \in Lines /\ Head(inbox).line \notin Placed
         /\ \E w \in Writers :
              /\ From(w) = {Head(inbox)} /\ From(w)' = {} /\ Head(inbox).line[1] = w
              /\ \A p : p # w => From(p)' = From(p)
<1>1. TypeInv /\ OneEach /\ Phase /\ Numbered /\ Fresh
  BY DEF LineInv, BufferInv
<1>2. PICK w \in Writers :
           /\ OneEach' /\ From(w) = {Head(inbox)} /\ From(w)' = {}
           /\ \A p : p # w => From(p)' = From(p)
           /\ From(Hook)' = From(Hook) /\ Head(inbox).line \in Lines
  BY <1>1, WriterServed
<1>3. PICK line : line = Head(inbox).line
  OBVIOUS
<1>4. line[1] = w /\ line \in said /\ line \notin Placed
  BY <1>1, <1>2, <1>3 DEF Fresh
<1>5. Phase' /\ (Idle => Idle') /\ UNCHANGED <<AllTold, LastToTell>>
  <2>1. OwnLines' \subseteq OwnLines
    BY DEF OwnLines
  <2>2. QED BY <1>1, <1>2, <2>1, PhaseStays
<1>6. Numbered'
  <2>1. Placed' \subseteq said
    BY <1>1, <1>3, <1>4 DEF Numbered
  <2>2. QED BY <1>1, <2>1, NumberedStays
<1>7. Fresh'
  <2>1. \A p \in Writers : From(p)' \subseteq From(p)
    BY <1>2
  <2>2. ASSUME NEW p \in Writers, NEW m \in From(p)', m.line \in Placed' PROVE m.line \in Placed
    <3>1. p # w /\ m \in From(p)
      BY <1>2, <2>2
    <3>2. m.line # line
      BY <1>1, <1>4, <3>1 DEF Fresh
    <3>3. QED BY <1>3, <2>2, <3>2
  <2>3. QED BY <1>1, <2>1, <2>2, FreshStays
<1>8. QED BY <1>2, <1>3, <1>4, <1>5, <1>6, <1>7

\* The server answers a call of the hook.
LEMMA AnswerStep ==
  ASSUME LineInv, NEW op \in HookOp, Received(op),
         UNCHANGED <<calls, pc, part, said>>, Placed' \subseteq Placed
  PROVE  /\ OneEach' /\ Numbered' /\ Fresh' /\ ~Idle /\ From(Hook)' = {}
         /\ \A p \in Writers : From(p)' = From(p)
         /\ op = "stop" => \/ ToStop /\ calls = <<"flush", "start">>
                           \/ ToEnd /\ calls = <<>>
         /\ op = "flush" => ToFlush /\ calls = <<"start">>
         /\ op = "start" => ToStart /\ calls = <<>>
         /\ op = "report" => ToReport /\ calls = <<>>
<1>1. TypeInv /\ OneEach /\ Phase /\ Numbered /\ Fresh
  BY DEF LineInv, BufferInv
<1>2. /\ OneEach' /\ From(Hook)' = {} /\ \A p \in Writers : From(p)' = From(p)
      /\ \E m \in From(Hook) : m.op = op
      /\ \A m \in From(Hook) : m.op = op
  BY <1>1, HookServed
<1>3. Numbered'
  <2>1. Placed' \subseteq said
    BY <1>1 DEF Numbered
  <2>2. QED BY <1>1, <2>1, NumberedStays
<1>4. Fresh'
  BY <1>1, <1>2, FreshStays
<1>5. ~Idle
  BY <1>2 DEF Idle
<1>6. QED BY <1>1, <1>2, <1>3, <1>4, <1>5, AskedPhase

LEMMA PutStep ==
  ASSUME LineInv, HandlePut
  PROVE  /\ OneEach' /\ Phase' /\ Numbered' /\ Fresh'
         /\ (Idle => Idle') /\ UNCHANGED <<AllTold, LastToTell>>
         /\ Head(inbox).line \in Lines /\ Head(inbox).line \notin Placed
         /\ Range(captured)' = Range(captured) \cup (IF capture THEN {Head(inbox).line} ELSE {})
         /\ Range(buffer)' \subseteq Range(buffer) \cup (IF capture THEN {Head(inbox).line} ELSE {})
         /\ \E w \in Writers :
              /\ From(w) = {Head(inbox)} /\ From(w)' = {} /\ Head(inbox).line[1] = w
              /\ \A p : p # w => From(p)' = From(p)
<1>1. PICK line : line = Head(inbox).line
  OBVIOUS
<1>2. TypeInv /\ Received("put") /\ line \in Lines
  BY <1>1, Received1 DEF LineInv, BufferInv, HandlePut
<1>3. UNCHANGED <<calls, pc, part, results, capture, said, passThrough>>
  BY DEF HandlePut, hookVars
<1>4. log \in Seq(Lines) /\ captured \in Seq(Lines) /\ buffer \in Seq(Lines)
  BY <1>2 DEF TypeInv
<1>5. Range(log)' \subseteq Range(log) \cup {line} /\ Range(log) \subseteq Range(log)'
  <2>1. log' = log \/ log' = Append(log, line)
    BY <1>1 DEF HandlePut
  <2>2. CASE log' = log
    BY <2>2 DEF Range
  <2>3. CASE log' = Append(log, line)
    <3>1. Range(log') = Range(log) \cup {line}
      BY <1>2, <1>4, <2>3, RangeAppend
    <3>2. QED BY <3>1 DEF Range
  <2>4. QED BY <2>1, <2>2, <2>3
<1>6. /\ Range(captured)' = Range(captured) \cup (IF capture THEN {line} ELSE {})
      /\ Range(buffer)' \subseteq Range(buffer) \cup (IF capture THEN {line} ELSE {})
      /\ ~capture => buffer' = buffer
  <2>1. CASE ~capture
    BY <2>1 DEF HandlePut, Range
  <2>2. CASE capture
    <3>1. Put(line) /\ captured' = Append(captured, line)
      BY <1>1, <2>2 DEF HandlePut
    <3>2. Range(captured') = Range(captured) \cup {line}
      BY <1>2, <1>4, <3>1, RangeAppend
    <3>3. Range(buffer') \subseteq Range(buffer) \cup {line}
      <4>1. CASE buffer' = Append(buffer, line)
        BY <1>2, <1>4, <4>1, RangeAppend
      <4>2. CASE ~(Len(buffer) < MaxElements)
        <5>1. buffer # <<>>
          <6>1. Len(<<>>) = 0  OBVIOUS
          <6>2. QED BY <4>2, <6>1, Capacity
        <5>2. buffer' = Append(Tail(buffer), line)
          BY <3>1, <4>2 DEF Put
        <5>3. Tail(buffer) \in Seq(Lines) /\ Range(Tail(buffer)) \subseteq Range(buffer)
          <6>1. PICK n \in Nat : Len(buffer) = n + 1
            BY <1>4, <5>1
          <6>2. /\ Tail(buffer) \in Seq(Lines) /\ DOMAIN Tail(buffer) = 1..n
                /\ \A i \in 1..n : i + 1 \in DOMAIN buffer /\ Tail(buffer)[i] = buffer[i + 1]
            BY <1>4, <5>1, <6>1
          <6>3. QED BY <6>2 DEF Range
        <5>4. Range(buffer') = Range(Tail(buffer)) \cup {line}
          <6>1. PICK t \in Seq(Lines) : t = Tail(buffer)
            BY <5>3
          <6>2. Range(Append(t, line)) = Range(t) \cup {line}
            BY <1>2, RangeAppend
          <6>3. QED BY <5>2, <6>1, <6>2
        <5>5. QED BY <5>3, <5>4
      <4>3. QED BY <3>1, <4>1, <4>2 DEF Put
    <3>4. Range(captured)' = Range(captured') /\ Range(buffer)' = Range(buffer')
      BY DEF Range
    <3>5. QED BY <2>2, <3>2, <3>3, <3>4
  <2>3. QED BY <2>1, <2>2
<1>7. Reported' = Reported
  BY <1>3 DEF Reported, Range
<1>8. Placed' \subseteq Placed \cup {line}
  BY <1>5, <1>6, <1>7 DEF Placed
<1>9. QED BY <1>1, <1>2, <1>3, <1>5, <1>6, <1>8, LineStep

LEMMA BadStep ==
  ASSUME LineInv, HandleBad
  PROVE  /\ OneEach' /\ Phase' /\ Numbered' /\ Fresh'
         /\ (Idle => Idle') /\ UNCHANGED <<AllTold, LastToTell>>
         /\ Head(inbox).line \in Lines /\ Head(inbox).line \notin Placed
         /\ \E w \in Writers :
              /\ From(w) = {Head(inbox)} /\ From(w)' = {} /\ Head(inbox).line[1] = w
              /\ \A p : p # w => From(p)' = From(p)
<1>1. PICK line : line = Head(inbox).line
  OBVIOUS
<1>2. TypeInv /\ Received("bad") /\ line \in Lines
  BY <1>1, Received1 DEF LineInv, BufferInv, HandleBad
<1>3. UNCHANGED <<calls, pc, part, results, capture, said, buffer, captured>>
  BY DEF HandleBad, hookVars, bufferVars
<1>4. Range(log)' \subseteq Range(log) \cup {line} /\ Range(log) \subseteq Range(log)'
  <2>1. log' = log \/ log' = Append(log, line)
    BY <1>1 DEF HandleBad
  <2>2. CASE log' = log
    BY <2>2 DEF Range
  <2>3. CASE log' = Append(log, line)
    <3>1. Range(log') = Range(log) \cup {line}
      BY <1>2, <2>3, RangeAppend DEF TypeInv
    <3>2. QED BY <3>1 DEF Range
  <2>4. QED BY <2>1, <2>2, <2>3
<1>5. Reported' = Reported /\ Range(captured)' = Range(captured)
  BY <1>3 DEF Reported, Range
<1>6. Placed' \subseteq Placed \cup {line}
  BY <1>4, <1>5 DEF Placed
<1>7. QED BY <1>1, <1>2, <1>3, <1>4, <1>6, LineStep

LEMMA StartStep ==
  ASSUME LineInv, HandleStart
  PROVE  /\ OneEach' /\ Phase' /\ Numbered' /\ Fresh' /\ ~Idle /\ ToStart
         /\ Placed' = Placed /\ \A p \in Writers : From(p)' = From(p)
<1>1. Received("start") /\ "start" \in HookOp /\ capture'
  BY DEF HandleStart, HookOp
<1>2. UNCHANGED <<calls, pc, part, said, results, log, captured>>
  BY DEF HandleStart, hookVars
<1>3. Placed' = Placed
  BY <1>2 DEF Placed, Reported, Range
<1>4. /\ OneEach' /\ Numbered' /\ Fresh' /\ ~Idle /\ From(Hook)' = {}
      /\ \A p \in Writers : From(p)' = From(p)
      /\ ToStart /\ calls = <<>>
  BY <1>1, <1>2, <1>3, AnswerStep
<1>5. Idle'
  BY <1>1, <1>2, <1>4 DEF ToStart, Setup, Idle, LastToTell
<1>6. QED BY <1>3, <1>4, <1>5 DEF Phase

LEMMA StopStep ==
  ASSUME LineInv, HandleStop
  PROVE  /\ OneEach' /\ Phase' /\ Numbered' /\ Fresh' /\ ~Idle /\ ~capture'
         /\ Placed' \subseteq Placed /\ \A p \in Writers : From(p)' = From(p)
<1>1. Received("stop") /\ "stop" \in HookOp /\ ~capture'
  BY DEF HandleStop, HookOp
<1>2. UNCHANGED <<calls, pc, part, said, results, captured, buffer>>
  BY DEF HandleStop, hookVars
<1>3. Range(log)' = Range(log) \cup Range(buffer)
  <2>1. log \in Seq(Lines) /\ buffer \in Seq(Lines) /\ log' = log \o buffer
    BY DEF HandleStop, LineInv, BufferInv, TypeInv
  <2>2. Range(log') = Range(log) \cup Range(buffer)
    BY <2>1, RangeConcat
  <2>3. QED BY <2>2 DEF Range
<1>4. Placed' \subseteq Placed
  <2>1. Range(captured)' = Range(captured) /\ Reported' = Reported
    BY <1>2 DEF Reported, Range
  <2>2. Range(buffer) \subseteq Range(captured)
    BY BufferCaptured DEF LineInv
  <2>3. QED BY <1>3, <2>1, <2>2 DEF Placed
<1>5. /\ OneEach' /\ Numbered' /\ Fresh' /\ ~Idle /\ From(Hook)' = {}
      /\ \A p \in Writers : From(p)' = From(p)
      /\ \/ ToStop /\ calls = <<"flush", "start">>
         \/ ToEnd /\ calls = <<>>
  BY <1>1, <1>2, <1>4, AnswerStep
<1>6. CASE ToStop /\ calls = <<"flush", "start">>
  <2>1. Setup'
    BY <1>2, <1>6 DEF ToStop, Setup, OwnLines, LastToTell
  <2>2. Pending("flush", <<"start">>)'
    BY <1>2, <1>5, <1>6 DEF Pending
  <2>3. (Range(buffer) \subseteq Range(log))'
    BY <1>2, <1>3 DEF Range
  <2>4. QED BY <1>1, <1>4, <1>5, <2>1, <2>2, <2>3 DEF Phase, ToFlush
<1>7. CASE ToEnd /\ calls = <<>>
  <2>1. Idle'
    BY <1>2, <1>5, <1>7 DEF ToEnd, Idle, AllTold
  <2>2. QED BY <1>1, <1>4, <1>5, <2>1 DEF Phase
<1>8. QED BY <1>5, <1>6, <1>7

LEMMA FlushStep ==
  ASSUME LineInv, HandleFlush
  PROVE  /\ OneEach' /\ Phase' /\ Numbered' /\ Fresh' /\ ~Idle /\ ToFlush
         /\ Placed' \subseteq Placed /\ \A p \in Writers : From(p)' = From(p)
<1>1. Received("flush") /\ "flush" \in HookOp /\ Emptied
  BY DEF HandleFlush, HookOp
<1>2. UNCHANGED <<calls, pc, part, said, results, log, capture>>
  BY DEF HandleFlush, hookVars
<1>3. Placed' \subseteq Placed
  <2>1. Range(captured)' = {} /\ Reported' = Reported /\ Range(log)' = Range(log)
    BY <1>1, <1>2 DEF Reported, Range, Emptied
  <2>2. QED BY <2>1 DEF Placed
<1>4. /\ OneEach' /\ Numbered' /\ Fresh' /\ ~Idle /\ From(Hook)' = {}
      /\ \A p \in Writers : From(p)' = From(p)
      /\ ToFlush /\ calls = <<"start">>
  BY <1>1, <1>2, <1>3, AnswerStep
<1>5. Setup'
  BY <1>2, <1>4 DEF ToFlush, Setup, OwnLines, LastToTell
<1>6. Pending("start", <<>>)'
  BY <1>2, <1>4 DEF Pending
<1>7. ToStart'
  BY <1>1, <1>2, <1>4, <1>5, <1>6 DEF ToFlush, ToStart, Emptied
<1>8. QED BY <1>3, <1>4, <1>7 DEF Phase

LEMMA ReportStep ==
  ASSUME LineInv, HandleReport
  PROVE  /\ OneEach' /\ Phase' /\ Numbered' /\ Fresh' /\ ~Idle /\ ToReport
         /\ Placed' \subseteq Placed /\ \A p \in Writers : From(p)' = From(p)
         /\ Reported' = Reported \cup Range(buffer)
         /\ DOMAIN results' = DOMAIN results \cup {part} /\ part \notin DOMAIN results
         /\ results'[part] = [lines |-> buffer, truncated |-> truncated]
         /\ \A n \in DOMAIN results : results'[n] = results[n]
         /\ Len(results') = part
<1>1. Received("report") /\ "report" \in HookOp /\ Emptied
  BY DEF HandleReport, HookOp
<1>2. UNCHANGED <<calls, pc, part, said, log, capture>>
  BY DEF HandleReport, hookVars
<1>3. TypeInv /\ Range(buffer) \subseteq Range(captured)
  BY BufferCaptured DEF LineInv, BufferInv
<1>4. PICK r : r = [lines |-> buffer, truncated |-> truncated]
  OBVIOUS
<1>5. r \in Result /\ r.lines = buffer /\ results' = Append(results, r)
  BY <1>3, <1>4 DEF TypeInv, Result, HandleReport
<1>6. /\ Reported' = Reported \cup Range(buffer)
      /\ Len(results') = Len(results) + 1 /\ results'[Len(results) + 1] = r
      /\ \A n \in DOMAIN results : results'[n] = results[n]
      /\ DOMAIN results' = DOMAIN results \cup {Len(results) + 1}
  BY <1>3, <1>5, ReportedAppend
<1>7. Placed' \subseteq Placed
  <2>1. Range(captured)' = {} /\ Range(log)' = Range(log)
    BY <1>1, <1>2 DEF Range, Emptied
  <2>2. QED BY <1>3, <1>6, <2>1 DEF Placed
<1>8. /\ OneEach' /\ Numbered' /\ Fresh' /\ ~Idle /\ From(Hook)' = {}
      /\ \A p \in Writers : From(p)' = From(p)
      /\ ToReport /\ calls = <<>>
  BY <1>1, <1>2, <1>7, AnswerStep
<1>9. part = Len(results) + 1 /\ part \notin DOMAIN results
  <2>1. part = Len(results) + 1
    BY <1>8 DEF ToReport, LastToTell
  <2>2. DOMAIN results = 1..Len(results) /\ Len(results) \in Nat
    BY <1>3 DEF TypeInv
  <2>3. QED BY <2>1, <2>2
<1>10. Idle'
  BY <1>2, <1>6, <1>8, <1>9 DEF ToReport, Idle, AllTold
<1>11. QED BY <1>4, <1>6, <1>7, <1>8, <1>9, <1>10 DEF Phase

LEMMA LineInit == Init => LineInv
<1> SUFFICES ASSUME Init PROVE LineInv
  OBVIOUS
<1>1. BufferInv /\ OneEach
  BY BufferInit DEF Init, OneEach
<1>2. From(Hook) = {} /\ \A p : From(p) = {}
  BY DEF Init, From
<1>3. Phase
  BY <1>2 DEF Init, Phase, Idle, AllTold
<1>4. Placed = {} /\ said = {}
  BY DEF Init, Placed, Reported, Range
<1>5. Numbered
  BY <1>4, FS_EmptySet DEF Numbered
<1>6. Fresh
  BY <1>2 DEF Fresh
<1>7. QED BY <1>1, <1>3, <1>5, <1>6 DEF LineInv

LEMMA LineNext == LineInv /\ [Next]_vars => LineInv'
<1> SUFFICES ASSUME LineInv, [Next]_vars PROVE OneEach' /\ Phase' /\ Numbered' /\ Fresh'
  BY BufferNext DEF LineInv
<1>1. CASE \E w \in Writers, op \in {"put", "bad"} : Write(w, op)
  BY <1>1, WriteStep
<1>2. CASE BeginPart \/ EndPart \/ GoOn \/ EndSuite
  BY <1>2, HookStep
<1>3. CASE Call          BY <1>3, CallStep
<1>4. CASE HandlePut     BY <1>4, PutStep
<1>5. CASE HandleBad     BY <1>5, BadStep
<1>6. CASE HandleStart   BY <1>6, StartStep
<1>7. CASE HandleStop    BY <1>7, StopStep
<1>8. CASE HandleFlush   BY <1>8, FlushStep
<1>9. CASE HandleReport  BY <1>9, ReportStep
<1>10. CASE UNCHANGED vars
  <2>1. UNCHANGED <<inbox, capture, buffer, log, pc, calls, part, results, said, captured>>
    BY <1>10 DEF vars, bufferVars, hookVars
  <2>2. TypeInv /\ OneEach /\ Phase /\ Numbered /\ Fresh
    BY DEF LineInv, BufferInv
  <2>3. /\ OneEach' /\ Placed' = Placed /\ OwnLines' = OwnLines /\ Range(log)' = Range(log)
        /\ \A p : From(p)' = From(p)
    BY <2>1, <2>2 DEF OneEach, Placed, Reported, Range, OwnLines, From
  <2>4. Phase'
    BY <2>1, <2>2, <2>3, PhaseStays
  <2>5. Numbered'
    BY <2>1, <2>2, <2>3, NumberedStays DEF Numbered
  <2>6. Fresh'
    BY <2>1, <2>2, <2>3, FreshStays
  <2>7. QED BY <2>3, <2>4, <2>5, <2>6
<1>11. QED BY <1>1, <1>2, <1>3, <1>4, <1>5, <1>6, <1>7, <1>8, <1>9, <1>10 DEF Next

LEMMA LineInvariant == Spec => []LineInv
<1>1. QED BY LineInit, LineNext, PTL DEF Spec

-----------------------------------------------------------------------------
(***************************************************************************)
(* No line vanishes: for every capacity and interleaving a line leaves the *)
(* buffer into a result, or because it has been printed, or pushed out     *)
(* with the truncation marked (stop prints before flush forgets, and no    *)
(* line comes in between, cth_tpx:initialize_stdout_capture).              *)
(***************************************************************************)
THEOREM NoLineVanishes == Spec => LeavesForAReason
<1>1. ASSUME LineInv, [Next]_vars, NEW line \in Range(buffer) \ Range(buffer')
      PROVE  line \in Reported' \cup Range(log') \/ truncated'
  <2>1. buffer' # buffer
    BY <1>1
  <2>2. HandlePut \/ HandleFlush \/ HandleReport
    BY <1>1, <2>1 DEF Next, Write, BeginPart, EndPart, GoOn, EndSuite, Call, HandleBad,
       HandleStart, HandleStop, vars, bufferVars
  <2>3. CASE HandlePut
    <3>1. Put(Head(inbox).line)
      BY <2>1, <2>3 DEF HandlePut
    <3>2. PICK x : x = Head(inbox).line
      OBVIOUS
    <3>3. x \in Lines /\ buffer \in Seq(Lines)
      BY <1>1, <2>3, <3>2, PutStep DEF LineInv, BufferInv, TypeInv
    <3>4. CASE Len(buffer) < MaxElements
      <4>1. buffer' = Append(buffer, x)
        BY <3>1, <3>2, <3>4 DEF Put
      <4>2. Range(buffer') = Range(buffer) \cup {x}
        BY <3>3, <4>1, RangeAppend
      <4>3. QED BY <1>1, <4>2
    <3>5. CASE ~(Len(buffer) < MaxElements)
      BY <3>1, <3>5 DEF Put
    <3>6. QED BY <3>4, <3>5
  <2>4. CASE HandleFlush
    <3>1. ToFlush /\ log' = log
      BY <1>1, <2>4, FlushStep DEF HandleFlush
    <3>2. QED BY <1>1, <3>1 DEF ToFlush
  <2>5. CASE HandleReport
    BY <1>1, <2>5, ReportStep
  <2>6. QED BY <2>2, <2>3, <2>4, <2>5
<1>2. LineInv /\ [Next]_vars =>
        [\A line \in Range(buffer) \ Range(buffer') :
           line \in Reported' \cup Range(log') \/ truncated']_vars
  BY <1>1
<1>3. QED BY <1>2, LineInvariant, PTL DEF Spec, LeavesForAReason

-----------------------------------------------------------------------------
(* What is printed *)

PrintInv == PrintedOnce /\ ReportedOrPrinted

LEMMA PrintStays ==
  ASSUME PrintInv, UNCHANGED <<passThrough, log>>, Reported' = Reported,
         Range(captured)' \subseteq Range(captured),
         capture' => \A l \in Range(buffer)' : capture /\ l \in Range(buffer)
  PROVE  PrintInv'
<1>1. \A l : Times(l)' = Times(l)
  BY DEF Times
<1>2. Once' = Once
  BY DEF Once
<1>3. PrintedOnce'
  BY <1>1, <1>2 DEF PrintInv, PrintedOnce
<1>4. ReportedOrPrinted'
  BY <1>1, <1>2 DEF PrintInv, ReportedOrPrinted, Once
<1>5. QED BY <1>3, <1>4 DEF PrintInv

LEMMA PrintNext == LineInv /\ PrintInv /\ [Next]_vars => PrintInv'
<1> SUFFICES ASSUME LineInv, PrintInv, [Next]_vars PROVE PrintInv'
  OBVIOUS
<1>1. /\ TypeInv /\ log \in Seq(Lines) /\ buffer \in Seq(Lines)
      /\ Range(buffer) \subseteq Range(captured)
  BY BufferCaptured DEF LineInv, BufferInv, TypeInv
<1>2. \A l : l \in Range(captured) => l \notin Reported
  BY DEF PrintInv, PrintedOnce
<1>3. \A l \in Reported : Times(l) = Once
  BY DEF PrintInv, ReportedOrPrinted, Once
<1>4. ASSUME UNCHANGED <<passThrough, log, results, captured, buffer, capture>> PROVE PrintInv'
  <2>1. /\ Reported' = Reported /\ Range(captured)' = Range(captured)
        /\ Range(buffer)' = Range(buffer) /\ capture' = capture
    BY <1>4 DEF Reported, Range
  <2>2. QED BY <1>4, <2>1, PrintStays
<1>5. CASE \/ \E w \in Writers, op \in {"put", "bad"} : Write(w, op)
           \/ BeginPart \/ EndPart \/ GoOn \/ EndSuite \/ Call \/ UNCHANGED vars
  BY <1>4, <1>5 DEF Write, BeginPart, EndPart, GoOn, EndSuite, Call, vars, bufferVars
<1>6. ASSUME NEW line \in Lines, line \notin Placed, log' = Append(log, line)
      PROVE  /\ Times(line)' = 1
             /\ \A l \in Range(captured) \cup Reported : Times(l)' = Times(l)
  <2>1. Times(line) = 0 /\ Times(line)' = Times(line) + 1
    BY <1>1, <1>6, TimesZero, TimesAppend DEF Placed
  <2>2. \A l : l # line => Times(l)' = Times(l)
    BY <1>1, <1>6, TimesAppend
  <2>3. QED BY <1>6, <2>1, <2>2 DEF Placed
<1>7. CASE HandlePut
  <2>1. PICK line : line = Head(inbox).line
    OBVIOUS
  <2>2. /\ line \in Lines /\ line \notin Placed
        /\ Range(captured)' = Range(captured) \cup (IF capture THEN {line} ELSE {})
        /\ Range(buffer)' \subseteq Range(buffer) \cup (IF capture THEN {line} ELSE {})
    BY <1>7, <2>1, PutStep
  <2>3. UNCHANGED <<passThrough, results, capture>>
    BY <1>7 DEF HandlePut
  <2>4. Reported' = Reported /\ Once' = Once
    BY <2>3 DEF Reported, Range, Once
  <2>5. \A l \in Range(captured) \cup Reported : Times(l)' = Times(l)
    <3>1. CASE log' = log  BY <3>1 DEF Times
    <3>2. CASE log' = Append(log, line)  BY <1>6, <2>2, <3>2
    <3>3. QED BY <1>7, <2>1, <3>1, <3>2 DEF HandlePut
  <2>6. capture => Times(line)' = Once
    <3> SUFFICES ASSUME capture PROVE Times(line)' = Once
      OBVIOUS
    <3>1. CASE passThrough
      BY <1>6, <1>7, <2>1, <2>2, <3>1 DEF HandlePut, Once
    <3>2. CASE ~passThrough
      <4>1. log' = log  BY <1>7, <3>2 DEF HandlePut
      <4>2. Times(line)' = Times(line)  BY <4>1 DEF Times
      <4>3. Times(line) = 0  BY <2>2, TimesZero DEF Placed
      <4>4. QED BY <3>2, <4>2, <4>3 DEF Once
    <3>3. QED BY <3>1, <3>2
  <2>7. Range(captured)' \cap Reported' = {}
    BY <1>2, <2>2, <2>4 DEF Placed
  <2>8. ASSUME capture', NEW l \in Range(buffer)' PROVE Times(l)' = Once'
    <3>1. capture  BY <2>3, <2>8
    <3>2. CASE l = line  BY <2>4, <2>6, <3>1, <3>2
    <3>3. CASE l # line
      <4>1. l \in Range(buffer) /\ l \in Range(captured)
        BY <1>1, <2>2, <2>8, <3>3
      <4>2. Times(l) = Once
        BY <3>1, <4>1 DEF PrintInv, PrintedOnce
      <4>3. QED BY <2>4, <2>5, <4>1, <4>2
    <3>4. QED BY <3>2, <3>3
  <2>9. \A l \in Reported' : Times(l)' = Once'
    BY <1>3, <2>4, <2>5
  <2>10. PrintedOnce'
    BY <2>7, <2>8 DEF PrintedOnce
  <2>11. ReportedOrPrinted'
    BY <2>9 DEF ReportedOrPrinted, Once
  <2>12. QED BY <2>10, <2>11 DEF PrintInv
<1>8. CASE HandleBad
  <2>1. PICK line : line = Head(inbox).line
    OBVIOUS
  <2>2. line \in Lines /\ line \notin Placed
    BY <1>8, <2>1, BadStep
  <2>3. UNCHANGED <<passThrough, results, capture, buffer, captured>>
    BY <1>8 DEF HandleBad, bufferVars
  <2>4. CASE log' = log
    BY <1>4, <2>3, <2>4
  <2>5. CASE ~capture /\ log' = Append(log, line)
    <3>1. \A l \in Range(captured) \cup Reported : Times(l)' = Times(l)
      BY <1>6, <2>2, <2>5
    <3>2. /\ Reported' = Reported /\ Once' = Once /\ Range(captured)' = Range(captured)
          /\ ~capture'
      BY <2>3, <2>5 DEF Reported, Range, Once
    <3>3. PrintedOnce'
      BY <1>2, <3>2 DEF PrintedOnce
    <3>4. ReportedOrPrinted'
      BY <1>3, <3>1, <3>2 DEF ReportedOrPrinted, Once
    <3>5. QED BY <3>3, <3>4 DEF PrintInv
  <2>6. QED BY <1>8, <2>1, <2>4, <2>5 DEF HandleBad
<1>9. CASE HandleStart
  <2>1. ToStart /\ UNCHANGED <<passThrough, log, results, captured, buffer>>
    BY <1>9, StartStep DEF HandleStart
  <2>2. Range(buffer)' = {} /\ Reported' = Reported /\ Range(captured)' = Range(captured)
    BY <2>1 DEF ToStart, Range, Reported
  <2>3. QED BY <2>1, <2>2, PrintStays
<1>10. CASE HandleStop
  <2>1. /\ UNCHANGED <<passThrough, results, captured, buffer>>
        /\ log' = log \o buffer /\ ~capture'
    BY <1>10 DEF HandleStop
  <2>2. Reported' = Reported /\ Range(captured)' = Range(captured) /\ Once' = Once
    BY <2>1 DEF Range, Reported, Once
  <2>3. \A l \in Reported : Times(l)' = Times(l)
    BY <1>1, <1>2, <2>1, TimesConcat
  <2>4. PrintedOnce'
    BY <1>2, <2>1, <2>2 DEF PrintedOnce
  <2>5. ReportedOrPrinted'
    BY <1>3, <2>2, <2>3 DEF ReportedOrPrinted, Once
  <2>6. QED BY <2>4, <2>5 DEF PrintInv
<1>11. CASE HandleFlush
  <2>1. UNCHANGED <<passThrough, log, results, capture>> /\ buffer' = <<>> /\ captured' = <<>>
    BY <1>11 DEF HandleFlush, Emptied
  <2>2. Range(buffer)' = {} /\ Reported' = Reported /\ Range(captured)' = {}
    BY <2>1 DEF Range, Reported
  <2>3. QED BY <2>1, <2>2, PrintStays
<1>12. CASE HandleReport
  <2>1. UNCHANGED <<passThrough, log>> /\ buffer' = <<>> /\ captured' = <<>>
    BY <1>12 DEF HandleReport, Emptied
  <2>2. /\ Range(buffer)' = {} /\ Range(captured)' = {} /\ Once' = Once
        /\ \A l : Times(l)' = Times(l)
    BY <2>1 DEF Range, Once, Times
  <2>3. Reported' = Reported \cup Range(buffer) /\ capture
    BY <1>12, ReportStep DEF ToReport
  <2>4. \A l \in Range(buffer) : Times(l) = Once
    BY <2>3 DEF PrintInv, PrintedOnce
  <2>5. PrintedOnce'
    BY <2>2 DEF PrintedOnce
  <2>6. ReportedOrPrinted'
    BY <1>3, <2>2, <2>3, <2>4 DEF ReportedOrPrinted, Once
  <2>7. QED BY <2>5, <2>6 DEF PrintInv
<1>13. QED BY <1>5, <1>7, <1>8, <1>9, <1>10, <1>11, <1>12 DEF Next

(***************************************************************************)
(* What is in a result is printed once if captured lines are passed on and *)
(* never if not, for any number of writers and parts: the stop that prints *)
(* the rest of the buffer prints nothing of a result, earlier or later.    *)
(***************************************************************************)
THEOREM PrintedOrReported == Spec => []ReportedOrPrinted
<1>1. Init => PrintInv
  <2> SUFFICES ASSUME Init PROVE PrintInv
    OBVIOUS
  <2>1. Reported = {} /\ Range(captured) = {} /\ Range(buffer) = {}
    BY DEF Init, Reported, Range
  <2>2. QED BY <2>1 DEF PrintInv, PrintedOnce, ReportedOrPrinted
<1>2. LineInv /\ PrintInv /\ [Next]_vars => PrintInv'
  BY PrintNext
<1>3. PrintInv => ReportedOrPrinted
  BY DEF PrintInv
<1>4. QED BY <1>1, <1>2, <1>3, LineInvariant, PTL DEF Spec

-----------------------------------------------------------------------------
(* The part's own lines *)

OwnInv == OwnKnown /\ OwnOutput

LEMMA OwnStays ==
  ASSUME OwnInv, UNCHANGED <<results, said, part, pc>>, LastToTell' <=> LastToTell,
         From(Part)' = From(Part), From(Part) # {} => Idle',
         \A l : l[1] = Part => (l \in Range(captured)' <=> l \in Range(captured)),
         up' => up
  PROVE  OwnInv'
<1>1. OwnOutput'
  BY DEF OwnInv, OwnOutput, Range
<1>2. OwnLines' = OwnLines
  BY DEF OwnLines
<1>3. \A m \in From(Part)' : pc' = "running" /\ Idle' /\ m.line[3] = part'
  BY DEF OwnInv, OwnKnown
<1>4. \A l \in Range(captured)' : l[1] = Part => l[3] = part' /\ LastToTell'
  BY DEF OwnInv, OwnKnown
<1>5. up' => \A l \in OwnLines' : l[3] > Len(results') =>
               l \in Range(captured)' \/ \E m \in From(Part)' : m.line = l
  <2> SUFFICES ASSUME up', NEW l \in OwnLines, l[3] > Len(results)
               PROVE  l \in Range(captured)' \/ \E m \in From(Part)' : m.line = l
    BY <1>2
  <2>1. l \in Range(captured) \/ \E m \in From(Part) : m.line = l
    BY DEF OwnInv, OwnKnown
  <2>2. l[1] = Part
    BY DEF OwnLines
  <2>3. QED BY <2>1, <2>2
<1>6. QED BY <1>1, <1>3, <1>4, <1>5 DEF OwnInv, OwnKnown

LEMMA OwnNext == LineInv /\ OwnInv /\ [Next]_vars => OwnInv'
<1> SUFFICES ASSUME LineInv, OwnInv, [Next]_vars PROVE OwnInv'
  OBVIOUS
<1>1. /\ TypeInv /\ Phase /\ Numbered /\ OwnKnown /\ OwnOutput
      /\ part \in Nat /\ Len(results) \in Nat /\ DOMAIN results = 1..Len(results)
  BY Capacity DEF LineInv, BufferInv, OwnInv, TypeInv
<1>2. \A l \in said : l[3] \in Nat /\ l[3] <= part
  <2>1. \A l \in said : l[3] \in Nat
    BY <1>1, LineParts DEF TypeInv
  <2>2. QED BY <1>1, <2>1 DEF Numbered
<1>3. /\ Range(buffer) \subseteq Range(captured)
      /\ ~truncated => Range(captured) \subseteq Range(buffer)
  BY BufferCaptured DEF LineInv
<1>4. ~Idle \/ pc # "running" => From(Part) = {}
  BY <1>1 DEF OwnKnown
<1>5. pc = "running" /\ Idle => capture /\ LastToTell
  BY DEF Idle
<1>6. ASSUME NEW w \in Writers, NEW op \in {"put", "bad"}, Write(w, op) PROVE OwnInv'
  <2>1. PICK line \in Lines :
          /\ line[1] = w /\ line[3] = part /\ line \notin said
          /\ said' = said \cup {line}
          /\ (\E m \in From(w)' : m.line = line)
          /\ \A m \in From(w)' : m.line = line
    BY <1>6, WriteStep
  <2>2. /\ (Idle => Idle') /\ UNCHANGED <<AllTold, LastToTell>>
        /\ w = Part => pc = "running" /\ Idle
        /\ \A p : p # w => From(p)' = From(p)
    BY <1>6, WriteStep
  <2>3. UNCHANGED <<up, pc, part, results, captured>>
    BY <1>6 DEF Write, hookVars
  <2>4. Range(captured)' = Range(captured)
    BY <2>3 DEF Range
  <2>5. w = Part => part \notin DOMAIN results
    BY <1>1, <1>5, <2>2 DEF LastToTell
  <2>6. OwnOutput'
    <3> SUFFICES ASSUME NEW n \in DOMAIN results
                 PROVE LET own == {l \in Range(results[n].lines) : l[1] = Part} IN
                       /\ \A l \in own : l[3] = n
                       /\ ~results[n].truncated =>
                            \A l \in said' : l[1] = Part /\ l[3] = n => l \in own
      BY <2>3 DEF OwnOutput, Range
    <3>1. \A l \in said' : l[1] = Part /\ l[3] = n => l \in said
      BY <2>1, <2>5
    <3>2. QED BY <1>1, <3>1 DEF OwnOutput
  <2>7. \A m \in From(Part)' : pc' = "running" /\ Idle' /\ m.line[3] = part'
    <3>1. CASE w = Part  BY <2>1, <2>2, <2>3, <3>1
    <3>2. CASE w # Part  BY <1>1, <2>2, <2>3, <3>2 DEF OwnKnown
    <3>3. QED BY <3>1, <3>2
  <2>8. \A l \in Range(captured)' : l[1] = Part => l[3] = part' /\ LastToTell'
    BY <1>1, <2>2, <2>3, <2>4 DEF OwnKnown
  <2>9. ASSUME up', NEW l \in OwnLines', l[3] > Len(results')
        PROVE  l \in Range(captured)' \/ \E m \in From(Part)' : m.line = l
    <3>1. CASE l = line
      <4>1. w = Part  BY <2>1, <2>9, <3>1 DEF OwnLines
      <4>2. QED BY <2>1, <3>1, <4>1
    <3>2. CASE l # line
      <4>1. l \in OwnLines  BY <2>1, <2>9, <3>2 DEF OwnLines
      <4>2. l \in Range(captured) \/ \E m \in From(Part) : m.line = l
        BY <1>1, <2>3, <2>9, <4>1 DEF OwnKnown
      <4>3. w = Part => From(Part) = {}
        BY <1>6, Known DEF Write
      <4>4. w # Part => From(Part)' = From(Part)
        BY <2>2
      <4>5. QED BY <2>4, <4>2, <4>3, <4>4
    <3>3. QED BY <3>1, <3>2
  <2>10. QED BY <2>6, <2>7, <2>8, <2>9 DEF OwnInv, OwnKnown
<1>7. CASE BeginPart \/ EndPart \/ GoOn \/ EndSuite
  <2>1. Idle /\ \A p : From(p)' = From(p)
    BY <1>7, HookStep
  <2>2. UNCHANGED <<results, said, captured, up>>
    BY <1>7 DEF BeginPart, EndPart, GoOn, EndSuite, bufferVars
  <2>3. From(Part) = {}
    BY <1>4, <1>7, Known DEF BeginPart, EndPart, GoOn, EndSuite
  <2>4. Range(captured)' = Range(captured) /\ OwnLines' = OwnLines
    BY <2>2 DEF Range, OwnLines
  <2>5. \A l \in Range(captured)' : l[1] = Part => l[3] = part' /\ LastToTell'
    <3>1. CASE EndPart
      BY <1>1, <2>4, <3>1 DEF EndPart, OwnKnown, LastToTell
    <3>2. CASE pc = "between"
      <4>1. ~LastToTell
        BY <1>1, <2>1, <3>2 DEF Idle, AllTold, LastToTell
      <4>2. QED BY <1>1, <2>4, <4>1 DEF OwnKnown
    <3>3. QED BY <1>7, <3>1, <3>2 DEF BeginPart, GoOn, EndSuite
  <2>6. OwnOutput'
    BY <1>1, <2>2 DEF OwnOutput, Range
  <2>7. up' => \A l \in OwnLines' : l[3] > Len(results') => l \in Range(captured)'
    BY <1>1, <2>2, <2>3, <2>4 DEF OwnKnown
  <2>8. From(Part)' = {}
    BY <2>1, <2>3
  <2>9. QED BY <2>5, <2>6, <2>7, <2>8 DEF OwnInv, OwnKnown
<1>8. CASE Call \/ HandleStart \/ HandleStop
  <2>1. ~Idle /\ From(Part)' = From(Part)
    BY <1>8, CallStep, StartStep, StopStep, Names
  <2>2. UNCHANGED <<results, said, part, pc, captured, up>>
    BY <1>8 DEF Call, HandleStart, HandleStop, hookVars, bufferVars, Received
  <2>3. From(Part) = {}
    BY <1>4, <2>1
  <2>4. Range(captured)' = Range(captured) /\ (LastToTell' <=> LastToTell)
    BY <2>2 DEF Range, LastToTell
  <2>5. QED BY <2>1, <2>2, <2>3, <2>4, OwnStays
<1>9. CASE HandlePut
  <2>1. PICK line : line = Head(inbox).line
    OBVIOUS
  <2>2. PICK w \in Writers :
          /\ From(w) = {Head(inbox)} /\ From(w)' = {} /\ line[1] = w
          /\ \A p : p # w => From(p)' = From(p)
    BY <1>9, <2>1, PutStep
  <2>3. /\ (Idle => Idle') /\ UNCHANGED <<AllTold, LastToTell>>
        /\ Range(captured)' = Range(captured) \cup (IF capture THEN {line} ELSE {})
    BY <1>9, <2>1, PutStep
  <2>4. UNCHANGED <<up, pc, part, results, said>>
    BY <1>9 DEF HandlePut, hookVars
  <2>5. CASE w # Part
    <3>1. From(Part)' = From(Part)
      BY <2>2, <2>5
    <3>2. \A l : l[1] = Part => (l \in Range(captured)' <=> l \in Range(captured))
      BY <2>2, <2>3, <2>5
    <3>3. From(Part) # {} => Idle'
      BY <1>4, <2>3
    <3>4. QED BY <2>3, <2>4, <3>1, <3>2, <3>3, OwnStays
  <2>6. CASE w = Part
    <3>1. pc = "running" /\ Idle /\ line[3] = part
      BY <1>1, <2>1, <2>2, <2>6 DEF OwnKnown
    <3>2. capture /\ LastToTell /\ LastToTell'
      BY <1>5, <2>3, <3>1
    <3>3. Range(captured)' = Range(captured) \cup {line}
      BY <2>3, <3>2
    <3>4. OwnOutput' /\ OwnLines' = OwnLines
      BY <1>1, <2>4 DEF OwnOutput, OwnLines, Range
    <3>5. \A l \in Range(captured)' : l[1] = Part => l[3] = part' /\ LastToTell'
      BY <1>1, <2>4, <3>1, <3>2, <3>3 DEF OwnKnown
    <3>6. ASSUME up', NEW l \in OwnLines, l[3] > Len(results')
          PROVE  l \in Range(captured)'
      BY <1>1, <2>1, <2>2, <2>4, <2>6, <3>3, <3>6 DEF OwnKnown
    <3>7. From(Part)' = {}
      BY <2>2, <2>6
    <3>8. QED BY <3>4, <3>5, <3>6, <3>7 DEF OwnInv, OwnKnown
  <2>7. QED BY <2>5, <2>6
<1>10. CASE HandleBad
  <2>1. PICK w \in Writers :
          /\ From(w) = {Head(inbox)} /\ From(w)' = {} /\ Head(inbox).line[1] = w
          /\ \A p : p # w => From(p)' = From(p)
    BY <1>10, BadStep
  <2>2. (Idle => Idle') /\ UNCHANGED <<AllTold, LastToTell>>
    BY <1>10, BadStep
  <2>3. UNCHANGED <<pc, part, results, said, captured>> /\ up
    BY <1>10 DEF HandleBad, hookVars, Received
  <2>4. Range(captured)' = Range(captured)
    BY <2>3 DEF Range
  <2>5. CASE w # Part
    <3>1. From(Part)' = From(Part) /\ (From(Part) # {} => Idle')
      BY <1>4, <2>1, <2>2, <2>5
    <3>2. QED BY <2>2, <2>3, <2>4, <3>1, OwnStays
  <2>6. CASE w = Part
    <3>1. pc = "running" /\ Idle
      BY <1>1, <2>1, <2>6 DEF OwnKnown
    <3>2. ~up'
      BY <1>5, <1>10, <3>1 DEF HandleBad
    <3>3. OwnOutput'
      BY <1>1, <2>3 DEF OwnOutput, Range
    <3>4. \A l \in Range(captured)' : l[1] = Part => l[3] = part' /\ LastToTell'
      BY <1>1, <2>2, <2>3, <2>4 DEF OwnKnown
    <3>5. From(Part)' = {}
      BY <2>1, <2>6
    <3>6. QED BY <3>2, <3>3, <3>4, <3>5 DEF OwnInv, OwnKnown
  <2>7. QED BY <2>5, <2>6
<1>11. CASE HandleFlush
  <2>1. ToFlush /\ ~Idle /\ From(Part)' = From(Part)
    BY <1>11, FlushStep, Names
  <2>2. UNCHANGED <<pc, part, results, said, up>> /\ captured' = <<>>
    BY <1>11 DEF HandleFlush, hookVars, Received, Emptied
  <2>3. From(Part)' = {}
    BY <1>4, <2>1
  <2>4. Range(captured)' = {} /\ OwnLines' = OwnLines /\ OwnOutput'
    BY <1>1, <2>2 DEF Range, OwnLines, OwnOutput
  <2>5. \A l \in OwnLines : ~(l[3] > Len(results))
    <3>1. part = Len(results) + 1 /\ \A l \in OwnLines : l[3] # part
      BY <2>1 DEF ToFlush, Setup, LastToTell
    <3>2. \A l \in OwnLines : l[3] \in Nat /\ l[3] <= part
      BY <1>2 DEF OwnLines
    <3>3. QED BY <1>1, <3>1, <3>2
  <2>6. QED BY <2>2, <2>3, <2>4, <2>5 DEF OwnInv, OwnKnown
<1>12. CASE HandleReport
  <2>1. ToReport /\ ~Idle /\ From(Part)' = From(Part)
    BY <1>12, ReportStep, Names
  <2>2. /\ DOMAIN results' = DOMAIN results \cup {part} /\ part \notin DOMAIN results
        /\ results'[part] = [lines |-> buffer, truncated |-> truncated]
        /\ \A n \in DOMAIN results : results'[n] = results[n]
        /\ Len(results') = part
    BY <1>12, ReportStep
  <2>3. UNCHANGED <<pc, part, said, up>> /\ captured' = <<>> /\ up
    BY <1>12 DEF HandleReport, hookVars, Received, Emptied
  <2>4. From(Part) = {} /\ From(Part)' = {}
    BY <1>4, <2>1
  <2>5. Range(captured)' = {} /\ OwnLines' = OwnLines
    BY <2>3 DEF Range, OwnLines
  <2>6. \A l \in OwnLines : ~(l[3] > Len(results'))
    BY <1>1, <1>2, <2>2 DEF OwnLines
  <2>7. OwnOutput'
    <3> SUFFICES ASSUME NEW n \in DOMAIN results'
                 PROVE LET own == {l \in Range(results'[n].lines) : l[1] = Part} IN
                       /\ \A l \in own : l[3] = n
                       /\ ~results'[n].truncated =>
                            \A l \in said : l[1] = Part /\ l[3] = n => l \in own
      BY <2>3 DEF OwnOutput, Range
    <3>1. CASE n \in DOMAIN results
      BY <1>1, <2>2, <3>1 DEF OwnOutput
    <3>2. CASE n = part
      <4>1. results'[n].lines = buffer /\ results'[n].truncated = truncated
        BY <2>2, <3>2
      <4>2. \A l \in Range(buffer) : l[1] = Part => l[3] = n
        BY <1>1, <1>3, <3>2 DEF OwnKnown
      <4>3. part > Len(results)
        BY <1>1, <2>1 DEF ToReport, LastToTell
      <4>4. ASSUME ~truncated, NEW l \in said, l[1] = Part, l[3] = n PROVE l \in Range(buffer)
        <5>1. l \in OwnLines /\ l[3] > Len(results)
          BY <3>2, <4>3, <4>4 DEF OwnLines
        <5>2. l \in Range(captured)
          BY <1>1, <2>3, <2>4, <5>1 DEF OwnKnown
        <5>3. QED BY <1>3, <4>4, <5>2
      <4>5. QED BY <4>1, <4>2, <4>4
    <3>3. QED BY <2>2, <3>1, <3>2
  <2>8. QED BY <2>4, <2>5, <2>6, <2>7 DEF OwnInv, OwnKnown
<1>13. CASE UNCHANGED vars
  <2>1. UNCHANGED <<inbox, up, capture, pc, calls, part, results, said, captured>>
    BY <1>13 DEF vars, bufferVars, hookVars
  <2>2. /\ From(Part)' = From(Part) /\ (Idle => Idle') /\ Range(captured)' = Range(captured)
        /\ LastToTell' <=> LastToTell
    BY <2>1 DEF From, Idle, AllTold, LastToTell, Range
  <2>3. QED BY <1>4, <2>1, <2>2, OwnStays
<1>14. QED BY <1>6, <1>7, <1>8, <1>9, <1>10, <1>11, <1>12, <1>13 DEF Next

(***************************************************************************)
(* The output of a part is in its result and in no other, all of it unless *)
(* the result says otherwise, however many parts and writers there are and *)
(* whatever these others do (add_result after the calls of                 *)
(* initialize_stdout_capture, each answered before the part goes on).      *)
(***************************************************************************)
THEOREM OutputIsOwn == Spec => []OwnOutput
<1>1. Init => OwnInv
  <2> SUFFICES ASSUME Init PROVE OwnInv
    OBVIOUS
  <2>1. From(Part) = {} /\ Range(captured) = {} /\ OwnLines = {} /\ DOMAIN results = {}
    BY DEF Init, From, Range, OwnLines
  <2>2. QED BY <2>1 DEF OwnInv, OwnKnown, OwnOutput
<1>2. LineInv /\ OwnInv /\ [Next]_vars => OwnInv'
  BY OwnNext
<1>3. OwnInv => OwnOutput
  BY DEF OwnInv
<1>4. QED BY <1>1, <1>2, <1>3, LineInvariant, PTL DEF Spec
=============================================================================

------------------------ MODULE ResourceBrokerProofs ------------------------
(***************************************************************************)
(* For every number of brokers, of companions and of simulators, whatever  *)
(* the tools and the companions do: which companions are left behind.      *)
(***************************************************************************)
EXTENDS ResourceBroker, WellFoundedInduction, TLAPS

CompanionState == {"none", "unspawned", "running", "dead"}
Words          == {"nothing", "path", "other"}

\* Shapes of the variables the property reads.
Typed ==
  /\ DOMAIN pc = Broker /\ DOMAIN end = Broker
  /\ DOMAIN companion = Broker /\ DOMAIN said = Broker /\ DOMAIN told = Broker
  /\ DOMAIN child = Broker /\ DOMAIN next = Broker
  /\ \A b \in Broker : /\ companion[b] \in [Companions(b) -> CompanionState]
                       /\ said[b] \in [Companions(b) -> Words]
                       /\ told[b] \subseteq Companions(b)
                       /\ next[b] \in Nat

Early == {"start", "list", "runtimes", "create", "select", "boot", "spawn"}

\* Before it spawns a broker has no companion, and only a broker that spawned
\* them all goes on.
Stage(b) ==
  /\ pc[b] \in Early => \A i \in Companions(b) : companion[b][i] = "none"
  /\ pc[b] \in Early \cup {"spawned", "wait", "fork"} => child[b] = "none"
  /\ pc[b] \in {"print", "failed"} => child[b] \in {"none", "unguarded", "waiting"}

\* A child cleans up in order: what is behind it was told.
Cleaned(b) ==
  child[b] = "cleaning" =>
    /\ next[b] # 0
    /\ \A i \in Companions(b) : i < next[b] => i \in told[b]
    /\ next[b] <= (IF Type(b) = "macos" THEN MacCompanions ELSE 1) + 1

\* The reasons, each strong enough to last while companions speak and die.
Excused(b) ==
  \/ Forgotten(b) = {}
  \/ end[b] = "timeout" /\ \A i \in Forgotten(b) : said[b][i] # "nothing"
  \/ end[b] = "answers" /\ \E i \in Companions(b) :
       said[b][i] = "other" \/ (said[b][i] = "nothing" /\ companion[b][i] # "running")
  \/ end[b] \in {"spawn", "raised"} /\ StoppedAtDead(b)
  \/ end[b] \in {"fork", "report", "killed"}

BrokerInv(b) == Stage(b) /\ Cleaned(b) /\ (Over(b) => Excused(b))

BInv == Typed /\ \A b \in Broker : BrokerInv(b)

-----------------------------------------------------------------------------
LEMMA SizeOf ==
  ASSUME NEW b \in Broker
  PROVE  /\ Companions(b) \subseteq Nat
         /\ (IF Type(b) = "macos" THEN MacCompanions ELSE 1) \in Nat \ {0}
BY MacCompanionsAssumption DEF Companions

LEMMA BrokersInit == Init => BInv
<1> SUFFICES ASSUME Init PROVE BInv
  OBVIOUS
<1>1. Typed
  BY DEF Init, Typed, CompanionState, Words
<1>2. ASSUME NEW b \in Broker PROVE BrokerInv(b)
  BY DEF Init, BrokerInv, Stage, Cleaned, Over, Early
<1>3. QED BY <1>1, <1>2 DEF BInv

\* A step of one broker leaves what the invariant says of the others.
Same(b) ==
  /\ pc'[b] = pc[b] /\ end'[b] = end[b] /\ companion'[b] = companion[b] /\ said'[b] = said[b]
  /\ told'[b] = told[b] /\ child'[b] = child[b] /\ next'[b] = next[b] /\ request' = request

LEMMA Undisturbed ==
  ASSUME NEW b \in Broker, BrokerInv(b), Same(b)
  PROVE  BrokerInv(b)'
BY DEF Same, BrokerInv, Stage, Cleaned, Over, Excused, Forgotten, StoppedAtDead, Companions, Type

\* All that a step of broker a has to show.
LEMMA OneMoves ==
  ASSUME BInv, NEW a \in Broker, Typed', BrokerInv(a)', \A b \in Broker \ {a} : Same(b)
  PROVE  BInv'
<1>1. ASSUME NEW b \in Broker PROVE BrokerInv(b)'
  <2>1. CASE b = a  BY <2>1
  <2>2. CASE b # a  BY <2>2, Undisturbed DEF BInv
  <2>3. QED BY <2>1, <2>2
<1>2. QED BY <1>1 DEF BInv

-----------------------------------------------------------------------------
\* Preparing a simulator changes the place of the broker, at most.
Moves(a, l) == pc' = [pc EXCEPT ![a] = l]
Ends(a)     == end' = end \/ \E e : end' = [end EXCEPT ![a] = e]

LEMMA Prepare ==
  ASSUME BInv, NEW a \in Broker, UNCHANGED <<request, compVars, childVars>>, Ends(a),
         pc[a] \in Early, NEW l \in Early \cup {"failed", "print"}, Moves(a, l)
  PROVE  BInv'
<1>1. Typed'
  BY DEF BInv, Typed, compVars, childVars, Moves, Ends, Companions, Type
<1>2. /\ pc'[a] = l /\ request' = request /\ companion' = companion /\ said' = said
      /\ told' = told /\ child' = child /\ next' = next
  BY DEF BInv, Typed, compVars, childVars, Moves
<1>3. ASSUME NEW b \in Broker \ {a} PROVE Same(b)
  BY <1>2 DEF Same, Moves, Ends, BInv, Typed
<1>4. \A i \in Companions(a) : companion[a][i] = "none"
  BY DEF BInv, BrokerInv, Stage
<1>5. child[a] = "none"
  BY DEF BInv, BrokerInv, Stage
<1>6. Companions(a)' = Companions(a)
  BY <1>2 DEF Companions, Type
<1>7. Stage(a)'
  BY <1>2, <1>4, <1>5, <1>6 DEF Stage
<1>8. Cleaned(a)' /\ Excused(a)'
  BY <1>2, <1>4, <1>5, <1>6 DEF Cleaned, Excused, Forgotten
<1>9. QED BY <1>1, <1>3, <1>7, <1>8, OneMoves DEF BrokerInv

\* A step that none of these variables sees.
LEMMA Elsewhere ==
  ASSUME BInv, UNCHANGED <<request, pc, compVars, childVars, end>>
  PROVE  BInv'
<1>1. Typed'
  BY DEF BInv, Typed, compVars, childVars, Companions, Type
<1>2. \A b \in Broker : Same(b)
  BY DEF Same, compVars, childVars
<1>3. QED BY <1>1, <1>2, Undisturbed DEF BInv

LEMMA PrepareSteps ==
  ASSUME BInv, NEW b \in Broker,
         \/ Start(b) \/ CommandFails(b) \/ List(b) \/ ListRuntimes(b) \/ Create(b) \/ Select(b)
         \/ BootTimeout(b) \/ BootBegins(b) \/ BootEnds(b) \/ BootFails(b)
  PROVE  BInv'
<1>1. ASSUME pc[b] \in Early, UNCHANGED <<request, compVars, childVars>>, Ends(b),
             \E l \in Early \cup {"failed", "print"} : Moves(b, l)
      PROVE  BInv'
  BY <1>1, Prepare
<1>2. ASSUME UNCHANGED <<request, pc, compVars, childVars, end>> PROVE BInv'
  BY <1>2, Elsewhere
<1> USE DEF Goto, Fail, Moves, Ends, Early, Prepared
<1>3. CASE Start(b)         BY <1>3, <1>1 DEF Start
<1>4. CASE CommandFails(b)  BY <1>4, <1>1 DEF CommandFails
<1>5. CASE List(b)          BY <1>5, <1>1 DEF List
<1>6. CASE ListRuntimes(b)  BY <1>6, <1>1 DEF ListRuntimes
<1>7. CASE Create(b)        BY <1>7, <1>1 DEF Create
<1>8. CASE Select(b)        BY <1>8, <1>1 DEF Select
<1>9. CASE BootTimeout(b)   BY <1>9, <1>1 DEF BootTimeout
<1>10. CASE BootBegins(b)   BY <1>10, <1>2 DEF BootBegins
<1>11. CASE BootEnds(b)
  <2>1. CASE pc[b] = "boot"  BY <1>11, <2>1, <1>1 DEF BootEnds
  <2>2. CASE pc[b] # "boot"  BY <1>11, <2>2, <1>2 DEF BootEnds
  <2>3. QED BY <2>1, <2>2
<1>12. CASE BootFails(b)
  <2>1. CASE pc[b] = "boot"  BY <1>12, <2>1, <1>1 DEF BootFails
  <2>2. CASE pc[b] # "boot"  BY <1>12, <2>2, <1>2 DEF BootFails
  <2>3. QED BY <2>1, <2>2
<1>13. QED
  BY <1>3, <1>4, <1>5, <1>6, <1>7, <1>8, <1>9, <1>10, <1>11, <1>12

-----------------------------------------------------------------------------
LEMMA SpawnStep == ASSUME BInv, NEW b \in Broker, Spawn(b) PROVE BInv'
<1>1. /\ pc[b] = "spawn" /\ pc' = [pc EXCEPT ![b] = "spawned"] /\ child[b] = "none"
      /\ UNCHANGED <<request, said, told, child, next, end>>
  BY DEF Spawn, Goto, childVars, BInv, BrokerInv, Stage, Early
<1>2. PICK started \in SUBSET Companions(b) :
        companion' = [companion EXCEPT ![b] =
                        [i \in Companions(b) |-> IF i \in started THEN "running" ELSE "unspawned"]]
  BY DEF Spawn
<1>3. \A c \in Broker : Companions(c)' = Companions(c)
  BY <1>1 DEF Companions, Type
<1>4. Typed'
  BY <1>1, <1>2, <1>3 DEF BInv, Typed, CompanionState
<1>5. \A c \in Broker \ {b} : Same(c)
  BY <1>1, <1>2 DEF Same, BInv, Typed
<1>6. pc'[b] = "spawned" /\ child'[b] = "none"
  BY <1>1 DEF BInv, Typed
<1>7. BrokerInv(b)'
  BY <1>6 DEF BrokerInv, Stage, Cleaned, Over, Early
<1>8. QED BY <1>4, <1>5, <1>7, OneMoves

LEMMA EndSpawnStep == ASSUME BInv, NEW b \in Broker, EndSpawn(b) PROVE BInv'
<1>1. /\ pc[b] = "spawned" /\ child[b] = "none"
      /\ UNCHANGED <<request, companion, said, child, next>>
  BY DEF EndSpawn, childVars, BInv, BrokerInv, Stage
<1>2. \A c \in Broker : Companions(c)' = Companions(c)
  BY <1>1 DEF Companions, Type
<1>3. CASE \A i \in Companions(b) : companion[b][i] # "unspawned"
  <2>1. pc' = [pc EXCEPT ![b] = "wait"] /\ told' = told /\ end' = end
    BY <1>3 DEF EndSpawn, Goto
  <2>2. Typed'
    BY <1>1, <1>2, <2>1 DEF BInv, Typed
  <2>3. \A c \in Broker \ {b} : Same(c)
    BY <1>1, <2>1 DEF Same, BInv, Typed
  <2>4. pc'[b] = "wait" /\ child'[b] = "none"
    BY <1>1, <2>1 DEF BInv, Typed
  <2>5. BrokerInv(b)'
    BY <2>4 DEF BrokerInv, Stage, Cleaned, Over, Early
  <2>6. QED BY <2>2, <2>3, <2>5, OneMoves
<1>4. CASE ~\A i \in Companions(b) : companion[b][i] # "unspawned"
  <2>1. PICK stop \in {i \in Companions(b) : companion[b][i] = "dead"} \cup {MacCompanions + 1} :
          told' = [told EXCEPT ![b] = {i \in Companions(b) : companion[b][i] # "unspawned" /\ i < stop}]
    BY <1>4 DEF EndSpawn
  <2>2. pc' = [pc EXCEPT ![b] = "failed"] /\ end' = [end EXCEPT ![b] = "spawn"]
    BY <1>4 DEF EndSpawn, Fail, Goto
  <2>3. Typed'
    BY <1>1, <1>2, <2>1, <2>2 DEF BInv, Typed
  <2>4. \A c \in Broker \ {b} : Same(c)
    BY <1>1, <2>1, <2>2 DEF Same, BInv, Typed
  <2>5. /\ pc'[b] = "failed" /\ child'[b] = "none" /\ end'[b] = "spawn"
        /\ told'[b] = {i \in Companions(b) : companion[b][i] # "unspawned" /\ i < stop}
    BY <1>1, <2>1, <2>2 DEF BInv, Typed
  <2>6. ASSUME Forgotten(b)' # {} PROVE StoppedAtDead(b)'
    <3>1. ASSUME NEW i \in Forgotten(b)' PROVE i \in Nat /\ i \in Companions(b) /\ ~(i < stop)
      BY <1>1, <1>2, <2>5, SizeOf DEF Forgotten
    <3>2. companion[b][stop] = "dead" /\ stop \in Companions(b)
      <4>1. stop # MacCompanions + 1
        BY <2>6, <3>1, SizeOf, MacCompanionsAssumption DEF Companions
      <4>2. QED BY <4>1
    <3>3. ASSUME NEW i \in Forgotten(b)' PROVE stop < i
      <4>1. i # stop
        BY <1>1, <1>2, <3>2 DEF Forgotten
      <4>2. QED BY <3>1, <3>2, <4>1, SizeOf
    <3>4. QED BY <1>1, <1>2, <3>2, <3>3 DEF StoppedAtDead
  <2>7. BrokerInv(b)'
    BY <2>5, <2>6 DEF BrokerInv, Stage, Cleaned, Excused, Early
  <2>8. QED BY <2>3, <2>4, <2>7, OneMoves
<1>5. QED BY <1>3, <1>4

-----------------------------------------------------------------------------
\* What a companion does leaves every excuse standing.
LEMMA SpeakStep ==
  ASSUME BInv, NEW b \in Broker, NEW k \in Companions(b), Speak(b, k)
  PROVE  BInv'
<1>1. /\ companion[b][k] = "running" /\ said[b][k] = "nothing"
      /\ UNCHANGED <<request, pc, companion, told, child, next, end>>
  BY DEF Speak, childVars
<1>2. PICK what \in {"path", "other"} : said' = [said EXCEPT ![b][k] = what]
  BY DEF Speak
<1>3. \A c \in Broker : Companions(c)' = Companions(c)
  BY <1>1 DEF Companions, Type
<1>4. said'[b] = [said[b] EXCEPT ![k] = what]
  BY <1>2 DEF BInv, Typed
<1>5. Typed'
  BY <1>1, <1>2, <1>3, <1>4 DEF BInv, Typed, Words
<1>6. \A c \in Broker \ {b} : Same(c)
  BY <1>1, <1>2 DEF Same, BInv, Typed
<1>7. Stage(b)' /\ Cleaned(b)'
  BY <1>1, <1>3 DEF BInv, BrokerInv, Stage, Cleaned, Type
<1>8. ASSUME Over(b)' PROVE Excused(b)'
  <2>1. Excused(b)
    BY <1>1, <1>8 DEF Over, BInv, BrokerInv
  <2>2. Forgotten(b)' = Forgotten(b) /\ (StoppedAtDead(b) => StoppedAtDead(b)')
    BY <1>1, <1>3 DEF Forgotten, StoppedAtDead
  <2>3. \A i \in Companions(b) : i # k => said'[b][i] = said[b][i]
    BY <1>4 DEF BInv, Typed
  <2>4. said'[b][k] # "nothing"
    BY <1>4 DEF BInv, Typed
  <2>5. CASE end[b] = "timeout" /\ \A i \in Forgotten(b) : said[b][i] # "nothing"
    BY <1>1, <2>2, <2>3, <2>4, <2>5 DEF Excused, Forgotten
  <2>6. CASE end[b] = "answers" /\ \E i \in Companions(b) :
               said[b][i] = "other" \/ (said[b][i] = "nothing" /\ companion[b][i] # "running")
    <3>1. PICK i \in Companions(b) :
            said[b][i] = "other" \/ (said[b][i] = "nothing" /\ companion[b][i] # "running")
      BY <2>6
    <3>2. i # k
      BY <1>1, <3>1
    <3>3. QED BY <1>1, <1>3, <2>3, <2>6, <3>1, <3>2 DEF Excused
  <2>7. CASE Forgotten(b) = {} \/ (end[b] \in {"spawn", "raised"} /\ StoppedAtDead(b)) \/ end[b] \in {"fork", "report", "killed"}
    BY <1>1, <2>2, <2>7 DEF Excused
  <2>8. QED BY <2>1, <2>5, <2>6, <2>7 DEF Excused
<1>9. QED BY <1>5, <1>6, <1>7, <1>8, OneMoves DEF BrokerInv

LEMMA DieStep ==
  ASSUME BInv, NEW b \in Broker, NEW k \in Companions(b), Die(b, k)
  PROVE  BInv'
<1>1. /\ companion[b][k] = "running" /\ companion' = [companion EXCEPT ![b][k] = "dead"]
      /\ UNCHANGED <<request, pc, said, told, child, next, end>>
  BY DEF Die, childVars
<1>2. \A c \in Broker : Companions(c)' = Companions(c)
  BY <1>1 DEF Companions, Type
<1>3. companion'[b] = [companion[b] EXCEPT ![k] = "dead"]
  BY <1>1 DEF BInv, Typed
<1>4. Typed'
  BY <1>1, <1>2, <1>3 DEF BInv, Typed, CompanionState
<1>5. \A c \in Broker \ {b} : Same(c)
  BY <1>1 DEF Same, BInv, Typed
<1>6. \A i \in Companions(b) : i # k => companion'[b][i] = companion[b][i]
  BY <1>3 DEF BInv, Typed
<1>7. companion'[b][k] = "dead"
  BY <1>3 DEF BInv, Typed
<1>8. Stage(b)' /\ Cleaned(b)'
  BY <1>1, <1>2 DEF BInv, BrokerInv, Stage, Cleaned, Type
<1>9. ASSUME Over(b)' PROVE Excused(b)'
  <2>1. Excused(b)
    BY <1>1, <1>9 DEF Over, BInv, BrokerInv
  <2>2. Forgotten(b)' \subseteq Forgotten(b)
    BY <1>1, <1>2, <1>6, <1>7 DEF Forgotten
  <2>3. StoppedAtDead(b) => StoppedAtDead(b)'
    BY <1>1, <1>2, <1>6, <2>2 DEF StoppedAtDead
  <2>4. CASE Forgotten(b) = {} \/ (end[b] \in {"spawn", "raised"} /\ StoppedAtDead(b)) \/ end[b] \in {"fork", "report", "killed"}
    BY <1>1, <2>2, <2>3, <2>4 DEF Excused
  <2>5. CASE end[b] = "timeout" /\ \A i \in Forgotten(b) : said[b][i] # "nothing"
    BY <1>1, <2>2, <2>5 DEF Excused
  <2>6. CASE end[b] = "answers" /\ \E i \in Companions(b) :
               said[b][i] = "other" \/ (said[b][i] = "nothing" /\ companion[b][i] # "running")
    BY <1>1, <1>2, <1>6, <1>7, <2>6 DEF Excused
  <2>7. QED BY <2>1, <2>4, <2>5, <2>6 DEF Excused
<1>10. QED BY <1>4, <1>5, <1>8, <1>9, OneMoves DEF BrokerInv

-----------------------------------------------------------------------------
\* Waiting for the companions.
LEMMA CollectStep == ASSUME BInv, NEW b \in Broker, Collect(b) PROVE BInv'
<1>1. /\ pc[b] = "wait" /\ Pending(b) = {} /\ child[b] = "none"
      /\ UNCHANGED <<request, companion, said, told, child, next>>
  BY DEF Collect, compVars, childVars, BInv, BrokerInv, Stage
<1>2. \A c \in Broker : Companions(c)' = Companions(c)
  BY <1>1 DEF Companions, Type
<1>3. PICK l \in {"fork", "failed"} :
        /\ pc' = [pc EXCEPT ![b] = l]
        /\ l = "fork" => end' = end
        /\ l = "failed" => end' = [end EXCEPT ![b] = "answers"] /\ ~AllAnswered(b)
  BY DEF Collect, Goto, Fail
<1>4. Typed'
  BY <1>1, <1>2, <1>3 DEF BInv, Typed
<1>5. \A c \in Broker \ {b} : Same(c)
  BY <1>1, <1>3 DEF Same, BInv, Typed
<1>6. pc'[b] = l /\ child'[b] = "none"
  BY <1>1, <1>3 DEF BInv, Typed
<1>7. Stage(b)' /\ Cleaned(b)'
  BY <1>6 DEF Stage, Cleaned, Early
<1>8. ASSUME Over(b)' PROVE Excused(b)'
  <2>1. l = "failed" /\ end'[b] = "answers" /\ ~AllAnswered(b)
    BY <1>3, <1>6, <1>8 DEF Over, BInv, Typed
  <2>2. PICK i \in Companions(b) : said[b][i] # "path"
    BY <2>1 DEF AllAnswered
  <2>3. said[b][i] = "other" \/ (said[b][i] = "nothing" /\ companion[b][i] # "running")
    BY <1>1, <2>2 DEF Pending, BInv, Typed, Words
  <2>4. QED BY <1>1, <1>2, <2>1, <2>3 DEF Excused
<1>9. QED BY <1>4, <1>5, <1>7, <1>8, OneMoves DEF BrokerInv

LEMMA WaitTimeoutStep == ASSUME BInv, NEW b \in Broker, WaitTimeout(b) PROVE BInv'
<1>1. /\ child[b] = "none" /\ told' = [told EXCEPT ![b] = Pending(b)]
      /\ pc' = [pc EXCEPT ![b] = "failed"] /\ end' = [end EXCEPT ![b] = "timeout"]
      /\ UNCHANGED <<request, companion, said, child, next>>
  BY DEF WaitTimeout, Terminated, Goto, Fail, childVars, BInv, BrokerInv, Stage
<1>2. \A c \in Broker : Companions(c)' = Companions(c)
  BY <1>1 DEF Companions, Type
<1>3. Typed'
  BY <1>1, <1>2 DEF BInv, Typed, Pending
<1>4. \A c \in Broker \ {b} : Same(c)
  BY <1>1 DEF Same, BInv, Typed
<1>5. pc'[b] = "failed" /\ child'[b] = "none" /\ end'[b] = "timeout" /\ told'[b] = Pending(b)
  BY <1>1 DEF BInv, Typed
<1>6. \A i \in Forgotten(b)' : said'[b][i] # "nothing"
  BY <1>1, <1>2, <1>5 DEF Forgotten, Pending
<1>7. BrokerInv(b)'
  BY <1>5, <1>6 DEF BrokerInv, Stage, Cleaned, Excused, Early
<1>8. QED BY <1>3, <1>4, <1>7, OneMoves

-----------------------------------------------------------------------------
\* The child.
LEMMA ForkStep == ASSUME BInv, NEW b \in Broker, Fork(b) \/ Report(b) PROVE BInv'
<1>1. UNCHANGED <<request, companion, said, told, next>>
  BY DEF Fork, Report, compVars, childVars
<1>2. \A c \in Broker : Companions(c)' = Companions(c)
  BY <1>1 DEF Companions, Type
<1>3. CASE Fork(b)
  <2>1. child[b] = "none"
    BY <1>3 DEF Fork, BInv, BrokerInv, Stage
  <2>2. CASE child' = [child EXCEPT ![b] = "unguarded"] /\ pc' = [pc EXCEPT ![b] = "print"] /\ end' = end
    <3>1. Typed' /\ \A c \in Broker \ {b} : Same(c)
      BY <1>1, <1>2, <2>2 DEF BInv, Typed, Same
    <3>2. pc'[b] = "print" /\ child'[b] = "unguarded"
      BY <2>2 DEF BInv, Typed
    <3>3. BrokerInv(b)'
      BY <3>2 DEF BrokerInv, Stage, Cleaned, Over, Early
    <3>4. QED BY <3>1, <3>3, OneMoves
  <2>3. CASE child' = child /\ pc' = [pc EXCEPT ![b] = "failed"] /\ end' = [end EXCEPT ![b] = "fork"]
    <3>1. Typed' /\ \A c \in Broker \ {b} : Same(c)
      BY <1>1, <1>2, <2>3 DEF BInv, Typed, Same
    <3>2. pc'[b] = "failed" /\ child'[b] = "none" /\ end'[b] = "fork"
      BY <2>1, <2>3 DEF BInv, Typed
    <3>3. BrokerInv(b)'
      BY <3>2 DEF BrokerInv, Stage, Cleaned, Excused, Early
    <3>4. QED BY <3>1, <3>3, OneMoves
  <2>4. QED BY <1>3, <2>2, <2>3 DEF Fork, Goto, Fail
<1>4. CASE Report(b)
  <2>1. /\ child' = child /\ pc[b] = "print"
        /\ \/ pc' = [pc EXCEPT ![b] = "reported"] /\ end' = end
           \/ pc' = [pc EXCEPT ![b] = "failed"] /\ end' = [end EXCEPT ![b] = "report"]
    BY <1>4 DEF Report, Goto, Fail, childVars
  <2>2. Typed' /\ \A c \in Broker \ {b} : Same(c)
    BY <1>1, <1>2, <2>1 DEF BInv, Typed, Same
  <2>3. \/ pc'[b] = "reported" /\ end'[b] = end[b]
        \/ pc'[b] = "failed" /\ end'[b] = "report" /\ child[b] \in {"none", "unguarded", "waiting"}
    BY <2>1 DEF BInv, Typed, BrokerInv, Stage
  <2>4. BrokerInv(b)
    BY DEF BInv
  <2>5. Cleaned(b)'
    BY <1>1, <1>2, <2>1, <2>4 DEF BrokerInv, Cleaned, Type
  <2>6. Over(b)' => Excused(b)'
    BY <1>1, <1>2, <2>1, <2>3, <2>4 DEF BrokerInv, Over, Excused, Forgotten, StoppedAtDead
  <2>7. Stage(b)'
    BY <2>1, <2>3 DEF Stage, Early
  <2>8. QED BY <2>2, <2>5, <2>6, <2>7, OneMoves DEF BrokerInv
<1>5. QED BY <1>3, <1>4

LEMMA GuardStep == ASSUME BInv, NEW b \in Broker, Guard(b) PROVE BInv'
<1>1. /\ child[b] = "unguarded" /\ child' = [child EXCEPT ![b] = "waiting"]
      /\ UNCHANGED <<request, pc, companion, said, told, next, end>>
  BY DEF Guard, compVars
<1>2. \A c \in Broker : Companions(c)' = Companions(c)
  BY <1>1 DEF Companions, Type
<1>3. Typed' /\ \A c \in Broker \ {b} : Same(c)
  BY <1>1, <1>2 DEF BInv, Typed, Same
<1>4. child'[b] = "waiting" /\ BrokerInv(b)
  BY <1>1 DEF BInv, Typed
<1>5. Stage(b)' /\ Cleaned(b)'
  BY <1>1, <1>2, <1>4 DEF BrokerInv, Stage, Cleaned
<1>6. Over(b)' => Excused(b)'
  <2>1. Over(b)' => Over(b)
    BY <1>1, <1>4 DEF Over
  <2>2. Excused(b) => Excused(b)'
    BY <1>1, <1>2 DEF Excused, Forgotten, StoppedAtDead
  <2>3. QED BY <1>4, <2>1, <2>2 DEF BrokerInv
<1>7. QED BY <1>3, <1>5, <1>6, OneMoves DEF BrokerInv

LEMMA SignalStep == ASSUME BInv, NEW b \in Broker, Signal(b) PROVE BInv'
<1>1. /\ pc[b] = "reported"
      /\ UNCHANGED <<request, pc, companion, said, told>>
  BY DEF Signal, compVars
<1>2. \A c \in Broker : Companions(c)' = Companions(c)
  BY <1>1 DEF Companions, Type
<1>3. CASE child[b] = "unguarded"
  <2>1. child' = [child EXCEPT ![b] = "gone"] /\ end' = [end EXCEPT ![b] = "killed"] /\ next' = next
    BY <1>3 DEF Signal
  <2>2. Typed' /\ \A c \in Broker \ {b} : Same(c)
    BY <1>1, <1>2, <2>1 DEF BInv, Typed, Same
  <2>3. pc'[b] = "reported" /\ child'[b] = "gone" /\ end'[b] = "killed"
    BY <1>1, <2>1 DEF BInv, Typed
  <2>4. BrokerInv(b)'
    BY <2>3 DEF BrokerInv, Stage, Cleaned, Excused, Early
  <2>5. QED BY <2>2, <2>4, OneMoves
<1>4. CASE child[b] # "unguarded"
  <2>1. child' = [child EXCEPT ![b] = "cleaning"] /\ next' = [next EXCEPT ![b] = 1] /\ end' = end
    BY <1>4 DEF Signal
  <2>2. Typed' /\ \A c \in Broker \ {b} : Same(c)
    BY <1>1, <1>2, <2>1 DEF BInv, Typed, Same
  <2>3. pc'[b] = "reported" /\ child'[b] = "cleaning" /\ next'[b] = 1
    BY <1>1, <2>1 DEF BInv, Typed
  <2>4. \A i \in Companions(b) : ~(i < 1)
    BY DEF Companions
  <2>5. 1 <= (IF Type(b)' = "macos" THEN MacCompanions ELSE 1) + 1
    BY MacCompanionsAssumption
  <2>6. Cleaned(b)'
    BY <1>2, <2>3, <2>4, <2>5 DEF Cleaned
  <2>7. QED BY <2>2, <2>3, <2>6, OneMoves DEF BrokerInv, Stage, Over, Early
<1>5. QED BY <1>3, <1>4

LEMMA CleanStep == ASSUME BInv, NEW b \in Broker, Clean(b) PROVE BInv'
<1>1. /\ child[b] = "cleaning" /\ next[b] \in Companions(b)
      /\ told' = [told EXCEPT ![b] = @ \cup {next[b]}] /\ next' = [next EXCEPT ![b] = @ + 1]
      /\ UNCHANGED <<request, pc, companion, said, child, end>>
  BY DEF Clean
<1>2. \A c \in Broker : Companions(c)' = Companions(c)
  BY <1>1 DEF Companions, Type
<1>3. Typed' /\ \A c \in Broker \ {b} : Same(c)
  BY <1>1, <1>2 DEF BInv, Typed, Same
<1>4. told'[b] = told[b] \cup {next[b]} /\ next'[b] = next[b] + 1 /\ next[b] \in Nat /\ BrokerInv(b)
  BY <1>1 DEF BInv, Typed
<1>5. next'[b] <= (IF Type(b)' = "macos" THEN MacCompanions ELSE 1) + 1
  BY <1>1, <1>4, MacCompanionsAssumption DEF Companions, Type
<1>6. \A i \in Companions(b) : i < next'[b] => i \in told'[b]
  <2>1. ASSUME NEW i \in Companions(b), i < next'[b] PROVE i \in told'[b]
    <3>1. i \in Nat /\ (i < next[b] \/ i = next[b])
      BY <1>4, <2>1, SizeOf
    <3>2. QED BY <1>1, <1>4, <3>1 DEF BrokerInv, Cleaned
  <2>2. QED BY <2>1
<1>7. Stage(b)' /\ Cleaned(b)' /\ ~Over(b)'
  BY <1>1, <1>2, <1>4, <1>5, <1>6 DEF BrokerInv, Stage, Cleaned, Over
<1>8. QED BY <1>3, <1>7, OneMoves DEF BrokerInv

LEMMA GoneStep == ASSUME BInv, NEW b \in Broker, CleanRaises(b) \/ CleanEnds(b) PROVE BInv'
<1>1. /\ child[b] = "cleaning" /\ child' = [child EXCEPT ![b] = "gone"]
      /\ UNCHANGED <<request, pc, companion, said, told, next>>
  BY DEF CleanRaises, CleanEnds, ChildGone, compVars
<1>2. \A c \in Broker : Companions(c)' = Companions(c)
  BY <1>1 DEF Companions, Type
<1>3. PICK e \in {"raised", "clean"} :
        /\ end' = [end EXCEPT ![b] = e]
        /\ e = "raised" => next[b] \in Companions(b) /\ companion[b][next[b]] = "dead"
        /\ e = "clean" => next[b] \notin Companions(b)
  BY DEF CleanRaises, CleanEnds, ChildGone
<1>4. Typed' /\ \A c \in Broker \ {b} : Same(c)
  BY <1>1, <1>2, <1>3 DEF BInv, Typed, Same
<1>5. child'[b] = "gone" /\ end'[b] = e /\ BrokerInv(b) /\ next[b] \in Nat
  BY <1>1, <1>3 DEF BInv, Typed
<1>6. Stage(b)' /\ Cleaned(b)'
  BY <1>1, <1>2, <1>5 DEF BrokerInv, Stage, Cleaned
<1>7. Forgotten(b)' = Forgotten(b)
  BY <1>1, <1>2 DEF Forgotten
<1>8. \A i \in Forgotten(b) : i \in Companions(b) /\ i \in Nat /\ companion[b][i] = "running" /\ ~(i < next[b])
  BY <1>1, <1>5, SizeOf DEF Forgotten, BrokerInv, Cleaned
<1>9. CASE e = "raised"
  <2>1. \A i \in Forgotten(b) : next[b] < i
    BY <1>3, <1>5, <1>8, <1>9
  <2>2. StoppedAtDead(b)'
    BY <1>1, <1>2, <1>3, <1>7, <1>9, <2>1 DEF StoppedAtDead
  <2>3. QED BY <1>4, <1>5, <1>6, <1>9, <2>2, OneMoves DEF BrokerInv, Excused
<1>10. CASE e = "clean"
  <2>1. ASSUME NEW i \in Forgotten(b) PROVE FALSE
    <3>1. next[b] <= (IF Type(b) = "macos" THEN MacCompanions ELSE 1) + 1
      BY <1>1, <1>5 DEF BrokerInv, Cleaned
    <3>2. i <= (IF Type(b) = "macos" THEN MacCompanions ELSE 1) /\ 1 <= i
      BY <1>8 DEF Companions
    <3>3. next[b] \in Companions(b)
      BY <1>5, <1>8, <3>1, <3>2, <1>1, <1>3, <1>10, MacCompanionsAssumption DEF Companions, BrokerInv, Cleaned
    <3>4. QED BY <1>3, <1>10, <3>3
  <2>2. QED BY <1>4, <1>6, <1>7, <2>1, OneMoves DEF BrokerInv, Excused
<1>11. QED BY <1>9, <1>10

-----------------------------------------------------------------------------
LEMMA BrokersNext == BInv /\ [Next]_vars => BInv'
<1> SUFFICES ASSUME BInv, [Next]_vars PROVE BInv'
  OBVIOUS
<1>1. CASE UNCHANGED vars
  BY <1>1, Elsewhere DEF vars, compVars, childVars
<1>2. ASSUME NEW b \in Broker, BrokerStep(b) PROVE BInv'
  BY <1>2, PrepareSteps, SpawnStep, EndSpawnStep, CollectStep, WaitTimeoutStep, ForkStep DEF BrokerStep
<1>3. ASSUME NEW b \in Broker, ChildStep(b) PROVE BInv'
  BY <1>3, GuardStep, CleanStep, GoneStep DEF ChildStep
<1>4. ASSUME NEW b \in Broker, Environment(b) PROVE BInv'
  BY <1>4, PrepareSteps, SignalStep, SpeakStep, DieStep DEF Environment
<1>5. QED BY <1>1, <1>2, <1>3, <1>4 DEF Next

LEMMA ExcusedIsEnough == BInv => NoneIsForgotten
<1> SUFFICES ASSUME BInv, NEW b \in Broker, Over(b), Forgotten(b) # {}
             PROVE  \/ end[b] = "timeout" /\ \A i \in Forgotten(b) : said[b][i] # "nothing"
                    \/ end[b] = "answers" /\ \E i \in Companions(b) : said[b][i] # "path"
                    \/ end[b] \in {"spawn", "raised"} /\ StoppedAtDead(b)
                    \/ end[b] \in {"fork", "report", "killed"}
  BY DEF NoneIsForgotten
<1>1. Excused(b)
  BY DEF BInv, BrokerInv
<1>2. QED BY <1>1 DEF Excused

\* For any number of brokers and companions, a companion survives the end of its
\* broker, or of the child that was to end it, only for one of the reasons that
\* NoneIsForgotten names (main.py:69-131, macos.py:37-43, utils.py:72-105).
THEOREM OnlyForAReason == Spec => []NoneIsForgotten
<1>1. Spec => []BInv
  BY BrokersInit, BrokersNext, PTL DEF Spec
<1>2. QED BY <1>1, ExcusedIsEnough, PTL

-----------------------------------------------------------------------------
(* What is reported: the answers of the companions, the simulator.         *)

LEMMA FirstOf ==
  ASSUME NEW places \in SUBSET Nat, places # {}
  PROVE  First(places) \in places
<1> DEFINE R == {ss \in Nat \X Nat : ss[1] < ss[2]}
<1>1. IsWellFoundedOn(R, Nat)
  BY NatLessThanWellFounded DEF OpToRel
<1>2. PICK n \in places : \A m \in places : <<m, n>> \notin R
  <2> HIDE DEF R
  <2>1. \E n \in places : \A m \in places : ~(<<m, n>> \in R)
    BY <1>1, WFMin
  <2>2. QED BY <2>1
<1>3. ASSUME NEW m \in places PROVE n <= m
  <2>1. ~(m < n)
    BY <1>2
  <2>2. QED BY <2>1
<1>4. QED BY <1>3 DEF First

LEMMA Extended ==
  ASSUME NEW S, NEW s \in Seq(S), NEW e \in S
  PROVE  /\ Append(s, e) \in Seq(S) /\ DOMAIN Append(s, e) = 1..(Len(s) + 1)
         /\ Len(s) + 1 \in DOMAIN Append(s, e)
         /\ \A u \in DOMAIN s : u \in DOMAIN Append(s, e) /\ Append(s, e)[u] = s[u]
OBVIOUS

\* The states of simulators: those of the code are strings like any others.
AnyState == STRING \cup {"Shutdown", "Booting", "Booted"}

LEMMA States == {"Shutdown", "Booting", "Booted"} \subseteq AnyState
BY DEF AnyState

\* A simulator that is booted stays so, and none goes away.
Grows ==
  /\ DOMAIN sims \subseteq DOMAIN sims'
  /\ \A u \in DOMAIN sims : sims[u] = "Booted" => sims'[u] = "Booted"

\* Whatever was listed is there, and what was booted then still is.
Listed(b) ==
  /\ DOMAIN listed[b] \subseteq Nat
  /\ pc[b] = "select" => 1 \in DOMAIN listed[b]
  /\ \A n \in DOMAIN listed[b] :
       LET u == listed[b][n].udid
       IN  u \in DOMAIN sims /\ (listed[b][n].state = "Booted" => sims[u] = "Booted")

\* A broker waits for the boot of the simulator it took, and for no other.
Boots(b) ==
  /\ booting[b] # 0 => booting[b] \in DOMAIN sims
  /\ pc[b] = "boot" => booting[b] # 0 /\ booting[b] = chosen[b]

Chosen == {"spawn", "spawned", "wait", "fork", "print", "reported"}
IsUp(b) ==
  Type(b) = "booted" /\ pc[b] \in Chosen =>
    chosen[b] # 0 /\ chosen[b] \in DOMAIN sims /\ sims[chosen[b]] = "Booted"

Heard(b) ==
  pc[b] = "fork" \/ (pc[b] \in {"print", "reported"} /\ request[b].companion) => AllAnswered(b)

GoodInv(b) == Listed(b) /\ Boots(b) /\ IsUp(b) /\ Heard(b)

SimTyped ==
  /\ sims \in Seq(AnyState) /\ DOMAIN pc = Broker
  /\ DOMAIN listed = Broker /\ DOMAIN chosen = Broker /\ DOMAIN booting = Broker

SInv == SimTyped /\ \A b \in Broker : GoodInv(b)

LEMMA GoodInit == Init => SInv
<1> SUFFICES ASSUME Init PROVE SInv
  OBVIOUS
<1>1. SimTyped
  <2>1. sims \in Seq(STRING)
    BY SimsAssumption DEF Init
  <2>2. sims \in Seq(AnyState)
    BY <2>1 DEF AnyState
  <2>3. QED BY <2>2 DEF Init, SimTyped
<1>2. ASSUME NEW b \in Broker PROVE GoodInv(b)
  BY DEF Init, GoodInv, Listed, Boots, IsUp, Heard, Chosen
<1>3. QED BY <1>1, <1>2 DEF SInv

\* A step of another broker changes the simulators at most.
Still(b) ==
  /\ pc'[b] = pc[b] /\ listed'[b] = listed[b] /\ chosen'[b] = chosen[b]
  /\ booting'[b] = booting[b] /\ said'[b] = said[b] /\ request' = request

LEMMA StillGood ==
  ASSUME NEW b \in Broker, GoodInv(b), Still(b), Grows
  PROVE  GoodInv(b)'
<1>1. Type(b)' = Type(b) /\ Companions(b)' = Companions(b)
  BY DEF Still, Type, Companions
<1>2. Listed(b)'
  BY DEF Still, Grows, GoodInv, Listed
<1>3. Boots(b)' /\ IsUp(b)'
  BY <1>1 DEF Still, Grows, GoodInv, Boots, IsUp
<1>4. Heard(b)'
  BY <1>1 DEF Still, GoodInv, Heard, AllAnswered
<1>5. QED BY <1>2, <1>3, <1>4 DEF GoodInv

LEMMA OneBroker ==
  ASSUME SInv, NEW a \in Broker, SimTyped', Grows, GoodInv(a)', \A b \in Broker \ {a} : Still(b)
  PROVE  SInv'
<1>1. ASSUME NEW b \in Broker PROVE GoodInv(b)'
  <2>1. CASE b = a  BY <2>1
  <2>2. CASE b # a  BY <2>2, StillGood DEF SInv
  <2>3. QED BY <2>1, <2>2
<1>2. QED BY <1>1 DEF SInv

\* The steps that only move the broker.
LEMMA MovesOn ==
  ASSUME BInv, SInv, NEW a \in Broker, UNCHANGED <<request, simVars, listed, chosen, said>>,
         NEW l, Moves(a, l), l \notin {"select", "boot"},
         l \in Chosen => pc[a] \in Chosen \/ Type(a) # "booted",
         l \in {"fork", "print", "reported"} => AllAnswered(a) \/ (l # "fork" /\ ~request[a].companion)
  PROVE  SInv'
<1>1. SimTyped' /\ Grows
  BY DEF SInv, SimTyped, Moves, Grows, simVars
<1>2. \A b \in Broker \ {a} : Still(b)
  BY DEF SInv, SimTyped, Still, Moves, simVars
<1>3. pc'[a] = l /\ GoodInv(a)
  BY DEF SInv, SimTyped, Moves
<1>4. Type(a)' = Type(a) /\ Companions(a)' = Companions(a)
  BY DEF Type, Companions
<1>5. Listed(a)' /\ Boots(a)'
  BY <1>3 DEF GoodInv, Listed, Boots, simVars
<1>6. IsUp(a)'
  BY <1>3, <1>4 DEF GoodInv, IsUp, simVars
<1>7. Heard(a)'
  BY <1>3, <1>4 DEF Heard, AllAnswered
<1>8. QED BY <1>1, <1>2, <1>3, <1>5, <1>6, <1>7, OneBroker DEF GoodInv

\* The steps that change nothing of this.
LEMMA GoodElsewhere ==
  ASSUME SInv, UNCHANGED <<request, pc, simVars, listed, chosen, said>>
  PROVE  SInv'
<1>1. SimTyped' /\ Grows
  BY DEF SInv, SimTyped, Grows, simVars
<1>2. \A b \in Broker : Still(b)
  BY DEF Still, simVars
<1>3. QED BY <1>1, <1>2, StillGood DEF SInv

LEMMA MovingSteps ==
  ASSUME BInv, SInv, NEW b \in Broker,
         \/ Start(b) \/ CommandFails(b) \/ ListRuntimes(b) \/ BootTimeout(b) \/ Spawn(b)
         \/ EndSpawn(b) \/ Collect(b) \/ WaitTimeout(b) \/ Fork(b) \/ Report(b)
  PROVE  SInv'
<1>1. ASSUME UNCHANGED <<request, simVars, listed, chosen, said>>,
             \/ \E l \in {"failed", "list", "create"} : Moves(b, l)
             \/ Moves(b, "spawn") /\ Type(b) = "macos"
             \/ pc[b] \in Chosen /\ \E l \in {"spawned", "wait"} : Moves(b, l)
             \/ pc[b] = "wait" /\ Moves(b, "fork") /\ AllAnswered(b)
             \/ pc[b] = "fork" /\ Moves(b, "print")
             \/ pc[b] = "print" /\ Moves(b, "reported")
      PROVE  SInv'
  <2>1. CASE \E l \in {"failed", "list", "create"} : Moves(b, l)
    BY <1>1, <2>1, MovesOn DEF Chosen
  <2>2. CASE Moves(b, "spawn") /\ Type(b) = "macos"
    BY <1>1, <2>2, MovesOn DEF Chosen
  <2>3. CASE pc[b] \in Chosen /\ \E l \in {"spawned", "wait"} : Moves(b, l)
    BY <1>1, <2>3, MovesOn DEF Chosen
  <2>4. CASE pc[b] = "wait" /\ Moves(b, "fork") /\ AllAnswered(b)
    BY <1>1, <2>4, MovesOn DEF Chosen
  <2>5. CASE pc[b] = "fork" /\ Moves(b, "print")
    <3>1. AllAnswered(b)
      BY <2>5 DEF SInv, GoodInv, Heard
    <3>2. QED BY <1>1, <2>5, <3>1, MovesOn DEF Chosen
  <2>6. CASE pc[b] = "print" /\ Moves(b, "reported")
    <3>1. AllAnswered(b) \/ ~request[b].companion
      BY <2>6 DEF SInv, GoodInv, Heard
    <3>2. QED BY <1>1, <2>6, <3>1, MovesOn DEF Chosen
  <2>7. QED BY <1>1, <2>1, <2>2, <2>3, <2>4, <2>5, <2>6
<1> USE DEF Goto, Fail, Moves, Chosen, compVars
<1>2. CASE Start(b)         BY <1>1, <1>2 DEF Start
<1>3. CASE CommandFails(b)  BY <1>1, <1>3 DEF CommandFails
<1>4. CASE ListRuntimes(b)  BY <1>1, <1>4 DEF ListRuntimes
<1>5. CASE BootTimeout(b)   BY <1>1, <1>5 DEF BootTimeout
<1>6. CASE Spawn(b)         BY <1>1, <1>6 DEF Spawn
<1>7. CASE EndSpawn(b)      BY <1>1, <1>7 DEF EndSpawn
<1>8. CASE Collect(b)       BY <1>1, <1>8 DEF Collect
<1>9. CASE WaitTimeout(b)   BY <1>1, <1>9 DEF WaitTimeout
<1>10. CASE Fork(b)         BY <1>1, <1>10 DEF Fork
<1>11. CASE Report(b)       BY <1>1, <1>11 DEF Report
<1>12. QED BY <1>2, <1>3, <1>4, <1>5, <1>6, <1>7, <1>8, <1>9, <1>10, <1>11

LEMMA QuietSteps ==
  ASSUME SInv, NEW b \in Broker,
         ChildStep(b) \/ Signal(b) \/ (\E i \in Companions(b) : Die(b, i))
  PROVE  SInv'
BY GoodElsewhere DEF ChildStep, Guard, Clean, CleanRaises, CleanEnds, ChildGone, Signal, Die, compVars

\* A companion that answered does not speak again.
LEMMA SpeakGood ==
  ASSUME BInv, SInv, NEW b \in Broker, NEW k \in Companions(b), Speak(b, k)
  PROVE  SInv'
<1>1. said[b][k] = "nothing" /\ UNCHANGED <<request, pc, simVars, listed, chosen>>
  BY DEF Speak
<1>2. PICK what : said' = [said EXCEPT ![b][k] = what]
  BY DEF Speak
<1>3. SimTyped' /\ Grows
  BY <1>1 DEF SInv, SimTyped, Grows, simVars
<1>4. \A c \in Broker \ {b} : Still(c)
  BY <1>1, <1>2 DEF Still, simVars, BInv, Typed
<1>5. ~AllAnswered(b)
  BY <1>1 DEF AllAnswered
<1>6. GoodInv(b)'
  BY <1>1, <1>5 DEF SInv, GoodInv, Listed, Boots, IsUp, Heard, simVars, Type
<1>7. QED BY <1>3, <1>4, <1>6, OneBroker

-----------------------------------------------------------------------------
\* Listing and making simulators.
LEMMA ListGood == ASSUME BInv, SInv, NEW b \in Broker, List(b) PROVE SInv'
<1>1. CASE ~Decodes
  BY <1>1, MovesOn DEF List, Fail, Goto, Moves, Chosen, compVars
<1>2. CASE Decodes
  <2>1. PICK l \in {"runtimes", "select"} :
          pc' = [pc EXCEPT ![b] = l] /\ (l = "select" => sims # <<>>)
    BY <1>2 DEF List, Goto
  <2>2. listed' = [listed EXCEPT ![b] = Targets] /\ UNCHANGED <<request, simVars, chosen, said>>
    BY <1>2 DEF List, compVars
  <2>3. SimTyped' /\ Grows /\ \A c \in Broker \ {b} : Still(c)
    BY <2>1, <2>2 DEF SInv, SimTyped, Grows, Still, simVars
  <2>4. pc'[b] = l /\ listed'[b] = Targets /\ GoodInv(b)
    BY <2>1, <2>2 DEF SInv, SimTyped
  <2>5. /\ DOMAIN Targets = DOMAIN sims
        /\ \A n \in DOMAIN sims : Targets[n].udid = n /\ Targets[n].state = sims[n]
    BY DEF Targets
  <2>6. DOMAIN sims \subseteq Nat /\ (sims # <<>> => 1 \in DOMAIN sims)
    BY DEF SInv, SimTyped
  <2>7. Listed(b)'
    BY <2>1, <2>2, <2>4, <2>5, <2>6 DEF Listed, simVars
  <2>8. Boots(b)' /\ IsUp(b)' /\ Heard(b)'
    BY <2>2, <2>4 DEF GoodInv, Boots, IsUp, Heard, Chosen, simVars
  <2>9. QED BY <2>3, <2>7, <2>8, OneBroker DEF GoodInv
<1>3. QED BY <1>1, <1>2

LEMMA CreateGood == ASSUME BInv, SInv, NEW b \in Broker, Create(b) PROVE SInv'
<1> DEFINE new == Len(sims) + 1
           entry == [udid |-> new, state |-> "Shutdown"]
<1>1. sims' = Append(sims, "Shutdown") /\ UNCHANGED <<request, booting, chosen, said>>
  BY DEF Create, compVars
<1>2. /\ sims' \in Seq(AnyState) /\ DOMAIN sims' = 1..new /\ new \in DOMAIN sims'
      /\ \A u \in DOMAIN sims : u \in DOMAIN sims' /\ sims'[u] = sims[u]
  <2>1. sims \in Seq(AnyState) /\ "Shutdown" \in AnyState
    BY States DEF SInv, SimTyped
  <2>2. QED BY <1>1, <2>1, Extended
<1>3. Grows
  BY <1>2 DEF Grows
<1>4. GoodInv(b)
  BY DEF SInv
<1>5. CASE listed' = [listed EXCEPT ![b] = <<entry>>] /\ pc' = [pc EXCEPT ![b] = "select"]
  <2>1. SimTyped' /\ \A c \in Broker \ {b} : Still(c)
    BY <1>1, <1>2, <1>5 DEF SInv, SimTyped, Still
  <2>2. pc'[b] = "select" /\ listed'[b] = <<entry>>
    BY <1>5 DEF SInv, SimTyped
  <2>3. Listed(b)'
    <3>1. DOMAIN <<entry>> = {1} /\ <<entry>>[1].udid = new /\ <<entry>>[1].state = "Shutdown"
      OBVIOUS
    <3>2. QED BY <1>2, <2>2, <3>1 DEF Listed
  <2>4. Boots(b)' /\ IsUp(b)' /\ Heard(b)'
    BY <1>1, <1>2, <1>4, <2>2 DEF GoodInv, Boots, IsUp, Heard, Chosen
  <2>5. QED BY <1>3, <2>1, <2>3, <2>4, OneBroker DEF GoodInv
<1>6. CASE listed' = listed /\ pc' = [pc EXCEPT ![b] = "failed"]
  <2>1. SimTyped' /\ \A c \in Broker \ {b} : Still(c)
    BY <1>1, <1>2, <1>6 DEF SInv, SimTyped, Still
  <2>2. pc'[b] = "failed"
    BY <1>6 DEF SInv, SimTyped
  <2>3. Listed(b)' /\ Boots(b)' /\ IsUp(b)' /\ Heard(b)'
    BY <1>1, <1>2, <1>4, <1>6, <2>2 DEF GoodInv, Listed, Boots, IsUp, Heard, Chosen
  <2>4. QED BY <1>3, <2>1, <2>3, OneBroker DEF GoodInv
<1>7. QED BY <1>5, <1>6 DEF Create, Goto, Fail

\* What is selected was listed; if it need not be booted it is as was asked for.
LEMMA SelectGood == ASSUME BInv, SInv, NEW b \in Broker, Select(b) PROVE SInv'
<1> DEFINE s == Selected(b)
<1>1. /\ pc[b] = "select" /\ chosen' = [chosen EXCEPT ![b] = s.udid]
      /\ booting' = [booting EXCEPT ![b] = IF NeedsBoot(b) THEN s.udid ELSE 0]
      /\ pc' = [pc EXCEPT ![b] = IF NeedsBoot(b) THEN "boot" ELSE Prepared(b)]
      /\ UNCHANGED <<request, sims, listed, said>>
  BY DEF Select, Goto, compVars
<1>2. GoodInv(b) /\ 1 \in DOMAIN listed[b] /\ DOMAIN listed[b] \subseteq Nat
  BY <1>1 DEF SInv, GoodInv, Listed
<1>3. PICK n \in DOMAIN listed[b] : s = listed[b][n]
  <2> DEFINE booted == {n \in DOMAIN listed[b] : listed[b][n].state = "Booted"}
  <2>1. booted # {} => First(booted) \in DOMAIN listed[b]
    <3>1. booted \in SUBSET Nat
      BY <1>2
    <3>2. QED BY <3>1, FirstOf
  <2>2. QED BY <1>2, <2>1 DEF Selected
<1>4. s.udid \in DOMAIN sims /\ (s.state = "Booted" => sims[s.udid] = "Booted")
  BY <1>2, <1>3 DEF GoodInv, Listed
<1>5. s.udid # 0
  BY <1>4 DEF SInv, SimTyped
<1>6. SimTyped' /\ Grows /\ \A c \in Broker \ {b} : Still(c)
  BY <1>1 DEF SInv, SimTyped, Grows, Still
<1>7. Listed(b)'
  <2>1. pc'[b] # "select"
    BY <1>1 DEF SInv, SimTyped, Prepared
  <2>2. QED BY <1>1, <1>2, <2>1 DEF GoodInv, Listed
<1>8. Boots(b)' /\ IsUp(b)' /\ Heard(b)'
  <2>1. chosen'[b] = s.udid /\ Type(b)' = Type(b)
    BY <1>1 DEF SInv, SimTyped, Type
  <2>2. CASE NeedsBoot(b)
    <3>1. pc'[b] = "boot" /\ booting'[b] = s.udid
      BY <1>1, <2>2 DEF SInv, SimTyped
    <3>2. QED BY <1>1, <1>4, <1>5, <2>1, <3>1 DEF Boots, IsUp, Heard, Chosen
  <2>3. CASE ~NeedsBoot(b)
    <3>1. pc'[b] = Prepared(b) /\ booting'[b] = 0
      BY <1>1, <2>3 DEF SInv, SimTyped
    <3>2. Type(b) = "booted" => sims[s.udid] = "Booted"
      BY <1>4, <2>3 DEF NeedsBoot
    <3>3. QED BY <1>1, <1>4, <1>5, <2>1, <3>1, <3>2 DEF Boots, IsUp, Heard, Chosen, Prepared
  <2>4. QED BY <2>2, <2>3
<1>9. QED BY <1>6, <1>7, <1>8, OneBroker DEF GoodInv

-----------------------------------------------------------------------------
\* The boot command, on time or not.
LEMMA BootGood ==
  ASSUME BInv, SInv, NEW b \in Broker, BootBegins(b) \/ BootEnds(b) \/ BootFails(b)
  PROVE  SInv'
<1> DEFINE u == booting[b]
<1>1. /\ u # 0 /\ u \in DOMAIN sims /\ GoodInv(b) /\ UNCHANGED <<request, listed, chosen, said>>
  BY DEF BootBegins, BootEnds, BootFails, compVars, SInv, GoodInv, Boots
<1>2. PICK s \in AnyState :
        /\ sims' = [sims EXCEPT ![u] = s]
        /\ s = "Booted" \/ sims[u] # "Booted"
        /\ BootEnds(b) => s = "Booted"
  <2>1. CASE BootBegins(b) /\ ~BootEnds(b)
    <3>1. sims' = [sims EXCEPT ![u] = "Booting"] /\ sims[u] # "Booted"
      BY <2>1 DEF BootBegins
    <3>2. QED BY <2>1, <3>1, States
  <2>2. CASE BootEnds(b)
    <3>1. sims' = [sims EXCEPT ![u] = "Booted"]
      BY <2>2 DEF BootEnds
    <3>2. QED BY <3>1, States
  <2>3. CASE BootFails(b) /\ ~BootEnds(b)
    <3>1. CASE sims' = sims
      <4>1. sims[u] \in AnyState /\ sims = [sims EXCEPT ![u] = sims[u]]
        BY <1>1 DEF SInv, SimTyped
      <4>2. QED BY <2>3, <3>1, <4>1
    <3>2. CASE sims[u] = "Booting" /\ sims' = [sims EXCEPT ![u] = "Shutdown"]
      BY <2>3, <3>2, States
    <3>3. QED BY <2>3, <3>1, <3>2 DEF BootFails
  <2>4. QED BY <2>1, <2>2, <2>3
<1>3. sims' \in Seq(AnyState) /\ DOMAIN sims' = DOMAIN sims /\ Grows /\ sims'[u] = s
  BY <1>1, <1>2 DEF SInv, SimTyped, Grows
<1>4. PICK l : /\ DOMAIN pc' = Broker /\ pc'[b] = l /\ \A c \in Broker \ {b} : pc'[c] = pc[c]
               /\ \/ l = pc[b] /\ (l # "boot" \/ booting' = booting)
                  \/ pc[b] = "boot" /\ l = "failed"
                  \/ pc[b] = "boot" /\ l = Prepared(b) /\ BootEnds(b)
  <2>1. CASE pc' = pc /\ (pc[b] # "boot" \/ booting' = booting)
    BY <2>1 DEF BInv, Typed
  <2>2. CASE BootEnds(b) /\ pc[b] = "boot"
    BY <2>2 DEF BootEnds, Goto, BInv, Typed
  <2>3. CASE BootFails(b) /\ pc[b] = "boot"
    BY <2>3 DEF BootFails, Fail, Goto, BInv, Typed
  <2>4. QED BY <2>1, <2>2, <2>3 DEF BootBegins, BootEnds, BootFails
<1>5. booting' = booting \/ booting' = [booting EXCEPT ![b] = 0]
  BY DEF BootBegins, BootEnds, BootFails
<1>6. SimTyped' /\ \A c \in Broker \ {b} : Still(c)
  BY <1>1, <1>3, <1>4, <1>5 DEF SInv, SimTyped, Still
<1>7. pc'[b] = l /\ booting'[b] \in {u, 0} /\ Type(b)' = Type(b) /\ Companions(b)' = Companions(b)
  BY <1>1, <1>4, <1>5 DEF SInv, SimTyped, Type, Companions
<1>8. l = "select" => pc[b] = "select"
  BY <1>4 DEF Prepared
<1>9. Listed(b)'
  BY <1>1, <1>3, <1>7, <1>8 DEF GoodInv, Listed, Grows
<1>10. Boots(b)'
  <2>1. l = "boot" => pc[b] = "boot" /\ booting' = booting
    BY <1>4 DEF Prepared
  <2>2. QED BY <1>1, <1>3, <1>7, <2>1 DEF GoodInv, Boots
<1>11. IsUp(b)'
  <2>1. CASE l = pc[b]
    BY <1>1, <1>3, <1>7, <2>1 DEF GoodInv, IsUp, Grows
  <2>2. CASE pc[b] = "boot" /\ BootEnds(b)
    <3>1. u = chosen[b] /\ s = "Booted"
      BY <1>1, <1>2, <2>2 DEF GoodInv, Boots
    <3>2. QED BY <1>1, <1>3, <3>1 DEF IsUp
  <2>3. CASE l = "failed"
    BY <1>7, <2>3 DEF IsUp, Chosen
  <2>4. QED BY <1>4, <2>1, <2>2, <2>3
<1>12. Heard(b)'
  BY <1>1, <1>4, <1>7 DEF GoodInv, Heard, AllAnswered, Prepared
<1>13. QED BY <1>3, <1>6, <1>9, <1>10, <1>11, <1>12, OneBroker DEF GoodInv

LEMMA GoodNext == BInv /\ SInv /\ [Next]_vars => SInv'
<1> SUFFICES ASSUME BInv, SInv, [Next]_vars PROVE SInv'
  OBVIOUS
<1>1. CASE UNCHANGED vars
  BY <1>1, GoodElsewhere DEF vars, compVars
<1>2. ASSUME NEW b \in Broker, BrokerStep(b) PROVE SInv'
  BY <1>2, MovingSteps, ListGood, CreateGood, SelectGood DEF BrokerStep
<1>3. ASSUME NEW b \in Broker, ChildStep(b) PROVE SInv'
  BY <1>3, QuietSteps
<1>4. ASSUME NEW b \in Broker, Environment(b) PROVE SInv'
  BY <1>4, BootGood, QuietSteps, SpeakGood DEF Environment
<1>5. QED BY <1>1, <1>2, <1>3, <1>4 DEF Next

\* However many brokers list, make and boot the simulators of one device set at
\* once, what a broker reports can be used: each companion of it answered, and a
\* simulator that was asked for booted is (ios.py:158-202, main.py:127).
THEOREM ReportsAreGood == Spec => []ReportIsGood
<1>1. BInv /\ SInv /\ [Next]_vars => (BInv /\ SInv)'
  BY BrokersNext, GoodNext
<1>2. SInv => ReportIsGood
  BY DEF SInv, GoodInv, IsUp, Heard, Chosen, AllAnswered, ReportIsGood
<1>3. QED BY <1>1, <1>2, BrokersInit, GoodInit, PTL DEF Spec
=============================================================================

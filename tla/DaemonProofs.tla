----------------------------- MODULE DaemonProofs -----------------------------
(***************************************************************************)
(* The test daemon. DaemonCore, for every set of levels and every set of   *)
(* calls, of any length and any depth of groups: a test of the shell gets  *)
(* the configuration of a fresh setup. The stack of configurations carries *)
(* the argument: each of them is what a fresh setup has at that depth, so  *)
(* whatever is popped or restored, the next setup goes on from the right   *)
(* one. DaemonShell, for every number of nodes, every sequence of versions *)
(* of the code and all ids: the shell has one node at most, two suites do  *)
(* not meet in it, and an id is the test that list() printed with it. Each *)
(* rests on an invariant over a few of the variables, which most actions   *)
(* leave alone.                                                            *)
(***************************************************************************)
EXTENDS DaemonCore, DaemonShell, TLAPS

-----------------------------------------------------------------------------
(* Prefixes of sequences. *)

LEMMA PrefixType ==
  ASSUME NEW S, NEW s \in Seq(S), NEW n \in 0..Len(s)
  PROVE  /\ Prefix(s, n) \in Seq(S) /\ Len(Prefix(s, n)) = n
         /\ \A i \in 1..n : Prefix(s, n)[i] = s[i]
BY DEF Prefix

LEMMA PrefixOfPrefix ==
  ASSUME NEW S, NEW s \in Seq(S), NEW m \in 0..Len(s), NEW n \in 0..m
  PROVE  Prefix(Prefix(s, m), n) = Prefix(s, n)
BY DEF Prefix

LEMMA WholePrefix ==
  ASSUME NEW S, NEW s \in Seq(S)
  PROVE  Prefix(s, Len(s)) = s /\ Prefix(s, 0) = <<>>
BY DEF Prefix

LEMMA PrefixOfAppend ==
  ASSUME NEW S, NEW s \in Seq(S), NEW e \in S
  PROVE  /\ Append(s, e) \in Seq(S) /\ Len(Append(s, e)) = Len(s) + 1
         /\ Append(s, e)[Len(s) + 1] = e
         /\ \A n \in 1..Len(s) : Append(s, e)[n] = s[n] /\ Prefix(Append(s, e), n) = Prefix(s, n)
         /\ Prefix(Append(s, e), Len(s) + 1) = Append(s, e)
BY DEF Prefix

LEMMA PrefixGrows ==
  ASSUME NEW S, NEW s \in Seq(S), NEW n \in 0..(Len(s) - 1)
  PROVE  Append(Prefix(s, n), s[n + 1]) = Prefix(s, n + 1)
BY DEF Prefix

-----------------------------------------------------------------------------
ConfigType == [dirs : Level, by : Seq(Level)]
SetupType == [is : {"kept"}, path : Seq(Level), configs : Seq(ConfigType), config : ConfigType]

\* A setup with a configuration for each of its levels, whatever it is.
Stack(s) == s \in SetupType /\ Len(s.configs) = Len(s.path)

\* A setup in which each level has the configuration of a fresh setup.
FreshStack(s) ==
  /\ \A n \in 1..Len(s.path) : s.configs[n] = Fresh(s.path, n)
  /\ s.path = <<>> => s.config.by = <<>>

OneSuite == queue \in Seq(Path) /\ \A m, n \in DOMAIN queue : queue[m][1] = queue[n][1]

InTest ==
  /\ pc \in {"teardown", "init", "test"} => queue # <<>> /\ setup # Undefined
  /\ pc = "init" => Shares(setup.path, Want)
  /\ pc = "test" => setup.path = Want

SetupInv ==
  /\ setup = Undefined \/ Stack(setup)
  /\ saved = Undefined \/ Stack(saved)
  /\ OneSuite /\ InTest

\* The setup belongs to the suite of the call, or has only its directories.
OfSuite ==
  setup # Undefined /\ pc # "idle" /\ queue # <<>> =>
    IF setup.path = <<>> THEN setup.config = Config(Want[1], <<>>)
                         ELSE setup.path[1] = Want[1]

\* What holds besides as long as no call went on from another suite.
FreshInv ==
  /\ setup = Undefined \/ FreshStack(setup)
  /\ saved = Undefined \/ FreshStack(saved)
  /\ OfSuite
  /\ pc \in {"init", "test"} => setup.config = Config(Want[1], setup.path)

LEMMA StackFields ==
  ASSUME NEW s, Stack(s)
  PROVE  /\ s.path \in Seq(Level) /\ s.configs \in Seq(ConfigType) /\ s.is = "kept"
         /\ s.config \in ConfigType /\ Len(s.path) \in Nat /\ Len(s.configs) = Len(s.path)
BY DEF Stack, SetupType

LEMMA KeptIs ==
  ASSUME NEW s, s = Undefined \/ Stack(s)
  PROVE  Kept(s) <=> s # Undefined
<1>1. CASE s = Undefined
  BY <1>1 DEF Undefined, Kept
<1>2. CASE Stack(s)
  BY <1>2 DEF Stack, SetupType, Undefined, Kept
<1>3. QED BY <1>1, <1>2

LEMMA WantType ==
  ASSUME OneSuite, queue # <<>>
  PROVE  /\ Want \in Seq(Level) /\ Want # <<>> /\ Want[1] \in Level /\ Len(Want) \in Nat \ {0}
         /\ Want = queue[1]
<1>1. Want \in Path /\ Want = queue[1]
  BY DEF OneSuite, Want
<1>2. QED BY <1>1 DEF Path

\* Whatever comes next in the queue is of the same suite.
LEMMA NextWanted ==
  ASSUME OneSuite, queue # <<>>, queue' = Tail(queue)
  PROVE  OneSuite' /\ (queue' # <<>> => Want'[1] = Want[1])
<1>1. queue' \in Seq(Path) /\ Len(queue') = Len(queue) - 1
  BY DEF OneSuite
<1>2. \A n \in DOMAIN queue' : n \in DOMAIN queue /\ n + 1 \in DOMAIN queue /\ queue'[n] = queue[n + 1]
  BY DEF OneSuite
<1>3. OneSuite'
  BY <1>1, <1>2 DEF OneSuite
<1>4. ASSUME queue' # <<>> PROVE Want'[1] = Want[1]
  <2>1. 1 \in DOMAIN queue' /\ 1 \in DOMAIN queue /\ 2 \in DOMAIN queue /\ queue'[1] = queue[2]
    BY <1>1, <1>2, <1>4 DEF OneSuite
  <2>2. Want' = queue[2] /\ Want = queue[1]
    BY <1>1, <1>4, <2>1 DEF Want, OneSuite
  <2>3. QED BY <2>1, <2>2 DEF OneSuite
<1>5. QED BY <1>3, <1>4

\* do_init adds a level with its configuration.
LEMMA PushStacks ==
  ASSUME NEW s, Stack(s), NEW l \in Level
  PROVE  Stack(Pushed(s, l)) /\ Pushed(s, l).path = Append(s.path, l)
<1> DEFINE c == Config(s.config.dirs, Append(s.config.by, l))
<1>1. /\ s.path \in Seq(Level) /\ s.configs \in Seq(ConfigType)
      /\ s.config \in ConfigType /\ Len(s.path) \in Nat /\ Len(s.configs) = Len(s.path)
  BY StackFields
<1>2. c \in ConfigType
  BY <1>1 DEF ConfigType, Config
<1>3. Pushed(s, l) = [is |-> "kept", path |-> Append(s.path, l),
                      configs |-> Append(s.configs, c), config |-> c]
  BY DEF Pushed, Setup
<1>4. Append(s.configs, c) \in Seq(ConfigType) /\ Append(s.path, l) \in Seq(Level)
  BY <1>1, <1>2
<1>5. Len(Append(s.configs, c)) = Len(Append(s.path, l))
  BY <1>1, <1>2
<1>6. Pushed(s, l) \in SetupType
  BY <1>2, <1>3, <1>4 DEF SetupType
<1>7. QED BY <1>3, <1>5, <1>6 DEF Stack

LEMMA PushFresh ==
  ASSUME NEW s, Stack(s), FreshStack(s), NEW want \in Seq(Level), want # <<>>,
         NEW l \in Level, s.config = Config(want[1], s.path),
         s.path # <<>> => s.path[1] = want[1], s.path = <<>> => l = want[1]
  PROVE  /\ FreshStack(Pushed(s, l))
         /\ Pushed(s, l).config = Config(want[1], Append(s.path, l))
<1> DEFINE c == Config(want[1], Append(s.path, l))
           p == Append(s.path, l)
<1>1. /\ s.path \in Seq(Level) /\ s.configs \in Seq(ConfigType)
      /\ Len(s.path) \in Nat /\ Len(s.configs) = Len(s.path)
  BY StackFields
<1>2. Config(s.config.dirs, Append(s.config.by, l)) = c
  BY DEF Config
<1>3. Pushed(s, l) = [is |-> "kept", path |-> p, configs |-> Append(s.configs, c), config |-> c]
  BY <1>2 DEF Pushed, Setup
<1>4. p \in Seq(Level) /\ want[1] \in Level /\ Len(p) = Len(s.path) + 1
  BY <1>1
<1>5. c \in ConfigType
  BY <1>4 DEF ConfigType, Config
<1>6. p[1] = want[1] /\ p # <<>>
  BY <1>1
<1>7. ASSUME NEW n \in 1..Len(p) PROVE Append(s.configs, c)[n] = Fresh(p, n)
  <2>1. CASE n \in 1..Len(s.path)
    <3>1. Append(s.configs, c)[n] = Fresh(s.path, n)
      BY <1>1, <1>5, <2>1 DEF FreshStack
    <3>2. Prefix(p, n) = Prefix(s.path, n)
      BY <1>1, <2>1, PrefixOfAppend
    <3>3. s.path[1] = p[1]
      BY <1>1, <2>1
    <3>4. QED BY <3>1, <3>2, <3>3 DEF Fresh
  <2>2. CASE n = Len(s.path) + 1
    <3>1. Append(s.configs, c)[n] = c
      BY <1>1, <1>5, <2>2
    <3>2. Prefix(p, n) = p
      BY <1>1, <2>2, PrefixOfAppend
    <3>3. QED BY <3>1, <3>2, <1>6 DEF Fresh
  <2>3. QED BY <1>1, <1>4, <2>1, <2>2
<1>8. Pushed(s, l).path = p /\ Pushed(s, l).configs = Append(s.configs, c) /\ Pushed(s, l).config = c
  BY <1>3
<1> HIDE DEF c, p
<1>9. FreshStack(Pushed(s, l))
  BY <1>6, <1>7, <1>8 DEF FreshStack
<1>10. QED BY <1>8, <1>9 DEF c, p

\* do_teardown_until takes the innermost level away with its configuration.
LEMMA PopStacks ==
  ASSUME NEW s, Stack(s), s.path # <<>>
  PROVE  /\ Stack(Popped(s)) /\ Len(Popped(s).path) = Len(s.path) - 1
         /\ \A n \in 1..(Len(s.path) - 1) :
              /\ Popped(s).path[n] = s.path[n] /\ Popped(s).configs[n] = s.configs[n]
              /\ Prefix(Popped(s).path, n) = Prefix(s.path, n)
<1> DEFINE k == Len(s.path) - 1
<1>1. /\ s.path \in Seq(Level) /\ s.configs \in Seq(ConfigType) /\ s.is = "kept"
      /\ Len(s.path) \in Nat /\ Len(s.configs) = Len(s.path) /\ s.config \in ConfigType
  BY StackFields
<1>2. Len(s.path) \in 1..Len(s.path) /\ k \in 0..Len(s.path) /\ k \in 0..Len(s.configs)
  BY <1>1
<1>3. s.configs[Len(s.path)] \in ConfigType
  BY <1>1, <1>2
<1>4. Popped(s) = [is |-> "kept", path |-> Prefix(s.path, k), configs |-> Prefix(s.configs, k),
                   config |-> s.configs[Len(s.path)]]
  BY DEF Popped, Setup
<1>5. /\ Prefix(s.path, k) \in Seq(Level) /\ Len(Prefix(s.path, k)) = k
      /\ \A n \in 1..k : Prefix(s.path, k)[n] = s.path[n]
  BY <1>1, <1>2, PrefixType
<1>6. /\ Prefix(s.configs, k) \in Seq(ConfigType) /\ Len(Prefix(s.configs, k)) = k
      /\ \A n \in 1..k : Prefix(s.configs, k)[n] = s.configs[n]
  BY <1>1, <1>2, PrefixType
<1>7. \A n \in 1..k : Prefix(Prefix(s.path, k), n) = Prefix(s.path, n)
  BY <1>1, <1>2, PrefixOfPrefix
<1>8. Popped(s) \in SetupType
  BY <1>3, <1>4, <1>5, <1>6 DEF SetupType
<1>9. QED BY <1>4, <1>5, <1>6, <1>7, <1>8 DEF Stack

LEMMA PopFresh ==
  ASSUME NEW s, Stack(s), FreshStack(s), Len(s.path) > 1
  PROVE  /\ FreshStack(Popped(s))
         /\ Popped(s).path # <<>> /\ Popped(s).path[1] = s.path[1]
<1>1. Len(s.path) \in Nat /\ s.path # <<>>
  BY StackFields
<1>2. Stack(Popped(s)) /\ Len(Popped(s).path) = Len(s.path) - 1 /\ 1 \in 1..(Len(s.path) - 1)
  BY <1>1, PopStacks
<1>3. Popped(s).path # <<>>
  BY <1>2, StackFields
<1>4. Popped(s).path[1] = s.path[1]
  BY <1>1, <1>2, PopStacks
<1>5. ASSUME NEW n \in 1..Len(Popped(s).path) PROVE Popped(s).configs[n] = Fresh(Popped(s).path, n)
  <2>1. n \in 1..(Len(s.path) - 1) /\ n \in 1..Len(s.path)
    BY <1>1, <1>2
  <2>2. Popped(s).configs[n] = s.configs[n] /\ Prefix(Popped(s).path, n) = Prefix(s.path, n)
    BY <1>1, <2>1, PopStacks
  <2>3. QED BY <1>4, <2>1, <2>2 DEF FreshStack, Fresh
<1>6. QED BY <1>3, <1>4, <1>5 DEF FreshStack

\* What is not shared has levels to end, and more than the suite if the suite is shared.
LEMMA NotShared ==
  ASSUME NEW path \in Seq(Level), NEW want \in Seq(Level), want # <<>>, ~Shares(path, want)
  PROVE  path # <<>> /\ (path[1] = want[1] => Len(path) > 1)
<1>0. Len(path) \in Nat /\ Len(want) \in Nat /\ Len(want) # 0
  OBVIOUS
<1>1. ASSUME Len(path) = 0 PROVE FALSE
  <2>1. path = <<>> /\ Prefix(want, 0) = <<>>
    BY <1>1, WholePrefix
  <2>2. QED BY <1>0, <1>1, <2>1 DEF Shares
<1>2. ASSUME path[1] = want[1], Len(path) = 1 PROVE FALSE
  <2>1. 1 \in 0..Len(want) /\ 1 \in 1..1
    BY <1>0
  <2>2. Prefix(want, 1) \in Seq(Level) /\ Len(Prefix(want, 1)) = 1
    BY <2>1, PrefixType
  <2>3. Prefix(want, 1)[1] = path[1]
    BY <1>2, <2>1, PrefixType
  <2>4. Prefix(want, 1) = path
    BY <1>2, <2>2, <2>3
  <2>5. QED BY <1>0, <1>2, <2>4 DEF Shares
<1>3. \A k \in Nat : k = 0 \/ k = 1 \/ k > 1
  OBVIOUS
<1>4. path # <<>>
  BY <1>1
<1>5. QED BY <1>0, <1>1, <1>2, <1>3, <1>4

-----------------------------------------------------------------------------
(* Every step keeps the stack, and a fresh one fresh, but for a call that  *)
(* goes on from another suite.                                             *)

LEMMA SetupInit == Init => SetupInv /\ FreshInv
<1> SUFFICES ASSUME Init PROVE SetupInv /\ FreshInv
  OBVIOUS
<1>1. OneSuite
  BY DEF Init, OneSuite
<1>2. setup = Undefined /\ saved = Undefined /\ pc = "idle"
  BY DEF Init
<1>3. InTest /\ OfSuite
  BY <1>2 DEF OfSuite, InTest
<1>4. QED BY <1>1, <1>2, <1>3 DEF SetupInv, FreshInv

\* What the steps below may use of the state before them.
LEMMA SetupFacts ==
  ASSUME SetupInv
  PROVE  /\ Kept(setup) <=> setup # Undefined
         /\ setup # Undefined => /\ Stack(setup) /\ setup.path \in Seq(Level) /\ Len(setup.path) \in Nat
                                 /\ FreshInv => FreshStack(setup)
BY KeptIs, StackFields DEF SetupInv, FreshInv

LEMMA CallStep ==
  ASSUME SetupInv, NEW q \in Calls, Call(q)
  PROVE  SetupInv' /\ (FreshInv /\ ~Foreign(q[1][1]) => FreshInv')
<1>1. OneSuite'
  BY CallsAssumption DEF Call, OneSuite
<1>2. q # <<>> /\ queue' = q /\ setup' = setup /\ saved' = setup /\ pc' = "next" /\ Want' = q[1]
  BY CallsAssumption DEF Call, Want
<1>3. SetupInv'
  BY <1>1, <1>2 DEF SetupInv, InTest
<1>4. ASSUME FreshInv, ~Foreign(q[1][1]) PROVE OfSuite'
  <2>1. CASE setup = Undefined
    BY <1>2, <2>1 DEF OfSuite
  <2>2. CASE setup # Undefined /\ setup.path # <<>>
    <3>1. setup.path[1] = q[1][1]
      BY <1>4, <2>2, SetupFacts DEF Foreign
    <3>2. QED BY <1>2, <2>2, <3>1 DEF OfSuite
  <2>3. CASE setup # Undefined /\ setup.path = <<>>
    <3>1. setup.config.dirs = q[1][1] /\ setup.config.by = <<>> /\ setup.config \in ConfigType
      BY <1>4, <2>3, SetupFacts, StackFields DEF Foreign, FreshStack
    <3>2. setup.config = Config(q[1][1], <<>>)
      BY <3>1 DEF ConfigType, Config
    <3>3. QED BY <1>2, <2>3, <3>2 DEF OfSuite
  <2>4. QED BY <2>1, <2>2, <2>3
<1>5. ASSUME FreshInv, ~Foreign(q[1][1]) PROVE FreshInv'
  BY <1>2, <1>4, <1>5 DEF FreshInv
<1>6. QED BY <1>3, <1>5

LEMMA StartStep == ASSUME SetupInv, StartTest PROVE SetupInv' /\ (FreshInv => FreshInv')
<1>1. OneSuite' /\ Want' = Want /\ queue' = queue /\ queue # <<>> /\ saved' = saved
  BY DEF SetupInv, StartTest, OneSuite, Want
<1>2. CASE Kept(setup)
  <2>1. setup' = setup /\ pc' = "teardown" /\ pc = "next" /\ setup # Undefined
    BY <1>2, SetupFacts DEF StartTest
  <2>2. QED BY <1>1, <2>1 DEF SetupInv, FreshInv, OfSuite, InTest
<1>3. CASE ~Kept(setup)
  <2> DEFINE c == Config(Want[1], <<>>)
  <2>1. setup' = Setup(<<>>, <<>>, c) /\ pc' = "init"
    BY <1>3 DEF StartTest
  <2>2. Want \in Seq(Level) /\ Want[1] \in Level /\ c \in ConfigType
    BY <1>1, WantType DEF SetupInv, ConfigType, Config
  <2>3. /\ setup'.path = <<>> /\ setup'.configs = <<>> /\ setup'.config = c /\ setup'.is = "kept"
        /\ c.by = <<>>
    BY <2>1 DEF Setup, Config
  <2>4. Stack(setup') /\ FreshStack(setup')
    BY <2>1, <2>2, <2>3 DEF Stack, FreshStack, Setup, SetupType
  <2>5. setup' # Undefined
    BY <2>3 DEF Undefined
  <2>6. Shares(<<>>, Want)
    BY <2>2, WholePrefix DEF Shares
  <2>7. OfSuite' /\ InTest'
    BY <1>1, <2>1, <2>3, <2>5, <2>6 DEF OfSuite, InTest
  <2>8. QED BY <1>1, <2>1, <2>3, <2>4, <2>7 DEF SetupInv, FreshInv
<1>4. QED BY <1>2, <1>3

LEMMA EndLevelStep ==
  ASSUME SetupInv, NEW timely \in BOOLEAN, EndLevel(timely)
  PROVE  SetupInv' /\ (FreshInv => FreshInv')
<1>1. /\ pc = "teardown" /\ pc' = pc /\ queue' = queue /\ saved' = saved
      /\ setup' = Popped(setup) /\ ~Shares(setup.path, Want)
  BY DEF EndLevel
<1>2. queue # <<>> /\ setup # Undefined /\ OneSuite' /\ Want' = Want
  BY <1>1 DEF SetupInv, InTest, OneSuite, Want
<1>3. Want \in Seq(Level) /\ Want # <<>>
  BY <1>2, WantType DEF SetupInv
<1>4. Stack(setup) /\ setup.path \in Seq(Level)
  BY <1>2, SetupFacts
<1>5. setup.path # <<>> /\ (setup.path[1] = Want[1] => Len(setup.path) > 1)
  BY <1>1, <1>3, <1>4, NotShared
<1>6. Stack(setup')
  BY <1>1, <1>4, <1>5, PopStacks
<1>7. setup' # Undefined
  BY <1>6 DEF Undefined, Stack, SetupType
<1>8. SetupInv'
  BY <1>1, <1>2, <1>6, <1>7 DEF SetupInv, InTest
<1>9. ASSUME FreshInv PROVE FreshInv'
  <2>1. FreshStack(setup) /\ setup.path[1] = Want[1]
    BY <1>1, <1>2, <1>5, <1>9, SetupFacts DEF FreshInv, OfSuite
  <2>2. FreshStack(setup') /\ setup'.path # <<>> /\ setup'.path[1] = Want[1]
    BY <1>1, <1>4, <1>5, <2>1, PopFresh
  <2>3. QED BY <1>1, <1>2, <1>9, <2>2 DEF FreshInv, OfSuite
<1>10. QED BY <1>8, <1>9

LEMMA EndOfTeardownStep ==
  ASSUME SetupInv, EndOfTeardown PROVE SetupInv' /\ (FreshInv => FreshInv')
<1>1. /\ pc = "teardown" /\ pc' = "init" /\ queue' = queue /\ saved' = saved
      /\ setup' = Setup(setup.path, setup.configs, ConfigIn(setup)) /\ Shares(setup.path, Want)
  BY DEF EndOfTeardown
<1>2. queue # <<>> /\ setup # Undefined /\ OneSuite' /\ Want' = Want
  BY <1>1 DEF SetupInv, InTest, OneSuite, Want
<1>3. /\ setup.path \in Seq(Level) /\ setup.configs \in Seq(ConfigType) /\ setup.config \in ConfigType
      /\ Len(setup.path) \in Nat /\ Len(setup.configs) = Len(setup.path)
  BY <1>2, SetupFacts, StackFields
<1>4. ConfigIn(setup) \in ConfigType
  BY <1>3 DEF ConfigIn
<1>5. /\ setup'.path = setup.path /\ setup'.configs = setup.configs /\ setup'.is = "kept"
      /\ setup'.config = ConfigIn(setup)
  BY <1>1 DEF Setup
<1>6. Stack(setup')
  BY <1>1, <1>3, <1>4 DEF Setup, SetupType, Stack
<1>7. setup' # Undefined
  BY <1>5 DEF Undefined
<1>8. SetupInv'
  BY <1>1, <1>2, <1>5, <1>6, <1>7 DEF SetupInv, InTest
<1>9. ASSUME FreshInv PROVE FreshInv'
  <2>1. FreshStack(setup)
    BY <1>2, <1>9, SetupFacts
  <2>2. ConfigIn(setup) = Config(Want[1], setup.path)
    <3>1. CASE setup.path = <<>>
      <4>1. setup.configs = <<>>
        BY <1>3, <3>1
      <4>2. setup.config = Config(Want[1], <<>>)
        BY <1>1, <1>2, <1>9, <3>1 DEF FreshInv, OfSuite
      <4>3. QED BY <3>1, <4>1, <4>2 DEF ConfigIn
    <3>2. CASE setup.path # <<>>
      <4>1. setup.configs # <<>> /\ Len(setup.path) \in 1..Len(setup.path)
        BY <1>3, <3>2
      <4>2. ConfigIn(setup) = Fresh(setup.path, Len(setup.path))
        BY <1>3, <2>1, <4>1 DEF ConfigIn, FreshStack
      <4>3. setup.path[1] = Want[1]
        BY <1>1, <1>2, <1>9, <3>2 DEF FreshInv, OfSuite
      <4>4. QED BY <1>3, <4>2, <4>3, WholePrefix DEF Fresh
    <3>3. QED BY <3>1, <3>2
  <2>3. FreshStack(setup')
    BY <1>5, <2>1, <2>2 DEF FreshStack, Config
  <2>4. OfSuite'
    BY <1>1, <1>2, <1>5, <1>9, <2>2 DEF FreshInv, OfSuite
  <2>5. QED BY <1>1, <1>2, <1>5, <1>9, <2>2, <2>3, <2>4 DEF FreshInv
<1>10. QED BY <1>8, <1>9

LEMMA InitLevelStep ==
  ASSUME SetupInv, InitLevel PROVE SetupInv' /\ (FreshInv => FreshInv')
<1>1. /\ pc = "init" /\ pc' = pc /\ queue' = queue /\ saved' = saved
      /\ Len(setup.path) < Len(Want) /\ setup' = Pushed(setup, NextLevel)
  BY DEF InitLevel, Missing
<1>2. queue # <<>> /\ setup # Undefined /\ OneSuite' /\ Want' = Want
  BY <1>1 DEF SetupInv, InTest, OneSuite, Want
<1>3. Want \in Seq(Level) /\ Want # <<>> /\ Want[1] \in Level
  BY <1>2, WantType DEF SetupInv
<1>4. Stack(setup) /\ setup.path \in Seq(Level) /\ Len(setup.path) \in Nat
  BY <1>2, SetupFacts
<1>5. Prefix(Want, Len(setup.path)) = setup.path
  BY <1>1 DEF SetupInv, InTest, Shares
<1>6. NextLevel \in Level /\ (setup.path = <<>> => NextLevel = Want[1])
  BY <1>1, <1>3, <1>4 DEF NextLevel
<1>7. Stack(setup') /\ setup'.path = Append(setup.path, NextLevel)
  BY <1>1, <1>4, <1>6, PushStacks
<1>8. Append(setup.path, NextLevel) = Prefix(Want, Len(setup.path) + 1)
  BY <1>1, <1>3, <1>4, <1>5, PrefixGrows DEF NextLevel
<1>9. Len(setup'.path) = Len(setup.path) + 1 /\ setup'.path # <<>>
  BY <1>4, <1>6, <1>7
<1>10. Shares(setup'.path, Want)
  BY <1>1, <1>3, <1>4, <1>7, <1>8, <1>9 DEF Shares
<1>11. setup' # Undefined
  BY <1>9 DEF Undefined
<1>12. SetupInv'
  BY <1>1, <1>2, <1>7, <1>10, <1>11 DEF SetupInv, InTest
<1>13. ASSUME FreshInv PROVE FreshInv'
  <2>1. FreshStack(setup) /\ setup.config = Config(Want[1], setup.path)
    BY <1>1, <1>2, <1>13, SetupFacts DEF FreshInv
  <2>2. setup.path # <<>> => setup.path[1] = Want[1]
    BY <1>1, <1>2, <1>13 DEF FreshInv, OfSuite
  <2>3. FreshStack(setup') /\ setup'.config = Config(Want[1], setup'.path)
    BY ZenonT(60), <1>1, <1>3, <1>4, <1>6, <1>7, <2>1, <2>2, PushFresh
  <2>4. setup'.path[1] = Want[1]
    BY <1>4, <1>6, <1>7, <2>2
  <2>5. QED BY <1>1, <1>2, <1>9, <1>13, <2>3, <2>4 DEF FreshInv, OfSuite
<1>14. QED BY <1>12, <1>13

LEMMA InitFailsStep ==
  ASSUME SetupInv, NEW timely \in BOOLEAN, InitFails(timely)
  PROVE  SetupInv' /\ (FreshInv => FreshInv')
<1>1. /\ pc = "init" /\ pc' = "next" /\ queue' = Tail(queue) /\ saved' = saved /\ setup' = setup
  BY DEF InitFails, Missing, AfterFailure
<1>2. queue # <<>> /\ OneSuite
  BY <1>1 DEF SetupInv, InTest
<1>3. OneSuite' /\ (queue' # <<>> => Want'[1] = Want[1])
  BY <1>1, <1>2, NextWanted
<1>4. SetupInv'
  BY <1>1, <1>3 DEF SetupInv, InTest
<1>5. ASSUME FreshInv PROVE FreshInv'
  BY <1>1, <1>2, <1>3, <1>5 DEF FreshInv, OfSuite
<1>6. QED BY <1>4, <1>5

LEMMA RunTestStep == ASSUME SetupInv, RunTest PROVE SetupInv' /\ (FreshInv => FreshInv')
<1>1. /\ pc = "init" /\ pc' = "test" /\ queue' = queue /\ saved' = saved /\ setup' = setup
      /\ Len(setup.path) = Len(Want)
  BY DEF RunTest
<1>2. queue # <<>> /\ setup # Undefined /\ OneSuite' /\ Want' = Want
  BY <1>1 DEF SetupInv, InTest, OneSuite, Want
<1>3. Want \in Seq(Level)
  BY <1>2, WantType DEF SetupInv
<1>4. Prefix(Want, Len(setup.path)) = setup.path
  BY <1>1 DEF SetupInv, InTest, Shares
<1>5. setup.path = Want
  BY <1>1, <1>3, <1>4, WholePrefix
<1>6. SetupInv'
  BY <1>1, <1>2, <1>5 DEF SetupInv, InTest
<1>7. ASSUME FreshInv PROVE FreshInv'
  BY <1>1, <1>2, <1>7 DEF FreshInv, OfSuite
<1>8. QED BY <1>6, <1>7

LEMMA TestEndsStep ==
  ASSUME SetupInv, NEW timely \in BOOLEAN, TestEnds(timely)
  PROVE  SetupInv' /\ (FreshInv => FreshInv')
<1>1. /\ pc = "test" /\ pc' = "next" /\ queue' = Tail(queue) /\ saved' = saved
      /\ \/ setup' = setup
         \/ \E by \in {setup.config.by, <<>>} :
              setup' = Setup(setup.path, setup.configs, Config(setup.config.dirs, by))
  BY DEF TestEnds
<1>2. queue # <<>> /\ setup # Undefined /\ OneSuite /\ setup.path = Want
  BY <1>1 DEF SetupInv, InTest
<1>3. OneSuite' /\ (queue' # <<>> => Want'[1] = Want[1])
  BY <1>1, <1>2, NextWanted
<1>4. Want # <<>>
  BY <1>2, WantType
<1>5. Stack(setup)
  BY <1>2, SetupFacts
<1>6. Stack(setup') /\ setup'.path = setup.path /\ setup'.configs = setup.configs
  <2>1. CASE setup' = setup
    BY <1>5, <2>1
  <2>2. ASSUME NEW by \in {setup.config.by, <<>>},
               setup' = Setup(setup.path, setup.configs, Config(setup.config.dirs, by))
        PROVE  Stack(setup') /\ setup'.path = setup.path /\ setup'.configs = setup.configs
    <3>1. setup.config \in ConfigType
      BY <1>5, StackFields
    <3>2. setup.config.dirs \in Level /\ by \in Seq(Level)
      <4>1. setup.config.dirs \in Level /\ setup.config.by \in Seq(Level)
        BY <3>1 DEF ConfigType
      <4>2. CASE by = <<>>
        BY <4>1, <4>2
      <4>3. CASE by = setup.config.by
        BY <4>1, <4>3
      <4>4. QED BY <4>1, <4>2, <4>3
    <3>3. Config(setup.config.dirs, by) \in ConfigType
      BY <3>2 DEF Config, ConfigType
    <3>4. setup'.path = setup.path /\ setup'.configs = setup.configs
      BY <2>2 DEF Setup
    <3>5. setup.path \in Seq(Level) /\ setup.configs \in Seq(ConfigType)
      BY <1>5, StackFields
    <3>6. setup' \in SetupType
      BY <2>2, <3>3, <3>5 DEF Setup, SetupType
    <3>7. QED BY <1>5, <3>4, <3>6 DEF Stack
  <2>3. QED BY <1>1, <2>1, <2>2
<1>7. SetupInv'
  BY <1>1, <1>3, <1>6 DEF SetupInv, InTest
<1>8. ASSUME FreshInv PROVE FreshInv'
  <2>1. FreshStack(setup) /\ setup'.path # <<>>
    BY <1>2, <1>4, <1>6, <1>8, SetupFacts
  <2>2. FreshStack(setup')
    BY <1>6, <2>1 DEF FreshStack
  <2>3. QED BY <1>1, <1>2, <1>3, <1>6, <1>8, <2>1, <2>2 DEF FreshInv, OfSuite
<1>9. QED BY <1>7, <1>8

\* The steps that leave the setup and the queue alone, or drop the queue.
LEMMA OtherSteps ==
  ASSUME SetupInv,
         Reply \/ Raise \/ NodeDown \/ (\E part \in overrun : Late(part)) \/ UNCHANGED vars
  PROVE  SetupInv' /\ (FreshInv => FreshInv')
<1>1. CASE Reply
  BY <1>1 DEF Reply, SetupInv, FreshInv, OneSuite, OfSuite, InTest
<1>2. ASSUME pc' = "idle", queue' = <<>>,
             \/ setup' = saved /\ saved' = saved
             \/ setup' = Undefined /\ saved' = Undefined
      PROVE  SetupInv' /\ (FreshInv => FreshInv')
  <2>1. OneSuite' /\ OfSuite' /\ InTest'
    BY <1>2 DEF OneSuite, OfSuite, InTest
  <2>2. QED BY <1>2, <2>1 DEF SetupInv, FreshInv
<1>3. CASE Raise \/ NodeDown
  BY <1>2, <1>3 DEF Raise, NodeDown
<1>4. ASSUME UNCHANGED daemonVars PROVE SetupInv' /\ (FreshInv => FreshInv')
  <2>1. Want' = Want /\ OneSuite'
    BY <1>4 DEF SetupInv, OneSuite, Want, daemonVars
  <2>2. InTest' /\ (OfSuite => OfSuite')
    BY <1>4, <2>1 DEF SetupInv, OfSuite, InTest, daemonVars
  <2>3. QED BY <1>4, <2>1, <2>2 DEF SetupInv, FreshInv, daemonVars
<1>5. QED BY <1>1, <1>3, <1>4 DEF Late, vars

LEMMA SetupNext ==
  ASSUME SetupInv, [Next]_vars
  PROVE  /\ SetupInv'
         /\ FreshInv => FreshInv' \/ \E q \in Calls : Call(q) /\ Foreign(q[1][1])
<1>1. CASE \E q \in Calls : Call(q)
  BY <1>1, CallStep
<1>2. CASE Daemon
  BY <1>2, StartStep, EndOfTeardownStep, RunTestStep, OtherSteps DEF Daemon
<1>3. CASE InitLevel
  BY <1>3, InitLevelStep
<1>4. CASE \E timely \in BOOLEAN : Parts(timely)
  BY <1>4, EndLevelStep, InitFailsStep, TestEndsStep DEF Parts
<1>5. CASE Raise \/ NodeDown \/ (\E part \in overrun : Late(part)) \/ UNCHANGED vars
  BY <1>5, OtherSteps
<1>6. QED BY <1>1, <1>2, <1>3, <1>4, <1>5 DEF Next

-----------------------------------------------------------------------------
(* Only a debug session goes on from another suite, until the node ends.   *)

SessionInv == mixed \in Nat /\ (mixed > 0 => debug) /\ (mixed = 0 => FreshInv)

LEMMA SessionNext == SetupInv /\ SessionInv /\ [Next]_vars => SetupInv' /\ SessionInv'
<1> SUFFICES ASSUME SetupInv, SessionInv, [Next]_vars PROVE SessionInv'
  BY SetupNext
<1>1. ASSUME UNCHANGED session, FreshInv => FreshInv' PROVE SessionInv'
  BY <1>1 DEF SessionInv, session
<1>2. ASSUME NEW q \in Calls, Call(q) PROVE SessionInv'
  <2>1. CASE Foreign(q[1][1])
    <3>1. debug /\ debug' = debug /\ mixed' = mixed + 1
      BY <1>2, <2>1 DEF Call, Encapsulated, Foreign
    <3>2. QED BY <3>1 DEF SessionInv
  <2>2. CASE ~Foreign(q[1][1])
    <3>1. UNCHANGED session
      BY <1>2, <2>2 DEF Call, session
    <3>2. QED BY <1>1, <1>2, <2>2, <3>1, CallStep
  <2>3. QED BY <2>1, <2>2
<1>3. CASE NodeDown
  <2>1. mixed' = 0 /\ pc' = "idle" /\ setup' = Undefined /\ saved' = Undefined
    BY <1>3 DEF NodeDown
  <2>2. FreshInv'
    BY <2>1 DEF FreshInv, OfSuite
  <2>3. QED BY <2>1, <2>2 DEF SessionInv
<1>4. ASSUME ~NodeDown, \A q \in Calls : ~Call(q) PROVE UNCHANGED session
  BY <1>4 DEF Next, Daemon, Parts, StartTest, EndOfTeardown, RunTest, Reply, InitLevel, Raise, EndLevel,
     InitFails, TestEnds, Late, vars
<1>5. QED BY <1>1, <1>2, <1>3, <1>4, SetupNext

LEMMA SetUp == Spec => [](SetupInv /\ SessionInv)
<1>1. Init => SetupInv /\ SessionInv
  BY SetupInit DEF Init, SessionInv
<1>2. QED BY <1>1, SessionNext, PTL DEF Spec

(***************************************************************************)
(* In every sequence of calls, failures, timetraps and exceptions a test   *)
(* gets the configuration do_fresh_setup would have given it, though       *)
(* do_incremental_setup went on from what earlier tests left, unless a     *)
(* debug session has put a second suite on the setup of a first.           *)
(***************************************************************************)
THEOREM ConfigIsFresh == Spec => []ConfigAsFresh
<1>1. SetupInv /\ SessionInv => ConfigAsFresh
  <2> SUFFICES ASSUME SetupInv, SessionInv, pc = "test", ~(debug /\ mixed > 0)
               PROVE  setup.config = Fresh(Want, Len(Want))
    BY DEF ConfigAsFresh
  <2>1. FreshInv
    BY DEF SessionInv
  <2>2. queue # <<>> /\ setup.config = Config(Want[1], Want)
    BY <2>1 DEF SetupInv, InTest, FreshInv
  <2>3. Want \in Seq(Level)
    BY <2>2, WantType DEF SetupInv
  <2>4. QED BY <2>2, <2>3, WholePrefix DEF Fresh
<1>2. QED BY <1>1, SetUp, PTL

-----------------------------------------------------------------------------
(* What is initialised against what the daemon thinks is. *)

LEMMA PrefixesOfAppend ==
  ASSUME NEW S, NEW s \in Seq(S), NEW e \in S
  PROVE  /\ Prefixes(Append(s, e)) = Prefixes(s) \cup {Append(s, e)}
         /\ Append(s, e) \notin Prefixes(s)
<1>1. Len(Append(s, e)) = Len(s) + 1 /\ Len(s) \in Nat
  OBVIOUS
<1>2. \A n \in 1..(Len(s) + 1) : n \in 1..Len(s) \/ n = Len(s) + 1
  BY <1>1
<1>3. \A n \in 1..Len(s) : Prefix(Append(s, e), n) = Prefix(s, n) /\ n \in 1..(Len(s) + 1)
  BY <1>1, PrefixOfAppend
<1>4. Prefix(Append(s, e), Len(s) + 1) = Append(s, e) /\ Len(s) + 1 \in 1..(Len(s) + 1)
  BY <1>1, PrefixOfAppend
<1>5. Prefixes(Append(s, e)) = Prefixes(s) \cup {Append(s, e)}
  BY <1>1, <1>2, <1>3, <1>4 DEF Prefixes
<1>6. ASSUME NEW n \in 1..Len(s) PROVE Prefix(s, n) # Append(s, e)
  <2>1. Len(Prefix(s, n)) = n
    BY <1>1, PrefixType
  <2>2. QED BY <1>1, <2>1
<1>7. QED BY <1>5, <1>6 DEF Prefixes

LEMMA PrefixesOfPopped ==
  ASSUME NEW S, NEW s \in Seq(S), s # <<>>
  PROVE  Prefixes(Prefix(s, Len(s) - 1)) = Prefixes(s) \ {s}
<1>1. PICK k \in Nat : Len(s) = k + 1
  <2>1. Len(s) \in Nat \ {0}
    OBVIOUS
  <2>2. Len(s) - 1 \in Nat /\ Len(s) = (Len(s) - 1) + 1
    BY <2>1
  <2>3. QED BY <2>2
<1>2. Len(s) - 1 = k /\ k \in 0..Len(s)
  BY <1>1
<1>3. Len(Prefix(s, k)) = k
  BY <1>2, PrefixType
<1>4. \A n \in 1..k : Prefix(Prefix(s, k), n) = Prefix(s, n)
  BY <1>2, PrefixOfPrefix
<1>5. ASSUME NEW n \in 1..k PROVE Prefix(s, n) # s
  <2>1. n \in 0..Len(s) /\ n # Len(s)
    BY <1>1
  <2>2. Len(Prefix(s, n)) = n
    BY <2>1, PrefixType
  <2>3. QED BY <2>1, <2>2
<1>6. Prefix(s, Len(s)) = s
  BY WholePrefix
<1>7. 1..Len(s) = 1..k \cup {k + 1}
  BY <1>1
<1>8. Prefixes(Prefix(s, k)) = {Prefix(s, n) : n \in 1..k}
  BY <1>3, <1>4 DEF Prefixes
<1>9. Prefixes(s) = {Prefix(s, n) : n \in 1..k} \cup {s}
  BY <1>1, <1>6, <1>7 DEF Prefixes
<1>10. QED BY <1>2, <1>5, <1>8, <1>9

\* A path among the prefixes of the wanted one is shared with it.
LEMMA PrefixIsShared ==
  ASSUME NEW want \in Seq(Level), NEW path \in Prefixes(want)
  PROVE  Shares(path, want)
<1>1. PICK n \in 1..Len(want) : path = Prefix(want, n)
  BY DEF Prefixes
<1>2. Len(path) = n /\ n <= Len(want)
  BY <1>1, PrefixType
<1>3. QED BY <1>1, <1>2 DEF Shares

\* Parts that were given up are known, and what is set up and what is
\* initialised agree but for these.
TrackInv ==
  /\ overrun \subseteq late /\ \A part \in late : part = Part(part.kind, part.path)
  /\ \A p \in Prefixes(setup.path) : p \in up \/ Part("end", p) \in late \/ reverted
  /\ NothingLeftBehind

LEMMA NoPrefixes == Prefixes(<<>>) = {}
BY DEF Prefixes

LEMMA TrackInit == Init => TrackInv
BY NoPrefixes DEF Init, TrackInv, NothingLeftBehind, Undefined

LEMMA PartIs ==
  ASSUME NEW k, NEW p
  PROVE  /\ Part(k, p) = Part(Part(k, p).kind, Part(k, p).path)
         /\ Part(k, p).kind = k /\ Part(k, p).path = p
BY DEF Part

\* The steps that leave the levels alone, whether or not a part is given up.
LEMMA SameLevels ==
  ASSUME TrackInv, setup'.path = setup.path, up' = up, reverted' = reverted,
         UNCHANGED <<overrun, late>> \/ (\E k, p : GiveUp(Part(k, p)))
  PROVE  TrackInv'
<1>1. CASE UNCHANGED <<overrun, late>>
  BY <1>1 DEF TrackInv, NothingLeftBehind
<1>2. ASSUME NEW k, NEW p, GiveUp(Part(k, p)) PROVE TrackInv'
  <2>1. overrun' = overrun \cup {Part(k, p)} /\ late' = late \cup {Part(k, p)}
    BY <1>2 DEF GiveUp
  <2>2. overrun' \subseteq late' /\ \A part \in late' : part = Part(part.kind, part.path)
    BY <2>1, PartIs DEF TrackInv
  <2>3. QED BY <2>1, <2>2 DEF TrackInv, NothingLeftBehind
<1>3. QED BY <1>1, <1>2

LEMMA EndLevelTracks ==
  ASSUME SetupInv, TrackInv, NEW timely \in BOOLEAN, EndLevel(timely)
  PROVE  /\ TrackInv' /\ Prefixes(setup'.path) = Prefixes(setup.path) \ {setup.path}
         /\ setup.path \notin Prefixes(Want)
<1>1. pc = "teardown" /\ setup' = Popped(setup) /\ ~Shares(setup.path, Want) /\ reverted' = reverted
  BY DEF EndLevel
<1>2. queue # <<>> /\ setup # Undefined /\ setup.path \in Seq(Level)
  BY <1>1, SetupFacts DEF SetupInv, InTest
<1>3. Want \in Seq(Level) /\ Want # <<>>
  BY <1>2, WantType DEF SetupInv
<1>4. setup.path # <<>>
  BY <1>1, <1>2, <1>3, NotShared
<1>5. setup'.path = Prefix(setup.path, Len(setup.path) - 1)
  BY <1>1 DEF Popped, Setup
<1>6. Prefixes(setup'.path) = Prefixes(setup.path) \ {setup.path}
  BY <1>2, <1>4, <1>5, PrefixesOfPopped
<1>7. setup.path \notin Prefixes(Want)
  BY <1>1, <1>3, PrefixIsShared
<1>8. TrackInv'
  <2>1. CASE timely
    <3>1. up' = up \ {setup.path} /\ UNCHANGED <<overrun, late>>
      BY <2>1 DEF EndLevel
    <3>2. QED BY <1>1, <1>6, <3>1 DEF TrackInv, NothingLeftBehind
  <2>2. CASE ~timely
    <3>1. up' = up /\ GiveUp(Part("end", setup.path))
      BY <2>2 DEF EndLevel
    <3>2. /\ overrun' = overrun \cup {Part("end", setup.path)}
          /\ late' = late \cup {Part("end", setup.path)}
      BY <3>1 DEF GiveUp
    <3>3. overrun' \subseteq late' /\ \A part \in late' : part = Part(part.kind, part.path)
      BY <3>2, PartIs DEF TrackInv
    <3>4. QED BY <1>1, <1>6, <3>1, <3>2, <3>3 DEF TrackInv, NothingLeftBehind
  <2>3. QED BY <2>1, <2>2
<1>9. QED BY <1>6, <1>7, <1>8

LEMMA InitLevelTracks ==
  ASSUME SetupInv, TrackInv, InitLevel
  PROVE  /\ TrackInv' /\ Prefixes(setup'.path) = Prefixes(setup.path) \cup {NextPath}
         /\ NextPath \notin Prefixes(setup.path)
<1>1. /\ pc = "init" /\ Len(setup.path) < Len(Want) /\ setup' = Pushed(setup, NextLevel)
      /\ up' = up \cup {NextPath} /\ UNCHANGED <<overrun, late, reverted>>
  BY DEF InitLevel, Missing
<1>2. queue # <<>> /\ setup.path \in Seq(Level) /\ Len(setup.path) \in Nat
  BY <1>1, SetupFacts DEF SetupInv, InTest
<1>3. Want \in Seq(Level)
  BY <1>2, WantType DEF SetupInv
<1>4. NextLevel \in Level
  BY <1>1, <1>2, <1>3 DEF NextLevel
<1>5. setup'.path = NextPath /\ NextPath = Append(setup.path, NextLevel)
  BY <1>1 DEF Pushed, Setup, NextPath
<1>6. /\ Prefixes(setup'.path) = Prefixes(setup.path) \cup {NextPath}
      /\ NextPath \notin Prefixes(setup.path)
  BY <1>2, <1>4, <1>5, PrefixesOfAppend
<1>7. QED BY <1>1, <1>6 DEF TrackInv, NothingLeftBehind

LEMMA LateTracks ==
  ASSUME TrackInv, NEW part \in overrun, Late(part)
  PROVE  TrackInv'
<1>1. /\ UNCHANGED <<setup, late, reverted>> /\ overrun' \subseteq late'
      /\ part \in late /\ part = Part(part.kind, part.path)
  BY DEF Late, daemonVars, TrackInv
<1>2. CASE up' = up
  BY <1>1, <1>2 DEF TrackInv, NothingLeftBehind
<1>3. CASE part.kind = "init" /\ up' = up \cup {part.path}
  <2>1. Part("init", part.path) \in late
    BY <1>1, <1>3
  <2>2. QED BY <1>1, <1>3, <2>1 DEF TrackInv, NothingLeftBehind
<1>4. CASE part.kind = "end" /\ up' = up \ {part.path}
  <2>1. Part("end", part.path) \in late
    BY <1>1, <1>4
  <2>2. QED BY <1>1, <1>4, <2>1 DEF TrackInv, NothingLeftBehind
<1>5. QED BY <1>2, <1>3, <1>4 DEF Late

\* A raise that undoes levels sets reverted; one that does not leaves them.
LEMMA RaiseTracks == ASSUME TrackInv, Raise PROVE TrackInv'
<1>1. /\ setup' = saved /\ UNCHANGED <<overrun, up, late>>
      /\ (reverted' <=> reverted \/ saved.path # setup.path)
  BY DEF Raise
<1>2. CASE saved.path = setup.path
  BY <1>1, <1>2 DEF TrackInv, NothingLeftBehind
<1>3. CASE saved.path # setup.path
  BY <1>1, <1>3 DEF TrackInv, NothingLeftBehind
<1>4. QED BY <1>2, <1>3

LEMMA NodeDownTracks == ASSUME NodeDown PROVE TrackInv'
BY NoPrefixes DEF NodeDown, TrackInv, NothingLeftBehind, Undefined

\* The other steps change no level.
LEMMA LevelsKept ==
  ASSUME SetupInv, NEW timely \in BOOLEAN,
         \/ \E q \in Calls : Call(q)
         \/ Daemon \/ InitFails(timely) \/ TestEnds(timely) \/ UNCHANGED vars
  PROVE  /\ setup'.path = setup.path /\ up' = up /\ reverted' = reverted
         /\ UNCHANGED <<overrun, late>> \/ (\E k, p : GiveUp(Part(k, p)))
<1>1. CASE StartTest
  <2>1. UNCHANGED <<up, reverted, overrun, late>>
    BY <1>1 DEF StartTest
  <2>2. CASE Kept(setup)
    BY <1>1, <2>1, <2>2 DEF StartTest
  <2>3. CASE ~Kept(setup)
    <3>1. setup.path = <<>>
      BY <2>3, SetupFacts DEF Undefined
    <3>2. setup'.path = <<>>
      BY <1>1, <2>3 DEF StartTest, Setup
    <3>3. QED BY <2>1, <3>1, <3>2
  <2>4. QED BY <2>2, <2>3
<1>2. CASE EndOfTeardown \/ RunTest \/ Reply
  BY <1>2 DEF EndOfTeardown, RunTest, Reply, Setup
<1>3. CASE InitFails(timely)
  BY <1>3 DEF InitFails, AfterFailure
<1>4. CASE TestEnds(timely)
  BY <1>4 DEF TestEnds, Setup
<1>5. CASE (\E q \in Calls : Call(q)) \/ UNCHANGED vars
  BY <1>5 DEF Call, vars, daemonVars
<1>6. QED BY <1>1, <1>2, <1>3, <1>4, <1>5 DEF Daemon

LEMMA TrackNext == SetupInv /\ TrackInv /\ [Next]_vars => TrackInv'
<1> SUFFICES ASSUME SetupInv, TrackInv, [Next]_vars PROVE TrackInv'
  OBVIOUS
<1>1. CASE (\E q \in Calls : Call(q)) \/ Daemon \/ UNCHANGED vars
  BY <1>1, LevelsKept, SameLevels
<1>2. CASE InitLevel
  BY <1>2, InitLevelTracks
<1>3. ASSUME NEW timely \in BOOLEAN, Parts(timely) PROVE TrackInv'
  BY <1>3, EndLevelTracks, LevelsKept, SameLevels DEF Parts
<1>4. CASE Raise \/ NodeDown \/ (\E part \in overrun : Late(part))
  BY <1>4, RaiseTracks, NodeDownTracks, LateTracks
<1>5. QED BY <1>1, <1>2, <1>3, <1>4 DEF Next

LEMMA Tracked == Spec => [](SetupInv /\ TrackInv)
<1>1. SetupInv /\ TrackInv /\ [Next]_vars => (SetupInv /\ TrackInv)'
  BY SetupNext, TrackNext
<1>2. Init => SetupInv
  BY SetupInit
<1>3. QED BY <1>1, <1>2, TrackInit, PTL DEF Spec

(***************************************************************************)
(* A test of the shell runs with its suite and all its groups initialised, *)
(* unless an end of one was given up or an exception undid the setup.      *)
(***************************************************************************)
THEOREM TestHasItsSetup == Spec => []SetupIsUp
<1>1. SetupInv /\ TrackInv => SetupIsUp
  BY DEF SetupInv, InTest, TrackInv, SetupIsUp
<1>2. QED BY <1>1, Tracked, PTL

(***************************************************************************)
(* What is initialised is on the stack of the daemon, so that it will be   *)
(* ended, but for parts that were given up and after an exception.         *)
(***************************************************************************)
THEOREM NothingIsLeft == Spec => []NothingLeftBehind
<1>1. TrackInv => NothingLeftBehind
  BY DEF TrackInv
<1>2. QED BY <1>1, Tracked, PTL

(***************************************************************************)
(* On the way from one test to the next, do_teardown_until ends no level   *)
(* that they share and do_setup_from initialises none that is up already.  *)
(***************************************************************************)
THEOREM SetupIsShortest == Spec => ShortestSetup
<1> DEFINE Ended == \A p \in Prefixes(setup.path) \ Prefixes(setup'.path) : p \notin Prefixes(Want)
           Started == \A p \in Prefixes(setup'.path) \ Prefixes(setup.path) :
                        p \in up => Part("init", p) \in late \/ Part("end", p) \in late
<1>1. SetupInv /\ TrackInv /\ [Next]_vars => [pc' # "idle" /\ ~reverted => Ended /\ Started]_vars
  <2> SUFFICES ASSUME SetupInv, TrackInv, Next, pc' # "idle", ~reverted PROVE Ended /\ Started
    OBVIOUS
  <2>1. ASSUME setup'.path = setup.path PROVE Ended /\ Started
    BY <2>1
  <2>2. CASE InitLevel
    <3>1. Prefixes(setup'.path) = Prefixes(setup.path) \cup {NextPath} /\ NextPath \notin Prefixes(setup.path)
      BY <2>2, InitLevelTracks
    <3>2. QED BY <3>1 DEF TrackInv, NothingLeftBehind
  <2>3. ASSUME NEW timely \in BOOLEAN, EndLevel(timely) PROVE Ended /\ Started
    BY <2>3, EndLevelTracks
  <2>4. ASSUME NEW timely \in BOOLEAN, InitFails(timely) \/ TestEnds(timely) PROVE Ended /\ Started
    BY <2>1, <2>4, LevelsKept
  <2>5. CASE (\E q \in Calls : Call(q)) \/ Daemon
    BY <2>1, <2>5, LevelsKept
  <2>6. CASE \E part \in overrun : Late(part)
    BY <2>1, <2>6 DEF Late, daemonVars
  <2>7. ~Raise /\ ~NodeDown
    BY DEF Raise, NodeDown
  <2>8. QED BY <2>2, <2>3, <2>4, <2>5, <2>6, <2>7 DEF Next, Parts
<1>2. QED BY <1>1, Tracked, PTL DEF Spec, ShortestSetup

-----------------------------------------------------------------------------
(* DaemonShell: the node. *)

LifeInv ==
  /\ DOMAIN state = Nodes /\ global \in Nodes \cup {0}
  /\ \A n \in Nodes : state[n] \in {"gone", "booting", "up"}
  /\ OneNodeUp

LEMMA LifeInit == ShellInit => LifeInv
BY DEF ShellInit, LifeInv, OneNodeUp

\* A node that does not come up cannot do harm.
LEMMA NodeStops ==
  ASSUME LifeInv, NEW n \in Nodes, NEW s \in {"gone", "booting"},
         state' = [state EXCEPT ![n] = s], global' = global
  PROVE  LifeInv'
BY DEF LifeInv, OneNodeUp

LEMMA NodeMainLife == ASSUME LifeInv, NEW n \in Nodes, NodeMain(n) PROVE LifeInv'
<1>1. CASE NameNotTaken
  <2>1. global = 0 /\ global' = n /\ state' = [state EXCEPT ![n] = "up"]
    BY <1>1 DEF NodeMain, NameNotTaken, NoNode
  <2>2. \A m \in Nodes : state[m] # "up"
    BY <2>1, SpecsAssumption DEF LifeInv, OneNodeUp
  <2>3. QED BY <2>1, <2>2 DEF LifeInv, OneNodeUp
<1>2. CASE ~NameNotTaken
  BY <1>2, NodeStops DEF NodeMain
<1>3. QED BY <1>1, <1>2

LEMMA LifeNext == LifeInv /\ [ShellNext]_shellVars => LifeInv'
<1> SUFFICES ASSUME LifeInv, [ShellNext]_shellVars PROVE LifeInv'
  OBVIOUS
<1>1. ASSUME UNCHANGED nodeVars PROVE LifeInv'
  BY <1>1 DEF nodeVars, LifeInv, OneNodeUp
<1>2. CASE InitNode
  <2>1. global' = global
    BY <1>2 DEF InitNode
  <2>2. state' = state \/ \E n \in Nodes : state' = [state EXCEPT ![n] = "booting"]
    BY <1>2 DEF InitNode
  <2>3. QED BY <1>1, <2>1, <2>2, NodeStops DEF nodeVars
<1>3. CASE Stop
  <2>1. global' = global
    BY <1>3 DEF Stop
  <2>2. state' = state \/ (global # 0 /\ state' = [state EXCEPT ![global] = "gone"])
    BY <1>3 DEF Stop, NoNode
  <2>3. QED BY <1>1, <2>1, <2>2, NodeStops DEF nodeVars, LifeInv
<1>4. CASE Forget
  BY <1>4 DEF Forget, Dying, LifeInv, OneNodeUp
<1>5. ASSUME NEW n \in Nodes, NodeEnds(n) PROVE LifeInv'
  BY <1>5, NodeStops DEF NodeEnds
<1>6. ASSUME ShellNext, ~InitNode, ~Stop, ~Forget, \A n \in Nodes : ~NodeMain(n) /\ ~NodeEnds(n)
      PROVE  UNCHANGED nodeVars
  BY <1>6 DEF ShellNext, Evaluator, Command, Compile, Register, BootDone, BootFails, SetGl, List,
     DiscoverId, DiscoverRegEx, DiscoverNoNode, Again, BuildFails, Build, RunSuite, SuiteEnds,
     SuiteRaises, NodeLost, AllRun, Restart
<1>7. QED BY <1>1, <1>2, <1>3, <1>4, <1>5, <1>6, NodeMainLife DEF shellVars, nodeVars

(***************************************************************************)
(* However many nodes are being started at once, by init_node calls that   *)
(* were given up or raced with a node's end, only the one with the global  *)
(* name comes up (node_main).                                              *)
(***************************************************************************)
THEOREM OneNode == ShellSpec => []OneNodeUp
<1>1. LifeInv => OneNodeUp
  BY DEF LifeInv
<1>2. QED BY <1>1, LifeInit, LifeNext, PTL DEF ShellSpec

-----------------------------------------------------------------------------
(* DaemonShell: the lists and the tests that are found in them. *)

Running == {"build", "collect", "running", "stop", "restart"}

ListInv ==
  /\ disk \in Versions /\ loaded \in Versions \cup {0} /\ listing \in Versions \cup {0}
  /\ todo \subseteq Tests /\ (phase \notin Running => todo = {})
  /\ ~hidden /\ listing # 0 => seen = listing

LEMMA ListInit == ShellInit => ListInv
BY ListsAssumption DEF ShellInit, ListInv, Versions

LEMMA ListNext == ListInv /\ [ShellNext]_shellVars => ListInv'
<1> SUFFICES ASSUME ListInv, [ShellNext]_shellVars PROVE ListInv'
  OBVIOUS
<1>0. Code \in Versions
  BY DEF ListInv, Code
<1>1. CASE \E n \in Nodes : NodeMain(n) \/ NodeEnds(n)
  BY <1>1 DEF NodeMain, NodeEnds, ListInv, evalVars, listVars
<1>2. CASE Compile \/ Forget
  BY <1>2 DEF Compile, Forget, ListInv, evalVars, listVars
<1>3. CASE \E op, spec : Command(op, spec)
  BY <1>3 DEF Command, Reset, ListInv, listVars, Running
<1>4. CASE InitNode \/ Register \/ BootDone \/ BootFails \/ SetGl
  BY <1>4 DEF InitNode, Register, BootDone, BootFails, SetGl, Dies, ListInv, evalVars, listVars,
     Running
<1>5. CASE List
  BY <1>5, <1>0 DEF List, Relist, Dies, ListInv, Running
<1>6. CASE DiscoverId
  <2>1. CASE Known
    <3>1. listing \in Versions /\ cmd.spec \in DOMAIN Lists[listing]
      BY <2>1 DEF Known, ListInv
    <3>2. ListedTest \in Tests
      BY <3>1 DEF ListedTest, Tests, Range
    <3>3. QED BY <1>6, <2>1, <3>2 DEF DiscoverId, Found, ListInv, Running
  <2>2. CASE ~Known
    BY <1>6, <1>0, <2>2 DEF DiscoverId, Relist, ListInv, Running
  <2>3. QED BY <2>1, <2>2
<1>7. CASE DiscoverRegEx
  <2>1. Range(Lists[Code]) \subseteq Tests
    BY <1>0 DEF Tests
  <2>2. QED BY <1>7, <1>0, <2>1 DEF DiscoverRegEx, Found, ListInv, Running
<1>8. CASE DiscoverNoNode \/ Again \/ BuildFails
  BY <1>8 DEF DiscoverNoNode, Again, BuildFails, Dies, ListInv, listVars, Running
<1>9. CASE Build
  BY <1>9 DEF Build, Dies, ListInv, Running
<1>10. CASE RunSuite \/ SuiteEnds \/ SuiteRaises
  BY <1>10, <1>0 DEF RunSuite, Reset, SuiteEnds, SuiteRaises, Dies, ListInv, listVars, Running
<1>11. CASE NodeLost \/ AllRun \/ Stop \/ Restart
  BY <1>11 DEF NodeLost, AllRun, Stop, Restart, Dies, ListInv, evalVars, listVars, Running
<1>12. CASE UNCHANGED shellVars
  BY <1>12 DEF shellVars, ListInv, evalVars, listVars
<1>13. QED BY <1>1, <1>2, <1>3, <1>4, <1>5, <1>6, <1>7, <1>8, <1>9, <1>10, <1>11, <1>12
           DEF ShellNext, Evaluator

(***************************************************************************)
(* The id of a test is looked up in the list that list() printed, whatever *)
(* was compiled and loaded since, unless an id it did not know made the    *)
(* daemon list again (test:discover, discover_test).                       *)
(***************************************************************************)
THEOREM IdIsListed == ShellSpec => IdKeepsItsTest
<1> DEFINE Named == ById /\ ~hidden => todo' = {Lists[seen][cmd.spec]}
<1>1. ListInv /\ [ShellNext]_shellVars => [Named]_shellVars
  <2> SUFFICES ASSUME ListInv, ShellNext, ById, ~hidden PROVE todo' = {Lists[seen][cmd.spec]}
    OBVIOUS
  <2>0. phase = "discover" /\ phase' # phase /\ todo' # {} /\ todo = {} /\ cmd.spec # RegEx
    BY DEF ById, ListInv, Running
  <2>1. CASE DiscoverId
    <3>1. Known /\ todo' = {ListedTest}
      BY <2>0, <2>1 DEF DiscoverId
    <3>2. seen = listing
      BY <3>1 DEF Known, ListInv
    <3>3. QED BY <3>1, <3>2 DEF ListedTest
  <2>2. CASE DiscoverNoNode
    BY <2>0, <2>2 DEF DiscoverNoNode, Dies
  <2>3. ~DiscoverRegEx
    BY <2>0 DEF DiscoverRegEx
  <2>4. DiscoverId \/ DiscoverNoNode \/ DiscoverRegEx
    BY <2>0 DEF ShellNext, Evaluator, Command, Compile, Forget, NodeMain, NodeEnds, InitNode, Register,
       BootDone, BootFails, SetGl, List, Again, BuildFails, Build, RunSuite, SuiteEnds,
       SuiteRaises, NodeLost, AllRun, Stop, Restart
  <2>5. QED BY <2>1, <2>2, <2>3, <2>4
<1>2. QED BY <1>1, ListInit, ListNext, PTL DEF ShellSpec, IdKeepsItsTest

-----------------------------------------------------------------------------
(* DaemonShell: the suites that run in the node. *)

\* The setup tells which suites have run in the node, but for what an
\* exception made it forget; "empty" tells nothing, and no suite may run on it.
SetupTells ==
  /\ suiteSetup \in Suites \cup {"undefined", "empty"}
  /\ suiteSetup = "undefined" => touched \subseteq forgotten
  /\ suiteSetup \in Suites => touched \subseteq forgotten \cup {suiteSetup}

SuiteInv ==
  ~debugging => SetupTells /\ (phase = "running" => suite \in Suites /\ MayRun(suite))

LEMMA SuiteInit == ShellInit => SuiteInv
BY DEF ShellInit, SuiteInv, SetupTells

LEMMA DebuggingStays == [ShellNext]_shellVars => UNCHANGED debugging
BY DEF ShellNext, Evaluator, Command, Compile, Forget, NodeMain, NodeEnds, shellVars

LEMMA SuiteNext == ListInv /\ SuiteInv /\ [ShellNext]_shellVars => SuiteInv'
<1> SUFFICES ASSUME ListInv, SuiteInv, [ShellNext]_shellVars, ~debugging PROVE SuiteInv'
  BY DebuggingStays DEF SuiteInv
<1>1. ASSUME UNCHANGED <<testVars, suite>>, phase' = "running" => phase = "running" PROVE SuiteInv'
  BY <1>1 DEF SuiteInv, SetupTells, MayRun, testVars
<1>2. CASE \E n \in Nodes : NodeMain(n)
  <2>1. UNCHANGED <<phase, suite>>
    BY <1>2 DEF NodeMain, evalVars
  <2>2. UNCHANGED testVars \/ (suiteSetup' = "undefined" /\ touched' = {} /\ forgotten' = {})
    BY <1>2 DEF NodeMain
  <2>3. QED BY <1>1, <2>1, <2>2 DEF SuiteInv, SetupTells, MayRun
<1>3. CASE RunSuite
  <2>1. UNCHANGED testVars
    BY <1>3 DEF RunSuite
  <2>2. ASSUME phase' = "running" PROVE suite' \in Suites /\ MayRun(suite')
    <3>1. suite' \in {t[1] : t \in todo} /\ MayRun(suite')
      BY <1>3, <2>2 DEF RunSuite, Dies, Reset
    <3>2. QED BY <3>1 DEF ListInv, Suites
  <2>3. QED BY <2>1, <2>2 DEF SuiteInv, SetupTells, MayRun, testVars
<1>4. CASE SuiteEnds
  <2>1. /\ suite \in Suites /\ suiteSetup \in {"undefined", suite} /\ phase' = "collect"
        /\ suiteSetup' \in {suite, "empty"} /\ touched' = touched \cup {suite} /\ forgotten' = forgotten
    BY <1>4 DEF SuiteEnds, SuiteInv, MayRun
  <2>2. touched \subseteq forgotten \cup {suite}
    BY <2>1 DEF SuiteInv, SetupTells
  <2>3. suiteSetup' \in Suites => suiteSetup' = suite
    BY <2>1, SuitesAssumption
  <2>4. suiteSetup' # "undefined"
    BY <2>1, SuitesAssumption
  <2>5. QED BY <2>1, <2>2, <2>3, <2>4 DEF SuiteInv, SetupTells
<1>5. CASE SuiteRaises
  <2>1. /\ suite \in Suites /\ suiteSetup \in {"undefined", suite} /\ phase' = "prompt" /\ suiteSetup' = suiteSetup
        /\ touched' = touched \cup {suite}
        /\ forgotten' = IF suiteSetup = "undefined" THEN forgotten \cup {suite} ELSE forgotten
    BY <1>5 DEF SuiteRaises, Dies, SuiteInv, MayRun
  <2>2. CASE suiteSetup = "undefined"
    BY <2>1, <2>2, SuitesAssumption DEF SuiteInv, SetupTells
  <2>3. CASE suiteSetup # "undefined"
    BY <2>1, <2>3 DEF SuiteInv, SetupTells
  <2>4. QED BY <2>2, <2>3
<1>6. ASSUME ShellNext, ~RunSuite, ~SuiteEnds, ~SuiteRaises, \A n \in Nodes : ~NodeMain(n)
      PROVE  UNCHANGED <<testVars, suite>> /\ (phase' = "running" => phase = "running")
  BY <1>6 DEF ShellNext, Evaluator, Command, Compile, Forget, NodeEnds, InitNode, Register, BootDone,
     BootFails, SetGl, List, DiscoverId, DiscoverRegEx, DiscoverNoNode, Found, Again, BuildFails,
     Build, NodeLost, AllRun, Stop, Restart, Dies, Reset, evalVars
<1>7. QED BY <1>1, <1>2, <1>3, <1>4, <1>5, <1>6 DEF shellVars, testVars, evalVars

(***************************************************************************)
(* The tests of a suite run in a node that is fresh, or in which only this *)
(* suite has run, or others that an exception made the daemon forget: the  *)
(* shell restarts the node for any other (ensure_per_suite_encapsulation), *)
(* unless it is in a debug session.                                        *)
(***************************************************************************)
THEOREM OneSuitePerNode == ShellSpec => []OneSuiteInNode
<1>1. SuiteInv => OneSuiteInNode
  BY SuitesAssumption DEF SuiteInv, SetupTells, MayRun, OneSuiteInNode
<1>2. ListInv /\ SuiteInv /\ [ShellNext]_shellVars => (ListInv /\ SuiteInv)'
  BY ListNext, SuiteNext
<1>3. QED BY <1>1, <1>2, ListInit, SuiteInit, PTL DEF ShellSpec
=============================================================================

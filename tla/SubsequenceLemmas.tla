------------------------- MODULE SubsequenceLemmas -------------------------
(***************************************************************************)
(* Lemmas that the proofs about several components need: induction over    *)
(* positions, and what is kept of a sequence.                              *)
(***************************************************************************)
EXTENDS Subsequences, Integers, FiniteSets, TLAPS, WellFoundedInduction, FiniteSetTheorems

-----------------------------------------------------------------------------
(* Positions *)

LEMMA Upwards ==
  ASSUME NEW N \in Nat, NEW S, 0 \in S, \A k \in 0..(N - 1) : k \in S => k + 1 \in S
  PROVE  \A k \in 0..N : k \in S
<1> SUFFICES ASSUME NEW n \in 0..N, n \notin S PROVE FALSE
  OBVIOUS
<1> DEFINE Out == {k \in 0..N : k \notin S}
           R == {ss \in Nat \X Nat : ss[1] < ss[2]}
<1>1. IsWellFoundedOn(R, Nat)
  BY NatLessThanWellFounded DEF OpToRel
<1>2. PICK least \in Out : \A k \in Out : ~(<<k, least>> \in R)
  <2>1. n \in Out /\ Out \subseteq Nat
    OBVIOUS
  <2> HIDE DEF R, Out
  <2>2. QED BY <1>1, <2>1, WFMin
<1>3. ASSUME NEW k \in Out PROVE ~(k < least)
  <2>1. k \in Nat /\ least \in Nat /\ ~(<<k, least>> \in R)
    BY <1>2
  <2>2. QED BY <2>1
<1>4. least # 0 /\ least - 1 \in 0..(N - 1) /\ least \in Nat
  BY <1>2
<1>5. least - 1 \in S
  BY <1>3, <1>4
<1>6. least - 1 + 1 = least
  BY <1>4
<1>7. QED BY <1>2, <1>4, <1>5, <1>6

-----------------------------------------------------------------------------
(* What is kept of a sequence *)

\* The values of f are what is kept of the beginnings of s.
AreKept(f, s, S) ==
  f = [k \in 0..Len(s) |-> IF k = 0 THEN <<>> ELSE IF s[k] \in S THEN Append(f[k - 1], s[k]) ELSE f[k - 1]]

LEMMA KeptExist ==
  ASSUME NEW T, NEW s \in Seq(T), NEW S
  PROVE  \E f : AreKept(f, s, S)
<1> DEFINE F(k, f) == IF k = 0 THEN <<>> ELSE IF s[k] \in S THEN Append(f[k - 1], s[k]) ELSE f[k - 1]
           Upto(f, n) == f = [k \in 0..n |-> F(k, f)]
           Done == {n \in 0..Len(s) : \E f : Upto(f, n)}
<1>1. 0 \in Done
  <2> DEFINE z == [k \in 0..0 |-> <<>>]
  <2>1. z = [k \in 0..0 |-> F(k, z)]
    <3>1. \A k \in 0..0 : <<>> = F(k, z)
      OBVIOUS
    <3>2. QED BY <3>1, Zenon
  <2>2. 0 \in 0..Len(s)
    OBVIOUS
  <2>3. QED BY <2>1, <2>2, Zenon
<1>2. ASSUME NEW n \in 0..(Len(s) - 1), n \in Done PROVE n + 1 \in Done
  <2>1. PICK f : Upto(f, n)
    BY <1>2, Zenon
  <2> DEFINE g == [k \in 0..(n + 1) |-> F(k, f)]
  <2>2. \A k \in 0..n : g[k] = f[k]
    <3>1. \A k \in 0..n : f[k] = F(k, f)
      BY <2>1
    <3>2. \A k \in 0..n : k \in 0..(n + 1)
      OBVIOUS
    <3>3. QED BY <3>1, <3>2, Zenon
  <2>3. \A k \in 0..(n + 1) : F(k, f) = F(k, g)
    <3>1. \A k \in 0..(n + 1) : k = 0 \/ k - 1 \in 0..n
      OBVIOUS
    <3>2. QED BY <3>1, <2>2, Zenon
  <2>4. g = [k \in 0..(n + 1) |-> F(k, g)]
    BY <2>3, Zenon
  <2>5. n + 1 \in 0..Len(s)
    OBVIOUS
  <2>6. QED BY <2>4, <2>5, Zenon
<1> HIDE DEF Done
<1>3. Len(s) \in Nat
  OBVIOUS
<1>4. \A k \in 0..Len(s) : k \in Done
  BY <1>1, <1>2, <1>3, Upwards
<1>5. Len(s) \in Done
  BY <1>3, <1>4
<1>6. QED BY <1>5, Zenon DEF Done, AreKept

LEMMA OnlyUnfolds ==
  ASSUME NEW T, NEW s \in Seq(T), NEW S
  PROVE  \E f : /\ f[0] = <<>> /\ Only(s, S) = f[Len(s)]
                /\ \A k \in 1..Len(s) : f[k] = IF s[k] \in S THEN Append(f[k - 1], s[k]) ELSE f[k - 1]
<1> DEFINE h == CHOOSE f : AreKept(f, s, S)
<1>1. AreKept(h, s, S)
  BY KeptExist, Zenon
<1>2. Only(s, S) = h[Len(s)]
  BY Zenon DEF Only, AreKept
<1> HIDE DEF h
<1>3. 0 \in 0..Len(s) /\ \A k \in 1..Len(s) : k \in 0..Len(s) /\ k # 0
  OBVIOUS
<1>4. h[0] = <<>>
  BY <1>1, <1>3, Zenon DEF AreKept
<1>5. \A k \in 1..Len(s) : h[k] = IF s[k] \in S THEN Append(h[k - 1], s[k]) ELSE h[k - 1]
  BY <1>1, <1>3, Zenon DEF AreKept
<1>6. QED BY <1>2, <1>4, <1>5

\* t is what a sequence keeps of the elements up to k, at the positions at.
KeptAt(t, at, s, k, S) ==
  /\ at \in [1..Len(t) -> 1..k]
  /\ \A i \in 1..Len(t) : t[i] = s[at[i]] /\ s[at[i]] \in S
  /\ \A i, j \in 1..Len(t) : i < j => at[i] < at[j]
  /\ \A l \in 1..k : s[l] \in S => \E i \in 1..Len(t) : at[i] = l

LEMMA OnlyPositions ==
  ASSUME NEW T, NEW s \in Seq(T), NEW S
  PROVE  Only(s, S) \in Seq(T) /\ \E at : KeptAt(Only(s, S), at, s, Len(s), S)
<1>1. PICK f : /\ f[0] = <<>> /\ Only(s, S) = f[Len(s)]
               /\ \A k \in 1..Len(s) : f[k] = IF s[k] \in S THEN Append(f[k - 1], s[k]) ELSE f[k - 1]
  BY OnlyUnfolds
<1> DEFINE Done == {k \in 0..Len(s) : f[k] \in Seq(T) /\ \E at : KeptAt(f[k], at, s, k, S)}
<1>2. 0 \in Done
  <2> DEFINE none == [i \in 1..0 |-> 0]
  <2>1. Len(<<>>) = 0 /\ <<>> \in Seq(T) /\ 0 \in 0..Len(s)
    OBVIOUS
  <2>2. \A i \in 1..0 : FALSE
    OBVIOUS
  <2>3. none \in [1..0 -> 1..0]
    BY <2>2, Zenon
  <2> HIDE DEF none
  <2>4. KeptAt(<<>>, none, s, 0, S)
    BY <2>1, <2>2, <2>3, Zenon DEF KeptAt
  <2>5. QED BY <1>1, <2>1, <2>4
<1>3. ASSUME NEW k \in 0..(Len(s) - 1), k \in Done PROVE k + 1 \in Done
  <2>1. f[k] \in Seq(T) /\ k + 1 \in 1..Len(s) /\ s[k + 1] \in T /\ k \in Nat
    BY <1>3
  <2>2. PICK at : KeptAt(f[k], at, s, k, S)
    BY <1>3
  <2>3. f[k + 1] = IF s[k + 1] \in S THEN Append(f[k], s[k + 1]) ELSE f[k]
    BY <1>1, <2>1
  <2>4. CASE s[k + 1] \in S
    <3> DEFINE t == Append(f[k], s[k + 1])
               on == [i \in 1..Len(t) |-> IF i = Len(t) THEN k + 1 ELSE at[i]]
    <3>1. t \in Seq(T) /\ Len(f[k]) \in Nat /\ Len(t) = Len(f[k]) + 1 /\ t[Len(t)] = s[k + 1]
          /\ \A i \in 1..Len(f[k]) : t[i] = f[k][i]
      BY <2>1
    <3> HIDE DEF t
    <3>2. \A i \in 1..Len(t) : i # Len(t) => i \in 1..Len(f[k])
      BY <3>1
    <3>3. /\ at \in [1..Len(f[k]) -> 1..k]
          /\ \A i \in 1..Len(f[k]) : f[k][i] = s[at[i]] /\ s[at[i]] \in S
          /\ \A i, j \in 1..Len(f[k]) : i < j => at[i] < at[j]
          /\ \A l \in 1..k : s[l] \in S => \E i \in 1..Len(f[k]) : at[i] = l
      BY <2>2 DEF KeptAt
    <3>4. on \in [1..Len(t) -> 1..(k + 1)]
      BY <2>1, <3>1, <3>2, <3>3
    <3>5. \A i \in 1..Len(t) : t[i] = s[on[i]] /\ s[on[i]] \in S
      BY <2>4, <3>1, <3>2, <3>3
    <3>6. ASSUME NEW i \in 1..Len(t), NEW j \in 1..Len(t), i < j PROVE on[i] < on[j]
      <4>0. i \in 1..Len(f[k]) /\ i # Len(t)
        <5>1. Len(f[k]) \in Nat /\ Len(t) = Len(f[k]) + 1
          BY <3>1
        <5>2. QED BY <3>6, <5>1
      <4>1. i \in 1..Len(f[k]) /\ on[i] = at[i] /\ at[i] \in 1..k
        <5>1. at \in [1..Len(f[k]) -> 1..k]
          BY <3>3
        <5>2. QED BY <4>0, <5>1
      <4>2. CASE j = Len(t)
        BY <2>1, <4>1, <4>2
      <4>3. CASE j # Len(t)
        BY <3>2, <3>3, <3>6, <4>1, <4>3
      <4>4. QED BY <4>2, <4>3
    <3>7. ASSUME NEW l \in 1..(k + 1), s[l] \in S PROVE \E i \in 1..Len(t) : on[i] = l
      <4>1. CASE l = k + 1
        <5>1. Len(t) \in 1..Len(t)
          BY <3>1
        <5>2. on[Len(t)] = k + 1
          BY <5>1
        <5>3. QED BY <4>1, <5>1, <5>2, Zenon
      <4>2. CASE l \in 1..k
        <5>1. PICK i \in 1..Len(f[k]) : at[i] = l
          BY <3>3, <3>7, <4>2
        <5>2. i \in 1..Len(t) /\ i # Len(t)
          BY <3>1
        <5>3. QED BY <5>1, <5>2
      <4>3. l = k + 1 \/ l \in 1..k
        BY <2>1
      <4>4. QED BY <4>1, <4>2, <4>3, Zenon
    <3>8. KeptAt(t, on, s, k + 1, S)
      BY <3>4, <3>5, <3>6, <3>7 DEF KeptAt
    <3>9. f[k + 1] = t /\ f[k + 1] \in Seq(T) /\ k + 1 \in 0..Len(s)
      BY <2>1, <2>3, <2>4, <3>1 DEF t
    <3> HIDE DEF on
    <3>10. \E any : KeptAt(f[k + 1], any, s, k + 1, S)
      BY <3>8, <3>9, Zenon
    <3>11. QED BY <3>9, <3>10, Zenon
  <2>5. CASE s[k + 1] \notin S
    <3>1. KeptAt(f[k], at, s, k + 1, S)
      <4>1. 1..k \subseteq 1..(k + 1) /\ \A l \in 1..(k + 1) : l = k + 1 \/ l \in 1..k
        BY <2>1
      <4>2. at \in [1..Len(f[k]) -> 1..(k + 1)]
        BY <2>2, <4>1 DEF KeptAt
      <4>3. \A l \in 1..(k + 1) : s[l] \in S => \E i \in 1..Len(f[k]) : at[i] = l
        BY <2>2, <2>5, <4>1, Zenon DEF KeptAt
      <4>4. QED BY <2>2, <4>2, <4>3, Zenon DEF KeptAt
    <3>2. QED BY <2>1, <2>3, <2>5, <3>1
  <2>6. QED BY <2>4, <2>5
<1> HIDE DEF Done
<1>4. Len(s) \in Nat
  OBVIOUS
<1>5. Len(s) \in Done
  <2>1. \A k \in 0..Len(s) : k \in Done
    BY <1>2, <1>3, <1>4, Upwards
  <2>2. QED BY <1>4, <2>1
<1>6. QED BY <1>1, <1>5 DEF Done

\* Some facts that follow.
LEMMA OnlyType ==
  ASSUME NEW T, NEW s \in Seq(T), NEW S
  PROVE  Only(s, S) \in Seq(T) /\ Len(Only(s, S)) \in Nat
<1>1. Only(s, S) \in Seq(T)
  BY OnlyPositions
<1>2. QED BY <1>1

\* What is kept is what is in both.
LEMMA OnlyElements ==
  ASSUME NEW T, NEW s \in Seq(T), NEW S
  PROVE  /\ \A i \in 1..Len(Only(s, S)) : Only(s, S)[i] \in S /\ \E k \in 1..Len(s) : s[k] = Only(s, S)[i]
         /\ \A k \in 1..Len(s) : s[k] \in S => \E i \in 1..Len(Only(s, S)) : Only(s, S)[i] = s[k]
<1> DEFINE t == Only(s, S)
<1>1. PICK at : KeptAt(t, at, s, Len(s), S)
  BY OnlyPositions
<1> HIDE DEF t
<1>2. QED
  <2>1. ASSUME NEW i \in 1..Len(t) PROVE t[i] \in S /\ \E k \in 1..Len(s) : s[k] = t[i]
    <3>1. at[i] \in 1..Len(s) /\ s[at[i]] = t[i] /\ s[at[i]] \in S
      BY <1>1 DEF KeptAt
    <3>2. QED BY <3>1, Zenon
  <2>2. ASSUME NEW k \in 1..Len(s), s[k] \in S PROVE \E i \in 1..Len(t) : t[i] = s[k]
    <3>1. PICK i \in 1..Len(t) : at[i] = k
      BY <1>1, <2>2, Zenon DEF KeptAt
    <3>2. t[i] = s[at[i]]
      BY <1>1, Zenon DEF KeptAt
    <3>3. QED BY <3>1, <3>2, Zenon
  <2>3. QED BY <2>1, <2>2, Zenon DEF t

\* Something is kept exactly if an element is in S.
LEMMA OnlyEmpty ==
  ASSUME NEW T, NEW s \in Seq(T), NEW S
  PROVE  Only(s, S) = <<>> <=> \A k \in 1..Len(s) : s[k] \notin S
<1>1. Only(s, S) \in Seq(T)
  BY OnlyType
<1>2. ASSUME NEW k \in 1..Len(s), s[k] \in S PROVE Only(s, S) # <<>>
  <2>1. PICK i \in 1..Len(Only(s, S)) : Only(s, S)[i] = s[k]
    BY <1>2, OnlyElements, Zenon
  <2>2. QED BY <1>1, <2>1
<1>3. ASSUME Only(s, S) # <<>> PROVE \E k \in 1..Len(s) : s[k] \in S
  <2>1. 1 \in 1..Len(Only(s, S))
    BY <1>1, <1>3
  <2>2. QED BY <2>1, OnlyElements, ZenonT(40)
<1>4. QED BY <1>2, <1>3, Zenon

\* Several are kept exactly if several positions have an element in S.
LEMMA OnlySeveral ==
  ASSUME NEW T, NEW s \in Seq(T), NEW S
  PROVE  Len(Only(s, S)) > 1 <=> \E k, l \in 1..Len(s) : k # l /\ s[k] \in S /\ s[l] \in S
<1> DEFINE t == Only(s, S)
<1>1. PICK at : KeptAt(t, at, s, Len(s), S)
  BY OnlyPositions
<1>2. Len(t) \in Nat
  BY OnlyType
<1> HIDE DEF t
<1>3. ASSUME Len(t) > 1 PROVE \E k, l \in 1..Len(s) : k # l /\ s[k] \in S /\ s[l] \in S
  <2>1. 1 \in 1..Len(t) /\ 2 \in 1..Len(t) /\ 1 < 2
    BY <1>2, <1>3
  <2>2. at[1] \in 1..Len(s) /\ at[2] \in 1..Len(s) /\ at[1] < at[2] /\ s[at[1]] \in S /\ s[at[2]] \in S
    BY <1>1, <2>1 DEF KeptAt
  <2>3. at[1] # at[2]
    BY <2>2
  <2>4. QED BY <2>2, <2>3, Zenon
<1>4. ASSUME NEW k \in 1..Len(s), NEW l \in 1..Len(s), k # l, s[k] \in S, s[l] \in S PROVE Len(t) > 1
  <2>1. PICK i \in 1..Len(t) : at[i] = k
    BY <1>1, <1>4, Zenon DEF KeptAt
  <2>2. PICK j \in 1..Len(t) : at[j] = l
    BY <1>1, <1>4, Zenon DEF KeptAt
  <2>3. i # j
    BY <1>4, <2>1, <2>2, Zenon
  <2>4. QED BY <1>2, <2>3
<1>5. QED BY <1>3, <1>4, Zenon DEF t

\* A set without two elements.
LEMMA AtMostOne ==
  ASSUME NEW E, \A x, y \in E : x = y
  PROVE  IsFiniteSet(E) /\ Cardinality(E) <= 1
<1>1. CASE E = {}
  BY <1>1, FS_EmptySet
<1>2. CASE E # {}
  <2>1. PICK x : x \in E
    BY <1>2
  <2>2. E = {x}
    BY <2>1
  <2>3. IsFiniteSet(E) /\ Cardinality(E) = 1
    BY <2>2, FS_Singleton, Zenon
  <2>4. QED BY <2>3
<1>3. QED BY <1>1, <1>2

\* A number of a sequence of numbers that none is above.
LEMMA HasGreatest ==
  ASSUME NEW T, NEW s \in Seq(T), s # <<>>, NEW size \in [1..Len(s) -> Nat]
  PROVE  \E k \in 1..Len(s) : \A l \in 1..Len(s) : size[l] <= size[k]
<1> DEFINE Done == {n \in 0..Len(s) : n = 0 \/ \E k \in 1..n : \A l \in 1..n : size[l] <= size[k]}
<1>1. 0 \in Done
  OBVIOUS
<1>2. ASSUME NEW n \in 0..(Len(s) - 1), n \in Done PROVE n + 1 \in Done
  <2>1. n + 1 \in 1..Len(s) /\ \A l \in 1..(n + 1) : l = n + 1 \/ l \in 1..n
    OBVIOUS
  <2>2. CASE n = 0
    <3>1. \A l \in 1..(n + 1) : l = n + 1
      BY <2>2
    <3>2. n + 1 \in 1..(n + 1) /\ size[n + 1] <= size[n + 1]
      BY <2>1
    <3>3. \E k \in 1..(n + 1) : \A l \in 1..(n + 1) : size[l] <= size[k]
      BY <3>1, <3>2, Zenon
    <3>4. n + 1 \in 0..Len(s)
      BY <2>1
    <3>5. QED BY <3>3, <3>4, Zenon
  <2>3. CASE n # 0
    <3>1. PICK k \in 1..n : \A l \in 1..n : size[l] <= size[k]
      BY <1>2, <2>3
    <3>2. k \in 1..(n + 1) /\ n + 1 \in 1..(n + 1) /\ size[k] \in Nat /\ size[n + 1] \in Nat
          /\ \A l \in 1..n : size[l] \in Nat
      BY <2>1
    <3>3. CASE size[n + 1] <= size[k]
      <4>1. \A l \in 1..(n + 1) : size[l] <= size[k]
        BY <2>1, <3>1, <3>3
      <4>2. QED BY <2>1, <3>2, <4>1
    <3>4. CASE ~(size[n + 1] <= size[k])
      <4>1. \A l \in 1..(n + 1) : size[l] <= size[n + 1]
        BY <2>1, <3>1, <3>2, <3>4
      <4>2. QED BY <2>1, <3>2, <4>1
    <3>5. QED BY <3>3, <3>4
  <2>4. QED BY <2>2, <2>3
<1> HIDE DEF Done
<1>3. Len(s) \in Nat /\ Len(s) # 0
  OBVIOUS
<1>4. \A n \in 0..Len(s) : n \in Done
  BY <1>1, <1>2, <1>3, Upwards
<1>5. Len(s) \in Done
  BY <1>3, <1>4
<1>6. QED BY <1>3, <1>5 DEF Done
=============================================================================

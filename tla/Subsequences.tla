---------------------------- MODULE Subsequences ----------------------------
(***************************************************************************)
(* What the list comprehensions, filters and loops that skip elements of   *)
(* the modelled programs do: they keep some elements of a list and their   *)
(* order. SelectSeq, with the elements that are kept as a set.             *)
(***************************************************************************)
EXTENDS Naturals, Sequences

\* The elements of s that are in S.
Only(s, S) ==
  LET upto[k \in 0..Len(s)] ==
        IF k = 0 THEN <<>> ELSE IF s[k] \in S THEN Append(upto[k - 1], s[k]) ELSE upto[k - 1]
  IN  upto[Len(s)]
=============================================================================

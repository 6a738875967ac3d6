---------------------------- MODULE Subsequences ----------------------------
(***************************************************************************)
(* The subsequence of s at a set of places: what SelectSeq selects, said   *)
(* without recursion.                                                      *)
(***************************************************************************)
EXTENDS Integers, Sequences, FiniteSets

\* The n-th smallest of the numbers S.
Nth(S, n) == CHOOSE k \in S : Cardinality({j \in S : j <= k}) = n

At(s, S) == [n \in 1..Cardinality(S) |-> s[Nth(S, n)]]
=============================================================================

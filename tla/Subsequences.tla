---------------------------- MODULE Subsequences ----------------------------
(***************************************************************************)
(* The parts of a sequence that a loop keeps, by the set of their places:  *)
(* what SelectSeq yields, by a definition without recursion.               *)
(***************************************************************************)
EXTENDS Naturals, Sequences, FiniteSets

\* How many numbers of S there are up to h, and the n-th smallest number of S.
Rank(S, h) == Cardinality({k \in S : k <= h})
Nth(S, n) == CHOOSE h \in S : Rank(S, h) = n

\* What s has at the places in S, in its order.
Kept(s, S) == [n \in 1..Cardinality(S) |-> s[Nth(S, n)]]
=============================================================================

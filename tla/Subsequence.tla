---------------------------- MODULE Subsequence ----------------------------
(* What a loop builds that appends, in order, the entries that pass a test.*)
EXTENDS Naturals, FiniteSets, Sequences

\* The j-th smallest of a set of positions.
Nth(K, j) == CHOOSE i \in K : Cardinality({k \in K : k <= i}) = j

\* The entries of s at the positions in K, in the order of s.
SelectAt(s, K) == [j \in 1..Cardinality(K) |-> s[Nth(K, j)]]
=============================================================================

-------------------------------- MODULE Order --------------------------------
(* The members of a finite set of numbers in order: the entries of a list or  *)
(* the lines of a text that a loop of the code keeps, by their indices.       *)
EXTENDS Integers, FiniteSets

\* how many members of S are at most i
Rank(S, i) == Cardinality({j \in S : j <= i})

\* the n-th smallest member of S
Nth(S, n) == CHOOSE i \in S : Rank(S, i) = n
=============================================================================

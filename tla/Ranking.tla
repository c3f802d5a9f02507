------------------------------ MODULE Ranking ------------------------------
(* Python's sorted() on rows that differ: a row's place is one more than the *)
(* number of rows that come before it.                                       *)
EXTENDS Naturals, FiniteSets

\* The members of S in the order Lower, a strict total order on S.
Ranked(S, Lower(_, _)) ==
  [k \in 1..Cardinality(S) |->
     CHOOSE r \in S : Cardinality({q \in S : Lower(q, r)}) = k - 1]
=============================================================================

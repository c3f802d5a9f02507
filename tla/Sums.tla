-------------------------------- MODULE Sums --------------------------------
(* np.cumsum, np.sum and a boolean mask: what the analyses make of arrays.   *)
EXTENDS Integers, Sequences, FiniteSets

\* CumSum(g)[n] is the sum of the first n values of g.
CumSum(g) == LET c[n \in 0..Len(g)] == IF n = 0 THEN 0 ELSE c[n - 1] + g[n]
             IN  c
Summed(g) == CumSum(g)[Len(g)]

\* The elements of g at the places in keep, in their order.
Compressed(g, keep) == [n \in 1..Cardinality(keep) |->
                          g[CHOOSE i \in keep : Cardinality({k \in keep : k < i}) = n - 1]]
=============================================================================

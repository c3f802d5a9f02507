---------------------------- MODULE OrderProofs ----------------------------
(***************************************************************************)
(* What the proofs share: least and greatest numbers, induction for a      *)
(* property given as the set of the numbers that have it, and what Ranked  *)
(* makes of a finite set.                                                  *)
(***************************************************************************)
EXTENDS Ranking, Sums, FiniteSetTheorems, WellFoundedInduction, TLAPS

\* A set of naturals has a least element.
LEMMA LeastNat ==
  ASSUME NEW T, T \subseteq Nat, T # {}
  PROVE  \E x \in T : \A y \in T : x <= y
<1>1. IsWellFoundedOn(OpToRel(<, Nat), Nat)
  BY NatLessThanWellFounded
<1>2. PICK x \in T : \A y \in T : ~(<<y, x>> \in OpToRel(<, Nat))
  BY <1>1, WFMin
<1>3. \A y \in T : ~(y < x)
  BY <1>2 DEF OpToRel
<1> QED
  BY <1>3

\* Induction, for a property given as the set of the numbers that have it.
LEMMA NatInd ==
  ASSUME NEW T, 0 \in T, \A n \in Nat : n \in T => n + 1 \in T
  PROVE  Nat \subseteq T
<1> SUFFICES ASSUME Nat \ T # {} PROVE FALSE
  OBVIOUS
<1>1. PICK x \in Nat \ T : \A y \in Nat \ T : x <= y
  BY LeastNat
<1>2. x # 0 /\ x - 1 \in Nat /\ ~(x <= x - 1)
  BY <1>1
<1>3. x - 1 \in T
  BY <1>1, <1>2
<1> QED
  BY <1>2, <1>3

\* A bounded set of naturals has a greatest element.
LEMMA GreatestNat ==
  ASSUME NEW n \in Nat, NEW T, T \subseteq 0..n, T # {}
  PROVE  \E x \in T : \A y \in T : x >= y
<1> DEFINE R == {n - x : x \in T}
<1>1. R \subseteq Nat /\ R # {}
  <2>1. \A x \in T : n - x \in Nat
    OBVIOUS
  <2> QED
    BY <2>1
<1>2. PICK r \in R : \A y \in R : r <= y
  BY <1>1, LeastNat
<1>3. PICK x \in T : r = n - x
  BY <1>2
<1>4. \A y \in T : x >= y
  <2> TAKE y \in T
  <2>1. n - x <= n - y
    BY <1>2, <1>3
  <2> QED
    BY <2>1
<1> QED
  BY <1>4
-----------------------------------------------------------------------------
(* What Ranked lists.                                                       *)

\* The order is given as a set of pairs here, strict and total on S.
OrdersStrictly(O, S) ==
  /\ \A a \in S : <<a, a>> \notin O
  /\ \A a, b, c \in S : <<a, b>> \in O /\ <<b, c>> \in O => <<a, c>> \in O
  /\ \A a, b \in S : a = b \/ <<a, b>> \in O \/ <<b, a>> \in O
Preceding(r, O, S) == {q \in S : <<q, r>> \in O}

\* Of two members the later one has more members ahead of it, and every number
\* below the size of the set is the number of members ahead of some member.
LEMMA RanksAreFilled ==
  ASSUME NEW S, IsFiniteSet(S), NEW O, OrdersStrictly(O, S)
  PROVE  /\ \A a, b \in S : <<a, b>> \in O
               => Cardinality(Preceding(a, O, S)) < Cardinality(Preceding(b, O, S))
         /\ \A a \in S : /\ Cardinality(Preceding(a, O, S)) \in Nat
                         /\ Cardinality(Preceding(a, O, S)) + 1 \in 1..Cardinality(S)
         /\ \A k \in 1..Cardinality(S) :
               \E r \in S : Cardinality(Preceding(r, O, S)) = k - 1
<1> DEFINE n == Cardinality(S)
           R(r) == Cardinality(Preceding(r, O, S))
<1>1. n \in Nat
  BY FS_CardinalityType
<1>2. ASSUME NEW a \in S
      PROVE  /\ IsFiniteSet(Preceding(a, O, S)) /\ R(a) \in Nat
             /\ a \notin Preceding(a, O, S)
             /\ IsFiniteSet(Preceding(a, O, S) \cup {a})
             /\ Cardinality(Preceding(a, O, S) \cup {a}) = R(a) + 1
  <2>1. Preceding(a, O, S) \in SUBSET S
    BY DEF Preceding
  <2>2. IsFiniteSet(Preceding(a, O, S))
    BY <2>1, FS_Subset
  <2>3. a \notin Preceding(a, O, S)
    BY DEF Preceding, OrdersStrictly
  <2> QED
    BY <2>2, <2>3, FS_CardinalityType, FS_AddElement
<1>3. ASSUME NEW a \in S, NEW b \in S, <<a, b>> \in O
      PROVE  R(a) < R(b)
  <2>1. Preceding(a, O, S) \cup {a} \in SUBSET Preceding(b, O, S)
    BY <1>3 DEF Preceding, OrdersStrictly
  <2>2. Cardinality(Preceding(a, O, S) \cup {a}) <= R(b)
    BY <1>2, <2>1, FS_Subset
  <2>3. R(a) \in Nat /\ R(b) \in Nat /\ R(a) + 1 <= R(b)
    BY <1>2, <2>2
  <2> QED
    BY <2>3
<1>4. ASSUME NEW a \in S
      PROVE  R(a) + 1 \in 1..n
  <2>1. Preceding(a, O, S) \cup {a} \in SUBSET S
    BY DEF Preceding
  <2>2. Cardinality(Preceding(a, O, S) \cup {a}) <= n
    BY <2>1, FS_Subset
  <2> QED
    BY <1>1, <1>2, <2>2
<1> DEFINE f == [r \in S |-> R(r) + 1]
<1>5. f \in [S -> 1..n]
  BY <1>4
<1>0. \A r \in S : f[r] = R(r) + 1 /\ R(r) \in Nat /\ R(r) + 1 \in 1..n
  BY <1>2, <1>4
<1> HIDE DEF R, f
<1>6. \A a, b \in S : f[a] = f[b] => a = b
  <2> SUFFICES ASSUME NEW a \in S, NEW b \in S, f[a] = f[b], a # b
               PROVE  FALSE
    OBVIOUS
  <2>1. R(a) = R(b)
    BY <1>0
  <2>2. <<a, b>> \in O \/ <<b, a>> \in O
    BY DEF OrdersStrictly
  <2> QED
    BY <1>0, <1>3, <2>1, <2>2
<1>7. f \in Injection(S, 1..n)
  BY <1>5, <1>6 DEF Injection, IsInjective
<1>8. IsFiniteSet(1..n) /\ Cardinality(1..n) = n
  BY <1>1, FS_Interval
<1>9. f \in Surjection(S, 1..n)
  BY <1>7, <1>8, FS_Injection
<1>10. ASSUME NEW k \in 1..n
       PROVE  \E r \in S : R(r) = k - 1
  <2>1. PICK r \in S : f[r] = k
    BY <1>9 DEF Surjection
  <2>2. k \in Nat
    BY <1>1
  <2> QED
    BY <1>0, <2>1, <2>2
<1> QED
  BY <1>0, <1>3, <1>10 DEF R

\* The member of S with k - 1 others ahead of it.
AtRank(k, O, S) == CHOOSE r \in S : Cardinality(Preceding(r, O, S)) = k - 1

\* A list of members, each with as many ahead of it as there are places before
\* its own, is in order and has them all.
LEMMA RankedInOrder ==
  ASSUME NEW S, IsFiniteSet(S), NEW O, OrdersStrictly(O, S),
         NEW s, DOMAIN s = 1..Cardinality(S), \A k \in DOMAIN s : s[k] = AtRank(k, O, S)
  PROVE  /\ \A k \in DOMAIN s : s[k] \in S
         /\ \A j, k \in DOMAIN s : j < k => <<s[j], s[k]>> \in O
         /\ \A r \in S : \E k \in DOMAIN s : s[k] = r
<1>1. Cardinality(S) \in Nat
  BY FS_CardinalityType
<1>2. ASSUME NEW k \in DOMAIN s
      PROVE  s[k] \in S /\ Cardinality(Preceding(s[k], O, S)) = k - 1
  <2>1. \E r \in S : Cardinality(Preceding(r, O, S)) = k - 1
    BY <1>1, RanksAreFilled
  <2>2. s[k] = CHOOSE r \in S : Cardinality(Preceding(r, O, S)) = k - 1
    BY DEF AtRank
  <2> QED
    BY <2>1, <2>2
<1>3. ASSUME NEW j \in DOMAIN s, NEW k \in DOMAIN s, j < k
      PROVE  <<s[j], s[k]>> \in O
  <2>1. s[j] # s[k] /\ <<s[k], s[j]>> \notin O
    BY <1>1, <1>2, <1>3, RanksAreFilled
  <2> QED
    BY <1>2, <2>1 DEF OrdersStrictly
<1>4. ASSUME NEW r \in S
      PROVE  \E k \in DOMAIN s : s[k] = r
  <2> DEFINE k == Cardinality(Preceding(r, O, S)) + 1
  <2>1. k \in DOMAIN s /\ Cardinality(Preceding(r, O, S)) \in Nat
    BY <1>1, RanksAreFilled
  <2>2. s[k] \in S /\ Cardinality(Preceding(s[k], O, S)) = Cardinality(Preceding(r, O, S))
    BY <1>2, <2>1
  <2>3. <<r, s[k]>> \notin O /\ <<s[k], r>> \notin O
    BY <2>1, <2>2, RanksAreFilled
  <2>4. s[k] = r
    BY <2>2, <2>3 DEF OrdersStrictly
  <2> QED
    BY <2>1, <2>4
<1> QED
  BY <1>1, <1>2, <1>3, <1>4
-----------------------------------------------------------------------------
(* Running sums, and the choice of places in a list.  A recursive function is *)
(* known by what it is at each place once some function is that everywhere;  *)
(* there is one, by induction over where it ends.                            *)

\* Induction up to a bound.
LEMMA UpTo ==
  ASSUME NEW N \in Nat, NEW T, 0 \in T, \A n \in 0..(N - 1) : n \in T => n + 1 \in T
  PROVE  \A n \in 0..N : n \in T
<1> DEFINE R == T \cup {n \in Nat : n > N}
<1>1. 0 \in R
  OBVIOUS
<1>2. \A n \in Nat : n \in R => n + 1 \in R
  <2> SUFFICES ASSUME NEW n \in Nat, n \in R PROVE n + 1 \in R
    OBVIOUS
  <2>1. CASE n \in 0..(N - 1)
    BY <2>1
  <2>2. CASE ~(n \in 0..(N - 1))
    <3>1. n + 1 \in Nat /\ n + 1 > N
      BY <2>2
    <3> QED
      BY <3>1
  <2> QED
    BY <2>1, <2>2
<1> HIDE DEF R
<1>3. Nat \subseteq R
  BY <1>1, <1>2, NatInd
<1> QED
  BY <1>3 DEF R

Running(P, g, n) == P = [m \in 0..n |-> IF m = 0 THEN 0 ELSE P[m - 1] + g[m]]

LEMMA RunningExists ==
  ASSUME NEW g, NEW N \in Nat
  PROVE  \E P : Running(P, g, N)
<1> DEFINE T == {n \in Nat : \E P : Running(P, g, n)}
<1>1. 0 \in T
  <2> DEFINE P == [m \in 0..0 |-> 0]
  <2>1. \A m \in 0..0 : m = 0
    OBVIOUS
  <2>2. P = [m \in 0..0 |-> IF m = 0 THEN 0 ELSE P[m - 1] + g[m]]
    BY <2>1
  <2> QED
    BY <2>2 DEF Running
<1>2. ASSUME NEW n \in Nat, n \in T PROVE n + 1 \in T
  <2>1. PICK P : P = [m \in 0..n |-> IF m = 0 THEN 0 ELSE P[m - 1] + g[m]]
    BY <1>2 DEF Running
  <2> DEFINE Q == [m \in 0..(n + 1) |-> IF m = n + 1 THEN P[n] + g[n + 1] ELSE P[m]]
             R == [m \in 0..(n + 1) |-> IF m = 0 THEN 0 ELSE Q[m - 1] + g[m]]
  <2>2. \A m \in 0..n : m \in 0..(n + 1) /\ Q[m] = P[m]
    OBVIOUS
  <2>3. \A m \in 0..n : m # 0 => m - 1 \in 0..n
    OBVIOUS
  <2>4. \A m \in 0..(n + 1) : Q[m] = R[m]
    <3> TAKE m \in 0..(n + 1)
    <3>1. CASE m \in 0..n
      <4>1. P[m] = IF m = 0 THEN 0 ELSE P[m - 1] + g[m]
        BY <2>1, <3>1
      <4> QED
        BY <2>2, <2>3, <3>1, <4>1
    <3>2. CASE m = n + 1
      BY <2>2, <3>2
    <3> QED
      BY <3>1, <3>2
  <2>5. Q = R
    BY <2>4
  <2>6. Running(Q, g, n + 1)
    BY <2>5 DEF Running
  <2>7. n + 1 \in Nat
    OBVIOUS
  <2> HIDE DEF Q, R
  <2> QED
    BY <2>6, <2>7
<1> HIDE DEF T
<1>3. Nat \subseteq T
  BY <1>1, <1>2, NatInd
<1> QED
  BY <1>3 DEF T

\* CumSum(g)[n] is the sum of the first n values.
LEMMA CumSumIs ==
  ASSUME NEW g \in Seq(Int)
  PROVE  /\ CumSum(g)[0] = 0
         /\ \A n \in 1..Len(g) : CumSum(g)[n] = CumSum(g)[n - 1] + g[n]
         /\ \A n \in 0..Len(g) : CumSum(g)[n] \in Int
<1> DEFINE N == Len(g)
           P == CumSum(g)
<1>1. N \in Nat /\ \A n \in 1..N : g[n] \in Int
  OBVIOUS
<1>2. Running(P, g, N)
  <2>1. \E Q : Running(Q, g, N)
    BY <1>1, RunningExists
  <2>2. P = CHOOSE Q : Running(Q, g, N)
    BY DEF CumSum, Running
  <2> HIDE DEF P
  <2> QED
    BY <2>1, <2>2
<1> HIDE DEF P, N
<1>3. P[0] = 0 /\ \A n \in 1..N : P[n] = P[n - 1] + g[n]
  <2>1. P = [m \in 0..N |-> IF m = 0 THEN 0 ELSE P[m - 1] + g[m]]
    BY <1>2 DEF Running
  <2>2. 0 \in 0..N /\ \A n \in 1..N : n \in 0..N /\ n # 0
    BY <1>1
  <2> QED
    BY <2>1, <2>2
<1> DEFINE T == {n \in 0..N : P[n] \in Int}
<1>4. 0 \in T
  BY <1>1, <1>3
<1>5. \A n \in 0..(N - 1) : n \in T => n + 1 \in T
  <2> SUFFICES ASSUME NEW n \in 0..(N - 1), P[n] \in Int PROVE n + 1 \in T
    OBVIOUS
  <2>1. n + 1 \in 1..N /\ n + 1 \in 0..N /\ (n + 1) - 1 = n
    BY <1>1
  <2>2. P[n + 1] = P[n] + g[n + 1]
    BY <1>3, <2>1
  <2> QED
    BY <1>1, <2>1, <2>2
<1> HIDE DEF T
<1>6. \A n \in 0..N : n \in T
  BY <1>1, <1>4, <1>5, UpTo
<1> QED
  BY <1>3, <1>6 DEF T, P, N

\* The sums over a part of a list are differences of the sums over all of it.
LEMMA SumOfPart ==
  ASSUME NEW g \in Seq(Int), NEW h \in Seq(Int), NEW a \in Nat,
         a + Len(h) <= Len(g), \A n \in 1..Len(h) : h[n] = g[a + n]
  PROVE  \A n \in 0..Len(h) : CumSum(h)[n] = CumSum(g)[a + n] - CumSum(g)[a]
<1> DEFINE G == CumSum(g)
           H == CumSum(h)
           N == Len(h)
           M == Len(g)
           T == {n \in 0..N : H[n] = G[a + n] - G[a]}
<1>1. /\ N \in Nat /\ M \in Nat /\ a + N <= M
      /\ H[0] = 0 /\ \A n \in 1..N : H[n] = H[n - 1] + h[n]
      /\ \A n \in 0..N : H[n] \in Int
      /\ \A n \in 1..M : G[n] = G[n - 1] + g[n]
      /\ \A n \in 0..M : G[n] \in Int
      /\ \A n \in 1..M : g[n] \in Int
      /\ \A n \in 1..N : h[n] = g[a + n]
  BY CumSumIs
<1> HIDE DEF G, H, N, M
<1>2. 0 \in T
  <2>1. a \in 0..M /\ a + 0 = a /\ G[a] \in Int
    BY <1>1
  <2> QED
    BY <1>1, <2>1
<1>3. \A n \in 0..(N - 1) : n \in T => n + 1 \in T
  <2> SUFFICES ASSUME NEW n \in 0..(N - 1), H[n] = G[a + n] - G[a] PROVE n + 1 \in T
    OBVIOUS
  <2>1. /\ n + 1 \in 1..N /\ n + 1 \in 0..N /\ (n + 1) - 1 = n
        /\ a + (n + 1) \in 1..M /\ (a + (n + 1)) - 1 = a + n
        /\ a \in 0..M /\ a + n \in 0..M
    BY <1>1
  <2>2. H[n + 1] = H[n] + g[a + (n + 1)] /\ G[a + (n + 1)] = G[a + n] + g[a + (n + 1)]
    BY <1>1, <2>1
  <2>3. G[a] \in Int /\ G[a + n] \in Int /\ g[a + (n + 1)] \in Int
    BY <1>1, <2>1
  <2> QED
    BY <2>1, <2>2, <2>3
<1> HIDE DEF T
<1>4. \A n \in 0..N : n \in T
  BY <1>1, <1>2, <1>3, UpTo
<1> QED
  BY <1>4 DEF T, G, H, N

\* One value more.
LEMMA SumOfMore ==
  ASSUME NEW g \in Seq(Int), NEW x \in Int
  PROVE  /\ Append(g, x) \in Seq(Int)
         /\ Summed(g) \in Int
         /\ Summed(Append(g, x)) = Summed(g) + x
<1> DEFINE h == Append(g, x)
           N == Len(g)
<1>1. /\ N \in Nat /\ h \in Seq(Int) /\ Len(h) = N + 1 /\ h[N + 1] = x
      /\ \A n \in 1..N : g[n] = h[0 + n]
  OBVIOUS
<1> HIDE DEF h
<1>2. N \in 0..N /\ 0 + N = N /\ N + 1 \in 1..(N + 1) /\ (N + 1) - 1 = N /\ 0 \in Nat
      /\ 0 + N <= N + 1 /\ N \in 0..(N + 1)
  BY <1>1
<1>3. CumSum(g)[N] = CumSum(h)[0 + N] - CumSum(h)[0]
  BY <1>1, <1>2, SumOfPart
<1>4. /\ CumSum(h)[0] = 0 /\ CumSum(h)[N + 1] = CumSum(h)[(N + 1) - 1] + h[N + 1]
      /\ CumSum(h)[N] \in Int
  BY <1>1, <1>2, CumSumIs
<1>5. CumSum(g)[N] = CumSum(h)[N] /\ CumSum(h)[N + 1] = CumSum(h)[N] + x
  BY <1>1, <1>2, <1>3, <1>4
<1> QED
  BY <1>1, <1>4, <1>5 DEF Summed, h

\* Sums of numbers that are not below zero are not either.
LEMMA SumIsNat ==
  ASSUME NEW g \in Seq(Nat)
  PROVE  Summed(g) \in Nat
<1> DEFINE N == Len(g)
           P == CumSum(g)
           T == {n \in 0..N : P[n] \in Nat}
<1>1. g \in Seq(Int)
  OBVIOUS
<1>2. /\ N \in Nat /\ P[0] = 0
      /\ \A n \in 1..N : P[n] = P[n - 1] + g[n] /\ g[n] \in Nat
  BY <1>1, CumSumIs
<1> HIDE DEF P, N
<1>3. 0 \in T
  BY <1>2
<1>4. \A n \in 0..(N - 1) : n \in T => n + 1 \in T
  <2> SUFFICES ASSUME NEW n \in 0..(N - 1), P[n] \in Nat PROVE n + 1 \in T
    OBVIOUS
  <2>1. n + 1 \in 1..N /\ n + 1 \in 0..N /\ (n + 1) - 1 = n
    BY <1>2
  <2>2. P[n + 1] = P[n] + g[n + 1]
    BY <1>2, <2>1
  <2> QED
    BY <1>2, <2>1, <2>2
<1> HIDE DEF T
<1>5. \A n \in 0..N : n \in T
  BY <1>2, <1>3, <1>4, UpTo
<1>6. P[N] \in Nat
  BY <1>2, <1>5 DEF T
<1> QED
  BY <1>6 DEF Summed, P, N

\* The sum of sums.
LEMMA SumTogether ==
  ASSUME NEW g \in Seq(Int), NEW d \in Seq(Int), NEW h \in Seq(Int),
         Len(d) = Len(g), Len(h) = Len(g), \A n \in 1..Len(g) : h[n] = g[n] + d[n]
  PROVE  Summed(h) = Summed(g) + Summed(d)
<1> DEFINE N == Len(g)
           G == CumSum(g)
           D == CumSum(d)
           H == CumSum(h)
           T == {n \in 0..N : H[n] = G[n] + D[n]}
<1>1. /\ N \in Nat /\ G[0] = 0 /\ D[0] = 0 /\ H[0] = 0
      /\ \A n \in 1..N : /\ G[n] = G[n - 1] + g[n] /\ D[n] = D[n - 1] + d[n]
                         /\ H[n] = H[n - 1] + h[n] /\ h[n] = g[n] + d[n]
                         /\ g[n] \in Int /\ d[n] \in Int
      /\ \A n \in 0..N : G[n] \in Int /\ D[n] \in Int
  BY CumSumIs
<1> HIDE DEF N, G, D, H
<1>2. 0 \in T
  BY <1>1
<1>3. \A n \in 0..(N - 1) : n \in T => n + 1 \in T
  <2> SUFFICES ASSUME NEW n \in 0..(N - 1), H[n] = G[n] + D[n] PROVE n + 1 \in T
    OBVIOUS
  <2>1. n + 1 \in 1..N /\ n + 1 \in 0..N /\ n \in 0..N /\ (n + 1) - 1 = n
    BY <1>1
  <2>2. /\ G[n + 1] = G[n] + g[n + 1] /\ D[n + 1] = D[n] + d[n + 1]
        /\ H[n + 1] = (G[n] + D[n]) + (g[n + 1] + d[n + 1])
        /\ G[n] \in Int /\ D[n] \in Int /\ g[n + 1] \in Int /\ d[n + 1] \in Int
    BY <1>1, <2>1
  <2>3. \A u, v, x, y \in Int : (u + v) + (x + y) = (u + x) + (v + y)
    OBVIOUS
  <2>4. H[n + 1] = G[n + 1] + D[n + 1]
    BY <2>2, <2>3
  <2> QED
    BY <2>1, <2>4
<1> HIDE DEF T
<1>4. \A n \in 0..N : n \in T
  BY <1>1, <1>2, <1>3, UpTo
<1>5. H[N] = G[N] + D[N]
  BY <1>1, <1>4 DEF T
<1> QED
  BY <1>5 DEF Summed, H, G, D, N

\* Counting a set by disjoint parts of it: the sizes of the parts are summed.
PartsTo(S, G, n) == {x \in S : \E i \in 1..n : x \in G[i]}

LEMMA SumOfParts ==
  ASSUME NEW S, IsFiniteSet(S), NEW N \in Nat, NEW G,
         \A i \in 1..N : G[i] \subseteq S,
         \A i, j \in 1..N : i # j => G[i] \cap G[j] = {},
         NEW g, DOMAIN g = 1..N, g \in Seq(Int), \A i \in 1..N : g[i] = Cardinality(G[i])
  PROVE  Summed(g) = Cardinality(PartsTo(S, G, N))
<1> DEFINE P == CumSum(g)
           T == {n \in 0..N : P[n] = Cardinality(PartsTo(S, G, n))}
<1>1. /\ Len(g) = N /\ P[0] = 0
      /\ \A n \in 1..N : P[n] = P[n - 1] + g[n]
  BY CumSumIs
<1> HIDE DEF P
<1>2. 0 \in T
  <2>1. PartsTo(S, G, 0) = {}
    BY DEF PartsTo
  <2>2. Cardinality(PartsTo(S, G, 0)) = 0
    BY <2>1, FS_EmptySet
  <2> QED
    BY <1>1, <2>2
<1>3. \A n \in 0..(N - 1) : n \in T => n + 1 \in T
  <2> SUFFICES ASSUME NEW n \in 0..(N - 1), P[n] = Cardinality(PartsTo(S, G, n))
               PROVE  n + 1 \in T
    OBVIOUS
  <2>1. n + 1 \in 1..N /\ n + 1 \in 0..N /\ (n + 1) - 1 = n /\ n \in Nat
    OBVIOUS
  <2> DEFINE A == PartsTo(S, G, n)
             C == G[n + 1]
  <2>2. PartsTo(S, G, n + 1) = A \cup C
    <3>1. \A i : i \in 1..(n + 1) <=> i \in 1..n \/ i = n + 1
      BY <2>1
    <3>2. C \subseteq S
      BY <2>1
    <3> QED
      BY <3>1, <3>2 DEF PartsTo
  <2>3. A \cap C = {}
    <3>1. \A i \in 1..n : i \in 1..N /\ i # n + 1
      OBVIOUS
    <3>2. \A i \in 1..n : G[i] \cap G[n + 1] = {}
      BY <2>1, <3>1
    <3> QED
      BY <3>2 DEF PartsTo
  <2>4. IsFiniteSet(A) /\ IsFiniteSet(C)
    <3>1. A \in SUBSET S /\ C \in SUBSET S
      BY <2>1 DEF PartsTo
    <3> HIDE DEF A, C
    <3> QED
      BY <3>1, FS_Subset
  <2>5. Cardinality(A \cup C) = Cardinality(A) + Cardinality(C)
    <3> HIDE DEF A, C
    <3>1. Cardinality(A \cap C) = 0
      BY <2>3, FS_EmptySet
    <3>2. /\ Cardinality(A \cup C) = Cardinality(A) + Cardinality(C) - Cardinality(A \cap C)
          /\ Cardinality(A) \in Nat /\ Cardinality(C) \in Nat
      BY <2>4, FS_Union, FS_CardinalityType
    <3> QED
      BY <3>1, <3>2
  <2>6. P[n + 1] = Cardinality(A) + Cardinality(C)
    BY <1>1, <2>1
  <2>7. Cardinality(PartsTo(S, G, n + 1)) = Cardinality(A \cup C)
    BY <2>2
  <2> HIDE DEF A, C
  <2> QED
    BY <2>1, <2>5, <2>6, <2>7
<1> HIDE DEF T
<1>4. \A n \in 0..N : n \in T
  BY <1>2, <1>3, UpTo
<1>5. N \in 0..N
  OBVIOUS
<1>6. P[N] = Cardinality(PartsTo(S, G, N))
  BY <1>4, <1>5 DEF T
<1> QED
  BY <1>1, <1>6 DEF Summed, P

\* The elements kept are those at the places kept, from the first to the last.
LEMMA CompressedIs ==
  ASSUME NEW g, NEW keep, keep \subseteq Nat, IsFiniteSet(keep)
  PROVE  \E f : /\ DOMAIN f = 1..Cardinality(keep)
                /\ Compressed(g, keep) = [n \in 1..Cardinality(keep) |-> g[f[n]]]
                /\ \A n \in DOMAIN f : f[n] \in keep
                /\ \A m, n \in DOMAIN f : m < n => f[m] < f[n]
                /\ \A i \in keep : \E n \in DOMAIN f : f[n] = i
<1> DEFINE Less == {p \in keep \X keep : p[1] < p[2]}
           At(n) == CHOOSE i \in keep : Cardinality({k \in keep : k < i}) = n - 1
<1>1. PICK O : O = Less
  OBVIOUS
<1>2. \A a, b \in keep : <<a, b>> \in O <=> a < b
  BY <1>1
<1>3. PICK f : f = [n \in 1..Cardinality(keep) |-> AtRank(n, O, keep)]
  OBVIOUS
<1>4. OrdersStrictly(O, keep)
  <2>1. \A a, b, c \in keep : ~(a < a) /\ (a < b /\ b < c => a < c)
                               /\ (a = b \/ a < b \/ b < a)
    OBVIOUS
  <2> QED
    BY <1>2, <2>1 DEF OrdersStrictly
<1> HIDE DEF Less
<1>5. DOMAIN f = 1..Cardinality(keep)
  BY <1>3
<1>6. \A k \in DOMAIN f : f[k] = AtRank(k, O, keep)
  BY <1>3
<1>7. IsFiniteSet(keep)
  OBVIOUS
<1>8. /\ \A k \in DOMAIN f : f[k] \in keep
      /\ \A j, k \in DOMAIN f : j < k => <<f[j], f[k]>> \in O
      /\ \A r \in keep : \E k \in DOMAIN f : f[k] = r
  <2>1. Cardinality(keep) \in Nat
    BY FS_CardinalityType
  <2> QED
    BY <1>4, <1>5, <1>6, <1>7, <2>1, RankedInOrder
<1>9. \A r \in keep : Preceding(r, O, keep) = {k \in keep : k < r}
  BY <1>2 DEF Preceding
<1>10. \A n \in 1..Cardinality(keep) : At(n) = f[n]
  <2> TAKE n \in 1..Cardinality(keep)
  <2>1. \A i \in keep : Cardinality({k \in keep : k < i}) = Cardinality(Preceding(i, O, keep))
    BY <1>9
  <2>2. \A i : (i \in keep /\ Cardinality({k \in keep : k < i}) = n - 1)
                 <=> (i \in keep /\ Cardinality(Preceding(i, O, keep)) = n - 1)
    BY <2>1
  <2>3. At(n) = AtRank(n, O, keep)
    BY <2>2 DEF AtRank
  <2> QED
    BY <1>5, <1>6, <2>3
<1>11. Compressed(g, keep) = [n \in 1..Cardinality(keep) |-> g[At(n)]]
  BY DEF Compressed
<1> HIDE DEF At
<1>12. Compressed(g, keep) = [n \in 1..Cardinality(keep) |-> g[f[n]]]
  BY <1>10, <1>11
<1>13. \A m, n \in DOMAIN f : m < n => f[m] < f[n]
  BY <1>2, <1>8
<1> QED
  BY <1>5, <1>8, <1>12, <1>13
=============================================================================

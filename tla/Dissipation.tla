---------------------------- MODULE Dissipation ----------------------------
(***************************************************************************)
(* The geometry of a concentrated position, and what a re-placement of it  *)
(* gives up: verification/act1-law/mc_harness.py (the residual of the mint *)
(* arithmetic, its closed forms and the loop of check_identity()),         *)
(* verification/act2-floor/verify_floor.py (withdraw(), rebalance(), the   *)
(* potential and share forms of its cost, the loop of mc_renewal()) and    *)
(* act2-floor/probe_bound.py (the fraction an event gives up).             *)
(*                                                                         *)
(* The walk is the loop of check_identity() and of mc_renewal() at once:   *)
(* they fire and re-place alike, the first always in the middle (d0 = 0).  *)
(*                                                                         *)
(* The harnesses compare floats of random draws within tolerances; here    *)
(* prices and bounds are whole, amounts are exact fractions <<n, d>>, and  *)
(* a log-cost k is kept as the ratio exp(k) of the values before and after.*)
(***************************************************************************)
EXTENDS Integers

CONSTANTS S0, U,     \* first price; half width of the range of the walk
          Steps,     \* moves of the price in a step
          N_STEPS,   \* bound of the model: steps of a path
          Policies,  \* [dd, d0, du]: fire at a displacement, re-place at d0
          Draws      \* geometries: centre c, half width u, price c + d, the
                     \* displacement dp it is re-placed to, a range lo..hi

VARIABLES step, s, centre, L, n_fire, pol,   \* both loops
          sum_J, ito, tanaka,                \* check_identity()
          decay,                             \* mc_renewal()
          draw                               \* the other checks
dvars == <<step, s, centre, L, n_fire, pol, sum_J, ito, tanaka, decay, draw>>
-----------------------------------------------------------------------------
\* Euclid's: row[j] takes every number to its greatest common divisor with j.
Gcd(m, n) ==
  LET row[j \in 0..n] == [i \in Nat |-> IF j = 0 THEN i ELSE row[i % j][j]]
  IN  row[n][m]
Size(n)   == IF n < 0 THEN -n ELSE n
Frac(n, d) == LET g == Gcd(Size(n), Size(d))
              IN IF d > 0 THEN <<n \div g, d \div g>> ELSE <<(-n) \div g, (-d) \div g>>
Whole(n)   == <<n, 1>>
Plus(p, q)  == LET g == Gcd(p[2], q[2])
               IN  Frac(p[1] * (q[2] \div g) + q[1] * (p[2] \div g), p[2] * (q[2] \div g))
Minus(p, q) == Plus(p, <<-q[1], q[2]>>)
Times(p, q) == LET a == Frac(p[1], q[2])  b == Frac(q[1], p[2])
               IN  Frac(a[1] * b[1], a[2] * b[2])
Over(p, q)  == Times(p, IF q[1] > 0 THEN <<q[2], q[1]>> ELSE <<-q[2], -q[1]>>)
Leq(p, q)   == p[1] * q[2] <= q[1] * p[2]
Least(p, q) == IF Leq(p, q) THEN p ELSE q
Most(p, q)  == IF Leq(p, q) THEN q ELSE p

\* Value of a position of one unit of liquidity inside its range.
Phi(p, a, b) == Minus(Whole(2 * p - a), Frac(p * p, b))

\* withdraw(): the two amounts, token0 at its value p * p * x.
Clamped(p, a, b) == IF p < a THEN a ELSE IF p > b THEN b ELSE p
Held0(p, a, b) == LET c == Clamped(p, a, b) IN Frac(p * p * (b - c), c * b)
Held1(p, a, b) == Whole(Clamped(p, a, b) - a)
Worth(p, a, b) == Plus(Held0(p, a, b), Held1(p, a, b))

\* The liquidity the amounts mint in [a2, b2] at p: the side that binds.
MintMin(p, a, b, a2, b2) ==
  Least(Over(Held0(p, a, b), Held0(p, a2, b2)), Over(Held1(p, a, b), Held1(p, a2, b2)))

\* rebalance(): the ratio of the values before and after.
CostRatio(p, a, b, a2, b2) ==
  Over(Worth(p, a, b), Times(MintMin(p, a, b, a2, b2), Worth(p, a2, b2)))
Share0(p, a, b) == Over(Held0(p, a, b), Worth(p, a, b))
Share1(p, a, b) == Over(Held1(p, a, b), Worth(p, a, b))

\* residual_mint() and its closed forms, by unit of liquidity.
Residual(c, u, d) ==
  LET p == c + d
  IN  Minus(Phi(p, c - u, c + u),
            Times(MintMin(p, c - u, c + u, p - u, p + u), Phi(p, p - u, p + u)))
UpClosed(c, u, d)   == Frac(d * (2 * c + u + d), c + u)
DownClosed(c, u, d) == Frac(-d * (c + d) * (2 * c + u + d), (c + u) * (c + u + d))

\* event_fraction2(): the part of the value an event gives up.
EventFraction(c, u, d, dp) ==
  LET p == c + d  a2 == p - dp - u  b2 == p - dp + u
      v == Phi(p, c - u, c + u)
  IN  Over(Minus(v, Times(MintMin(p, c - u, c + u, a2, b2), Phi(p, a2, b2))), v)

\* exp of cup() and cdn(), at the price p, and the potential difference.
ExpUp(u, p, x)   == Frac(u * (2 * p + u) - x * x, u - x)
ExpDown(u, p, x) == Frac(u * (2 * p + u) - x * x, (u + x) * (p + u - x))
Potential(c, u, d, dp) == Most(Over(ExpUp(u, c + d, d), ExpUp(u, c + d, dp)),
                               Over(ExpDown(u, c + d, d), ExpDown(u, c + d, dp)))

\* The checks of both harnesses, on one geometry.
Amplitudes(c, u, d) ==
  Residual(c, u, d) = IF d >= 0 THEN UpClosed(c, u, d) ELSE DownClosed(c, u, d)
Corners(c, u) == /\ Residual(c, u, u) = Whole(2 * u)
                 /\ Residual(c, u, -u) = Frac(2 * u * (c - u), c + u)
Monotone(c, u) ==      \* on the grid of whole displacements
  \A m \in 1..u : Leq(DownClosed(c, u, 1 - m), DownClosed(c, u, -m))
Check1(c, u, d, dp) ==
  LET p == c + d IN CostRatio(p, c - u, c + u, p - dp - u, p - dp + u) = Potential(c, u, d, dp)
Check2(c, u, d, lo, hi) ==
  LET p == c + d  a == c - u  b == c + u
  IN  CostRatio(p, a, b, lo, hi) = Most(Over(Share0(p, lo, hi), Share0(p, a, b)),
                                        Over(Share1(p, lo, hi), Share1(p, a, b)))
Check8(c, u, d) ==
  LET p == c + d  a == c - u  b == c + u  w == 2 * u
      v  == Phi(p, a, b)            \* its derivative, the share's, and the next
      dv == Frac(2 * (b - p), b)
      g  == Whole((p - a) * (p - a) + a * w)
      om == Over(Frac(p * (b - p), b), v)
      fall == Over(g, Times(Whole(b), Times(v, v)))
      bend == Over(Minus(Times(Whole(2 * (p - a)), v), Times(Whole(2), Times(g, dv))),
                   Times(Whole(b), Times(v, Times(v, v))))
  IN  /\ Leq(v, Whole(w))
      /\ Share0(p, a, b) = om
      /\ fall = Over(Minus(Times(om, dv), Frac(b - 2 * p, b)), v)
      /\ Leq(Frac(a, b * w), fall)
      /\ Leq(<<Size(bend[1]), bend[2]>>, Frac(12 * b * b, a * a * a * w))
-----------------------------------------------------------------------------
\* f_val(), f_prime() and half of f_second(), by unit of liquidity.
FVal(p, a, b) == IF p <= a THEN Frac(p * p * (b - a), a * b)
                 ELSE IF p >= b THEN Whole(b - a) ELSE Phi(p, a, b)
FPrime(p, a, b) == IF p <= a THEN Frac(2 * p * (b - a), a * b)
                   ELSE IF p >= b THEN Whole(0) ELSE Frac(2 * (b - p), b)
HalfFSecond(p, a, b) == IF p <= a THEN Frac(b - a, a * b)
                        ELSE IF p >= b THEN Whole(0) ELSE Frac(-1, b)

Sa == centre - U
Sb == centre + U
Fires(p) == p - centre <= pol.dd \/ p - centre >= pol.du
New(p)   == Times(L, MintMin(p, Sa, Sb, p - pol.d0 - U, p - pol.d0 + U))
Repriced(p) ==         \* mutant: the liquidity replaced before it is priced
  Times(New(p), Minus(Phi(p, Sa, Sb), Phi(p, p - pol.d0 - U, p - pol.d0 + U)))
J(p)     == Minus(Times(L, Phi(p, Sa, Sb)),
                  Times(New(p), Phi(p, p - pol.d0 - U, p - pol.d0 + U)))

Init == /\ step = 0 /\ s = S0 /\ n_fire = 0
        /\ pol \in Policies /\ centre = S0 - pol.d0
        /\ L = Whole(1) /\ decay = Whole(1)
        /\ sum_J = Whole(0) /\ ito = Whole(0) /\ tanaka = Whole(0)
        /\ draw \in Draws

Replace ==
  /\ Fires(s')
  /\ sum_J' = Plus(sum_J, J(s'))
  /\ decay' = Times(decay, CostRatio(s', Sa, Sb, s' - pol.d0 - U, s' - pol.d0 + U))
  /\ n_fire' = n_fire + 1
  /\ L' = New(s')
  /\ centre' = s' - pol.d0

Step(ds) ==
  /\ step < N_STEPS /\ s + ds > 0     \* s = exp(logs)
  /\ step' = step + 1
  /\ s' = s + ds
  /\ ito' = Plus(ito, Times(L, Times(FPrime(s, Sa, Sb), Whole(ds))))
  /\ tanaka' = Plus(tanaka, Times(L, Times(HalfFSecond(s, Sa, Sb), Whole(ds * ds))))
  /\ \/ Replace
     \/ ~Fires(s') /\ UNCHANGED <<sum_J, decay, n_fire, L, centre>>
  /\ UNCHANGED <<pol, draw>>

Next == \E ds \in Steps : Step(ds)
Spec == Init /\ [][Next]_dvars
-----------------------------------------------------------------------------
\* The dissipation identity, exactly and after every step: what the firings
\* gave up and the value still held are accounted for by the path alone (the
\* harness asserts it within 2e-2 at the end).  It needs that a step stays
\* within the range: J is priced with phi, which is no value outside of it.
IdentityHolds ==
  Minus(Plus(sum_J, Times(L, FVal(s, Sa, Sb))), FVal(S0, S0 - pol.d0 - U, S0 - pol.d0 + U))
    = Plus(ito, tanaka)

\* Every firing gives something up, in value and in the decay, and leaves some.
Dissipates == /\ 0 <= sum_J[1] /\ (n_fire = 0 <=> sum_J[1] = 0)
              /\ Leq(Whole(1), decay) /\ (n_fire = 0 <=> decay = Whole(1))
              /\ 0 < L[1]

\* The down branch grows with the displacement below the width ratio
\* (sqrt(17) - 3) / 2, where u * u + 3 * c * u = 2 * c * c, and no further above it
\* than the last step of the grid allows (check 3 of act 1).
Threshold(c, u) ==
  /\ u * u + 3 * c * u <= 2 * c * c => Monotone(c, u)
  /\ Monotone(c, u) <=> u * u + 3 * c * u <= 2 * c * c + 3 * c - 2 * u + 1

\* The closed forms of the residual are the mint arithmetic's, on both sides and
\* up to the corners (checks 1 and 2 of act 1).
ClosedForms == /\ Amplitudes(draw.c, draw.u, draw.d) /\ Corners(draw.c, draw.u)
               /\ Threshold(draw.c, draw.u)

\* The cost of a re-placement is the larger of two potential differences, and of
\* two share ratios when the width changes (checks 1 and 2 of act 2): it is
\* never negative, nothing exactly where the shares are kept (check 3), and the
\* fraction that probe_bound.py computes by itself is the same cost.
PotentialForms ==
  LET c == draw.c  u == draw.u  d == draw.d  p == c + d
      k == CostRatio(p, c - u, c + u, draw.lo, draw.hi)
  IN  /\ Check1(c, u, d, draw.dp)
      /\ Check2(c, u, d, draw.lo, draw.hi)
      /\ Leq(Whole(1), k)
      /\ k = Whole(1) <=> Share0(p, draw.lo, draw.hi) = Share0(p, c - u, c + u)
      /\ Times(Minus(Whole(1), EventFraction(c, u, d, draw.dp)), Potential(c, u, d, draw.dp))
           = Whole(1)

\* The exact clock: a unit of liquidity is worth at most the width, and its share
\* of token0 falls at least as fast as one bound and bends no more than another
\* (check 8 of act 2).
ClockBounds == Check8(draw.c, draw.u, draw.d)
=============================================================================

------------------------------ MODULE GridQVI ------------------------------
(***************************************************************************)
(* calibration/item2_sharp_constant/qvi_solver.py, qvi_policy_iteration(): *)
(* policy iteration for the impulse control of a displacement on a grid,   *)
(* with the jump law of jump_spec() and the cycle algebra of               *)
(* four_param_rate() as a second reading of the same gain.                 *)
(*                                                                         *)
(* Data that is abstracted: a walk step lasts one unit (dt), the cost      *)
(* kernel is the larger of two potentials (k_narrow_vec), with whole       *)
(* values, and probabilities are whole weights over their sum.  Linear     *)
(* systems are solved exactly: a value is a fraction <<n, d>> with d > 0,  *)
(* so that the tolerance 1e-12 of the comparisons is 0.                    *)
(***************************************************************************)
EXTENDS Integers, Sequences, FiniteSets, FiniteSetsExt

CONSTANTS BAND,        \* half the number of grid states in the band
          EXT,         \* states added beyond each edge for jumps, or 0
          Weights,     \* offset -> weight of a walk step or a jump
          Potentials,  \* the cost potentials, each -BAND..BAND -> Int
          K_CAP,
          MAX_ITER     \* 200

States   == -(BAND + EXT)..(BAND + EXT)      \* displacement 0 is the centre
Interior == -BAND..BAND
Targets  == -BAND..BAND
Centre   == 0
Forced   == (States \ Interior) \cup {-BAND, BAND}
Continue == 1000        \* the code's -1: no target

VARIABLES pot,     \* the potential of this run
          action,  \* state -> Continue or the target it fires to
          iter,
          gains    \* g_hist

qvars == <<pot, action, iter, gains>>

K(i, j) == IF i \notin Interior THEN K_CAP
           ELSE Min({K_CAP, Max({pot[i] - pot[j], pot[-i] - pot[-j]})})

Init == /\ pot \in Potentials
        /\ action = [i \in States |-> IF i \in Forced THEN Centre ELSE Continue]
        /\ iter = 0
        /\ gains = <<>>
-----------------------------------------------------------------------------
(* jump_spec(): the mass of each size from a survival function on the grid  *)
(* offsets lo..hi, the tail folded into the last one, half of it each way.  *)
JumpMass(surv, lo, hi) == [o \in lo..hi |-> IF o = hi THEN surv[o]
                                            ELSE surv[o] - surv[o + 1]]
JumpWeights(surv, lo, hi, walk) ==
  LET m == JumpMass(surv, lo, hi)
      Way(o) == (IF o \in {0 - 1, 1} THEN walk ELSE 0)
                + (IF o \in lo..hi THEN m[o] ELSE 0)
                + (IF -o \in lo..hi THEN m[-o] ELSE 0)
  IN [o \in (-hi..hi) \ {0} |-> Way(o)]

Clip(i) == Max({-(BAND + EXT), Min({i, BAND + EXT})})
Total   == MapThenSumSet(LAMBDA o : Weights[o], DOMAIN Weights)

(* Rows of the system of evaluate(): the relative values, the gain, and the *)
(* reference state at zero.                                                 *)
Size   == Cardinality(States) + 1
At(i)  == i + BAND + EXT + 1
Ind(b) == IF b THEN 1 ELSE 0
Row(act, i, c) ==        \* coefficient of column c in the row of state i
  IF act[i] # Continue
  THEN Ind(c = At(i)) - Ind(c = At(act[i]))
  ELSE IF c = Size THEN Total
  ELSE Ind(c = At(i)) * Total
         - MapThenSumSet(LAMBDA o : Weights[o] * Ind(c = At(Clip(i + o))),
                         DOMAIN Weights)
Matrix(act) == [r \in 1..Size |-> [c \in 1..Size |->
                  IF r = Size THEN Ind(c = At(Centre))
                  ELSE Row(act, r - At(0), c)]]
Rhs(act) == [r \in 1..Size |-> IF r = Size \/ act[r - At(0)] = Continue THEN 0
                               ELSE K(r - At(0), act[r - At(0)])]

(* Fraction-free elimination of the augmented matrix (the last column is    *)
(* the right side): returns the matrix with the determinant on its diagonal.*)
Whole(f) == SubSeq(f, 1, Len(f))     \* the function as a tuple: TLC evaluates it
RECURSIVE Eliminate(_, _, _)
Eliminate(m, k, prev) ==
  IF k > Size THEN m
  ELSE LET rows == {r \in k..Size : m[r][k] # 0}
       IN IF rows = {} THEN <<>>             \* singular
          ELSE LET p  == Min(rows)
                   sw == [m EXCEPT ![k] = m[p], ![p] = m[k]]
                   nx == Whole([r \in 1..Size |-> IF r = k THEN sw[k] ELSE
                           Whole([c \in 1..(Size + 1) |->
                             (sw[k][k] * sw[r][c] - sw[r][k] * sw[k][c])
                                \div prev])])
               IN Eliminate(nx, k + 1, sw[k][k])

Solve(act) == LET M == Matrix(act)
                  b == Rhs(act)
              IN Eliminate(Whole([r \in 1..Size |-> Append(M[r], b[r])]), 1, 1)
Solvable(act) == Solve(act) # <<>>
Frac(n, d) == IF d > 0 THEN <<n, d>> ELSE <<-n, -d>>
(* evaluate(): the values of all states and the gain, over one denominator. *)
Evaluate(act) ==
  LET m == Solve(act)
      d == m[Size][Size]
      V(c) == Frac(m[c][Size + 1], d)[1]
  IN [h |-> [i \in States |-> V(At(i))], g |-> V(Size), d |-> Frac(1, d)[2]]
-----------------------------------------------------------------------------
(* One improvement, in units of 1/d and times Total where a state goes on.  *)
Others(i)        == Targets \ {i}            \* firing to itself is excluded
FireVal(v, i, j) == K(i, j) * v.d + v.h[j]
BestFire(v, i)   == Min({FireVal(v, i, j) : j \in Others(i)})
BestCol(v, i)    == Min({j \in Others(i) : FireVal(v, i, j) = BestFire(v, i)})
ContVal(v, i)    == MapThenSumSet(LAMBDA o : Weights[o] * v.h[Clip(i + o)],
                                  DOMAIN Weights) - Total * v.g
CurVal(v, i)     == IF action[i] = Continue THEN ContVal(v, i)
                    ELSE Total * FireVal(v, i, action[i])

\* mutant: a state that goes on is never made to fire
NeverFires(v, i) == action[i]
Improved(v, i) ==
  IF /\ i \notin Forced
     /\ ContVal(v, i) < Total * BestFire(v, i) /\ ContVal(v, i) < CurVal(v, i)
  THEN Continue
  ELSE IF /\ Total * BestFire(v, i) < CurVal(v, i)
          /\ i \in Forced \/ Total * BestFire(v, i) < ContVal(v, i)
  THEN BestCol(v, i)
  ELSE action[i]

\* The loop was left by its break: the gain of the last policy is in g_hist, and
\* no later round counts it.
Ended == Len(gains) > iter

Iterate == /\ iter < MAX_ITER /\ ~Ended
           /\ LET v == Evaluate(action)
                  new == [i \in States |-> Improved(v, i)]
              IN /\ gains' = Append(gains, <<v.g, v.d>>)
                 /\ \/ new = action /\ UNCHANGED <<action, iter>>       \* break
                    \/ new # action /\ action' = new /\ iter' = iter + 1
           /\ UNCHANGED pot
Next == Iterate
Spec == Init /\ [][Next]_qvars

\* The gain the solver reports: that of the last policy it evaluated.
Reported == gains[Len(gains)]
-----------------------------------------------------------------------------
(* four_param_rate(): fire at du to tu and at dd to td; the embedded chain  *)
(* of the last target, with Brownian exits.  The gain is <<cost, time>>.    *)
Thresholds == {q \in Interior \X Interior \X Interior \X Interior :
                 /\ q[3] < 0 /\ 0 < q[1]
                 /\ q[3] < q[2] /\ q[2] < q[1] /\ q[3] < q[4] /\ q[4] < q[1]}
FourParam(q) ==
  LET du == q[1]  tu == q[2]  dd == q[3]  td == q[4]
      ku == K(du, tu)
      kd == K(dd, td)
      wu == td - dd               \* weight of "last re-placed at tu"
      wd == du - tu               \* ... at td
      cost == wu * ((tu - dd) * ku + (du - tu) * kd)
                + wd * ((td - dd) * ku + (du - td) * kd)
      time == wu * (tu - dd) * (du - tu) + wd * (td - dd) * (du - td)
  IN <<cost, time * (du - dd)>>
Policy(q) == [i \in States |-> IF i >= q[1] THEN q[2]
                               ELSE IF i <= q[3] THEN q[4] ELSE Continue]
LeqFrac(a, b) == a[1] * b[2] <= b[1] * a[2]
-----------------------------------------------------------------------------
TypeOK == /\ pot \in Potentials
          /\ \A i \in States : action[i] \in Targets \cup {Continue}
          /\ \A i \in Forced : action[i] # Continue
          /\ iter \in 0..MAX_ITER

\* No policy the iteration visits leaves evaluate() a singular system: firing
\* states never send to each other in a circle, although fire targets may be
\* firing states themselves (np.linalg.solve would raise, l.284).
EvaluateSolves == Solvable(action)

\* The gain never rises from one policy to the next, the last one, whose gain is
\* reported, included; and the loop ends by its break, before the limit.
GainFalls == /\ \A n \in 2..Len(gains) : LeqFrac(gains[n], gains[n - 1])
             /\ iter < MAX_ITER

\* What is reported no four-parameter policy of the grid does better than, with
\* jumps or without: the iteration has no local optimum to stop at.
BeatsThresholds ==
  Ended => \A q \in Thresholds :
             LET v == Evaluate(Policy(q)) IN LeqFrac(Reported, <<v.g, v.d>>)

\* The cycle algebra and the linear system give one gain to every policy that
\* both describe.
AlgebraAgrees ==
  EXT = 0 /\ iter = 0 =>
    \A q \in Thresholds :
      LET v == Evaluate(Policy(q))
      IN v.g * FourParam(q)[2] = FourParam(q)[1] * v.d
=============================================================================

----------------------------- MODULE Surcharge -----------------------------
(***************************************************************************)
(* calibration/item3_stress_maps/stress_maps.py, run_part_b(): one column  *)
(* of the jump-surcharge worlds.  The policy fires at displacement X up or *)
(* down and recentres fully; jumps go up only.  A firing that a jump       *)
(* caused is compared with the firing the diffusion alone would have made. *)
(*                                                                         *)
(* "The Sharp Constant search's policy machinery" (l.23) is PolicyZoo with *)
(* the policy (X, 0, X, 0): this module is shown to implement it.          *)
(***************************************************************************)
EXTENDS Integers

CONSTANTS S0, H, X,       \* first price, half width, trigger x * h
          Steps, Jumps,   \* displacements of a step; of a jump, none is 0
          Potential,      \* 0..(H-1) and below -> Int, as in PolicyZoo
          SLOPE,          \* the potential's slope 1/h, in its units
          K_CAP, N_STEPS

VARIABLES step, s, minS, centre, cost, nF,
          premSum, ojSum, nJ, nBeyond, costBeyond

bvars == <<step, s, minS, centre, cost, nF, premSum, ojSum, nJ, nBeyond,
           costBeyond>>

Init == /\ step = 0 /\ s = S0 /\ minS = S0 /\ centre = S0
        /\ cost = 0 /\ nF = 0
        /\ premSum = 0 /\ ojSum = 0 /\ nJ = 0 /\ nBeyond = 0 /\ costBeyond = 0

Burn == N_STEPS \div 5
Most(a, b)  == IF a >= b THEN a ELSE b
Least(a, b) == IF a <= b THEN a ELSE b
Plus(n, yes, k) == IF yes THEN n + k ELSE n

Fired(d)  == d >= X \/ d <= -X
K(d) == IF d <= -H \/ d >= H THEN K_CAP       \* a full recentre
        ELSE Least(K_CAP, IF d >= 0 THEN Potential[d] ELSE Potential[-d])

\* A jump's firing: the displacement before it was under the trigger.
JumpFire(d, dPre, jump) == d >= X /\ jump # 0 /\ dPre < X
\* mutant: the overshoot is counted from where the jump began
FromPre(d, dPre) == d - dPre
Overshoot(d, dPre) == d - Most(dPre, X)
Hypothetical(d, dPre) == Least(Most(dPre, X), d)
Premium(d, dPre) == K(d) - K(Hypothetical(d, dPre))

Beyond(d) == d >= H

Step(move, jump) ==
  LET p      == s + move + jump
      d      == p - centre
      dPre   == s + move - centre
      count  == step >= Burn
      inside == JumpFire(d, dPre, jump) /\ d < H
      beyond == JumpFire(d, dPre, jump) /\ Beyond(d)
  IN /\ step < N_STEPS
     /\ step' = step + 1
     /\ s' = p
     /\ minS' = Least(minS, p)
     /\ cost'       = Plus(cost, count /\ Fired(d), K(d))
     /\ nF'         = Plus(nF, count /\ Fired(d), 1)
     /\ premSum'    = Plus(premSum, count /\ inside, Premium(d, dPre))
     /\ ojSum'      = Plus(ojSum, count /\ inside, Overshoot(d, dPre))
     /\ nJ'         = Plus(nJ, count /\ inside, 1)
     /\ nBeyond'    = Plus(nBeyond, count /\ beyond, 1)
     /\ costBeyond' = Plus(costBeyond, count /\ beyond, K(d))
     /\ centre' = IF Fired(d) THEN p ELSE centre

Next == \E move \in Steps, jump \in Jumps : Step(move, jump)
Spec == Init /\ [][Next]_bvars

(* A cell of the result, from the replicas that stayed on the domain.       *)
Alive(floor) == minS > floor
-----------------------------------------------------------------------------
\* The measured surcharge is at least its lower bound (l.410-413): of the
\* firings a jump caused inside the range, the premium over the diffusion's
\* firing is no less than the overshoot over the half width.
SurchargeBound == premSum >= SLOPE * ojSum

\* Every firing is priced in one place: what jumps cost beyond the range and
\* their surcharge inside it are parts of the total, and no firing is both.
CostSplits == /\ nJ + nBeyond <= nF
              /\ costBeyond = K_CAP * nBeyond
              /\ premSum + costBeyond <= cost

Zoo == INSTANCE PolicyZoo WITH
         AU <- X, AD <- X, TU <- 0, TD <- 0, nFire <- nF,
         jCost <- 0, nJumpFire <- 0, nCap <- 0

\* Part B moves, fires, recentres and prices as the zoo does (l.23).
MovesAsZoo == [][\E move \in Steps, jump \in Jumps : Zoo!Move(move, jump)]_bvars
=============================================================================

----------------------------- MODULE PolicyZoo -----------------------------
(***************************************************************************)
(* calibration/item2_sharp_constant/mc_policy_zoo.py, simulate(): one      *)
(* column of the tensors, that is one replica of one policy.  The policy   *)
(* fires when the displacement from its centre reaches AU above or AD      *)
(* below, and re-places to displacement TU or -TD.                         *)
(*                                                                         *)
(* Data that is abstracted: prices are integers, the noise of a step is    *)
(* one of Steps, a jump one of Jumps (its size is truncated by the code,   *)
(* so that few stand for all), and the log-cost is a potential: leaving    *)
(* displacement d costs Potential[d], and a landing outside the range the  *)
(* cap.  What the properties need of the mint arithmetic is that it grows  *)
(* with the displacement.                                                  *)
(***************************************************************************)
EXTENDS Integers

CONSTANTS S0, H,           \* first price, half width of the range
          AU, TU, AD, TD,  \* the policy
          Steps, Jumps,    \* displacements of a step; of a jump, none is 0
          Potential,       \* -(H-1)..(H-1) -> Int
          K_CAP,           \* 10: the log-cost of a total loss
          N_STEPS          \* bound of the model: steps of a path

(* What build_zoo() draws: targets inside the band, triggers in the range.  *)
InBand(d)  == -AD < d /\ d < AU
ZooPolicy  == AU < H /\ AD < H /\ InBand(TU) /\ InBand(-TD)

VARIABLES step, s, minS, centre, cost, nFire, jCost, nJumpFire, nCap

zvars == <<step, s, minS, centre, cost, nFire, jCost, nJumpFire, nCap>>

Init == /\ step = 0
        /\ s = S0 /\ minS = S0 /\ centre = S0
        /\ cost = 0 /\ nFire = 0 /\ jCost = 0 /\ nJumpFire = 0 /\ nCap = 0

Burn == N_STEPS \div 5      \* the transient from the centred start

Fires(d)   == d >= AU \/ d <= -AD
Target(d)  == IF d >= AU THEN TU ELSE -TD

InRange(d) == -H < d /\ d < H
\* k of a re-placement from displacement d to t: the potential on the side
\* that is short after it, and the cap beyond the range.
LogCost(d, t) ==
  IF ~InRange(d) THEN K_CAP
  ELSE LET k == IF d >= t THEN Potential[d] - Potential[t]
                ELSE Potential[-d] - Potential[-t]
       IN IF k > K_CAP THEN K_CAP ELSE k

Least(a, b) == IF a <= b THEN a ELSE b
Plus(n, yes, k) == IF yes THEN n + k ELSE n

Counted(d) == Fires(d) /\ step >= Burn

(* One step of the loop: the price moves, and the policy answers.           *)
Move(move, jump) ==
  LET p == s + move + jump
      d == p - centre
  IN /\ step < N_STEPS
     /\ step' = step + 1
     /\ s' = p
     /\ minS' = Least(minS, p)
     /\ cost' = Plus(cost, Counted(d), LogCost(d, Target(d)))
     /\ nFire' = Plus(nFire, Counted(d), 1)
     /\ centre' = IF Fires(d) THEN p - Target(d) ELSE centre

(* What is counted of firings in a step that jumped, and of capped ones.    *)
OfJumps(d, jump) == Counted(d) /\ jump # 0
Apart(d, jump) ==
  LET k == LogCost(d, Target(d))
  IN /\ nCap'      = Plus(nCap, Counted(d) /\ k >= K_CAP, 1)
     /\ jCost'     = Plus(jCost, OfJumps(d, jump), k)
     /\ nJumpFire' = Plus(nJumpFire, OfJumps(d, jump), 1)

Step(move, jump) == Move(move, jump) /\ Apart((s + move + jump) - centre, jump)

Next == \E move \in Steps, jump \in Jumps : Step(move, jump)
Spec == Init /\ [][Next]_zvars

(* A replica whose price came near the domain's edge is left out.           *)
Alive(floor) == minS > floor
-----------------------------------------------------------------------------
TypeOK == /\ step \in 0..N_STEPS
          /\ s \in Int /\ minS \in Int /\ centre \in Int
          /\ cost \in Int /\ nFire \in 0..N_STEPS /\ jCost \in Int
          /\ nJumpFire \in 0..N_STEPS /\ nCap \in 0..N_STEPS

\* After every step, however far a jump carried the price, the position lies
\* strictly between its triggers: no firing is left over to the next step
\* and none is made twice, for every policy build_zoo() may draw.
RestsInBand == ZooPolicy => InBand(s - centre)

\* The counters are of the same firings: the share of the cost that jumps
\* caused is a share, and a capped event, a landing beyond the range, is a
\* jump's as long as a step is smaller than the gap from trigger to edge.
SharesOfOne ==
  /\ nJumpFire <= nFire /\ nCap <= nFire
  /\ jCost <= cost
  /\ (\A m \in Steps : InRange(AU + m) /\ InRange(m - AD)) => nCap <= nJumpFire
  /\ K_CAP * nCap <= cost /\ cost <= K_CAP * nFire
=============================================================================

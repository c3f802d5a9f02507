----------------------------- MODULE Recentring -----------------------------
(***************************************************************************)
(* The policy zoo and Part B's surcharge worlds in one behaviour: `script' *)
(* names the one that runs, and both price with the same potential.        *)
(*                                                                         *)
(* The assumption is what build_zoo() and run_part_b() draw, and of the    *)
(* mint arithmetic that it grows with the displacement, on the upper side  *)
(* by SLOPE a unit at least, and reaches the cap nowhere inside the range: *)
(* a unit of displacement is coarser than the e^-10 of the range where the *)
(* code's own k comes to 10.                                               *)
(***************************************************************************)
EXTENDS Integers

CONSTANTS S0, H, Steps, LogPotential, K_CAP, N_STEPS,
          AU, TU, AD, TD, ZooJumps,     \* PolicyZoo's
          TRIGGER, SLOPE, SurJumps      \* Surcharge's

VARIABLES script,
          step, s, minS, centre, cost, nFire,
          jCost, nJumpFire, nCap,                   \* the zoo's own
          premSum, ojSum, nJ, nBeyond, costBeyond   \* Part B's own

walkVars == <<step, s, minS, centre, cost, nFire>>
zooVars  == <<jCost, nJumpFire, nCap>>
surVars  == <<premSum, ojSum, nJ, nBeyond, costBeyond>>
recVars  == <<script, walkVars, zooVars, surVars>>

Zoo == INSTANCE PolicyZoo WITH Jumps <- ZooJumps, Potential <- LogPotential
Sur == INSTANCE Surcharge WITH Jumps <- SurJumps, Potential <- LogPotential,
         X <- TRIGGER, nF <- nFire

ASSUME RecentringAssumption ==
  /\ S0 \in Int /\ H \in Nat /\ K_CAP \in Nat /\ N_STEPS \in Nat /\ SLOPE \in Nat
  /\ Steps \subseteq Int /\ ZooJumps \subseteq Int /\ SurJumps \subseteq Int
  /\ {AU, AD, TRIGGER} \subseteq 1..(H - 1)
  /\ {TU, TD} \subseteq Int /\ Zoo!ZooPolicy
  /\ LogPotential \in [-(H - 1)..(H - 1) -> Int] /\ LogPotential[0] = 0
  /\ \A x, y \in -(H - 1)..(H - 1) :
       x <= y => LogPotential[y] - LogPotential[x] \in 0..(K_CAP - 1)
  /\ \A x, y \in 0..(H - 1) : x <= y => LogPotential[y] - LogPotential[x] >= SLOPE * (y - x)

RecInit == Zoo!Init /\ Sur!Init
RecNext == /\ UNCHANGED script
           /\ \/ script = "zoo" /\ Zoo!Next /\ UNCHANGED surVars
              \/ script = "surch" /\ Sur!Next /\ UNCHANGED zooVars
RecSpec == RecInit /\ [][RecNext]_recVars

\* Every policy rests strictly between its triggers and its counters are of one
\* set of firings; the surcharge has its lower bound and splits the cost; and
\* Part B's column moves, fires, recentres and prices as the zoo's does.
RecentringsPriced ==
  /\ [](script = "zoo" => Zoo!RestsInBand /\ Zoo!SharesOfOne)
  /\ [](script = "surch" => Sur!SurchargeBound /\ Sur!CostSplits)
  /\ [][script = "surch" =>
          \E move \in Steps, jump \in SurJumps : Sur!Zoo!Move(move, jump)]_<<walkVars, surVars>>
=============================================================================

--------------------------- MODULE MCCalibration ---------------------------
(* The calibration scripts, one per behaviour: `script' names the one that    *)
(* runs, the variables of the others keep their first values.                 *)
(*   map     BracketMap over paths of seven blocks (with VectorScan)          *)
(*   zoo     PolicyZoo, five steps with jumps either way                      *)
(*   surch   Surcharge, five steps, jumps up                                  *)
(*   qvi     GridQVI without jumps, on seven states and their potentials      *)
(*   qvij    GridQVI with jumps of one to three, on five states extended      *)
(*   spec    Spectrometer, five blocks, three operators of three geometries,  *)
(*           at the base width and at twice the width (robustness_sweep.py)   *)
(*   law     Dissipation, three steps of three policies, and 60 geometries    *)
EXTENDS BracketMap, Recentring, Inversion, PathLaw

MCMoves  == {-1, 3}
MCJumps  == {4}
MCKappas == {1, 2, 4}
MCAbars  == {1, 2, 3}

VARIABLES pot, action, iter, gains                             \* qvi and qvij

mapVars  == <<vars, counts>>
qviVars  == <<pot, action, iter, gains>>
all == <<script, mapVars, walkVars, zooVars, surVars, qviVars, specVars, lawVars>>

MCSteps    == -1..1
MCZooJumps == {0, 2, 5, -3}
MCSurJumps == {0, 2, 5}
Table == [d \in -3..3 |-> CASE d = -3 -> -6 [] d = -2 -> -4 [] d = -1 -> -2
            [] d = 0 -> 0 [] d = 1 -> 3 [] d = 2 -> 7 [] d = 3 -> 14]

\* Convex potentials, by their increments; the walk, and walk and jumps of an
\* exponential-like survival.
Narrow(p, q, r) == [x \in -3..3 |-> CASE x = -3 -> -1 - p - q [] x = -2 -> -1 - p
                      [] x = -1 -> -1 [] x = 0 -> 0 [] x = 1 -> p [] x = 2 -> p + q
                      [] x = 3 -> p + q + r]
Wide(p, q)      == [x \in -2..2 |-> CASE x = -2 -> -1 - p [] x = -1 -> -1
                      [] x = 0 -> 0 [] x = 1 -> p [] x = 2 -> p + q]
MCNarrow == {Narrow(p, q, r) : p \in 1..2, q \in 2..4, r \in {4, 6, 9}}
MCWide   == {Wide(p, q) : p \in 1..3, q \in 3..8}
Survival == [o \in 1..3 |-> 4 - o]
Qvi  == INSTANCE GridQVI WITH BAND <- 3, EXT <- 0, Weights <- [o \in {-1, 1} |-> 1],
          Potentials <- MCNarrow, K_CAP <- 40, MAX_ITER <- 6
QviJ == INSTANCE GridQVI WITH BAND <- 2, EXT <- 2,
          Weights <- Qvi!JumpWeights(Survival, 1, 2, 3),
          Potentials <- MCWide, K_CAP <- 40, MAX_ITER <- 6

MCMix == <<[period |-> 1, dwell |-> 0, pen |-> 0], [period |-> 2, dwell |-> 2, pen |-> 0],
           [period |-> 1, dwell |-> 0, pen |-> 2]>>
MCSweeps == <<[k |-> 2, era |-> 5, abar |-> 2], [k |-> 3, era |-> 3, abar |-> 2],
              [k |-> 3, era |-> 5, abar |-> 1]>>
MCIncrements == {<<-1, 0>>, <<1, 0>>, <<1, 3>>}
MCWidths == {1, 2}

MCDraws == {[c |-> 7, u |-> h + 1, d |-> d, dp |-> dp, lo |-> 7 + d - l, hi |-> 7 + d + h] :
              d \in -2..2, dp \in {-2, 0, 1}, l \in {1, 4}, h \in {2, 4}}
MCPolicies == {[dd |-> -2, d0 |-> 0, du |-> 2], [dd |-> -2, d0 |-> 1, du |-> 2],
               [dd |-> -1, d0 |-> 0, du |-> 2]}
MCPriceMoves == {-2, -1, 1, 2}

First(S) == CHOOSE e \in S : TRUE
QviRest == pot = First(MCWide) /\ action = 0 /\ iter = 0 /\ gains = <<>>

MCInit == /\ script \in {"map", "zoo", "surch", "qvi", "qvij", "spec", "law"}
          /\ MapInit
          /\ Spe!Init
          /\ RecInit /\ Law!Init
          /\ script # "law" => draw = First(MCDraws) /\ pol = First(MCPolicies)
          /\ \/ script = "qvi" /\ Qvi!Init
             \/ script = "qvij" /\ QviJ!Init
             \/ script \notin {"qvi", "qvij"} /\ QviRest
MCNext ==
  /\ UNCHANGED script
  /\ \/ /\ script = "map" /\ MapNext
        /\ UNCHANGED <<walkVars, zooVars, surVars, qviVars, specVars, lawVars>>
     \/ /\ script = "zoo" /\ Zoo!Next
        /\ UNCHANGED <<mapVars, surVars, qviVars, specVars, lawVars>>
     \/ /\ script = "surch" /\ Sur!Next
        /\ UNCHANGED <<mapVars, zooVars, qviVars, specVars, lawVars>>
     \/ /\ script = "qvi" /\ Qvi!Next
        /\ UNCHANGED <<mapVars, walkVars, zooVars, surVars, specVars, lawVars>>
     \/ /\ script = "qvij" /\ QviJ!Next
        /\ UNCHANGED <<mapVars, walkVars, zooVars, surVars, specVars, lawVars>>
     \/ /\ script = "spec" /\ Spe!Next
        /\ UNCHANGED <<mapVars, walkVars, zooVars, surVars, qviVars, lawVars>>
     \/ /\ script = "law" /\ Law!Next
        /\ UNCHANGED <<mapVars, walkVars, zooVars, surVars, qviVars, specVars>>
MCSpec == MCInit /\ [][MCNext]_all

\* Policy iteration never meets a singular system, never gets worse, and reports
\* a gain no four-parameter policy beats; the two readings of a gain are one.
SolverSound ==
  /\ script = "qvi" => /\ Qvi!EvaluateSolves /\ Qvi!GainFalls
                       /\ Qvi!BeatsThresholds /\ Qvi!AlgebraAgrees
  /\ script = "qvij" => /\ QviJ!EvaluateSolves /\ QviJ!GainFalls
                        /\ QviJ!BeatsThresholds
=============================================================================

----------------------------- MODULE MCDetector -----------------------------
(* The act 3 instrument, one part per behaviour (`script'):                   *)
(*   dwell   Detector with a dwell and periodic checks, over paths of seven   *)
(*           blocks: steps of two either way and a jump that crosses the line *)
(*           from the reset price, so with dips, re-entries, second firings   *)
(*   cox     Detector with penetration, and random checks that are sure after *)
(*           a jump, over six blocks                                          *)
(*   probe   ProbeWalk: three cells of two pools and two operators, three     *)
(*           rows, streams with gaps and with two samples in one block        *)
(*   sweep   TwoSided: a grid of two values, paths of three blocks            *)
EXTENDS Detector

CONSTANTS Grid, Half, Trades, BD, ABAR, CUT, MIN_N, LIMIT, SLACK   \* of TwoSided

MCMoves == {-2, 2}
MCJumps == {4}
NoCox   == -1

MCGrid   == <<1, 2>>
MCHalf   == <<5, 11>>
MCTrades == {-8, -3, 0, 4, 6}
MCLimit  == <<1, 2>>
MCSlack  == <<1, 100>>

VARIABLES script,
          cpath, cb, ccrossed, cconsec, cevents,                   \* cox
          cache, cell, last, nRows, nTotal, interior, fired, local, pool, out,
          g, xr, anchor, beyond, side, exceed, rates               \* sweep

coxVars   == <<cpath, cb, ccrossed, cconsec, cevents>>
probeVars == <<cache, cell, last, nRows, nTotal, interior, fired, local, pool, out>>
sweepVars == <<g, xr, anchor, beyond, side, exceed, rates>>
all       == <<script, vars, coxVars, probeVars, sweepVars>>

Cox == INSTANCE Detector WITH B <- 6, PEN <- 2, DWELL <- 0, PERIOD <- 1, BERN <- TRUE,
         COX <- 1, path <- cpath, b <- cb, crossed <- ccrossed, consec <- cconsec,
         events <- cevents

S(block, tick) == [block |-> block, tick |-> tick]
MCStreams == {
  <<>>,
  <<S(1, 3), S(2, 5), S(3, 1), S(4, 6), S(5, 9)>>,
  <<S(1, 5), S(2, 6), S(3, 5), S(4, 6), S(5, 10)>>,
  <<S(1, 3), S(3, 4), S(3, 9), S(4, 8)>>,
  <<S(1, 9), S(4, 8), S(5, 5), S(6, 9)>>}
R(block, tick) == [block |-> block, lower |-> 2, upper |-> 10, tick |-> tick]
MCRows == {R(5, 10), R(6, 9), R(6, 2), R(7, 10), R(6, 6), R(6, 11)}
C(sender, at, phi) == [sender |-> sender, pool |-> at, phi |-> phi]
MCCells == <<C("a", "P", 1), C("b", "P", 1), C("a", "Q", 2)>>
MCTrails == <<3, 5>>
MCPools == <<"P", "Q">>
CONSTANTS Cells, Pools, Streams, Rows, MAX_ROWS, PHI_UNIT, LOOKBACK,     \* ProbeWalk's
          MIN_SAMPLES, Trails, TRAIL_1D, DELAY_MAX, DelayBins, SCALE_CUT,
          FAST_MAX, SLOW_MIN, MIN_POOL_N, MIN_STRATUM_N, MIN_HALF_N, MID, MIN_PAIRED
Walk == INSTANCE ProbeWalk WITH events <- fired, CUT <- SCALE_CUT
Sample == [block : Nat, tick : Int]
ASSUME WalkAssumption ==
  /\ Pools \in Seq(Walk!Range(Pools))
  /\ Cells \in Seq([sender : {Cells[n].sender : n \in DOMAIN Cells},
                    pool : Walk!Range(Pools), phi : Nat])
  /\ \A s \in Streams : /\ s \in Seq(Sample)
                        /\ \A i, j \in DOMAIN s : i < j => s[i].block <= s[j].block
  /\ Rows \subseteq [block : Nat, lower : Int, upper : Int, tick : Int]
  /\ MAX_ROWS \in Nat /\ PHI_UNIT \in Nat \ {0} /\ LOOKBACK \in Nat
  /\ MIN_SAMPLES \in Nat \ {0} /\ MIN_STRATUM_N \in Nat \ {0} /\ MID \in Nat
  /\ Trails \in Seq(Nat)
  /\ Trails # <<>> /\ Trails[1] = TRAIL_1D
  /\ DelayBins \subseteq Nat /\ DELAY_MAX \in DelayBins
  /\ \A d \in DelayBins : d <= DELAY_MAX
  /\ \A i, j \in DOMAIN Pools : i # j => Pools[i] # Pools[j]

ASSUME SweepAssumption == /\ Grid \in Seq(Nat)
                          /\ Half \in [DOMAIN Grid -> Nat]
                          /\ Trades \subseteq Int
                          /\ BD \in Nat
                          /\ ABAR \in Nat
                          /\ CUT \in Nat
                          /\ MIN_N \in Nat \ {0}
                          /\ LIMIT \in Nat \X (Nat \ {0})
                          /\ SLACK \in Nat \X (Nat \ {0})
Sweep == INSTANCE TwoSided WITH crossed <- beyond, events <- exceed

MCInit == /\ script \in {"dwell", "cox", "probe", "sweep"}
          /\ Init /\ Cox!Init /\ Sweep!Init /\ Walk!Init
          /\ script # "probe" => \A p \in DOMAIN cache : cache[p] = <<>>
MCNext ==
  /\ UNCHANGED script
  /\ \/ script = "dwell" /\ Next /\ UNCHANGED <<coxVars, probeVars, sweepVars>>
     \/ script = "cox" /\ Cox!Next /\ UNCHANGED <<vars, probeVars, sweepVars>>
     \/ script = "probe" /\ Walk!Next /\ UNCHANGED <<vars, coxVars, sweepVars>>
     \/ script = "sweep" /\ Sweep!Next /\ UNCHANGED <<vars, coxVars, probeVars>>
MCSpec == MCInit /\ [][MCNext]_all

\* The Cox arm fires at once on a jump that penetrates, and every event of it
\* has penetrated.
CoxSure == Cox!SureAfterJump /\ Cox!FilterRespected

\* Every delay the probes measure is that of the excursion the mint ended.
DelayMeasured == Walk!TypeOK /\ Walk!DelayOfExcursion

\* No scale an event is scored with knows the move it is scored for; the two
\* ways of cutting a scale out of a stream admit the same blocks.
ScaleIsPrior == Walk!CandidateExcluded /\ Walk!RollingNearLocal

\* The reports divide one sample of scored firings, and contrast only what is
\* of both strata.
SampleKept == Walk!SameSample /\ Walk!ContrastsHostBoth

\* The two-sided detector's lines follow the price and it fires at once; the
\* verdict's c_tick bounds every value beyond it.
SweepAdmits == /\ Sweep!TypeOK
               /\ script = "sweep" => Sweep!LinesFollow /\ Sweep!AlwaysAtOnce
               /\ Sweep!AdmissionHolds
=============================================================================

-------------------------- MODULE MCLiquidityBook --------------------------
(* The two pieces of the Liquidity Book validation beyond the scan, one per   *)
(* behaviour (`script'):                                                      *)
(*   pair      PairParameter, widths scaled down so that the accumulator's    *)
(*             field is nearly full: a distance of three bins exceeds it; two *)
(*             static settings, and three that setStaticFeeParameters refuses *)
(*             (periods out of order, a reduction above one, a cap wider than *)
(*             its field)                                                     *)
(*   pairing   LBPairing, four transactions over four blocks and a window of  *)
(*             two: a withdraw can have two deposits to choose from, two      *)
(*             withdraws can compete for one, one can be out of reach         *)
EXTENDS PairParameter, Sequences

Setting(filter, decay, reduction, cap) ==
  [baseFactor |-> 1, filterPeriod |-> filter, decayPeriod |-> decay,
   reductionFactor |-> reduction, variableFeeControl |-> 3, protocolShare |-> 1,
   maxVolatilityAccumulator |-> cap]
MCStatics == {Setting(1, 3, 2, 7), Setting(2, 2, 3, 5),
              Setting(3, 2, 2, 7), Setting(1, 3, 5, 7), Setting(1, 3, 2, 9)}
MCIds == 1..4

MCBlocks == 1..4

CONSTANTS NTX, Blocks, WINDOW   \* LBPairing's
ASSUME PairingAssumption == NTX \in Nat /\ Blocks \subseteq Nat /\ WINDOW \in Nat

VARIABLES script, blockOf, evs, pos, wSeen, dSeen, matched

streamVars == <<blockOf, evs, pos, wSeen, dSeen, matched>>
all        == <<script, vars, streamVars>>

Pairing == INSTANCE LBPairing WITH i <- pos, out <- matched

PairRest == /\ params = UpdateIdReference(SetActiveId(Empty(Setting(1, 3, 2, 7)), 1))
            /\ now = 0 /\ stale = FALSE
StreamRest == /\ blockOf = <<>> /\ evs = <<>> /\ pos = 1
              /\ wSeen = {} /\ dSeen = {} /\ matched = <<>>

MCInit == \/ script = "pair" /\ Init /\ StreamRest
          \/ script = "pairing" /\ PairRest /\ Pairing!Init
MCNext ==
  /\ UNCHANGED script
  /\ \/ script = "pair" /\ Next /\ UNCHANGED streamVars
     \/ script = "pairing" /\ Pairing!Next /\ UNCHANGED vars
MCSpec == MCInit /\ [][MCNext]_all

\* window_candidates(): one-to-one, stable, and of maximum size.
PairingStable == script = "pairing" =>
  Pairing!TypeOK /\ Pairing!NoneTwice /\ Pairing!Stable /\ Pairing!Maximum
=============================================================================

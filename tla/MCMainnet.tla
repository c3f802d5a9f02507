----------------------------- MODULE MCMainnet -----------------------------
(* The measurements on recorded chains, one per behaviour (`script'):         *)
(*   floor    M2Cells and M3Analysis: four groups with up to two blocks       *)
(*            between them, of two operators and of none; a swap of a group   *)
(*            may end on a lower tick than it began                           *)
(*   probe    MevProbe: five blocks of two pools and two operators, six kinds *)
(*            of block (among them two firings of one operator in a block, a  *)
(*            position opened and closed in it, one only poked)               *)
(*   anchor   Anchor: two rows, with dust left behind by the first            *)
EXTENDS M3Analysis, SequencesExt, TLC

VARIABLES script,
          blk, pticks, lastRange, count, readings, full, placed,        \* probe
          dust, byClass, priced, dustOk, dustBad                        \* anchor

probeVars  == <<blk, pticks, lastRange, count, readings, full, placed>>
anchorVars == <<dust, byClass, priced, dustOk, dustBad>>
all        == <<script, cvars, probeVars, anchorVars>>

Of(swaps, op, b0, m0, m1, s0, s1) ==
  [swaps |-> swaps, pos |-> op # NoOp, op |-> op, clean |-> s0 = 0,
   burns |-> 1, mints |-> 1, inside |-> TRUE,
   b0 |-> b0, b1 |-> 40, c0 |-> b0 + 1, c1 |-> 0, m0 |-> m0, m1 |-> m1,
   s0 |-> s0, s1 |-> s1, p |-> 2, u |-> 1 + s0]
MCGroups == {Of(<<1>>, "b", 30, 10, 70, 20, -45), Of(<<3, 0>>, NoOp, 0, 0, 0, 0, 0),
             Of(<<>>, "a", 30, 25, 30, 0, 0), Of(<<2>>, "a", 30, 10, 70, 20, -39),
             Of(<<0>>, "a", 3, 5, 50, 9, 0)}

Near == <<1, 3>>
Far  == <<4, 6>>
Log(p, k, o, r, l, t, s) == [pool |-> p, kind |-> k, owner |-> o, rng |-> r,
                             liq |-> l, tick |-> t, sender |-> s]
Swap(t)          == Log("A", "swap", 9, <<0, 0>>, 0, t, 7)
Vault(k, r)      == Log("A", k, 5, r, 1, 0, 7)
Manager(k, r, l) == Log("A", k, 9, r, l, 0, 7)
Up   == <<Vault("burn", Near), Vault("mint", Far)>>
Down == <<Vault("burn", Far), Swap(2), Vault("mint", Near)>>
Held == <<Manager("burn", Near, 1), Manager("mint", Near, 1)>>
Poke == <<Manager("burn", Far, 0)>>
Wide == <<Manager("burn", Far, 1), Manager("mint", <<0, 9>>, 1),
          Log("B", "mint", 5, Near, 1, 0, 7)>>
Numbered(txs) == FlattenSeq([n \in DOMAIN txs |->
                   [i \in DOMAIN txs[n] |-> [tx |-> n] @@ txs[n][i]]])
MCBlocks == {Numbered(txs) : txs \in
  {<< <<Swap(2)>> >>,
   << <<Swap(5)>>, Up, <<Swap(2)>>, <<Swap(4)>> >>,
   << <<Swap(2), Swap(5)>>, Down>>,
   <<Up, Down>>,
   <<Held, Wide, <<Swap(8)>>, Poke>>,
   << <<Manager("mint", Far, 1)>>, <<Swap(5)>>, <<Manager("burn", Far, 1)>>,
      <<Manager("mint", Far, 1)>> >>}}
CONSTANTS Pools, Owners, NFPM, LOOKBACK, BlockLogs, MAX_BLOCK          \* MevProbe's
Probe == INSTANCE MevProbe WITH Operators <- Owners, ticks <- pticks
ASSUME ProbeAssumption ==
  /\ LOOKBACK \in Nat /\ MAX_BLOCK \in Nat
  /\ Owners \subseteq Nat
  /\ \A logs \in BlockLogs : Probe!IsBlock(logs)

MCBurned  == {0, 2, 5}
MCSwapped == {-2, 0, 1}
CONSTANTS Burned, Swapped, Marks, Fractions, TOL, MIN_EVENTS, N_ROWS   \* Anchor's
ASSUME AnchorAssumption ==
  /\ Burned \subseteq Int /\ Swapped \subseteq Int /\ Marks \subseteq Int
  /\ TOL \in Nat /\ N_ROWS \in Nat
Anchored == INSTANCE Anchor

MCInit == /\ script \in {"floor", "probe", "anchor"}
          /\ Init /\ Probe!Init /\ Anchored!Init
MCNext ==
  /\ UNCHANGED script
  /\ \/ script = "floor" /\ Next /\ UNCHANGED <<probeVars, anchorVars>>
     \/ script = "probe" /\ Probe!Next /\ UNCHANGED <<cvars, anchorVars>>
     \/ script = "anchor" /\ Anchored!Next /\ UNCHANGED <<cvars, probeVars>>
MCSpec == MCInit /\ [][MCNext]_all

\* What m2_stream.py leaves in the cells and ticks, and what m3_analysis.py makes
\* of them.
FloorReadings == /\ TypeOK /\ BlockOrder
                 /\ WindowIsActive /\ BlocksTellApart
                 /\ SpansAgree /\ AdmittedIsIdentified

\* The probe's readings are of the history and its shares comparable.
ProbeSound == /\ Probe!TypeOK /\ Probe!ReadsHistory /\ Probe!StructuralZero
              /\ Probe!HeldBefore /\ Probe!Comparable /\ Probe!SharesAreShares

\* The anchor prices of an event what its swaps lost, and nothing else.
CostIsSwaps == Anchored!CostIsSwaps

\* The anchor's classes and dust credits.
AnchorBooks == /\ Anchored!TypeOK /\ Anchored!CleanIsIsolated /\ Anchored!SurplusIsCredited
               /\ Anchored!NothingLost
=============================================================================

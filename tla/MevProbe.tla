------------------------------ MODULE MevProbe ------------------------------
(***************************************************************************)
(* verification/mainnet/mev_probe.py, class Probe: four readings of the    *)
(* re-placements ("firings") of pool operators, from the logs of one block *)
(* after another.                                                          *)
(*                                                                         *)
(* A log is a record [pool, kind, tx, owner, rng, liq, tick, sender]; its  *)
(* place in the block is its logIndex, and the transactions of a block are *)
(* numbered in order, so that the logs of one are contiguous.  Addresses   *)
(* are numbers: only their order (sorted(vaults)[0]) and NFPM matter.      *)
(*                                                                         *)
(* Data that is abstracted: amounts, the expected counts under a random    *)
(* place, the sorting and rounding of the quantiles, and the breakdown of  *)
(* the counts by pool.  `readings' holds what us and delays collect, with  *)
(* the block and the range they are of.                                    *)
(***************************************************************************)
EXTENDS Integers, Sequences, Ranking, FiniteSetsExt

CONSTANTS Pools, Operators,
          NFPM,        \* the position manager, which owns for others
          LOOKBACK,    \* 20_000: how far back an exit is looked for
          BlockLogs,   \* the blocks that may come, as sequences of logs
          MAX_BLOCK    \* bound of the model: blocks numbered 1..MAX_BLOCK

NoOne   == 0 - 1       \* no operator, no tick, no delay
NoTick  == 887273  \* none: past the last tick a pool can be at
NoRange == <<0, 0>>

\* The logs of a block, as the environment has them: the transactions one after
\* another, a position's range not empty, an operator behind every position.
Log == [pool : Pools, kind : {"swap", "mint", "burn"}, tx : Nat, tick : Int,
        owner : Operators \cup {NFPM}, rng : Int \X Int, liq : Nat,
        sender : Operators \cup {NoOne}]
IsBlock(logs) ==
  /\ logs \in Seq(Log)
  /\ \A i, j \in DOMAIN logs : i < j => logs[i].tx <= logs[j].tx
  /\ \A i \in DOMAIN logs : IF logs[i].kind = "swap" THEN logs[i].tick # NoTick
                            ELSE logs[i].rng[1] < logs[i].rng[2]

VARIABLES
  blk,       \* the block read last
  ticks,     \* pool -> <<block, tick>>: one entry a block, pruned
  lastRange, \* <<pool, operator>> -> the range of its last firing
  count,     \* the totals of adj, null, jit and n_pos_events
  readings,  \* the set of [pool, op, blk, tx, prev, tick, delay]
  full,      \* history: the entries of `ticks' before any pruning
  placed     \* history: every firing, as [pool, op, blk, tx, rng]

pvars == <<blk, ticks, lastRange, count, readings, full, placed>>

Counters == {"events", "firings", "backrun", "frontrun", "sandwich",
             "any_ext", "own_swap", "with_swaps", "jit", "remint"}

Init == /\ blk = 0
        /\ ticks = [p \in Pools |-> <<>>]
        /\ lastRange = [k \in Pools \X Operators |-> NoRange]
        /\ count = [c \in Counters |-> 0]
        /\ readings = {}
        /\ full = [p \in Pools |-> <<>>]
        /\ placed = {}
-----------------------------------------------------------------------------
(* firing_of(): a live burn and a live mint on a changed range in one       *)
(* transaction; the operator is the least owner that is not the manager, or *)
(* else the sender, who may be missing from the response.                   *)
Pos(logs, p)       == {i \in DOMAIN logs : /\ logs[i].pool = p
                                           /\ logs[i].kind # "swap"}
Swaps(logs, p)     == {i \in DOMAIN logs : /\ logs[i].pool = p
                                           /\ logs[i].kind = "swap"}
Group(logs, p, tx) == {i \in Pos(logs, p) : logs[i].tx = tx}
Live(logs, G, k)   == {i \in G : logs[i].kind = k /\ logs[i].liq > 0}
RangesOf(logs, G)  == {logs[i].rng : i \in G}

FiringOf(logs, G) ==
  LET burns   == Live(logs, G, "burn")
      mints   == Live(logs, G, "mint")
      owners  == {logs[i].owner : i \in burns \cup mints}
      senders == {logs[i].sender : i \in G} \ {NoOne}
  IN IF RangesOf(logs, mints) \subseteq RangesOf(logs, burns) \/ burns = {}
     THEN NoOne
     ELSE IF owners \ {NFPM} # {} THEN Min(owners \ {NFPM})
     ELSE IF senders # {} THEN Min(senders) ELSE NoOne

Fires(logs, p) == {tx \in {logs[i].tx : i \in Pos(logs, p)} :
                     FiringOf(logs, Group(logs, p, tx)) # NoOne}
AllFires(logs) == UNION {{p} \X Fires(logs, p) : p \in Pools}
OperatorOf(logs, p, tx) == FiringOf(logs, Group(logs, p, tx))

(* The range of its first live mint, in log order.                          *)
NewRange(logs, p, tx) ==
  logs[Min(Live(logs, Group(logs, p, tx), "mint"))].rng
-----------------------------------------------------------------------------
(* Reading C: external swaps of the pool before the operator's first log    *)
(* and after its last one.                                                  *)
External(logs, p, tx) == {i \in Swaps(logs, p) : logs[i].tx # tx}
Before(logs, p, tx) == \E i \in External(logs, p, tx) :
                         i < Min(Group(logs, p, tx))
After(logs, p, tx)  == \E i \in External(logs, p, tx) :
                         i > Max(Group(logs, p, tx))
(* Reading D: what a block did with one position (owner and range). *)
Keys(logs, p) == {<<logs[i].owner, logs[i].rng>> : i \in Pos(logs, p)}
KindsOf(logs, p, k) == {i \in Pos(logs, p) : <<logs[i].owner, logs[i].rng>> = k}
Both(logs, p) == {k \in Keys(logs, p) :
                    {logs[i].kind : i \in KindsOf(logs, p, k)} = {"mint", "burn"}}
Jit(logs, p)  == {k \in Both(logs, p) :
                    logs[Min(KindsOf(logs, p, k))].kind = "mint"}
Remint(logs, p)   == Both(logs, p) \ Jit(logs, p)

Tally(logs) ==
  LET F == AllFires(logs)
      B == {f \in F : Before(logs, f[1], f[2])}
      A == {f \in F : After(logs, f[1], f[2])}
      N == [events   |-> {i \in DOMAIN logs : logs[i].kind # "swap"},
            firings  |-> F,
            backrun  |-> A, frontrun |-> B, sandwich |-> A \cap B,
            any_ext  |-> A \cup B,
            own_swap |-> {f \in F : \E i \in Swaps(logs, f[1]) : logs[i].tx = f[2]},
            with_swaps |-> {f \in F : External(logs, f[1], f[2]) # {}},
            jit      |-> UNION {{p} \X Jit(logs, p) : p \in Pools},
            remint   |-> UNION {{p} \X Remint(logs, p) : p \in Pools}]
  IN [c \in Counters |-> Cardinality(N[c])]
-----------------------------------------------------------------------------
(* Readings A and B, from entries <<block, tick>> in block order. *)
Earlier(arr, b) == {j \in DOMAIN arr : arr[j][1] < b}
TickBefore(arr, b) == IF Earlier(arr, b) = {} THEN NoTick
                      ELSE arr[Max(Earlier(arr, b))][2]
ExitDelay(arr, b, r) ==
  LET inside == {j \in Earlier(arr, b) : /\ arr[j][1] >= b - LOOKBACK
                                         /\ arr[j][2] \in r[1]..r[2]}
  IN IF inside = {} THEN NoOne ELSE b - arr[Max(inside)][1]

(* The range an operator held before a firing: that of its firing before,   *)
(* which may be in the same block.                                          *)
Earliers(logs, p, tx) == {t \in Fires(logs, p) :
                            t < tx /\ OperatorOf(logs, p, t)
                                        = OperatorOf(logs, p, tx)}
\* mutant: the ranges are updated at the end of the block
StaleRange(logs, p, tx) == lastRange[<<p, OperatorOf(logs, p, tx)>>]
PrevRange(logs, p, tx) ==
  IF Earliers(logs, p, tx) = {} THEN lastRange[<<p, OperatorOf(logs, p, tx)>>]
  ELSE NewRange(logs, p, Max(Earliers(logs, p, tx)))

Reading(arr, b, logs, p, tx) ==
  LET prev == PrevRange(logs, p, tx)
  IN [pool |-> p, op |-> OperatorOf(logs, p, tx), blk |-> b, tx |-> tx,
      prev |-> prev, tick |-> TickBefore(arr, b),
      delay |-> ExitDelay(arr, b, prev)]

(* The swap ticks of the block go in after its firings were read. *)
LastSwap(logs, p) == logs[Max(Swaps(logs, p))].tick
Entered(arr, b, logs, p) == IF Swaps(logs, p) = {} THEN arr
                            ELSE Append(arr, <<b, LastSwap(logs, p)>>)
Recent(arr, b)  == {j \in DOMAIN arr : arr[j][1] >= b - LOOKBACK}
Prune(arr, b)   == IF Len(arr) <= 4 * LOOKBACK THEN arr
                   ELSE LET kept == Ranked(Recent(arr, b), <)
                        IN [k \in DOMAIN kept |-> arr[kept[k]]]

NewReadings(b, logs) ==
  {r \in {Reading(ticks[f[1]], b, logs, f[1], f[2]) : f \in AllFires(logs)} :
     r.prev[2] > r.prev[1] /\ r.tick # NoTick}

(* on_block(), and run()'s skipping of a block that came without logs.      *)
OnBlock(b, logs) ==
  /\ count' = [c \in Counters |-> count[c] + Tally(logs)[c]]
  /\ readings' = readings \cup NewReadings(b, logs)
  /\ lastRange' = [k \in Pools \X Operators |->
                     LET mine == {tx \in Fires(logs, k[1]) :
                                    OperatorOf(logs, k[1], tx) = k[2]}
                     IN IF mine = {} THEN lastRange[k]
                        ELSE NewRange(logs, k[1], Max(mine))]
  /\ ticks' = [p \in Pools |-> IF Swaps(logs, p) = {} THEN ticks[p]
                               ELSE Prune(Entered(ticks[p], b, logs, p), b)]
  /\ full' = [p \in Pools |-> Entered(full[p], b, logs, p)]
  /\ placed' = placed \cup
       {[pool |-> f[1], op |-> OperatorOf(logs, f[1], f[2]), blk |-> b,
         tx |-> f[2], rng |-> NewRange(logs, f[1], f[2])] : f \in AllFires(logs)}

Block == /\ blk < MAX_BLOCK
         /\ blk' = blk + 1
         /\ \/ \E logs \in BlockLogs : OnBlock(blk + 1, logs)
            \/ UNCHANGED <<ticks, lastRange, count, readings, full, placed>>

(* summary(): what its shares are counted from. *)
Summary ==
  LET delays == {r \in readings : r.delay # NoOne}
  IN [us       |-> Cardinality(readings),
      interior |-> Cardinality({r \in readings : r.prev[1] < r.tick /\ r.tick < r.prev[2]}),
      delays   |-> Cardinality(delays),
      d0       |-> Cardinality({r \in delays : r.delay = 0}),
      d1       |-> Cardinality({r \in delays : r.delay <= 1}),
      adj      |-> count,
      jitEvents |-> 2 * count["jit"], remintEvents |-> 2 * count["remint"]]

Next == Block
Spec == Init /\ [][Next]_pvars
-----------------------------------------------------------------------------
TypeOK ==
  /\ blk \in 0..MAX_BLOCK
  /\ \A p \in Pools : /\ ticks[p] \in Seq((1..blk) \X Int)
                      /\ full[p] \in Seq((1..blk) \X Int)
  /\ lastRange \in [Pools \X Operators -> Int \X Int]
  /\ count \in [Counters -> Nat]
  /\ readings \subseteq [pool : Pools, op : Operators, blk : 1..blk, tx : Nat,
                        prev : Int \X Int, tick : Int, delay : Int]
  /\ placed \subseteq [pool : Pools, op : Operators, blk : 1..blk, tx : Nat,
                      rng : Int \X Int]

\* A pruned cache reads like the whole history: the tick of a reading is the
\* last one before its block, and its delay counts from the last block that
\* ended inside the old range (tick_before, exit_delay, the cut of l.318-320).
ReadsHistory ==
  \A r \in readings : /\ r.tick = TickBefore(full[r.pool], r.blk)
                      /\ r.delay = ExitDelay(full[r.pool], r.blk, r.prev)

\* A firing never reads its own block: no delay is zero, as the summary says of
\* its mass at zero (l.345-349), and a price that was inside until the block of
\* the firing and left in it reads as the distance to the sample before.  The
\* docstring of exit_delay() calls that exit zero (l.185-187), and the header
\* makes the mass at zero what reading B decides by (l.15-17): no reading has
\* the value they speak of.
StructuralZero ==
  /\ Summary.d0 = 0
  /\ \A r \in readings : r.tick \in r.prev[1]..r.prev[2] =>
       LET sample == full[r.pool][Max(Earlier(full[r.pool], r.blk))][1]
       IN  r.delay = IF sample < r.blk - LOOKBACK THEN NoOne ELSE r.blk - sample

\* A reading is of the range its operator placed in its firing before, in an
\* earlier block or earlier in the same one, and every firing after a first
\* one whose pool has traded gives one (last_range, l.299-309).
Older(g, f) == /\ g.pool = f.pool /\ g.op = f.op
               /\ \/ g.blk < f.blk
                  \/ g.blk = f.blk /\ g.tx < f.tx
Prior(f)    == {g \in placed : Older(g, f)}
HeldBefore ==
  /\ \A r \in readings :
       \E g \in Prior(r) : /\ r.prev = g.rng
                           /\ \A h \in Prior(r) : h = g \/ Older(h, g)
  /\ \A f \in placed : Prior(f) # {} /\ Earlier(full[f.pool], f.blk) # {}
       => \E r \in readings : r.pool = f.pool /\ r.blk = f.blk /\ r.tx = f.tx

\* The adjacency counts and the count their null is of are comparable: each firing
\* with external swaps is next to one, before, after or both, and is counted once
\* on either side (l.268-294).
Comparable ==
  /\ count["backrun"] + count["frontrun"] - count["sandwich"] = count["with_swaps"]
  /\ count["any_ext"] = count["with_swaps"]

\* What the summary divides by all position events is a share of them: a
\* position is not just-in-time and reopened at once (l.394-400: 2 * jit / events).
SharesAreShares ==
  Summary.jitEvents + Summary.remintEvents <= count["events"]
=============================================================================

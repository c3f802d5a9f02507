----------------------------- MODULE M3Analysis -----------------------------
(***************************************************************************)
(* verification/mainnet/m3_analysis.py over what M2Cells accumulates: the  *)
(* sort of the ticks, the buckets of pool_sigma(), the moves of            *)
(* ctick_ratio(), and the admission of a cell to the floor scatter.        *)
(*                                                                         *)
(* Data that is abstracted: square roots, annualisation and quantiles; a   *)
(* conserved value is one within CONSERVE per cent.                        *)
(***************************************************************************)
EXTENDS M2Cells, Ranking, FiniteSetsExt

CONSTANTS BUCKET_BLOCKS,   \* 25
          SIGMA_OBS,       \* 50: entries, and buckets, a volatility needs
          MAX_GAP,         \* 50: blocks between the two ends of a move
          FIRING_BAR,      \* 30
          MIN_SPAN,        \* MIN_DAYS in blocks
          RHO_LO, RHO_HI,  \* of the half width u (in units of the price)
          CONSERVE,        \* CONSERVE_TOL in per cent
          CONSERVE_SHARE   \* CONSERVE_MIN_SHARE in per cent

ASSUME M3Assumption == /\ {BUCKET_BLOCKS, FIRING_BAR, MIN_SPAN} \subseteq Nat \ {0}
                       /\ {SIGMA_OBS, MAX_GAP} \subseteq Nat

(* ticks[p].sort(): the tuples (block, tick) in order, all of them or those of *)
(* a window (pool_sigma() and ctick_ratio() filter the sorted list by block).  *)
EntryBefore(i, j) == \/ ticks[i][1] < ticks[j][1]
                     \/ ticks[i][1] = ticks[j][1] /\ ticks[i][2] < ticks[j][2]
                     \/ ticks[i] = ticks[j] /\ i < j
Listing(S) == LET places == Ranked(S, EntryBefore)
              IN [k \in 1..Cardinality(S) |-> ticks[places[k]]]
Sorted     == Listing(DOMAIN ticks)
InWindow(lo, hi) == {i \in DOMAIN ticks : lo <= ticks[i][1] /\ ticks[i][1] <= hi}
Window(lo, hi)   == Listing(InWindow(lo, hi))

(* pool_sigma(): the last entry of each bucket, or none. *)
BucketKeys(sel)   == {sel[i][1] \div BUCKET_BLOCKS : i \in DOMAIN sel}
BucketEnd(sel, k) == sel[Max({i \in DOMAIN sel :
                                sel[i][1] \div BUCKET_BLOCKS = k})]
Span(sel) == BucketEnd(sel, Max(BucketKeys(sel)))[1]
               - BucketEnd(sel, Min(BucketKeys(sel)))[1]
HasSigma(sel) == /\ Len(sel) >= SIGMA_OBS
                 /\ Cardinality(BucketKeys(sel)) >= SIGMA_OBS
                 /\ Span(sel) > 0

(* ctick_ratio(): the pairs of neighbouring entries that count as a move. *)
\* mutant: entries of one block are a move too
MovesWithin(sel) == {i \in 2..Len(sel) : sel[i][1] - sel[i - 1][1] <= MAX_GAP}
Moves(sel) == {i \in 2..Len(sel) : sel[i][1] - sel[i - 1][1] \in 1..MAX_GAP}

(* The chain of filters of main(): a cell's swap-carrying firings, by index. *)
Carrying(o) == {i \in DOMAIN cells[o] : cells[o][i].sw}
Conserves(e) == /\ 100 * e.vLand <= (100 + CONSERVE) * e.vBurn
                /\ 100 * e.vLand >= (100 - CONSERVE) * e.vBurn
Kept(o)     == {i \in Carrying(o) : Conserves(cells[o][i])}
FirstBlk(o) == Min({cells[o][i].blk : i \in Carrying(o)})
LastBlk(o)  == Max({cells[o][i].blk : i \in Carrying(o)})
Narrower(o, i, j) == \/ cells[o][i].u < cells[o][j].u
                     \/ cells[o][i].u = cells[o][j].u /\ i < j
Median2(o)  == LET us == Ranked(Carrying(o), LAMBDA i, j : Narrower(o, i, j))
                   n  == Cardinality(Carrying(o))           \* twice the median
               IN cells[o][us[n \div 2 + 1]].u + cells[o][us[(n + 1) \div 2]].u
WindowOf(o) == Window(FirstBlk(o), LastBlk(o))

LongEnough(o) == Cardinality(Carrying(o)) >= FIRING_BAR
Admitted(o) == /\ LongEnough(o)
               /\ LastBlk(o) - FirstBlk(o) >= MIN_SPAN
               /\ HasSigma(WindowOf(o))
               /\ 2 * RHO_LO < Median2(o) /\ Median2(o) < 2 * RHO_HI
               /\ 100 * Cardinality(Kept(o)) >= CONSERVE_SHARE * Cardinality(Carrying(o))
               /\ Cardinality(Kept(o)) >= FIRING_BAR
-----------------------------------------------------------------------------
Traded == {ticks[i][1] : i \in DOMAIN ticks}
TicksIn(b) == {ticks[i][2] : i \in {j \in DOMAIN ticks : ticks[j][1] = b}}

\* The window's ends are trades of the cell: the swap-carrying firings have
\* entered their own swaps among the ticks, each one its own, so that a window
\* is never empty, its volatility is of the time the cell was active (l.196-204)
\* and it has as many entries as the cell has such firings.
WindowIsActive ==
  \A o \in Operators : LongEnough(o) =>
    /\ Len(WindowOf(o)) >= Cardinality(Carrying(o))
    /\ WindowOf(o)[1][1] = FirstBlk(o)
    /\ WindowOf(o)[Len(WindowOf(o))][1] = LastBlk(o)

\* A bucket is priced in the last block that traded in it, and the moves are
\* one for each two neighbouring trading blocks, no further apart than
\* MAX_GAP, however many transactions traded in one block.
BlocksTellApart ==
  /\ \A k \in BucketKeys(Sorted) :
       LET in == {b \in Traded : b \div BUCKET_BLOCKS = k}
       IN /\ BucketEnd(Sorted, k)[1] = Max(in)
          /\ BucketEnd(Sorted, k)[2] \in TicksIn(Max(in))
  /\ {<<Sorted[i - 1][1], Sorted[i][1]>> : i \in Moves(Sorted)}
       = {m \in Traded \X Traded : /\ m[2] - m[1] \in 1..MAX_GAP
                                   /\ \A c \in Traded : c <= m[1] \/ c >= m[2]}
  /\ \A i, j \in Moves(Sorted) : i # j => Sorted[i][1] # Sorted[j][1]

\* No rate is divided by an empty span: the volatility's span (l.126), from one
\* bucket's end to another's, is positive as soon as there are two buckets and
\* never longer than the span the rate of the same cell is divided by (l.193).
SpansAgree ==
  \A o \in Operators :
    LongEnough(o) /\ Cardinality(BucketKeys(WindowOf(o))) >= 2
      => Span(WindowOf(o)) \in 1..(LastBlk(o) - FirstBlk(o))

\* An admitted cell has a span to divide by, and entries for all its firings.
AdmittedIsIdentified ==
  \A o \in Operators : Admitted(o) =>
    /\ LastBlk(o) > FirstBlk(o)
    /\ Len(WindowOf(o)) >= Cardinality(Carrying(o))

\* "The block-aggregated move law" (l.136): a move is from one block's last
\* tick to the next block's last tick.
LastTick(b) == ticks[Max({j \in DOMAIN ticks : ticks[j][1] = b})][2]
MovesAreOfBlocks ==
  \A i \in Moves(Sorted) : /\ Sorted[i][2] = LastTick(Sorted[i][1])
                           /\ Sorted[i - 1][2] = LastTick(Sorted[i - 1][1])
=============================================================================

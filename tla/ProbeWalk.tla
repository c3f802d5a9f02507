----------------------------- MODULE ProbeWalk -----------------------------
(***************************************************************************)
(* The population probes of verification/act3-instrument: the loaders and  *)
(* estimators of common.py, the walk over the census cells that every      *)
(* probe repeats (collect_events() of probe_fast.py, the loops of          *)
(* probe_pooled.py and probe_localsigma.py), and what probes 4, 5, 7 and 8 *)
(* make of its events, pool by pool.                                       *)
(*                                                                         *)
(* A step is one row of REBALANCE_SQL for the cell in hand, or the next    *)
(* cell, or the report on the next pool.  The row's u is the place of its  *)
(* tick in the range, so lines and overshoots are in ticks; a ratio        *)
(* over_t / (sigma sqrt(delay)) is kept as whether it exceeds the cut, by  *)
(* its square's two integers, and a scale as its sum and its span.         *)
(***************************************************************************)
EXTENDS Integers, Sequences, FiniteSets, FiniteSetsExt, SequencesExt, Sums

CONSTANTS Cells,         \* load_census_cells(), in the order of the pools
          Pools,         \* sorted(by_pool)
          Streams,       \* the tick caches a pool may have, <<>> for none
          Rows,          \* rows the query may return: block, range, firing tick
          MAX_ROWS,      \* bound of the model: rows of all cells
          PHI_UNIT,      \* phi = 1
          LOOKBACK,      \* 20_000
          MIN_SAMPLES,   \* 30
          Trails,        \* probe 3's windows in order, TRAIL_1D the first
          TRAIL_1D,      \* 43_200
          DELAY_MAX,     \* 10
          DelayBins,     \* 2, 5, 10: probes 2, 3 and 4
          CUT,           \* 3 local scales
          FAST_MAX, SLOW_MIN,         \* 100 and 300 blocks
          MIN_POOL_N, MIN_STRATUM_N,  \* 30 and 5, probe 5
          MIN_HALF_N, MID,            \* 30 and the era's middle, probe 7
          MIN_PAIRED                  \* 15, probe 4

VARIABLES cache,      \* the ticks of each pool
          cell, last, \* the cell in hand; block of its last row
          nRows,      \* rows read so far (bounded by MAX_ROWS)
          nTotal, interior,
          events,     \* collect_events()
          local,      \* probe 3: its events, its misses, the scored of each window
          pool,       \* the pool the report is at
          out         \* what the reports hold
walk == <<cell, last, nRows, nTotal, interior, events, local>>
vars == <<cache, walk, pool, out>>

None    == -1
NoScale == [ss |-> 0, span |-> 0]
-----------------------------------------------------------------------------
\* common.py.  Samples of s before block b: np.searchsorted(cb, b).
Before(s, b) == Cardinality({i \in DOMAIN s : s[i].block < b})

InsideOf(tick, line, dir) == IF dir = "dn" THEN tick >= line ELSE tick <= line

\* Where the current excursion began.  An empty window and one that lies
\* outside altogether are censored alike.
FirstOf(ins) == Min(ins)     \* mutant: nz[0]
LastOf(ins)  == Max(ins)
CrossingDelay(s, blk, line, dir) ==
  LET lo == Before(s, blk - LOOKBACK)
      hi == Before(s, blk)
      ins == {i \in (lo + 1)..hi : InsideOf(s[i].tick, line, dir)}
      k  == LastOf(ins)
  IN  IF ins = {} THEN None
      ELSE IF k = hi THEN blk - s[k].block ELSE blk - s[k + 1].block

\* The samples local_sigma() and local_sigma_bv() see, and their scale.
Window(s, end, trail) == (Before(s, end - trail) + 1)..Before(s, end)
Enough(s, w, trail)   == /\ Cardinality(w) >= MIN_SAMPLES
                         /\ 2 * (s[Max(w)].block - s[Min(w)].block) >= trail
Move(s, i) == s[i].tick - s[i - 1].tick
Size(s, i)    == IF Move(s, i) < 0 THEN -Move(s, i) ELSE Move(s, i)
Scale(s, end, trail, lag) ==
  LET w == Window(s, end, trail)
  IN  IF ~Enough(s, w, trail) THEN NoScale
      ELSE [ss |-> Summed([n \in 1..(Cardinality(w) - 1 - lag) |->
                             Size(s, Min(w) + n + lag) * Size(s, Min(w) + n)]),
            span |-> s[Max(w)].block - s[Min(w)].block]
LocalSigma(s, end, trail)   == Scale(s, end, trail, 0)
BipowerSigma(s, end, trail) == Scale(s, end, trail, 1)

\* probe_jumpvalidation.per_block(): the last sample of each block; and
\* rolling_scales() at its j-th block, as differences of its prefix sums.
Lasts(s)     == {i \in DOMAIN s : i = Len(s) \/ s[i].block # s[i + 1].block}
Collapsed(s) == Compressed(s, Lasts(s))
Squares(s)   == [i \in DOMAIN s |-> IF i = 1 THEN 0 ELSE Move(s, i) * Move(s, i)]
RollingSigma(s, j) ==
  LET lo == Before(s, s[j].block - TRAIL_1D) + 1
      span == s[Max({j - 1, 1})].block - s[lo].block
  IN  IF j - lo >= MIN_SAMPLES /\ 2 * span >= TRAIL_1D
      THEN [ss |-> CumSum(Squares(s))[j - 1] - CumSum(Squares(s))[lo - 1], span |-> span]
      ELSE NoScale
-----------------------------------------------------------------------------
\* classify_event(): interior between the lines, else the side and its line.
LineDn(c, r) == r.lower + (c.phi * (r.upper - r.lower)) \div PHI_UNIT
LineUp(c, r) == r.upper - (c.phi * (r.upper - r.lower)) \div PHI_UNIT
Interior(c, r) == LineDn(c, r) < r.tick /\ r.tick < LineUp(c, r)
Classified(c, r) ==
  IF r.tick <= LineDn(c, r)
  THEN [dir |-> "dn", line |-> LineDn(c, r), over |-> LineDn(c, r) - r.tick]
  ELSE [dir |-> "up", line |-> LineUp(c, r), over |-> r.tick - LineUp(c, r)]

\* The event of a trigger firing.
Fired(c, r) ==
  LET k == Classified(c, r)
  IN  [sender |-> c.sender, pool |-> c.pool, block |-> r.block,
       dir |-> k.dir, line |-> k.line, over |-> k.over,
       delay |-> CrossingDelay(cache[c.pool], r.block, k.line, k.dir)]

InBins(d)   == 0 < d /\ d <= Max(DelayBins)
NearZero(d) == 0 < d /\ d <= DELAY_MAX   \* None is below zero

Exceeds(e, s) == e.over * e.over * s.span > CUT * CUT * s.ss * e.delay

\* The scale an event is scored with: the window ends before the crossing.
AtFiring(e) == e.block            \* mutant
WindowEnd(e) == e.block - e.delay
ScaleOf(e, trail) == LocalSigma(cache[e.pool], WindowEnd(e), trail)
Scored(e, trail)  == NearZero(e.delay) /\ ScaleOf(e, trail).ss > 0

\* Probe 3's loop body for a firing of a pool with a cache: it scores on the
\* way, and counts a miss for each window without a scale.
Localised(e) ==
  IF cache[e.pool] = <<>> \/ ~InBins(e.delay) THEN local
  ELSE [n      |-> local.n + 1,
        miss   |-> local.miss
                     + Cardinality({k \in DOMAIN Trails : ScaleOf(e, Trails[k]).ss = 0}),
        ratios |-> [k \in DOMAIN Trails |->
                      LET s == ScaleOf(e, Trails[k])
                      IN  IF s.ss = 0 THEN local.ratios[k]
                          ELSE Append(local.ratios[k], Exceeds(e, s))]]

Walking == cell <= Len(Cells)
Here    == Cells[cell]

Init == /\ cache \in [Range(Pools) -> Streams]
        /\ cell = 1 /\ last = 0 /\ nRows = 0
        /\ nTotal = 0 /\ interior = 0
        /\ events = <<>>
        /\ local = [n |-> 0, miss |-> 0, ratios |-> [k \in DOMAIN Trails |-> <<>>]]
        /\ pool = 1
        /\ out = [tails |-> <<>>, small |-> [n |-> 0, k |-> 0], halves |-> <<>>, h1 |-> 0, h2 |-> 0,
                  agreed |-> {}, paired |-> {}, shaped |-> {}]

\* One row: a firing tick out of the range is no u, one between the lines is a
\* convention, the others are trigger firings.
ReadRow(r) ==
  /\ Walking /\ nRows < MAX_ROWS
  /\ last <= r.block
  /\ last' = r.block
  /\ nRows' = nRows + 1
  /\ \/ /\ r.tick \notin r.lower..r.upper
        /\ UNCHANGED <<nTotal, interior, events, local>>
     \/ /\ r.tick \in r.lower..r.upper
        /\ Interior(Here, r)
        /\ nTotal' = nTotal + 1
        /\ interior' = interior + 1
        /\ UNCHANGED <<events, local>>
     \/ /\ r.tick \in r.lower..r.upper
        /\ ~Interior(Here, r)
        /\ nTotal' = nTotal + 1
        /\ events' = Append(events, Fired(Here, r))
        /\ local' = Localised(Fired(Here, r))
        /\ UNCHANGED interior
  /\ UNCHANGED <<cache, cell, pool, out>>

NextCell == /\ Walking
            /\ cell' = cell + 1
            /\ last' = 0
            /\ UNCHANGED <<cache, nRows, nTotal, interior, events, local, pool, out>>
-----------------------------------------------------------------------------
\* probe_pooled: the median delay of an operator's firings, doubled (the two
\* middle delays in order), and the stratum the later probes read off it.
Firings(s) == {n \in DOMAIN events : events[n].sender = s /\ events[n].delay # None}
NthDelay(s, m) ==
  Min({events[n].delay :
         n \in {k \in Firings(s) :
                  Cardinality({j \in Firings(s) : events[j].delay <= events[k].delay}) >= m}})
TwiceMedian(s) == LET c == Cardinality(Firings(s))
                  IN  NthDelay(s, (c + 1) \div 2) + NthDelay(s, c \div 2 + 1)
Stratum(s) == IF Firings(s) = {} THEN "none"
              ELSE IF TwiceMedian(s) <= 2 * FAST_MAX THEN "fast"
              ELSE IF TwiceMedian(s) >= 2 * SLOW_MIN THEN "slow" ELSE "mid"

\* probe_withinpool: the strata a pool's census cells bring to it.
Senders(p) == {Cells[c].sender : c \in {d \in DOMAIN Cells : Cells[d].pool = p}}
Hosts(p)   == {Stratum(s) : s \in Senders(p)} \cap {"fast", "slow"}
BothStrata == {"fast", "slow"}

\* The pool's scored events (probes 4, 5, 7 and 8), by their places among the
\* events, and parts of them.
ScoredOf(p) == {n \in DOMAIN events : events[n].pool = p /\ Scored(events[n], TRAIL_1D)}
InStratum(rs, st) == {n \in rs : Stratum(events[n].sender) = st}
Beyond(rs)     == {n \in rs : Exceeds(events[n], ScaleOf(events[n], TRAIL_1D))}
FirstHalf(rs)  == {n \in rs : events[n].block < MID}
LaterHalf(rs)  == {n \in rs : events[n].block > MID}   \* mutant
SecondHalf(rs) == {n \in rs : events[n].block >= MID}
Many(rs, min)  == Cardinality(rs) >= min

\* Probe 5's entry of a pool, or its share of the small pools together.
Tails(p, rs) ==
  LET n == Cardinality(rs)  k == Cardinality(Beyond(rs))
  IN  IF ~Many(rs, MIN_POOL_N)
      THEN [out EXCEPT !.small = [n |-> @.n + n, k |-> @.k + k]]
      ELSE [out EXCEPT !.tails = Append(@, [pool |-> p, n |-> n, k |-> k])]

Pooled(rs)  == /\ Many(InStratum(rs, "fast"), MIN_STRATUM_N)       \* the agreement test
               /\ Many(InStratum(rs, "slow"), MIN_STRATUM_N)
Shaped(rs)  == Beyond(InStratum(rs, "fast")) # {} /\ Beyond(InStratum(rs, "slow")) # {}
Paired(rs)  == /\ Many(InStratum(rs, "fast"), MIN_PAIRED)
               /\ Many(InStratum(rs, "slow"), MIN_PAIRED)
Halved(rs)  == Many(FirstHalf(rs), MIN_HALF_N) /\ Many(SecondHalf(rs), MIN_HALF_N)
Member(p, if)  == IF if THEN {p} ELSE {}

\* What probes 4, 5, 7 and 8 write of the next pool.
Report ==
  /\ ~Walking /\ pool <= Len(Pools)
  /\ LET p == Pools[pool]
         rs == ScoredOf(p)
         t  == Tails(p, rs)
         n1 == Cardinality(FirstHalf(rs))
         n2 == Cardinality(SecondHalf(rs))
     IN  out' = [t EXCEPT
           !.agreed = @ \cup Member(p, Many(rs, MIN_POOL_N) /\ Pooled(rs)),
           !.paired = @ \cup Member(p, Hosts(p) = BothStrata /\ Paired(rs)),
           !.shaped = @ \cup Member(p, Shaped(rs)),
           !.h1 = @ + n1, !.h2 = @ + n2,
           !.halves = IF Halved(rs) THEN Append(@, [pool |-> p, n1 |-> n1, n2 |-> n2])
                      ELSE @]
  /\ pool' = pool + 1
  /\ UNCHANGED <<cache, walk>>

Next == (\E r \in Rows : ReadRow(r)) \/ NextCell \/ Report
Spec == Init /\ [][Next]_vars
-----------------------------------------------------------------------------
TypeOK == /\ cache \in [Range(Pools) -> Streams]
          /\ cell \in 1..(Len(Cells) + 1) /\ pool \in 1..(Len(Pools) + 1)
          /\ nRows \in 0..MAX_ROWS /\ nTotal \in 0..nRows /\ interior \in 0..nTotal
          /\ Len(events) = nTotal - interior
          /\ \A n \in DOMAIN events : events[n].over >= 0 /\ events[n].delay \in Nat \cup {None}

\* The samples of the excursion an event fired in, from the stream alone.
Excursion(e) ==
  LET s == cache[e.pool]
  IN  {i \in 1..Before(s, e.block) :
         \A j \in i..Before(s, e.block) : ~InsideOf(s[j].tick, e.line, e.dir)}
InsideIn(e) == {i \in DOMAIN cache[e.pool] :
                  /\ cache[e.pool][i].block \in (e.block - LOOKBACK)..(e.block - 1)
                  /\ InsideOf(cache[e.pool][i].tick, e.line, e.dir)}

\* A measured delay reaches back to the beginning of the unbroken excursion the
\* mint ended: nothing is inside between, whatever the blocks hold and however
\* often the line was crossed before; and a delay is missing only when the
\* whole lookback has nothing inside.
DelayOfExcursion ==
  \A n \in DOMAIN events :
    LET e == events[n]  s == cache[e.pool]  x == Excursion(e)
    IN  /\ e.delay = None <=> InsideIn(e) = {}
        /\ e.delay # None =>
             /\ 0 < e.delay /\ e.delay <= LOOKBACK
             /\ IF x = {} THEN s[Before(s, e.block)].block = e.block - e.delay
                ELSE s[Min(x)].block = e.block - e.delay

\* "candidate jump and firing move excluded" (probe_localsigma l.10): the scale
\* of an event, and probe 6's bipower one, would be the same had its excursion
\* never been recorded.
BeforeExcursion(e) ==
  SubSeq(cache[e.pool], 1, Before(cache[e.pool], e.block) - Cardinality(Excursion(e)))
CandidateExcluded ==
  \A n \in DOMAIN events : \A k \in DOMAIN Trails :
    LET e == events[n]  t == Trails[k]
    IN  NearZero(e.delay) =>
          /\ ScaleOf(e, t) = LocalSigma(BeforeExcursion(e), WindowEnd(e), t)
          /\ BipowerSigma(cache[e.pool], WindowEnd(e), t)
               = BipowerSigma(BeforeExcursion(e), WindowEnd(e), t)

\* The walks of probes 3 and 5, written apart, score the same firings; and the
\* reports divide them without loss: by pool and small pools (probe 5), by half
\* of the era (probe 7, "population" over all pools, tested or not).
Reported == ~Walking /\ pool > Len(Pools)
SameSample ==
  Reported =>
    LET rs == local.ratios[1]
        ts == out.tails
    IN  /\ Len(rs) = out.h1 + out.h2
        /\ Len(rs) = out.small.n + Summed([i \in DOMAIN ts |-> ts[i].n])
        /\ Cardinality({i \in DOMAIN rs : rs[i]})
             = out.small.k + Summed([i \in DOMAIN ts |-> ts[i].k])
        /\ Len(Trails) * local.n
             = local.miss + Summed([k \in DOMAIN Trails |-> Len(local.ratios[k])])

\* Whatever contrasts fast with slow inside a pool is of a pool that hosts both
\* strata by its census cells: probe 5's agreement test, probe 4's pairs, and
\* probe 8's exceedances ("both-strata pools only", l.97 there), which look at
\* the events alone.
ContrastsHostBoth ==
  \A p \in out.agreed \cup out.paired \cup out.shaped : Hosts(p) = BothStrata

\* The rolling scale of probe_jumpvalidation, cut out of prefix sums, admits the
\* blocks local_sigma() admits, over the same span; what it adds is the square
\* of the one displacement that starts before its window (l.58-82 there).
RollingNearLocal ==
  \A p \in DOMAIN cache :
    LET s == Collapsed(cache[p])
    IN  \A j \in DOMAIN s :
          LET r == RollingSigma(s, j)
              l == LocalSigma(s, s[j].block, TRAIL_1D)
          IN  /\ r.span = l.span
              /\ r.ss = l.ss \/ \E i \in 2..j : /\ s[i - 1].block < s[j].block - TRAIL_1D
                                               /\ s[i].block >= s[j].block - TRAIL_1D
                                               /\ r.ss = l.ss + Move(s, i) * Move(s, i)
=============================================================================

---------------------------- MODULE Spectrometer ----------------------------
(***************************************************************************)
(* calibration/item1_spectrometer: a population of operators of different  *)
(* geometries scans one path (run_operator() of spectrometer.py), and the  *)
(* pooled sample of their events is inverted again and again along three   *)
(* sweeps (production_sweep.py), of the population, the era and the cut,   *)
(* from the events of one scan of the longest era.                         *)
(* robustness_sweep.py draws the population again at other reference       *)
(* widths and inverts it along the same sweeps: more widths in Widths.     *)
(*                                                                         *)
(* One world and one pool: averages over pools are left out, and so are    *)
(* the logarithms, tails and intervals of the inversion.                   *)
(***************************************************************************)
EXTENDS Integers, Sequences, FiniteSets, Sums

CONSTANTS B,        \* B_FULL
          Moves,    \* increments of the path, as <<without the jump, jump>>
          Widths,   \* phi * W_REF
          Mix,      \* CADENCE_MIX: [period, dwell, pen], pen as a divisor of w or 0
          N_OPS,
          Sweeps,   \* the cells of the sweeps in order: [k, era, abar]
          TRAIL, KAPPA2, MIN_EVENTS

VARIABLES path, ops, events, cells
vars == <<path, ops, events, cells>>

Init == path = <<>> /\ ops = <<>> /\ events = <<>> /\ cells = <<>>
-----------------------------------------------------------------------------
None == -1
Larger(m, n) == IF m > n THEN m ELSE n

\* One iteration of run_operator() of operator o, block i of the path p; s is the
\* state of its loop.  Blocks are numbered from 0.
Step(p, o, s, i) ==
  LET x == p[i + 1].x
      c == IF x < s.b THEN None ELSE IF s.crossed = None THEN i ELSE s.crossed
      n == IF x < s.b THEN 0 ELSE IF s.crossed = None THEN 1 ELSE s.consec + 1
  IN  IF c # None /\ i % o.period = 0 /\ x >= s.b + o.pen /\ n >= Larger(o.dwell, 1)
      THEN [b |-> x + o.w, crossed |-> None, consec |-> 0,
            events |-> Append(s.events,
              [delay |-> i - c + 1, over |-> x - s.b, fire |-> i, cross |-> c,
               jump |-> p[c + 1].j > 0 /\ p[c + 1].x - p[c + 1].j < s.b])]
      ELSE [s EXCEPT !.crossed = c, !.consec = n]

Start(o) == [b |-> o.w, crossed |-> None, consec |-> 0, events |-> <<>>]
States(p, o) == LET s[n \in 0..Len(p)] == IF n = 0 THEN Start(o) ELSE Step(p, o, s[n - 1], n - 1)
                IN  s
Scan(p, o)   == States(p, o)[Len(p)].events

\* bipower_prefix(): the n-th addition is |d| |d before|, of the n-th block.
X(p, n) == IF n = 0 THEN 0 ELSE p[n].x
Size(p, n) == IF n = 0 THEN 0
              ELSE LET d == X(p, n) - X(p, n - 1) IN IF d < 0 THEN -d ELSE d
CP(p) == CumSum([n \in 1..Len(p) |-> Size(p, n) * Size(p, n - 1)])

\* sigma_bv() squared, times 2/pi and the trail; None too close to the start.
Sigma2(p, cr) == IF cr < TRAIL THEN None ELSE CP(p)[cr] - CP(p)[cr - TRAIL]
-----------------------------------------------------------------------------
\* simulate_world()
World(m) == /\ Len(path) < B
            /\ path' = Append(path, [x |-> X(path, Len(path)) + m[1] + m[2], j |-> m[2]])
            /\ UNCHANGED <<ops, events, cells>>

\* draw_population(), and the scan of each operator.
DrawOp(w, c) ==
  /\ Len(path) = B /\ Len(ops) < N_OPS
  /\ LET o == [w |-> w, period |-> c.period, dwell |-> c.dwell,
               pen |-> IF c.pen = 0 THEN 0 ELSE w \div c.pen]
     IN  /\ ops' = Append(ops, o)
         /\ events' = Append(events, Scan(path, o))
  /\ UNCHANGED <<path, cells>>

\* cell_metrics(): the first k operators, their events cut to the era prefix.
ByCrossing(es, era) == Compressed(es, {n \in DOMAIN es : es[n].cross < era})   \* mutant
Prefix(es, era) == Compressed(es, {n \in DOMAIN es : es[n].fire < era})
Component(i) == ops[i].period

\* invert_pool(): what is admitted and what exceeds, as <<operator, event number>>.
Admitted(ev, abar) ==
  {a \in UNION {{i} \X DOMAIN ev[i] : i \in DOMAIN ev} :
     LET e == ev[a[1]][a[2]]
     IN  e.delay <= abar /\ e.cross >= TRAIL /\ Sigma2(path, e.cross) > 0}
Exceeding(ev, adm) ==       \* o > kappa sigma sqrt(a), squared
  {a \in adm : LET e == ev[a[1]][a[2]]
               IN  e.over * e.over > KAPPA2 * Sigma2(path, e.cross) * e.delay}

\* The components, each under its first operator, the dominant one (the first of
\* the largest), and its two halves for the agreement test.
Members(k, i) == {n \in 1..k : Component(n) = Component(i)}
Firsts(k) == {i \in 1..k : \A n \in Members(k, i) : i <= n}
Largest(k) == CHOOSE i \in Firsts(k) :
                \A n \in Firsts(k) :
                  \/ Cardinality(Members(k, i)) > Cardinality(Members(k, n))
                  \/ Cardinality(Members(k, i)) = Cardinality(Members(k, n)) /\ i <= n
FirstHalf(dom) == {n \in dom : Cardinality({m \in dom : m < n}) < Cardinality(dom) \div 2}
OtherHalf(dom) == dom \ FirstHalf(dom)

Of(set, group) == Cardinality({a \in set : a[1] \in group})

Metrics(c) ==
  LET ev  == [i \in 1..c.k |-> Prefix(events[i], c.era)]
      adm == Admitted(ev, c.abar)
      exc == Exceeding(ev, adm)
      dom == Members(c.k, Largest(c.k))
  IN  IF Cardinality(adm) < MIN_EVENTS
      THEN [m |-> Cardinality(adm), ok |-> FALSE]
      ELSE [m |-> Cardinality(adm), ok |-> TRUE, e |-> Cardinality(exc),
            n |-> <<Of(adm, FirstHalf(dom)), Of(adm, OtherHalf(dom))>>,
            k |-> <<Of(exc, FirstHalf(dom)), Of(exc, OtherHalf(dom))>>,
            levels |-> [i \in Firsts(c.k) |-> <<Of(exc, Members(c.k, i)), Of(adm, Members(c.k, i))>>]]

\* The next cell of the sweeps.
Cell == /\ Len(ops) = N_OPS /\ Len(cells) < Len(Sweeps)
        /\ cells' = Append(cells, Metrics(Sweeps[Len(cells) + 1]))
        /\ UNCHANGED <<path, ops, events>>

Next == \/ \E m \in Moves : World(m)
        \/ \E w \in Widths, n \in DOMAIN Mix : DrawOp(w, Mix[n])
        \/ Cell
Spec == Init /\ [][Next]_vars
-----------------------------------------------------------------------------
\* "event-prefix truncation" (production_sweep.py, l.29): cutting the events of
\* the long scan to those that fire within a shorter era gives what a scan of
\* the shorter era gives.
EraPrefix == \A i \in DOMAIN ops : \A n \in DOMAIN Sweeps :
  LET era == Sweeps[n].era
  IN  Prefix(events[i], era) = Scan(SubSeq(path, 1, era), ops[i])

\* "trailing bipower local scale with candidate exclusion": the scale an event is
\* read against is the same whatever its crossing block, and the blocks after
\* it, had been.
Otherwise(p, cr) == [n \in DOMAIN p |-> IF n <= cr THEN p[n] ELSE [p[n] EXCEPT !.x = @ + 5]]
ScaleIsOfTheTrail == \A i \in DOMAIN ops : \A n \in DOMAIN events[i] :
  LET cr == events[i][n].cross
  IN  Sigma2(Otherwise(path, cr), cr) = Sigma2(path, cr)

\* The agreement test compares two disjoint samples that together are the
\* dominant component's, and the components' levels split the pooled one.
Pair(t) == t[1] + t[2]
Total(levels, k, j) ==
  Summed([i \in 1..k |-> IF i \in DOMAIN levels THEN levels[i][j] ELSE 0])
SamplesSplit == \A n \in DOMAIN cells :
  cells[n].ok =>
    LET c  == cells[n]
        k  == Sweeps[n].k
        lv == c.levels[Largest(k)]
    IN  /\ Pair(c.k) = lv[1] /\ Pair(c.n) = lv[2]
        /\ c.e = Total(c.levels, k, 1)
        /\ c.m = Total(c.levels, k, 2)
=============================================================================

----------------------------- MODULE BracketMap -----------------------------
(***************************************************************************)
(* calibration/item3_stress_maps/stress_maps.py, Part A, the rest of       *)
(* run_part_a(): what the scan of VectorScan accumulates block by block,   *)
(* and the cells of the bracket map that are read off the accumulators.    *)
(* The map is all that Part A keeps: it has no list of events.             *)
(*                                                                         *)
(* Logarithms, tails and the Wilson widths are left out; a column of the   *)
(* tensors is one world, and columns do not interact.                      *)
(***************************************************************************)
EXTENDS VectorScan, FiniteSets

CONSTANTS Kappas,    \* KAPPAS
          Abars,     \* ABARS
          SIGMA,     \* the block scale
          Z0,        \* least jump
          MU         \* the drift of Moves

ASSUME MapAssumption == /\ Kappas \subseteq Int /\ Abars \subseteq Int
                        /\ SIGMA \in Int /\ Z0 \in Int /\ MU \in Int

VARIABLES n_adm, n_jl, n_exc,   \* by abar, by abar, by kappa and abar
          n_all, n_jc, hill_n
counts == <<n_adm, n_jl, n_exc, n_all, n_jc, hill_n>>

MapInit == /\ Init
           /\ n_adm = [ab \in Abars |-> 0]
           /\ n_jl = [ab \in Abars |-> 0]
           /\ n_exc = [c \in Kappas \X Abars |-> 0]
           /\ n_all = 0 /\ n_jc = 0 /\ hill_n = 0
-----------------------------------------------------------------------------
One(cond) == IF cond THEN 1 ELSE 0

\* Delay and overshoot of the block's firing, before the line is anchored anew.
Delay(p) == Now - Crossed(p) + 1
Over(p)  == p.x - b
OfFiring(p) == p.j > 0 /\ p.x - p.j < b      \* mutant: the block that fires
Carried(p)  == Label(p)

\* o > k sigma sqrt(a)
Exceeds(o, k, a) == o > 0 /\ o * o > k * k * SIGMA * SIGMA * a

Counts(p) ==
  LET f == Fires(p)
      a == Delay(p)
      o == Over(p)
  IN  /\ n_adm' = [ab \in Abars |-> n_adm[ab] + One(f /\ a <= ab)]
      /\ n_jl' = [ab \in Abars |-> n_jl[ab] + One(f /\ a <= ab /\ Carried(p))]
      /\ n_exc' = [c \in Kappas \X Abars |->
                     n_exc[c] + One(f /\ a <= c[2] /\ Exceeds(o, c[1], a))]
      /\ n_all' = n_all + One(f)
      /\ n_jc' = n_jc + One(f /\ Carried(p))
      /\ hill_n' = hill_n + One(f /\ a <= 2 /\ o > 2 * Z0 /\ PERIOD = 1)

MapNext == /\ Now < B
           /\ \E p \in Blocks : /\ path' = Append(path, p)
                                /\ cross_jl' = Label(p)
                                /\ Fire(p) \/ Keep(p)
                                /\ Counts(p)
MapSpec == MapInit /\ [][MapNext]_<<vars, counts>>

\* The drift stays under half the threshold at the cut.
DriftOk(k, ab)  == 4 * MU * MU * ab <= k * k * SIGMA * SIGMA

\* n_exc and n_adm of the cells that are admissible, and far less than m events
\* are asked of a cell here (the code asks for 200).
Cells == {[kappa |-> c[1], abar |-> c[2], m |-> n_adm[c[2]], e |-> n_exc[c]] :
            c \in {d \in Kappas \X Abars : n_adm[d[2]] > 0 /\ DriftOk(d[1], d[2])}}
-----------------------------------------------------------------------------
Count(P(_)) == Cardinality({n \in DOMAIN events : P(events[n])})

\* The accumulators are what a list of events would give: each of them counts
\* the events of the path that it is about, with the delay, the overshoot and
\* the label of each.
CountsAreOfEvents ==
  /\ n_all = Len(events)
  /\ n_jc = Count(LAMBDA e : e.jump)
  /\ \A ab \in Abars : /\ n_adm[ab] = Count(LAMBDA e : e.delay <= ab)
                       /\ n_jl[ab] = Count(LAMBDA e : e.delay <= ab /\ e.jump)
  /\ \A c \in Kappas \X Abars :
       n_exc[c] = Count(LAMBDA e : e.delay <= c[2] /\ Exceeds(e.over, c[1], e.delay))
  /\ PERIOD = 1 => hill_n = Count(LAMBDA e : e.delay <= 2 /\ e.over > 2 * Z0)

\* What drift_ok is for: an exceedance of an admissible cell keeps at least half
\* of its threshold when the drift over its delay is taken off.
DriftLeavesHalf ==
  \A c \in Cells : \A n \in DOMAIN events :
    LET e == events[n]
    IN  e.delay <= c.abar /\ Exceeds(e.over, c.kappa, e.delay)
          => Exceeds(2 * (e.over - MU * e.delay), c.kappa, e.delay)

\* Part A's map is of the events of the path, and its drift cut keeps half of
\* every threshold (run_part_a(), l.167-252).
MapOfEvents == TypeOK /\ CountsAreOfEvents /\ DriftLeavesHalf
=============================================================================

------------------------------ MODULE TwoSided ------------------------------
(***************************************************************************)
(* The discreteness sweep of verification/act3-instrument: check7() of     *)
(* mc_harness.py with its detector _scan_two_sided(), and the copies of    *)
(* both in probe_ctick_real.py.                                            *)
(*                                                                         *)
(* For each value of the grid a path of BD blocks is drawn and scanned, a  *)
(* step being one block; the rates of spurious exceedances decide c_tick.  *)
(* Ticks are counted in halves: prices are even, the lines are odd.        *)
(***************************************************************************)
EXTENDS Integers, Sequences, FiniteSets

CONSTANTS Grid,      \* GRID: sigma sqrt(ABAR) in ticks, increasing
          Half,      \* distance of the lines for each of them, in half ticks
          Trades,    \* what the trades of a block may add up to
          BD,        \* blocks of a path
          ABAR,      \* 10
          CUT,       \* 3 scales
          MIN_N,     \* 200: events a rate needs
          LIMIT,     \* 2 * BASE3, as <<numerator, denominator>>
          SLACK      \* 0.01, likewise

VARIABLES g,              \* grid value in hand, an index
          xr,             \* the path so far
          anchor,
          crossed, side,
          events,         \* <<delay, overshoot>> of the path in hand
          rates           \* <<exceedances, events>> of each value, or NoRate
vars == <<g, xr, anchor, crossed, side, events, rates>>

None   == 0               \* no crossing: blocks are numbered from 1
NoRate == <<0, 0>>
Two    == 2               \* half ticks of a tick

Init == /\ g = 1
        /\ xr = <<>> /\ anchor = 0
        /\ crossed = None /\ side = 0
        /\ events = <<>>
        /\ rates = <<>>
-----------------------------------------------------------------------------
Scanning == g <= Len(Grid) /\ Len(xr) < BD
Now      == Len(xr) + 1
\* The path starts at the first block's price, which is the first anchor.
From     == IF xr = <<>> THEN 0 ELSE xr[Len(xr)]
Anchor(x) == IF xr = <<>> THEN x ELSE anchor

SideOf(x) == IF x > Anchor(x) + Half[g] THEN 1
             ELSE IF x < Anchor(x) - Half[g] THEN -1 ELSE 0
Over(x, s) == IF s > 0 THEN x - (Anchor(x) + Half[g]) ELSE (Anchor(x) - Half[g]) - x

\* Back inside of the line of the crossed side.
Returned(x) == \/ side > 0 /\ x <= Anchor(x) + Half[g]
               \/ side < 0 /\ x >= Anchor(x) - Half[g]
Back(x)  == crossed # None /\ Returned(x)
Fires(x) == IF crossed = None THEN SideOf(x) # 0 ELSE ~Returned(x)
Reset(x) == x

\* One block: whatever is outside fires, and the lines follow the price.
Block(t) ==
  /\ Scanning
  /\ LET x == From + Two * t
         s == IF crossed = None THEN SideOf(x) ELSE side
         c == IF crossed = None /\ s # 0 THEN Now ELSE crossed
     IN  /\ xr' = Append(xr, x)
         /\ side' = s
         /\ \/ /\ Fires(x)
               /\ events' = Append(events, <<Now - c + 1, Over(x, s)>>)
               /\ anchor' = Reset(x)
               /\ crossed' = None
            \/ /\ ~Fires(x)
               /\ anchor' = Anchor(x)
               /\ crossed' = IF Back(x) THEN None ELSE c
               /\ UNCHANGED events
  /\ UNCHANGED <<g, rates>>

\* o > CUT sigma sqrt(a) with sigma = Grid[g] / sqrt(ABAR), squared.
Spurious(e) == e[2] * e[2] * ABAR > Two * Two * CUT * CUT * Grid[g] * Grid[g] * e[1]
Near        == {n \in DOMAIN events : events[n][1] <= ABAR}
Rate == IF Cardinality(Near) < MIN_N THEN NoRate
        ELSE <<Cardinality({n \in Near : Spurious(events[n])}), Cardinality(Near)>>

\* The path is scanned: its rate, and the next value of the grid.
EndPath == /\ g <= Len(Grid) /\ Len(xr) = BD
           /\ rates' = Append(rates, Rate)
           /\ g' = g + 1
           /\ xr' = <<>> /\ anchor' = 0
           /\ crossed' = None /\ side' = 0
           /\ events' = <<>>

Next == (\E t \in Trades : Block(t)) \/ EndPath
Spec == Init /\ [][Next]_vars
-----------------------------------------------------------------------------
AtMost(r, q) == r[1] * q[2] <= q[1] * r[2]
FallsBy(r, s) == s[1] * r[2] * SLACK[2] <= (r[1] * SLACK[2] + SLACK[1] * r[2]) * s[2]
Swept == g > Len(Grid)

\* The harness's verdict: every value has a rate, none rises by more than the
\* slack, and c_tick is the first value whose rate is low enough.
AnyOrder == \A n \in DOMAIN rates : rates[n] # NoRate      \* mutant
Mono == /\ \A n \in DOMAIN rates : rates[n] # NoRate
        /\ \A n \in 1..(Len(rates) - 1) : FallsBy(rates[n], rates[n + 1])
Low  == {n \in DOMAIN rates : rates[n] # NoRate /\ AtMost(rates[n], LIMIT)}
CTick(n) == n \in Low /\ \A m \in Low : n <= m
Passes == Swept /\ Mono /\ Low # {}

TypeOK == /\ g \in 1..(Len(Grid) + 1) /\ Len(xr) <= BD
          /\ \A n \in DOMAIN events : events[n][1] >= 1 /\ events[n][2] > 0
          /\ Len(rates) = g - 1
          /\ \A n \in DOMAIN rates : rates[n][1] <= rates[n][2]

\* The lines follow the price: they lie around a price of the path, and nothing
\* since that price lies outside of them.
LinesFollow ==
  xr # <<>> => \E k \in DOMAIN xr :
                 /\ xr[k] = anchor
                 /\ \A m \in k..Len(xr) : xr[m] \in (anchor - Half[g])..(anchor + Half[g])

\* The detector fires in every block, so what crosses fires in the same
\* iteration: no crossing survives one, every delay is one, l.455-457 are never
\* reached, and the cut at ABAR and the sqrt(a) of the ratio do nothing here.
AlwaysAtOnce == /\ crossed = None
                /\ \A n \in DOMAIN events : events[n][1] = 1

\* c_tick is an admission constant: when the check passes, every larger value of
\* the grid stays below the limit too, but for the slack of each step.
AdmissionHolds ==
  Passes =>
    \A c \in DOMAIN rates : CTick(c) =>
      \A n \in c..Len(rates) :
        rates[n][1] * LIMIT[2] * SLACK[2]
          <= (LIMIT[1] * SLACK[2] + (n - c) * SLACK[1] * LIMIT[2]) * rates[n][2]
=============================================================================

------------------------------ MODULE Detector ------------------------------
(***************************************************************************)
(* run_operator() of verification/act3-instrument/mc_harness.py, and its   *)
(* copy in calibration/item1_spectrometer/spectrometer.py (which has no    *)
(* Bernoulli checks): the threshold detector on the planted price path.    *)
(*                                                                         *)
(* A step is one iteration of the loop over the blocks; the path of        *)
(* simulate_world() is drawn one block at a time as the detector reads it. *)
(* Prices are integers; `None' for no crossing is -1.  last_jump is read   *)
(* off the path.                                                           *)
(***************************************************************************)
EXTENDS Integers, Sequences

CONSTANTS B,         \* blocks of the path
          Moves,     \* increments of the diffusive part, drift included
          Jumps,     \* jump sizes
          W,         \* distance of the line above the last reset
          PEN,       \* penetration asked of a firing beyond the line
          DWELL,     \* blocks outside asked of a firing
          PERIOD,    \* blocks between checks, when they are periodic
          BERN,      \* are checks random instead (bern_p is not None)?
          COX        \* blocks after a jump with a sure check; -1 for None

ASSUME DetectorAssumption == /\ B \in Nat
                             /\ Moves \subseteq Int
                             /\ Jumps \subseteq Nat \ {0}
                             /\ W \in Nat
                             /\ PEN \in Nat
                             /\ DWELL \in Nat
                             /\ PERIOD \in Nat \ {0}
                             /\ BERN \in BOOLEAN
                             /\ COX \in Nat \cup {-1}

VARIABLES path,     \* blocks read: price x and jump j of each, xs and js
          b,        \* the line
          crossed,  \* block of the last entry into the outside region
          consec,   \* blocks outside since
          events
vars == <<path, b, crossed, consec, events>>

None  == -1
Point == [x : Int, j : Nat]
Event == [delay : Nat, over : Int, jump : BOOLEAN, fire : Nat, cross : Nat]

xs(i) == path[i + 1].x     \* blocks are numbered from 0
js(i) == path[i + 1].j
Now   == Len(path)         \* the block about to be read

Init == /\ path = <<>>
        /\ b = W
        /\ crossed = None
        /\ consec = 0
        /\ events = <<>>
-----------------------------------------------------------------------------
\* The next block of the path.
Price  == IF path = <<>> THEN 0 ELSE path[Len(path)].x
Blocks == {[x |-> Price + m + j, j |-> j] : m \in Moves, j \in Jumps \cup {0}}

\* Block c of the path as it is once the new block p is read.
At(c, p) == IF c = Now THEN p ELSE path[c + 1]

\* Has the new block a check?  The values is_check can take.
LastBefore(p) ==                  \* mutant: updated after the check
  IF \E k \in 1..Now : path[k].j > 0
  THEN CHOOSE k \in 0..(Now - 1) : /\ path[k + 1].j > 0
                                   /\ \A l \in (k + 2)..Now : path[l].j = 0
  ELSE -10
LastJump(p) == IF \E k \in 0..Now : At(k, p).j > 0
               THEN CHOOSE k \in 0..Now : /\ At(k, p).j > 0
                                          /\ \A l \in (k + 1)..Now : At(l, p).j = 0
               ELSE -10
Checks(p)  == IF ~BERN THEN {Now % PERIOD = 0}
              ELSE IF COX # None /\ Now - LastJump(p) <= COX THEN {TRUE}
              ELSE BOOLEAN

\* The crossing and the count of blocks outside, once the new block is read.
Sticky(p)   == IF crossed # None THEN crossed  \* mutant: a dip is no reset
               ELSE IF p.x < b THEN None ELSE Now
Drifting(p) == IF p.x < b THEN None ELSE Now   \* mutant: moved by every block
Crossing(p) == IF p.x < b THEN None
               ELSE IF crossed = None THEN Now ELSE crossed
Lingering(p) == IF p.x < b THEN consec         \* mutant: nor for the count
                ELSE consec + 1
Outside(p)   == IF p.x < b THEN 0
                ELSE IF crossed = None THEN 1 ELSE consec + 1

\* What a firing needs besides a check: max(dwell, 1) blocks outside.
Patient == IF DWELL > 1 THEN DWELL ELSE 1
Strict(p)    == p.x >= b + PEN /\ Outside(p) > Patient  \* mutant: off by one
Shallow(p)   == p.x >= b /\ Outside(p) >= Patient       \* mutant: over the line is enough
Qualifies(p) == p.x >= b + PEN /\ Outside(p) >= Patient

\* Did the jump of block c carry the price over the line?
Landed(c, p)    == p.j > 0 /\ p.x - p.j < b    \* mutant: asked of the firing
JumpLabel(c, p) == At(c, p).j > 0 /\ At(c, p).x - At(c, p).j < b

\* No firing: inside, without a check, or not far or long enough outside.
Pass(p) == /\ \/ p.x < b
              \/ ~Qualifies(p)
              \/ FALSE \in Checks(p)
           /\ crossed' = Crossing(p)
           /\ consec' = Outside(p)
           /\ UNCHANGED <<b, events>>

\* The detector fires, and the line is anchored at the price it fired at.
Anchor(p) == p.x + W
Fire(p) == /\ p.x >= b
           /\ Qualifies(p)
           /\ TRUE \in Checks(p)
           /\ LET c == Crossing(p)
              IN  events' = Append(events,
                    [delay |-> Now - c + 1, over |-> p.x - b,
                     jump |-> JumpLabel(c, p), fire |-> Now, cross |-> c])
           /\ b' = Anchor(p)
           /\ crossed' = None
           /\ consec' = 0

Next == /\ Now < B
        /\ \E p \in Blocks : /\ path' = Append(path, p)
                             /\ Pass(p) \/ Fire(p)

Spec == Init /\ [][Next]_vars
-----------------------------------------------------------------------------
TypeOK == /\ path \in Seq(Point)
          /\ b \in Int
          /\ crossed \in Nat \cup {None}
          /\ consec \in Nat
          /\ events \in Seq(Event)

\* The line event n was fired over, from the path alone: W above the price of
\* the firing before it.
Line(n) == IF n = 1 THEN W ELSE xs(events[n - 1].fire) + W
Since(n) == IF n = 1 THEN 0 ELSE events[n - 1].fire + 1

\* Every event is one unbroken excursion over the line in force: it begins at
\* the first block outside after a block inside (or after the firing before
\* it), never leaves, and does not overlap another one; its delay and its
\* overshoot are those of that excursion.
Excursion(n) ==
  LET e == events[n]
  IN  /\ Since(n) <= e.cross /\ e.cross <= e.fire /\ e.fire < Now
      /\ \A i \in e.cross..e.fire : xs(i) >= Line(n)
      /\ e.cross > Since(n) => xs(e.cross - 1) < Line(n)
      /\ e.delay = e.fire - e.cross + 1
      /\ e.over = xs(e.fire) - Line(n)
Excursions == \A n \in 1..Len(events) : Excursion(n)

\* ... of whole records, about blocks that were read.
WholeExcursions == TypeOK /\ Excursions

\* The planted label is about the crossing, whenever the detector fires: it
\* says that the crossing block jumped, and would have stayed inside without
\* the jump.
LabelsCrossing ==
  \A n \in 1..Len(events) :
    LET c == events[n].cross
    IN  events[n].jump <=> js(c) > 0 /\ xs(c) - js(c) < Line(n)

\* Under periodic checks without penetration, nothing outside waits for longer
\* than the dwell and one period: the delay grid of Part A rests on it.
Patience == Patient + PERIOD - 1
DelayBounded == ~BERN /\ PEN = 0 =>
  /\ \A n \in 1..Len(events) : events[n].delay <= Patience
  /\ consec < Patience

\* A checked block at which the detector could have fired is never let pass:
\* a block of an excursion before its firing had no check, or had not
\* penetrated, or had not dwelt.
NoMissedFiring == ~BERN =>
  \A n \in 1..Len(events) : \A i \in events[n].cross..(events[n].fire - 1) :
    \/ i % PERIOD # 0
    \/ xs(i) < Line(n) + PEN
    \/ i - events[n].cross + 1 < DWELL

\* Cox checking is sure to look at a block that jumped: without a dwell it
\* fires at once on every jump that penetrates, and labels a later firing only
\* when its jump did not.
SureAfterJump == BERN /\ COX >= 0 /\ DWELL <= 1 =>
  \A n \in 1..Len(events) :
    events[n].jump /\ xs(events[n].cross) >= Line(n) + PEN => events[n].delay = 1

\* The dwell asks for DWELL consecutive blocks outside, also across dips, and
\* the penetration for PEN beyond the line, of every event.
FilterRespected == \A n \in 1..Len(events) :
  /\ events[n].over >= PEN
  /\ events[n].delay >= DWELL
=============================================================================

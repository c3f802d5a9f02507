----------------------------- MODULE VectorScan -----------------------------
(***************************************************************************)
(* calibration/item3_stress_maps/stress_maps.py, Part A: the scan that     *)
(* runs block by block over a column of worlds, with its state carried in  *)
(* tensors (torch_scan_single() is one column of it).  It keeps no path:   *)
(* the crossing label is decided at the crossing and carried to the        *)
(* firing.  --validate compares its events with those of the operator it   *)
(* is a copy of, which looks the label up at the firing.                   *)
(*                                                                         *)
(* `path', and the blocks of an event, are history for that comparison.    *)
(***************************************************************************)
EXTENDS Integers, Sequences

CONSTANTS B,         \* blocks of the path
          Moves,     \* increments without a jump: drift and sigma * gauss
          Jumps,     \* jump sizes
          W,         \* distance of the line above the last reset
          PERIOD     \* blocks between checks

ASSUME VectorAssumption == /\ B \in Nat
                           /\ Moves \subseteq Int
                           /\ Jumps \subseteq Nat \ {0}
                           /\ W \in Nat
                           /\ PERIOD \in Nat \ {0}

VARIABLES path, b, crossed, cross_jl, events
vars == <<path, b, crossed, cross_jl, events>>

Point == [x : Int, j : Nat]
Event == [delay : Nat, over : Int, jump : BOOLEAN, fire : Nat, cross : Nat]

Now == Len(path)

Init == /\ path = <<>>
        /\ b = W
        /\ crossed = -1
        /\ cross_jl = FALSE
        /\ events = <<>>
-----------------------------------------------------------------------------
Price  == IF path = <<>> THEN 0 ELSE path[Len(path)].x
Blocks == {[x |-> Price + m + j, j |-> j] : m \in Moves, j \in Jumps \cup {0}}

Below(p) == p.x < b
Newly(p) == crossed < 0 /\ ~Below(p)

\* The crossing bookkeeping of a block: set where it is new, then reset where
\* the price is back below.
Crossed(p) == LET c == IF Newly(p) THEN Now ELSE crossed
              IN  IF c >= 0 /\ Below(p) THEN -1 ELSE c

Latest(p) == p.j > 0 /\ p.x - p.j < b             \* mutant: of the last block
Label(p)  == IF Newly(p) THEN p.j > 0 /\ p.x - p.j < b ELSE cross_jl

Fires(p) == Now % PERIOD = 0 /\ Crossed(p) >= 0 /\ p.x >= b

Fire(p) == /\ Fires(p)
           /\ events' = Append(events,
                [delay |-> Now - Crossed(p) + 1, over |-> p.x - b,
                 jump |-> Label(p), fire |-> Now, cross |-> Crossed(p)])
           /\ b' = p.x + W
           /\ crossed' = -1

Keep(p) == /\ ~Fires(p)
           /\ crossed' = Crossed(p)
           /\ UNCHANGED <<b, events>>

Next == /\ Now < B
        /\ \E p \in Blocks : /\ path' = Append(path, p)
                             /\ cross_jl' = Label(p)
                             /\ Fire(p) \/ Keep(p)

Spec == Init /\ [][Next]_vars
-----------------------------------------------------------------------------
TypeOK == /\ path \in Seq(Point)
          /\ b \in Int
          /\ crossed \in Nat \cup {-1}
          /\ cross_jl \in BOOLEAN
          /\ events \in Seq(Event)

\* The operator's count of blocks outside, which the scan does without.
Outside == IF crossed < 0 THEN 0 ELSE Now - crossed

Operator == INSTANCE Detector
              WITH PEN <- 0, DWELL <- 0, BERN <- FALSE, COX <- -1,
                   consec <- Outside

\* "--validate asserts EXACT event-list agreement" (docstring, l.38): on every
\* path, block by block, the scan has the line, the crossing and the events of
\* run_operator(), labels included.
ScanAgrees == Operator!Spec
=============================================================================

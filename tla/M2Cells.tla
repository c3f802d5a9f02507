------------------------------- MODULE M2Cells -------------------------------
(***************************************************************************)
(* verification/mainnet/m2_stream.py: what main() accumulates of a block.  *)
(* M2Stream says that every block is accumulated once; this module says    *)
(* what one iteration of the loop over a block's groups (the logs of one   *)
(* transaction in one pool) does to the ticks, the tallies and the cells,  *)
(* price_event() included.                                                 *)
(*                                                                         *)
(* Data that is abstracted: a group is a record of the sums price_event()  *)
(* reads (the burn b, the collected c, the mint m and the net swap s, for  *)
(* token 0 and 1, and the mark p, the squared sqrt price that values token *)
(* 0 in token 1), with the operator firing_of() names and the class of     *)
(* identity_of().  A log-return k is kept as the two values it is the      *)
(* ratio of.  One pool: cells and ticks of different pools never meet.     *)
(***************************************************************************)
EXTENDS Integers, Sequences

CONSTANTS Operators,
          Groups,      \* the groups that may come
          GAP,         \* bound of the model: blocks between two groups
          MAX_GROUPS   \* bound of the model: groups of the era

NoOp == "none"         \* firing_of() found no firing

Group == [swaps : Seq(Int), pos : BOOLEAN, op : Operators \cup {NoOp},
          clean : BOOLEAN, burns : Nat, mints : Nat, inside : BOOLEAN,
          b0 : Nat, b1 : Nat, c0 : Nat, c1 : Nat, m0 : Nat, m1 : Nat,
          s0 : Int, s1 : Int, p : Nat \ {0}, u : Nat]

ASSUME M2CellsAssumption ==
  /\ NoOp \notin Operators
  /\ GAP \in Nat /\ MAX_GROUPS \in Nat
  /\ Groups \subseteq Group
  \* the amounts of a group without swaps do not come from swaps
  /\ \A g \in Groups : g.swaps = <<>> => g.s0 = 0 /\ g.s1 = 0

VARIABLES
  read,    \* the groups read
  at,      \* the block of the last one
  ticks,   \* <<block, tick>>: one entry for each group with a swap
  tally,   \* state["tally"]
  cells    \* operator -> <<[blk, vBurn, vLand, u, sw]>>

cvars == <<read, at, ticks, tally, cells>>

Init == /\ read = 0 /\ at = 0
        /\ ticks = <<>>
        /\ tally = [firings |-> 0, priced |-> 0, unpriceable |-> 0,
                    with_swap |-> 0, clean |-> 0, k_negative |-> 0]
        /\ cells = [o \in Operators |-> <<>>]
-----------------------------------------------------------------------------
(* price_event(): None, or the value burned and the value landed.           *)
Most(a, b) == IF a >= b THEN a ELSE b
Fee(collected, burned) == Most(collected - burned, 0)
HeldOf(b, c, s)   == b + Fee(c, b) - s
Value(a0, a1, p) == a0 * p + a1
VBurn(g) == Value(g.b0 + Fee(g.c0, g.b0), g.b1 + Fee(g.c1, g.b1), g.p)
\* mutant: what was not minted again is left out of what landed
VLandMint(g) == Value(g.m0, g.m1, g.p)
VLand(g) == Value(Most(g.m0, HeldOf(g.b0, g.c0, g.s0)),
                  Most(g.m1, HeldOf(g.b1, g.c1, g.s1)), g.p)
Priceable(g) == /\ g.burns = 1 /\ g.mints = 1
                /\ g.inside              \* the price of the mint is in its range
                /\ HeldOf(g.b0, g.c0, g.s0) >= 0
                /\ HeldOf(g.b1, g.c1, g.s1) >= 0
                /\ VBurn(g) > 0 /\ VLand(g) > 0
Costs(vBurn, vLand) == vLand < vBurn      \* k > 0
Gains(vBurn, vLand) == vLand > vBurn      \* k < 0

(* One iteration over a group. *)
HasSwap(g) == g.swaps # <<>>
Bump(n, yes) == IF yes THEN n + 1 ELSE n

Record(g, b) == [blk |-> b, vBurn |-> VBurn(g), vLand |-> VLand(g), u |-> g.u,
                 sw |-> HasSwap(g)]

\* mutant: the tally counts a firing when it is priced
CountLate(g) ==
  tally' = [
    firings     |-> Bump(tally.firings, Priceable(g)),
    clean       |-> Bump(tally.clean, g.clean),
    unpriceable |-> Bump(tally.unpriceable, ~Priceable(g)),
    priced      |-> Bump(tally.priced, Priceable(g)),
    with_swap   |-> Bump(tally.with_swap, Priceable(g) /\ HasSwap(g)),
    k_negative  |-> Bump(tally.k_negative, Priceable(g) /\ Gains(VBurn(g), VLand(g)))]
Count(g) ==
  tally' = [
    firings     |-> Bump(tally.firings, TRUE),
    clean       |-> Bump(tally.clean, g.clean),
    unpriceable |-> Bump(tally.unpriceable, ~Priceable(g)),
    priced      |-> Bump(tally.priced, Priceable(g)),
    with_swap   |-> Bump(tally.with_swap, Priceable(g) /\ HasSwap(g)),
    k_negative  |-> Bump(tally.k_negative, Priceable(g) /\ Gains(VBurn(g), VLand(g)))]

Firing(g, b) ==
  /\ g.pos /\ g.op # NoOp
  /\ Count(g)
  /\ cells' = IF Priceable(g)
              THEN [cells EXCEPT ![g.op] = Append(@, Record(g, b))] ELSE cells

NoFiring(g) == /\ ~(g.pos /\ g.op # NoOp)
               /\ UNCHANGED <<tally, cells>>

ReadGroup ==
  /\ read < MAX_GROUPS
  /\ \E g \in Groups, b \in at..(at + GAP) :
       /\ at' = b
       /\ read' = read + 1
       /\ ticks' = IF HasSwap(g) THEN Append(ticks, <<b, g.swaps[Len(g.swaps)]>>)
                   ELSE ticks
       /\ Firing(g, b) \/ NoFiring(g)

Next == ReadGroup
Spec == Init /\ [][Next]_cvars
-----------------------------------------------------------------------------
Priced == [blk : Nat, vBurn : Nat \ {0}, vLand : Nat \ {0}, u : Nat, sw : BOOLEAN]
TypeOK ==
  /\ read \in 0..MAX_GROUPS /\ at \in Nat
  /\ ticks \in Seq(Nat \X Int)
  /\ tally \in [firings : Nat, priced : Nat, unpriceable : Nat, with_swap : Nat,
                 clean : Nat, k_negative : Nat]
  /\ cells \in [Operators -> Seq(Priced)]

\* A firing without a swap in its pool never shows a cost: both sides of its
\* value chain carry the same fee leg, and what landed is at least what was
\* held.  Such firings are the ones m3_analysis.py leaves out as unidentified
\* (l.8-21), and a cost in a cell is always of a swap (price_event, l.165-203).
NoSwapNoCost ==
  \A o \in Operators : \A i \in DOMAIN cells[o] :
    Costs(cells[o][i].vBurn, cells[o][i].vLand) => cells[o][i].sw

\* The tally is what a reader takes it for: every firing is priced or not,
\* and no more of them had a swap, or gained, than were priced.
TallyAddsUp ==
  /\ tally.firings = tally.priced + tally.unpriceable
  /\ tally.with_swap <= tally.priced
  /\ tally.k_negative <= tally.priced
  /\ tally.clean <= tally.firings
  /\ tally.firings <= read

\* A cell's firings are in block order, and so are the ticks: the windows
\* that m3_analysis.py cuts by block are stretches of them.
BlockOrder ==
  /\ \A o \in Operators : \A i, j \in DOMAIN cells[o] :
       i < j => cells[o][i].blk <= cells[o][j].blk
  /\ \A i, j \in DOMAIN ticks : i < j => ticks[i][1] <= ticks[j][1]
=============================================================================

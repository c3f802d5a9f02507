------------------------------- MODULE Anchor -------------------------------
(***************************************************************************)
(* verification/anchor/anchor.py: recorded re-placements of the operator's *)
(* own positions, classified and priced one by one, then summarised.       *)
(*                                                                         *)
(* The recorded world is external: a position manager that burns, swaps,   *)
(* sweeps its standing dust balance into the mint and credits back what    *)
(* the mint left (the comment of l.188-190).  The mint takes the two       *)
(* tokens one to one, so that its liquidity is the smaller of what is      *)
(* held; any other price only scales one token.                            *)
(*                                                                         *)
(* Data that is abstracted: amounts are small integers, p is the squared   *)
(* mark that values token 0, a log-return is the pair of values it is the  *)
(* ratio of, and x and m are in units of the half width.                   *)
(***************************************************************************)
EXTENDS Integers, Sequences, SequencesExt

CONSTANTS Burned,       \* amounts of a burn
          Swapped,      \* net amounts of the swaps, seen from the pool
          Marks,        \* values of p
          Fractions,    \* values of x and m
          TOL,          \* 2: rounding of an amount
          MIN_EVENTS,   \* 50: events a pool's summary needs
          N_ROWS        \* bound of the model: rows of the window

Classes == {"multi", "degenerate", "draw", "clean"}

VARIABLES
  dust,      \* the contract's standing balance, <<token 0, token 1>>
  byClass,   \* by_class
  priced,    \* the events that are priced, in order
  dustOk, dustBad

avars == <<dust, byClass, priced, dustOk, dustBad>>

Init == /\ dust = <<0, 0>>
        /\ byClass = [c \in Classes |-> 0]
        /\ priced = <<>>
        /\ dustOk = 0 /\ dustBad = 0
-----------------------------------------------------------------------------
Greater(a, b) == IF a >= b THEN a ELSE b
Lesser(a, b)  == IF a <= b THEN a ELSE b
Tokens == 1..2

(* A recorded row: what load_events() joins of one transaction.  The        *)
(* manager mints as much as what it holds and the swept dust allow.         *)
Held(b, s)      == [t \in Tokens |-> b[t] - s[t]]
Minted(b, s)    == LET h == Held(b, s)
                   IN Lesser(h[1] + dust[1], h[2] + dust[2])
Remainder(b, s) == [t \in Tokens |-> Held(b, s)[t] + dust[t] - Minted(b, s)]
Row(b, s, p, nonzero) ==
  [b |-> b, s |-> s, p |-> p, nonzero |-> nonzero, liq |-> Minted(b, s),
   m |-> [t \in Tokens |-> Minted(b, s)],
   credits |-> {Remainder(b, s)[t] : t \in Tokens} \ {0}]
-----------------------------------------------------------------------------
(* eval_event() *)
RowHeld(r) == Held(r.b, r.s)
Short(r, t) == RowHeld(r)[t] - r.m[t]          \* d0_raw, d1_raw
\* mutant: only the first token is looked at
DrawsFirst(r) == Short(r, 1) < -TOL
IsDraw(r)    == \E t \in Tokens : Short(r, t) < -TOL
Draw(r, t)  == Greater(-Short(r, t), 0)
Surplus(r)  == {v \in {Short(r, t) : t \in Tokens} : v > TOL}
DustMatch(r) == \A v \in Surplus(r) : \E c \in r.credits : c >= v - TOL
ClassOf(r) == IF r.nonzero # 1 THEN "multi"
              ELSE IF (\E t \in Tokens : RowHeld(r)[t] < 0) \/ r.liq <= 0
              THEN "degenerate"
              ELSE IF IsDraw(r) THEN "draw" ELSE "clean"

Worth(a, p) == a[1] * p + a[2]
\* mutant: what was drawn is not added to the value burned
VBurnBare(r) == Worth(r.b, r.p)
VBurn(r) == Worth([t \in Tokens |-> r.b[t] + Draw(r, t)], r.p)
VLand(r) == Worth([t \in Tokens |-> Greater(r.m[t], RowHeld(r)[t])], r.p)

Event(r, ts, x, m) ==
  [class |-> ClassOf(r), vBurn |-> VBurn(r), vLand |-> VLand(r),
   swaps |-> Worth(r.s, r.p), minted |-> r.liq,
   isolated |-> Lesser(RowHeld(r)[1], RowHeld(r)[2]), ts |-> ts, x |-> x, m |-> m]

(* main(), [1]: one row. *)
Rows == byClass["multi"] + byClass["degenerate"] + byClass["draw"] + byClass["clean"]
Evaluate(r, x, m) ==
  LET c == ClassOf(r)
  IN /\ byClass' = [byClass EXCEPT ![c] = @ + 1]
     /\ priced' = IF c \in {"draw", "clean"}
                  THEN Append(priced, Event(r, Rows, x, m)) ELSE priced
     /\ dustOk'  = IF c = "clean" /\ DustMatch(r) THEN dustOk + 1 ELSE dustOk
     /\ dustBad' = IF c = "clean" /\ ~DustMatch(r) THEN dustBad + 1 ELSE dustBad

Rebalance ==
  /\ Rows < N_ROWS
  /\ \E b \in [Tokens -> Burned], s \in [Tokens -> Swapped], p \in Marks,
        nonzero \in 1..2, x \in Fractions, m \in Fractions :
       /\ Minted(b, s) >= 0
       /\ dust' = Remainder(b, s)
       /\ Evaluate(Row(b, s, p, nonzero), x, m)

Next == Rebalance
Spec == Init /\ [][Next]_avars
-----------------------------------------------------------------------------
(* summarise_pool(): the priced events of a pool, in time order.            *)
Xs == SortSeq([i \in DOMAIN priced |-> priced[i].x], <)
Ms == SortSeq([i \in DOMAIN priced |-> priced[i].m], <)
Gap(x, m) == IF x >= m THEN x - m ELSE m - x
Upper(seq) == seq[Len(seq) \div 2 + 1]
Corrections == SortSeq([i \in DOMAIN Xs |-> Gap(Xs[i], Ms[i])], <)
MMed == Upper(Corrections)
Summarised == Len(priced) >= MIN_EVENTS
-----------------------------------------------------------------------------
TypeOK == /\ \A t \in Tokens : dust[t] \in Nat
          /\ byClass \in [Classes -> 0..N_ROWS]
          /\ \A i \in DOMAIN priced : priced[i].class \in {"draw", "clean"}
          /\ dustOk + dustBad = byClass["clean"]

\* The identity's hypothesis is isolated holdings (l.180-183): a clean event
\* minted what its own holdings would have, to rounding, although the manager
\* swept its dust into the mint, and a draw did not.
CleanIsIsolated == \A i \in DOMAIN priced :
  priced[i].class = "clean" <=> priced[i].minted - priced[i].isolated <= TOL

\* The cost of an event is what its swaps lost at the mark and nothing else:
\* dust drawn into the mint and surplus left over are on both sides of it.
CostIsSwaps == \A i \in DOMAIN priced :
  priced[i].vBurn - priced[i].vLand = priced[i].swaps

\* Of a manager that credits back what a mint left, no surplus is unmatched,
\* whatever balance was swept in before (the testable direction, l.189).
SurplusIsCredited == dustBad = 0

\* Every row is in one class, and the priced ones are the clean and the drawn.
NothingLost == Len(priced) = byClass["clean"] + byClass["draw"]

\* "measured trigger and correction fractions (x-hat, m-hat) per pool" (l.23):
\* the correction fraction of a pool is the median of its events' corrections.
CorrectionIsPerEvent ==
  Summarised =>
    MMed = Upper(SortSeq([i \in DOMAIN priced |-> Gap(priced[i].x, priced[i].m)], <))
=============================================================================

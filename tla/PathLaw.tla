------------------------------ MODULE PathLaw ------------------------------
(***************************************************************************)
(* The account of a path, for every first price, width of the range and    *)
(* policy, and the forms of a geometry, for every geometry.  The           *)
(* assumptions are what the harnesses choose: triggers within the range on *)
(* both sides of the displacement it is re-placed to, steps that carry no  *)
(* price from inside the triggers out of the range; and geometries with    *)
(* the price strictly inside every range and the first range above zero.   *)
(***************************************************************************)
EXTENDS Integers

CONSTANTS FirstPrice, HalfWidth, PriceMoves, PATH_STEPS, Policies, Draws
VARIABLES trial, price, mid, liq, sumJ, nRecentred, ito, tanaka, pol, decay, draw
lawVars == <<trial, price, mid, liq, sumJ, nRecentred, ito, tanaka, pol, decay, draw>>

Law == INSTANCE Dissipation WITH S0 <- FirstPrice, U <- HalfWidth, Steps <- PriceMoves,
         N_STEPS <- PATH_STEPS, step <- trial, s <- price, centre <- mid, L <- liq,
         sum_J <- sumJ, n_fire <- nRecentred

ASSUME PathAssumption ==
  /\ FirstPrice \in Nat \ {0} /\ HalfWidth \in Nat
  /\ PriceMoves \subseteq Int
  /\ Policies \subseteq [dd : Int, d0 : Int, du : Int]
  /\ \A p \in Policies : p.dd < p.d0 /\ p.d0 < p.du
  /\ \A p \in Policies, ds \in PriceMoves : /\ -HalfWidth <= p.dd + ds
                                           /\ p.du + ds <= HalfWidth
  /\ \A p \in Policies : -HalfWidth <= p.dd /\ p.du <= HalfWidth

ASSUME DrawAssumption ==
  /\ Draws \subseteq [c : Int, u : Int, d : Int, dp : Int, lo : Int, hi : Int]
  /\ \A g \in Draws : /\ 0 < g.u /\ g.u < g.c
                      /\ -g.u < g.d /\ g.d < g.u
                      /\ -g.u < g.dp /\ g.dp < g.u
                      /\ g.lo < g.c + g.d /\ g.c + g.d < g.hi

\* The dissipation identity holds after every step, and every firing gives
\* something up.
PathExact == Law!IdentityHolds /\ Law!Dissipates

\* The closed forms of the residual, of the cost and of the clock are the mint's.
FormsExact == Law!ClosedForms /\ Law!PotentialForms /\ Law!ClockBounds

\* What the firings of a path give up is what the path accounts for, exactly, by
\* closed forms and within bounds that are the mint arithmetic's.
LawExact == PathExact /\ FormsExact
=============================================================================

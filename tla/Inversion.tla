----------------------------- MODULE Inversion -----------------------------
(***************************************************************************)
(* The sweeps' inversions, for every population, era and cut.  The         *)
(* assumption is what draw_population() draws and what main() sweeps:      *)
(* operators that are there, eras within the path, and widths, periods and *)
(* dwells that are no less than nothing.                                   *)
(***************************************************************************)
EXTENDS Integers, Sequences

CONSTANTS B_FULL, Increments, Widths, Mix, N_OPS, Sweeps, TRAIL, KAPPA2, MIN_EVENTS
VARIABLES spath, ops, scans, metrics
specVars == <<spath, ops, scans, metrics>>

Spe == INSTANCE Spectrometer WITH B <- B_FULL, Moves <- Increments,
         path <- spath, events <- scans, cells <- metrics

ASSUME InversionAssumption ==
  /\ B_FULL \in Nat /\ N_OPS \in Nat /\ TRAIL \in Nat
  /\ Increments \subseteq Int \X Nat
  /\ Widths \subseteq Nat
  /\ Mix \in Seq([period : Nat \ {0}, dwell : Nat, pen : Nat])
  /\ Sweeps \in Seq([k : 1..N_OPS, era : 0..B_FULL, abar : Nat])

\* Cutting the events to an era is scanning the era; no event is read against a
\* scale of its own move; and the groups of the agreement test split the sample.
InversionSound == Spe!EraPrefix /\ Spe!ScaleIsOfTheTrail /\ Spe!SamplesSplit
=============================================================================

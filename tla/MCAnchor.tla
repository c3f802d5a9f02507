------------------------------ MODULE MCAnchor ------------------------------
(* Three events whose trigger and correction fractions differ; the position  *)
(* manager burns and mints the same amounts.                                  *)
EXTENDS Anchor
NoSwap == {0}
=============================================================================

---------------------------- MODULE MCLBPairing ----------------------------
(* Four transactions over four blocks with a window of two: a withdraw can   *)
(* have two deposits to choose from, two withdraws can compete for one, and  *)
(* a deposit can be out of reach.                                            *)
EXTENDS LBPairing
MCBlocks == 1..4
=============================================================================

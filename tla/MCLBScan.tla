------------------------------ MODULE MCLBScan ------------------------------
(* Five blocks in chunks of two, the last one short; the middle chunk has a  *)
(* withdrawal and a deposit, so that an append has three lines to be cut in. *)
EXTENDS LBScan
Ev(b, k, n) == [block |-> b, kind |-> k, name |-> n]
MCChain == <<Ev(0, "W", "a"), Ev(2, "D", "b"), Ev(3, "W", "c"), Ev(4, "D", "d")>>
OneSpan == {5}
=============================================================================

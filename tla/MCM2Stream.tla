----------------------------- MODULE MCM2Stream -----------------------------
(* Five blocks, three of them with logs; a checkpoint needs two blocks of    *)
(* progress, so that responses both shorter and longer than that occur.      *)
EXTENDS M2Stream
MCMatching == {1, 3, 4}
=============================================================================

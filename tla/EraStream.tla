----------------------------- MODULE EraStream -----------------------------
(***************************************************************************)
(* What an era stream promises, whatever the transport does.               *)
(*                                                                         *)
(* verification/mainnet/m2_stream.py reads every block of a pinned era     *)
(* that carries a log of the pool set, accumulates it once, and publishes  *)
(* the accumulation.  The process may die and fall back to what an earlier *)
(* checkpoint had saved; what it publishes is nevertheless the whole era,  *)
(* each block once and in order.  This module says only that; M2Stream     *)
(* says how requests, partial responses, retries, checkpoints and files    *)
(* achieve it.                                                             *)
(***************************************************************************)
EXTENDS Naturals, Sequences

CONSTANTS ERA_LO, ERA_HI,   \* first and last block of the era
          Matching          \* the blocks that carry a log of the pool set

VARIABLES taken,      \* the blocks accumulated so far, in the order taken
          published   \* the sets of results handed out: none or one ledger

vars == <<taken, published>>

\* A ledger that holds the matching blocks up to block hi, each once, in order.
Exact(ledger, hi) ==
  /\ \A i, j \in 1..Len(ledger) : i < j => ledger[i] < ledger[j]
  /\ {ledger[i] : i \in 1..Len(ledger)} = {b \in Matching : b <= hi}

Init == /\ taken = <<>>
        /\ published = {}

\* The next matching block is accumulated: none between it and the last one.
Take(b) == /\ \A i \in 1..Len(taken) : taken[i] < b
           /\ \A c \in Matching : c < b => \E i \in 1..Len(taken) : taken[i] = c
           /\ taken' = Append(taken, b)
           /\ UNCHANGED published

\* A crash returns to what was saved: an earlier ledger, never another one.
FallBack == /\ \E n \in 0..Len(taken) : taken' = SubSeq(taken, 1, n)
            /\ UNCHANGED published

\* The whole era is handed out, once.
Publish == /\ published = {}
           /\ Exact(taken, ERA_HI)
           /\ published' = {taken}
           /\ UNCHANGED taken

Next == \/ \E b \in Matching : Take(b)
        \/ FallBack
        \/ Publish

Spec == Init /\ [][Next]_vars
=============================================================================

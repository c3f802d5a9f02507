---------------------------- MODULE ProbeStream ----------------------------
(***************************************************************************)
(* verification/mainnet/mev_probe.py, run() and post(): the probe's own    *)
(* loop over a chain's window.  It differs from m2_stream.py's in what a   *)
(* failure does: no checkpoint, a transport error without progress is      *)
(* retried without limit, an exhausted post() that met only busy answers   *)
(* ends the process, and the one output is written when all is read.       *)
(*                                                                         *)
(* on_block() is the block's number appended to `fed'; MevProbe says what  *)
(* it does.                                                                *)
(***************************************************************************)
EXTENDS Naturals, Sequences

CONSTANTS LO, HI,      \* the window
          Logged,      \* its blocks with a log of the pools
          ATTEMPTS,    \* 8: attempts of one post()
          EmptyDrop    \* may a response end cleanly, and empty, too early?

VARIABLES
  at,       \* "off", "post", "read", "write"
  from,     \* first block of the outstanding request (cur)
  upto,     \* last block read (last)
  attempt,  \* attempts of the current post()
  broken,   \* the last response ended in a transport error
  fed,      \* the blocks given to on_block()
  summary   \* the output file: none, torn, or what it was computed from

svars == <<at, from, upto, attempt, broken, fed, summary>>

NoSummary == [st |-> "absent", of |-> <<>>]

Init == /\ at = "off" /\ from = LO /\ upto = LO - 1 /\ attempt = 0
        /\ broken = FALSE /\ fed = <<>> /\ summary = NoSummary
-----------------------------------------------------------------------------
LoopTop(c) == /\ at' = IF c <= HI THEN "post" ELSE "write"
              /\ from' = c /\ upto' = c - 1 /\ attempt' = 0

(* run() keeps nothing of an earlier run: it starts at LO, whatever there is. *)
Start == /\ at = "off"
         /\ LoopTop(LO)
         /\ fed' = <<>> /\ broken' = FALSE
         /\ UNCHANGED summary

(* Killed, or RuntimeError("portal unreachable"), which run() does not catch. *)
Stop == /\ at' = "off" /\ from' = LO /\ upto' = LO - 1 /\ attempt' = 0
        /\ broken' = FALSE /\ fed' = <<>>

Crash == at # "off" /\ Stop /\ UNCHANGED summary

Again == /\ attempt + 1 < ATTEMPTS
         /\ attempt' = attempt + 1
         /\ UNCHANGED <<at, from, upto, broken, fed, summary>>

PostOk == /\ at = "post" /\ at' = "read" /\ broken' = FALSE
          /\ UNCHANGED <<from, upto, attempt, fed, summary>>
PostBusy == /\ at = "post"
            /\ \/ Again
               \/ attempt + 1 = ATTEMPTS /\ Stop /\ UNCHANGED summary

(* The code behind the try block. *)
Onward == LoopTop(upto + 1) /\ UNCHANGED <<fed, summary>>
Retry  == LoopTop(from) /\ UNCHANGED <<fed, summary>>

\* The except clause; `continue' when nothing was read.
\* mutant: an error starts the request over, whatever it had delivered
FromTheTop == at \in {"post", "read"} /\ broken' = TRUE /\ Retry
TransportError == /\ at \in {"post", "read"} /\ broken' = TRUE
                  /\ \/ upto < from /\ Retry
                     \/ upto >= from /\ Onward

PostError == /\ at = "post"
             /\ \/ Again
                \/ attempt + 1 = ATTEMPTS /\ TransportError
ReadError == at = "read" /\ TransportError

(* A line: the next block with logs, or a header before it. *)
ReadLine == /\ at = "read"
            /\ \E b \in LO..HI :
                 /\ upto < b
                 /\ \A m \in Logged : m <= upto \/ m >= b
                 /\ upto' = b
                 /\ fed' = IF b \in Logged THEN Append(fed, b) ELSE fed
            /\ UNCHANGED <<at, from, attempt, broken, summary>>

\* mutant: an empty response is asked for again
NeverBreaks == /\ at = "read" /\ (upto >= from \/ EmptyDrop) /\ UNCHANGED broken
               /\ IF upto >= from THEN Onward ELSE Retry
ReadEnd == /\ at = "read"
           /\ \/ upto >= from /\ Onward /\ UNCHANGED broken
              \/ /\ upto < from
                 /\ EmptyDrop \/ \A m \in Logged : m <= upto
                 /\ at' = "write"
                 /\ UNCHANGED <<from, upto, attempt, broken, fed, summary>>

(* json.dump(s, open(out, "w")): truncated first, then written. *)
OpenSummary  == /\ at = "write" /\ summary' = [st |-> "torn", of |-> <<>>]
                /\ at' = "close" /\ UNCHANGED <<from, upto, attempt, broken, fed>>
CloseSummary == /\ at = "close" /\ summary' = [st |-> "whole", of |-> fed]
                /\ Stop

Work == PostOk \/ PostBusy \/ PostError \/ ReadError \/ ReadLine \/ ReadEnd
          \/ OpenSummary \/ CloseSummary
Next == Start \/ Crash \/ Work
Spec == Init /\ [][Next]_svars
(* Every sleep is bounded and every request has a timeout. *)
FairSpec == Spec /\ WF_svars(Work)
-----------------------------------------------------------------------------
\* Each block is given to on_block() once and in order, through every retry
\* and resumption at last + 1 (l.452-457).
FedOnce ==
  /\ \A i, j \in DOMAIN fed : i < j => fed[i] < fed[j]
  /\ {fed[i] : i \in DOMAIN fed} = {b \in Logged : b <= upto}

\* A summary that was written is of the whole window, also when an earlier
\* one is overwritten; it needs a portal that never ends a response early
\* and empty (the `break' of l.456).
WholeWindow == summary.st = "whole" /\ ~EmptyDrop
                 => {summary.of[i] : i \in DOMAIN summary.of} = Logged

\* Transport errors without progress are retried without limit, so that a run
\* may never end; but it does end when they stop.
EndsOnceQuiet == <>[]~broken => []<>(at = "off")
=============================================================================

------------------------------ MODULE M2Stream ------------------------------
(***************************************************************************)
(* verification/mainnet/m2_stream.py: the era stream over the portal.      *)
(*                                                                         *)
(* One process asks the portal for the blocks cur..ERA_HI and reads the    *)
(* lines of the response one block at a time.  A response may stop early,  *)
(* break, or be refused; the process may die at any step.  RESUME is       *)
(* replaced atomically, the three output files are not.                    *)
(*                                                                         *)
(* Data that is abstracted: the accumulation of a block (cells, ticks,     *)
(* tally, classes, id_errs all change in the body of one loop iteration,   *)
(* with no step of the environment in between) is its number appended to   *)
(* `ledger'; the wall clock of the checkpoint guard is a choice.           *)
(***************************************************************************)
EXTENDS Naturals, Sequences

CONSTANTS ERA_LO, ERA_HI, \* the pinned era
          Matching,       \* its blocks with a mint, burn, collect or swap log
          CKPT_BLOCKS,    \* 100_000: blocks between two checkpoints
          MAX_FAILS,      \* 20: consecutive transport errors survived
          RETRIES,        \* 8: attempts of one post()
          SilentDrop      \* may a response end cleanly, and empty, too early?

ASSUME M2Assumption == /\ ERA_LO \in Nat \ {0}
                       /\ ERA_HI \in Nat
                       /\ ERA_LO <= ERA_HI
                       /\ Matching \subseteq ERA_LO..ERA_HI
                       /\ CKPT_BLOCKS \in Nat
                       /\ MAX_FAILS \in Nat
                       /\ RETRIES \in Nat \ {0}
                       /\ SilentDrop \in BOOLEAN

Outputs == <<"cells", "ticks", "summary">>   \* in the order main() writes them
Output  == {Outputs[k] : k \in 1..3}

VARIABLES
  pc,      \* "off", "post", "read", "publish" (about to open), "write"
  cur,     \* first block of the outstanding request
  last,    \* last block read
  fails,   \* consecutive transport errors
  tries,   \* attempts of the current post()
  out,     \* index in Outputs of the file to write
  doneTo,  \* state["done_to"], in memory
  ledger,  \* the accumulation in state, in memory
  ckpt,    \* the RESUME file; an absent one is the state main() starts from
  files    \* the output files

mem  == <<cur, last, fails, tries, out, doneTo, ledger>>
vars == <<pc, mem, ckpt, files>>

Block     == (ERA_LO - 1)..ERA_HI
File      == [st : {"absent", "torn", "whole"}, data : Seq(Block)]
NoFile    == [st |-> "absent", data |-> <<>>]
NewState  == [doneTo |-> ERA_LO - 1, ledger |-> <<>>]

Init == /\ pc = "off"
        /\ cur = ERA_LO /\ last = ERA_LO - 1
        /\ fails = 0 /\ tries = 0 /\ out = 1
        /\ doneTo = ERA_LO - 1 /\ ledger = <<>>
        /\ ckpt = NewState
        /\ files = [f \in Output |-> NoFile]
-----------------------------------------------------------------------------
(* The top of the loop with cur = c: another request, or the final writes.  *)
LoopTop(c) == /\ pc' = IF c <= ERA_HI THEN "post" ELSE "publish"
              /\ cur' = c
              /\ last' = c - 1
              /\ tries' = 0

(* What a run begins with: the RESUME file when there is one. *)
LoadAfresh == NewState      \* mutant: RESUME is written and never read
Load       == ckpt

(* OUT_CELLS on disk: main() says "checkpoint exists; nothing to do".       *)
NeverDone   == FALSE        \* mutant: the outputs are not looked at
AlreadyDone == files["cells"].st # "absent"

(* main() up to the loop.                                                   *)
Start == /\ pc = "off"
         /\ ~AlreadyDone
         /\ doneTo' = Load.doneTo
         /\ ledger' = Load.ledger
         /\ fails' = 0
         /\ out' = 1
         /\ LoopTop(Load.doneTo + 1)
         /\ UNCHANGED <<ckpt, files>>

(* The process stops: killed, out of memory, or an uncaught exception.      *)
(* Memory is lost; main() starts it again from scratch.                     *)
Stop == /\ pc' = "off"
        /\ cur' = ERA_LO /\ last' = ERA_LO - 1
        /\ fails' = 0 /\ tries' = 0 /\ out' = 1
        /\ doneTo' = ERA_LO - 1 /\ ledger' = <<>>

Crash == /\ pc # "off"
         /\ Stop
         /\ UNCHANGED <<ckpt, files>>
-----------------------------------------------------------------------------
(* One attempt of post(): a 200 response. *)
PostOk == /\ pc = "post"
          /\ pc' = "read"
          /\ UNCHANGED <<mem, ckpt, files>>

(* A 429 or 5xx sleeps and goes on; on the last attempt the loop runs out   *)
(* and RuntimeError("portal unreachable") leaves main(), which catches only *)
(* transport and JSON errors.                                               *)
PostBusy == /\ pc = "post"
            /\ \/ /\ tries + 1 < RETRIES
                  /\ tries' = tries + 1
                  /\ UNCHANGED <<pc, cur, last, fails, out, doneTo, ledger>>
               \/ /\ tries + 1 >= RETRIES
                  /\ Stop
            /\ UNCHANGED <<ckpt, files>>

(* What main() does after the try block, fails already updated to f, in its *)
(* three outcomes: ask again, give up on the rest of the era, or go on.     *)
NoProgress == last < cur
AskAgain == LoopTop(cur) /\ UNCHANGED doneTo
Break    == pc' = "publish" /\ UNCHANGED <<cur, last, tries, doneTo>>
Advance(nxt) == LoopTop(nxt) /\ doneTo' = last

\* mutant: the last block of a response is asked for again
ReReads(f) == /\ \/ NoProgress /\ f > 0 /\ AskAgain
                 \/ NoProgress /\ f = 0 /\ Break
                 \/ ~NoProgress /\ Advance(last)
              /\ fails' = f
              /\ UNCHANGED <<out, ledger>>
\* mutant: no progress ends the stream whether or not it was an error
GivesUp(f) == /\ \/ NoProgress /\ Break
                 \/ ~NoProgress /\ Advance(last + 1)
              /\ fails' = f
              /\ UNCHANGED <<out, ledger>>
\* mutant: an empty response is asked for again, as in mev_probe.py's loop
NeverBreaks(f) == /\ \/ NoProgress /\ AskAgain
                     \/ ~NoProgress /\ Advance(last + 1)
                  /\ fails' = f
                  /\ UNCHANGED <<out, ledger>>
AfterResponse(f) == /\ \/ NoProgress /\ f > 0 /\ AskAgain
                       \/ NoProgress /\ f = 0 /\ Break
                       \/ ~NoProgress /\ Advance(last + 1)
                    /\ fails' = f
                    /\ UNCHANGED <<out, ledger>>

(* The except clause, from post() or from reading a line. *)
\* mutant: the limit is tested before the error is counted
LateLimit == \/ fails > MAX_FAILS /\ Stop
             \/ fails <= MAX_FAILS /\ AfterResponse(fails + 1)
\* mutant: errors are not counted
NoLimit == AfterResponse(1)
TransportError == \/ fails + 1 > MAX_FAILS /\ Stop
                  \/ fails + 1 <= MAX_FAILS /\ AfterResponse(fails + 1)

(* A RequestException inside post(): retried, raised on the last attempt. *)
PostError == /\ pc = "post"
             /\ \/ /\ tries + 1 < RETRIES
                   /\ tries' = tries + 1
                   /\ UNCHANGED <<pc, cur, last, fails, out, doneTo, ledger>>
                \/ /\ tries + 1 >= RETRIES
                   /\ TransportError
             /\ UNCHANGED <<ckpt, files>>
-----------------------------------------------------------------------------
(* The portal sends block b: the next matching block, or a header without   *)
(* logs before it.                                                          *)
NextLine(b) == /\ last < b
               /\ \A m \in Matching : m <= last \/ m >= b

Accumulate(b) == IF b \in Matching THEN Append(ledger, b) ELSE ledger

(* What checkpoint() saves at block b: the state with b accumulated.        *)
Premature(b) == [doneTo |-> b, ledger |-> ledger]  \* mutant: saved before it
Saving(b)    == [doneTo |-> b, ledger |-> ledger']

(* One iteration over r.iter_lines(), the checkpoint at its end included.   *)
ReadLine == /\ pc = "read"
            /\ \E b \in ERA_LO..ERA_HI, due \in BOOLEAN :
                 /\ NextLine(b)
                 /\ last' = b
                 /\ ledger' = Accumulate(b)
                 /\ \/ /\ due /\ b - doneTo > CKPT_BLOCKS
                       /\ doneTo' = b
                       /\ ckpt' = Saving(b)
                    \/ /\ ~(due /\ b - doneTo > CKPT_BLOCKS)
                       /\ UNCHANGED <<doneTo, ckpt>>
            /\ UNCHANGED <<pc, cur, fails, tries, out, files>>

ReadError == /\ pc = "read"
             /\ TransportError
             /\ UNCHANGED <<ckpt, files>>

(* The response ends without an error.  The portal sends at least one line  *)
(* while matching blocks remain, unless the connection is dropped silently. *)
ReadEnd == /\ pc = "read"
           /\ \/ last >= cur
              \/ \A m \in Matching : m <= last
              \/ SilentDrop
           /\ AfterResponse(0)
           /\ UNCHANGED <<ckpt, files>>
-----------------------------------------------------------------------------
(* gzip.open(..., "wt") truncates; the content is there when it is closed.  *)
OpenOutput == /\ pc = "publish"
              /\ files' = [files EXCEPT ![Outputs[out]] =
                             [st |-> "torn", data |-> <<>>]]
              /\ pc' = "write"
              /\ UNCHANGED <<mem, ckpt>>

CloseOutput == /\ pc = "write"
               /\ files' = [files EXCEPT ![Outputs[out]] =
                              [st |-> "whole", data |-> ledger]]
               /\ \/ /\ out < 3
                     /\ out' = out + 1
                     /\ pc' = "publish"
                     /\ UNCHANGED <<cur, last, fails, tries, doneTo, ledger>>
                  \/ /\ out = 3
                     /\ Stop
               /\ UNCHANGED ckpt

Work == PostOk \/ PostBusy \/ PostError \/ ReadLine \/ ReadError \/ ReadEnd
          \/ OpenOutput \/ CloseOutput
Next == Start \/ Crash \/ Work

Spec == Init /\ [][Next]_vars

(* The process goes on while it lives: every sleep is bounded and every     *)
(* request has a timeout.  Nothing is assumed of the portal, nor of whoever *)
(* starts the process again.                                                *)
FairSpec == Spec /\ WF_vars(Work)

(* ... and whoever runs it starts it again when it has stopped. *)
RestartSpec == FairSpec /\ WF_vars(Start)
-----------------------------------------------------------------------------
TypeOK == /\ pc \in {"off", "post", "read", "publish", "write"}
          /\ cur \in ERA_LO..(ERA_HI + 1)
          /\ last \in Block
          /\ fails \in 0..MAX_FAILS
          /\ tries \in 0..(RETRIES - 1)
          /\ out \in 1..3
          /\ doneTo \in Block
          /\ ledger \in Seq(Block)
          /\ ckpt \in [doneTo : Block, ledger : Seq(Block)]
          /\ files \in [Output -> File]

Exact(l, hi) ==
  /\ \A i, j \in 1..Len(l) : i < j => l[i] < l[j]
  /\ {l[i] : i \in 1..Len(l)} = {b \in Matching : b <= hi}

\* Through partial responses, retries, crashes and resumes, the accumulation
\* holds every matching block up to the last one read exactly once and in
\* order (main's cur, last and done_to arithmetic, l.230-320).
ExactlyOnce == /\ Exact(ledger, last)
               /\ Exact(ckpt.ledger, ckpt.doneTo)

\* A finished cell file holds the whole era: no path through the loop reaches
\* the final writes early.  Holds when the portal keeps its promise
\* (~SilentDrop); the loop's only early exit is the `break' of l.318.
PublishedWholeEra == files["cells"].st = "whole"
                       => Exact(files["cells"].data, ERA_HI)

\* The three outputs, whichever run wrote them and wherever one crashed,
\* describe the same accumulation.
OutputsAgree == \A f, g \in Output :
                  files[f].st = "whole" /\ files[g].st = "whole"
                    => files[f].data = files[g].data

\* What a rerun is told: when OUT_CELLS exists main() says "checkpoint exists;
\* nothing to do" (l.207), so nothing may be left to do.
NothingLeftToDo == pc = "off" /\ files["cells"].st # "absent"
                     => \A f \in Output : files[f].st = "whole"

\* A checkpoint never moves backwards: what it covered stays covered, and
\* what it held stays held.
CheckpointOnlyGrows ==
  [][/\ ckpt'.doneTo >= ckpt.doneTo
     /\ \E n \in 0..Len(ckpt'.ledger) : ckpt.ledger = SubSeq(ckpt'.ledger, 1, n)
    ]_ckpt

\* Every run of the process ends, with its outputs or with an exception,
\* whatever the portal does: errors without progress are counted (l.309) and
\* progress is bounded by the era.
RunEnds == (pc # "off") ~> (pc = "off")

\* A cell file that no process is writing any more and that is not whole is one
\* that a kill interrupted; the program itself never leaves one behind.
TornAndLeft    == files["cells"].st = "torn" /\ pc # "write"
OnlyKillsTear  == [][TornAndLeft' => TornAndLeft \/ (Crash /\ pc = "write")]_vars

\* If the process is killed only finitely often, and from then on transport
\* errors stop, the cells are whole in the end and stay so, unless a kill in the
\* middle of their write left them torn: no run completes those (l.206).
CellsInTheEnd == <>[][~Crash /\ ~PostBusy /\ ~PostError /\ ~ReadError]_vars
                   => <>[](files["cells"].st = "whole") \/ <>[]TornAndLeft
-----------------------------------------------------------------------------
(* The era stream it implements: what is accumulated is what a start would  *)
(* find when no process runs, and the cell file is what is published.       *)
Taken     == IF pc = "off" THEN ckpt.ledger ELSE ledger
Published == IF files["cells"].st = "whole" THEN {files["cells"].data} ELSE {}

Era == INSTANCE EraStream WITH taken <- Taken, published <- Published

\* m2_stream.py implements the abstract era stream: exactly once, in order,
\* falling back only to a prefix, publishing the whole era once.
ImplementsEra == Era!Spec
=============================================================================

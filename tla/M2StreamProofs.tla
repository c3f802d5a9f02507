--------------------------- MODULE M2StreamProofs ---------------------------
(***************************************************************************)
(* Theorems about the era stream, for every era, set of matching blocks,   *)
(* checkpoint distance and retry limit.                                    *)
(***************************************************************************)
EXTENDS M2Stream, SequenceTheorems, TLAPS

\* s is what t starts with.
PrefixOf(s, t) == /\ Len(s) <= Len(t)
                  /\ \A i \in 1..Len(s) : s[i] = t[i]

(***************************************************************************)
(* The inductive invariant.  ExactlyOnce alone is not inductive: that      *)
(* last' = cur' - 1 loses no progress needs the relation of cur and last,  *)
(* and that a checkpoint grows needs done_to between the request and the   *)
(* last block read, and the file's ledger to be a prefix of the one in     *)
(* memory.                                                                 *)
(***************************************************************************)
Position == /\ pc \in {"post", "read"} => cur <= ERA_HI
            /\ pc = "post" => last = cur - 1
            /\ pc = "read" => cur - 1 <= last
            /\ pc # "off"  => ckpt.doneTo <= doneTo /\ doneTo <= last
Saved    == pc # "off" => PrefixOf(ckpt.ledger, ledger)

IInv == TypeOK /\ Position /\ Saved /\ ExactlyOnce
-----------------------------------------------------------------------------
\* One more matching block at the end of an exact ledger, none skipped.
LEMMA ExactExtend ==
  ASSUME NEW l \in Seq(Block), NEW hi \in Block, NEW b \in Matching,
         Exact(l, hi), hi < b, \A m \in Matching : m <= hi \/ m >= b,
         NEW a \in Seq(Block), Len(a) = Len(l) + 1, a[Len(l) + 1] = b,
         \A i \in 1..Len(l) : a[i] = l[i]
  PROVE  Exact(a, b)
<1>1. /\ hi \in Int /\ b \in Int /\ Len(l) \in Nat
      /\ \A m \in Matching : m \in Int
  BY M2Assumption DEF Block
<1>2. \A i \in 1..Len(l) : l[i] \in Matching /\ l[i] <= hi
  <2>1. \A i \in 1..Len(l) : l[i] \in {m \in Matching : m <= hi}
    BY DEF Exact
  <2> QED
    BY <2>1
<1>3. \A i, j \in 1..Len(l) : i < j => l[i] < l[j]
  BY DEF Exact
<1>4. ASSUME NEW i \in 1..Len(a), NEW j \in 1..Len(a), i < j
      PROVE  a[i] < a[j]
  <2>1. i \in 1..Len(l)
    BY <1>1, <1>4
  <2>2. a[i] = l[i] /\ a[i] \in Int /\ a[i] <= hi
    BY <1>1, <1>2, <2>1
  <2>3. CASE j \in 1..Len(l)
    BY <1>3, <1>4, <2>1, <2>3
  <2>4. CASE j = Len(l) + 1
    BY <1>1, <2>2, <2>4
  <2> QED
    BY <1>1, <2>3, <2>4
<1>5. \A m \in Matching : m <= b <=> m <= hi \/ m = b
  <2> SUFFICES ASSUME NEW m \in Matching PROVE m <= b <=> m <= hi \/ m = b
    OBVIOUS
  <2>1. m <= hi \/ m >= b
    OBVIOUS
  <2> QED
    BY <1>1, <2>1
<1>6. {l[i] : i \in 1..Len(l)} = {m \in Matching : m <= hi}
  BY DEF Exact
<1>7. \A m : (\E i \in 1..Len(a) : a[i] = m)
              <=> (\E i \in 1..Len(l) : l[i] = m) \/ m = b
  BY <1>1
<1>8. {a[i] : i \in 1..Len(a)} = {m \in Matching : m <= b}
  BY <1>5, <1>6, <1>7
<1> QED
  BY <1>4, <1>8 DEF Exact

\* Reading the next line keeps the ledger exact, whether the line carries logs
\* or is a bare header.
LEMMA ExactAppend ==
  ASSUME NEW l \in Seq(Block), NEW hi \in Block, NEW b \in ERA_LO..ERA_HI,
         Exact(l, hi), hi < b, \A m \in Matching : m <= hi \/ m >= b
  PROVE  /\ Exact(IF b \in Matching THEN Append(l, b) ELSE l, b)
         /\ (IF b \in Matching THEN Append(l, b) ELSE l) \in Seq(Block)
         /\ PrefixOf(l, IF b \in Matching THEN Append(l, b) ELSE l)
<1> USE M2Assumption DEF Block
<1>1. CASE b \notin Matching
  <2>1. ASSUME NEW m \in Matching PROVE m <= b <=> m <= hi
    <3>1. m \in Int /\ m # b /\ (m <= hi \/ m >= b)
      BY <1>1
    <3> QED
      BY <3>1
  <2>2. {m \in Matching : m <= b} = {m \in Matching : m <= hi}
    BY <2>1
  <2> QED
    BY <1>1, <2>2 DEF Exact, PrefixOf
<1>2. CASE b \in Matching
  <2>1. /\ Append(l, b) \in Seq(Block) /\ Len(Append(l, b)) = Len(l) + 1
        /\ Len(l) \in Nat
        /\ \A i \in 1..Len(l) : Append(l, b)[i] = l[i]
        /\ Append(l, b)[Len(l) + 1] = b
    BY AppendProperties
  <2>2. Exact(Append(l, b), b)
    BY <1>2, <2>1, ExactExtend
  <2> QED
    BY <1>2, <2>1, <2>2 DEF PrefixOf
<1> QED
  BY <1>1, <1>2

\* A ledger with nothing in it is exact before the era.
LEMMA ExactEmpty == Exact(<<>>, ERA_LO - 1)
<1>1. Len(<<>>) = 0 /\ 1..0 = {}
  OBVIOUS
<1>2. \A b \in Matching : ~(b <= ERA_LO - 1)
  BY M2Assumption
<1> QED
  BY <1>1, <1>2 DEF Exact

\* What a stopped process leaves in memory satisfies the invariant.
LEMMA StopKeeps ==
  ASSUME IInv, Stop, UNCHANGED <<ckpt, files>>
  PROVE  IInv'
<1> USE M2Assumption
<1>1. TypeOK'
  BY DEF IInv, TypeOK, Stop, Block
<1>2. Position' /\ Saved'
  BY DEF Position, Saved, Stop
<1>3. ExactlyOnce'
  BY ExactEmpty DEF IInv, ExactlyOnce, Exact, Stop
<1> QED
  BY <1>1, <1>2, <1>3 DEF IInv

\* What follows a response, complete or broken off, keeps the invariant.
LEMMA AfterResponseKeeps ==
  ASSUME IInv, pc \in {"post", "read"}, NEW f \in 0..MAX_FAILS, AfterResponse(f),
         UNCHANGED <<ckpt, files>>
  PROVE  IInv' /\ last' = last /\ pc' \in {"post", "publish"}
<1> USE M2Assumption
<1>1. cur - 1 <= last /\ cur \in Nat /\ last \in Block /\ doneTo \in Block
  BY DEF IInv, Position, TypeOK, Block
<1>2. last' = last /\ ledger' = ledger /\ pc' \in {"post", "publish"}
  BY <1>1 DEF AfterResponse, NoProgress, AskAgain, Break, Advance, LoopTop, Block
<1>3. TypeOK'
  BY <1>1, <1>2 DEF IInv, TypeOK, AfterResponse, NoProgress, AskAgain, Break, Advance, LoopTop, Block
<1>4. Position'
  <2>1. pc # "off" /\ ckpt.doneTo <= doneTo /\ doneTo <= last /\ cur <= ERA_HI
    BY DEF IInv, Position
  <2>2. pc' = "post" => last' = cur' - 1 /\ cur' <= ERA_HI
    BY <1>1, <1>2, <2>1 DEF AfterResponse, NoProgress, AskAgain, Break, Advance, LoopTop, Block
  <2>3. doneTo' = doneTo \/ doneTo' = last
    BY DEF AfterResponse, AskAgain, Break, Advance
  <2>4. ckpt.doneTo \in Int /\ doneTo \in Int /\ last \in Int
    BY DEF IInv, TypeOK, Block
  <2> QED
    BY <1>2, <2>1, <2>2, <2>3, <2>4 DEF Position
<1>5. Saved' /\ ExactlyOnce'
  BY <1>2 DEF IInv, Saved, PrefixOf, ExactlyOnce, Exact
<1> QED
  BY <1>2, <1>3, <1>4, <1>5 DEF IInv

\* Every step keeps the invariant.
LEMMA Inductive == IInv /\ [Next]_vars => IInv'
<1> SUFFICES ASSUME IInv, [Next]_vars PROVE IInv'
  OBVIOUS
<1> USE M2Assumption
<1>1. CASE Start
  <2>1. ckpt \in [doneTo : Block, ledger : Seq(Block)] /\ Exact(ckpt.ledger, ckpt.doneTo)
    BY DEF IInv, TypeOK, ExactlyOnce
  <2>2. /\ last' = ckpt.doneTo /\ cur' = ckpt.doneTo + 1 /\ doneTo' = ckpt.doneTo
        /\ ledger' = ckpt.ledger /\ pc' \in {"post", "publish"}
        /\ pc' = "post" => cur' <= ERA_HI
    BY <1>1, <2>1 DEF Start, Load, AlreadyDone, LoopTop, Block
  <2>3. TypeOK'
    BY <1>1, <2>1, <2>2 DEF IInv, TypeOK, Start, Load, AlreadyDone, LoopTop, Block
  <2>4. ckpt' = ckpt /\ ckpt.doneTo \in Int
    BY <1>1, <2>1 DEF Start, Block
  <2>5. Position'
    BY <2>2, <2>4 DEF Position
  <2>6. Saved' /\ ExactlyOnce'
    BY <2>1, <2>2, <2>4, LenProperties DEF Saved, PrefixOf, ExactlyOnce, Exact
  <2> QED
    BY <2>3, <2>5, <2>6 DEF IInv
<1>2. CASE Crash
  BY <1>2, StopKeeps DEF Crash
<1>3. CASE PostOk
  <2>1. /\ pc = "post" /\ pc' = "read"
        /\ UNCHANGED <<cur, last, fails, tries, out, doneTo, ledger, ckpt, files>>
    BY <1>3 DEF PostOk, mem
  <2>2. TypeOK'
    BY <2>1 DEF IInv, TypeOK
  <2>3. Position'
    <3>1. cur \in Int /\ last = cur - 1 /\ cur <= ERA_HI
      BY <2>1 DEF IInv, TypeOK, Position, Block
    <3>2. ckpt.doneTo <= doneTo /\ doneTo <= last
      BY <2>1 DEF IInv, Position
    <3> QED
      BY <2>1, <3>1, <3>2 DEF Position
  <2>4. Saved' /\ ExactlyOnce'
    BY <2>1 DEF IInv, Saved, PrefixOf, ExactlyOnce, Exact
  <2> QED
    BY <2>2, <2>3, <2>4 DEF IInv
<1>4. CASE PostBusy
  <2>1. CASE Stop
    BY <1>4, <2>1, StopKeeps DEF PostBusy
  <2>2. CASE ~Stop
    <3>1. /\ pc = "post" /\ tries' = tries + 1 /\ tries + 1 < RETRIES
          /\ UNCHANGED <<pc, cur, last, fails, out, doneTo, ledger, ckpt, files>>
      BY <1>4, <2>2 DEF PostBusy
    <3>2. TypeOK'
      BY <3>1 DEF IInv, TypeOK, Block
    <3> QED
      BY <3>1, <3>2 DEF IInv, Position, Saved, PrefixOf, ExactlyOnce, Exact
  <2> QED
    BY <2>1, <2>2
<1>5. ASSUME pc \in {"post", "read"}, TransportError, UNCHANGED <<ckpt, files>>
      PROVE  IInv'
  <2>1. fails + 1 <= MAX_FAILS => fails + 1 \in 0..MAX_FAILS
    BY DEF IInv, TypeOK
  <2> QED
    BY <1>5, <2>1, StopKeeps, AfterResponseKeeps DEF TransportError
<1>6. CASE PostError
  <2>1. CASE TransportError
    BY <1>5, <1>6, <2>1 DEF PostError
  <2>2. CASE ~TransportError
    <3>1. /\ pc = "post" /\ tries' = tries + 1 /\ tries + 1 < RETRIES
          /\ UNCHANGED <<pc, cur, last, fails, out, doneTo, ledger, ckpt, files>>
      BY <1>6, <2>2 DEF PostError
    <3>2. TypeOK'
      BY <3>1 DEF IInv, TypeOK, Block
    <3> QED
      BY <3>1, <3>2 DEF IInv, Position, Saved, PrefixOf, ExactlyOnce, Exact
  <2> QED
    BY <2>1, <2>2
<1>7. CASE ReadLine
  <2>1. PICK b \in ERA_LO..ERA_HI, due \in BOOLEAN :
          /\ NextLine(b) /\ last' = b /\ ledger' = Accumulate(b)
          /\ \/ /\ doneTo' = b /\ ckpt' = [doneTo |-> b, ledger |-> ledger']
             \/ UNCHANGED <<doneTo, ckpt>>
    BY <1>7 DEF ReadLine, Saving
  <2>2. /\ pc = "read" /\ pc' = "read"
        /\ UNCHANGED <<cur, fails, tries, out, files>>
    BY <1>7 DEF ReadLine
  <2>3. /\ ledger \in Seq(Block) /\ last \in Block /\ last < b
        /\ Exact(ledger, last) /\ \A m \in Matching : m <= last \/ m >= b
    BY <2>1 DEF IInv, TypeOK, ExactlyOnce, NextLine
  <2>4. Exact(ledger', b) /\ ledger' \in Seq(Block) /\ PrefixOf(ledger, ledger')
    BY <2>1, <2>3, ExactAppend DEF Accumulate
  <2>5. ckpt' \in [doneTo : Block, ledger : Seq(Block)] /\ doneTo' \in Block
    BY <2>1, <2>4 DEF IInv, TypeOK, Block
  <2>6. TypeOK'
    BY <2>1, <2>2, <2>4, <2>5 DEF IInv, TypeOK, Block
  <2>7. Position'
    BY <2>1, <2>2, <2>3 DEF IInv, TypeOK, Position, Block
  <2>8. Saved'
    <3>1. CASE ckpt' = [doneTo |-> b, ledger |-> ledger']
      BY <2>4, <3>1, LenProperties DEF Saved, PrefixOf
    <3>2. CASE ckpt' = ckpt
      <4>1. ckpt.ledger \in Seq(Block) /\ PrefixOf(ckpt.ledger, ledger)
        BY <2>2 DEF IInv, TypeOK, Saved
      <4> QED
        <5>1. /\ Len(ckpt.ledger) \in Nat /\ Len(ledger) \in Nat /\ Len(ledger') \in Nat
              /\ ckpt.ledger' = ckpt.ledger
          BY <2>3, <2>4, <3>2, <4>1, LenProperties
        <5>2. PrefixOf(ckpt.ledger, ledger')
          BY <2>4, <4>1, <5>1 DEF PrefixOf
        <5> QED
          BY <3>2, <5>2 DEF Saved
    <3> QED
      BY <2>1, <3>1, <3>2
  <2>9. ExactlyOnce'
    BY <2>1, <2>4 DEF IInv, ExactlyOnce, Exact
  <2> QED
    BY <2>6, <2>7, <2>8, <2>9 DEF IInv
<1>8. CASE ReadError
  BY <1>5, <1>8 DEF ReadError
<1>9. CASE ReadEnd
  BY <1>9, AfterResponseKeeps DEF ReadEnd
<1>10. CASE OpenOutput
  <2>1. TypeOK'
    BY <1>10 DEF OpenOutput, IInv, TypeOK, mem, File, Output, Outputs
  <2> QED
    BY <1>10, <2>1 DEF OpenOutput, IInv, Position, Saved, PrefixOf, ExactlyOnce, Exact, mem
<1>11. CASE CloseOutput
  <2>1. files' \in [Output -> File] /\ UNCHANGED ckpt
    BY <1>11 DEF CloseOutput, IInv, TypeOK, File, Output
  <2>2. CASE Stop
    <3>1. TypeOK'
      BY <2>1, <2>2 DEF IInv, TypeOK, Stop, Block
    <3> QED
      BY <2>1, <2>2, <3>1, ExactEmpty
      DEF IInv, Position, Saved, ExactlyOnce, Exact, Stop
  <2>3. CASE ~Stop
    <3>1. /\ pc = "write" /\ pc' = "publish" /\ out' = out + 1 /\ out < 3
          /\ UNCHANGED <<cur, last, fails, tries, doneTo, ledger>>
      BY <1>11, <2>3 DEF CloseOutput
    <3>2. TypeOK'
      BY <2>1, <3>1 DEF IInv, TypeOK
    <3> QED
      BY <2>1, <3>1, <3>2 DEF IInv, Position, Saved, PrefixOf, ExactlyOnce, Exact
  <2> QED
    BY <2>2, <2>3
<1>12. CASE UNCHANGED vars
  BY <1>12 DEF vars, mem, IInv, TypeOK, Position, Saved, PrefixOf, ExactlyOnce, Exact
<1> QED
  BY <1>1, <1>2, <1>3, <1>4, <1>6, <1>7, <1>8, <1>9, <1>10, <1>11, <1>12 DEF Next, Work

\* The initial state satisfies it.
LEMMA Initial == Init => IInv
BY M2Assumption, ExactEmpty
DEF Init, IInv, TypeOK, Position, Saved, ExactlyOnce, NewState, NoFile, File, Block, Output
-----------------------------------------------------------------------------
\* Type correctness of the stream, whatever the portal and the crashes do.
THEOREM TypeCorrect == Spec => []TypeOK
<1>1. IInv => TypeOK
  BY DEF IInv
<1> QED
  BY <1>1, Initial, Inductive, PTL DEF Spec

\* The accumulation, in memory and in the checkpoint file, holds every matching
\* block up to its position exactly once and in order, for every era.
THEOREM StreamsExactlyOnce == Spec => []ExactlyOnce
<1>1. IInv => ExactlyOnce
  BY DEF IInv
<1> QED
  BY <1>1, Initial, Inductive, PTL DEF Spec
-----------------------------------------------------------------------------
(***************************************************************************)
(* Completeness.  When a clean end of a response means what the portal     *)
(* promises, the final writes are reached only with the whole era in the   *)
(* ledger, and only by a run that found no cell file.                      *)
(***************************************************************************)
WholeAtPublish == pc \in {"publish", "write"} => Exact(ledger, ERA_HI)
CellsPending   == pc # "off" /\ out = 1 => files["cells"].st # "whole"
StillReading   == pc \in {"post", "read"} => out = 1

CInv == IInv /\ WholeAtPublish /\ CellsPending /\ StillReading /\ PublishedWholeEra

\* A ledger exact up to a block with no matching block after it is the era's.
LEMMA ExactToEnd ==
  ASSUME NEW l, NEW hi \in Block, Exact(l, hi), \A m \in Matching : m <= hi
  PROVE  Exact(l, ERA_HI)
<1>1. \A m \in Matching : m <= hi <=> m <= ERA_HI
  BY M2Assumption
<1> QED
  BY <1>1 DEF Exact

\* A step that leaves the files and the publishing position alone.
LEMMA CompleteAfterResponse ==
  ASSUME CInv, IInv', pc \in {"post", "read"}, NEW f \in 0..MAX_FAILS, AfterResponse(f),
         f = 0 => last >= cur \/ \A m \in Matching : m <= last,
         UNCHANGED <<ckpt, files>>
  PROVE  CInv'
<1> USE M2Assumption
<1>1. /\ cur <= ERA_HI /\ cur \in Int /\ last \in Block /\ out = 1
      /\ Exact(ledger, last) /\ files["cells"].st # "whole"
  BY DEF CInv, IInv, TypeOK, Position, ExactlyOnce, StillReading, CellsPending, Block
<1>2. ledger' = ledger /\ out' = out /\ pc' \in {"post", "publish"}
  BY <1>1 DEF AfterResponse, NoProgress, AskAgain, Break, Advance, LoopTop
<1>3. pc' = "publish" => \A m \in Matching : m <= last
  BY <1>1 DEF AfterResponse, NoProgress, AskAgain, Break, Advance, LoopTop, Block
<1>4. WholeAtPublish'
  BY <1>1, <1>2, <1>3, ExactToEnd DEF WholeAtPublish, Exact
<1> QED
  BY <1>1, <1>2, <1>4 DEF CInv, CellsPending, StillReading, PublishedWholeEra

\* Stopping keeps it: nothing that is on disk changes.
LEMMA CompleteStop ==
  ASSUME CInv, IInv', Stop, UNCHANGED <<ckpt, files>>
  PROVE  CInv'
BY DEF CInv, Stop, WholeAtPublish, CellsPending, StillReading, PublishedWholeEra, Exact

\* Every step keeps the completeness invariant.
LEMMA Complete == ~SilentDrop /\ CInv /\ [Next]_vars => CInv'
<1> SUFFICES ASSUME ~SilentDrop, CInv, [Next]_vars PROVE CInv'
  OBVIOUS
<1> USE M2Assumption
<1>0. IInv /\ IInv'
  BY Inductive DEF CInv
<1>1. CASE Start
  <2>1. ckpt.doneTo \in Block /\ Exact(ckpt.ledger, ckpt.doneTo)
    BY <1>0 DEF IInv, TypeOK, ExactlyOnce
  <2>2. /\ ledger' = ckpt.ledger /\ files' = files /\ out' = 1
        /\ files["cells"].st = "absent" /\ pc' \in {"post", "publish"}
        /\ pc' = "publish" => ckpt.doneTo + 1 > ERA_HI
    BY <1>1, <2>1 DEF Start, Load, AlreadyDone, LoopTop, Block
  <2>3. pc' = "publish" => \A m \in Matching : m <= ckpt.doneTo
    BY <2>1, <2>2 DEF Block
  <2>4. pc' = "publish" => Exact(ckpt.ledger, ERA_HI)
    BY <2>1, <2>3, ExactToEnd
  <2> QED
    BY <1>0, <2>2, <2>4
    DEF CInv, WholeAtPublish, CellsPending, StillReading, PublishedWholeEra, Exact
<1>2. CASE Crash
  BY <1>0, <1>2, CompleteStop DEF Crash
<1>3. CASE PostOk
  BY <1>0, <1>3
  DEF PostOk, mem, CInv, WholeAtPublish, CellsPending, StillReading, PublishedWholeEra, Exact
<1>4. ASSUME pc \in {"post", "read"}, TransportError, UNCHANGED <<ckpt, files>>
      PROVE  CInv'
  <2>1. fails + 1 <= MAX_FAILS => fails + 1 \in 0..MAX_FAILS /\ fails + 1 # 0
    BY <1>0 DEF IInv, TypeOK
  <2> QED
    BY <1>0, <1>4, <2>1, CompleteStop, CompleteAfterResponse DEF TransportError
<1>5. CASE PostBusy \/ PostError
  <2>1. CASE Stop /\ UNCHANGED <<ckpt, files>>
    BY <1>0, <2>1, CompleteStop
  <2>2. CASE TransportError /\ UNCHANGED <<ckpt, files>>
    BY <1>4, <1>5, <2>2 DEF PostBusy, PostError
  <2>3. CASE UNCHANGED <<pc, out, ledger, ckpt, files>>
    BY <1>0, <2>3
    DEF CInv, WholeAtPublish, CellsPending, StillReading, PublishedWholeEra, Exact
  <2> QED
    BY <1>5, <2>1, <2>2, <2>3 DEF PostBusy, PostError
<1>6. CASE ReadLine
  <2>1. pc = "read" /\ pc' = "read" /\ UNCHANGED <<out, files>>
    BY <1>6 DEF ReadLine
  <2> QED
    BY <1>0, <2>1
    DEF CInv, WholeAtPublish, CellsPending, StillReading, PublishedWholeEra, Exact
<1>7. CASE ReadError
  BY <1>4, <1>7 DEF ReadError
<1>8. CASE ReadEnd
  BY <1>0, <1>8, CompleteAfterResponse DEF ReadEnd
<1>9. CASE OpenOutput \/ CloseOutput
  <2>1. /\ pc \in {"publish", "write"} /\ out \in 1..3 /\ Exact(ledger, ERA_HI)
        /\ files \in [Output -> File] /\ "cells" \in Output /\ Outputs[out] \in Output
        /\ Outputs[out] = "cells" <=> out = 1
    BY <1>0, <1>9 DEF OpenOutput, CloseOutput, CInv, IInv, TypeOK, WholeAtPublish, Output, Outputs
  <2>2. PublishedWholeEra'
    BY <1>9, <2>1 DEF OpenOutput, CloseOutput, CInv, PublishedWholeEra, Exact
  <2>3. CellsPending'
    BY <1>9, <2>1 DEF OpenOutput, CloseOutput, Stop, CInv, CellsPending, mem
  <2>4. WholeAtPublish' /\ StillReading'
    BY <1>9, <2>1 DEF OpenOutput, CloseOutput, Stop, WholeAtPublish, StillReading, Exact, mem
  <2> QED
    BY <1>0, <2>2, <2>3, <2>4 DEF CInv
<1>10. CASE UNCHANGED vars
  BY <1>0, <1>10
  DEF vars, mem, CInv, WholeAtPublish, CellsPending, StillReading, PublishedWholeEra, Exact
<1> QED
  BY <1>1, <1>2, <1>3, <1>5, <1>6, <1>7, <1>8, <1>9, <1>10 DEF Next, Work

\* The initial state satisfies it: there is no file yet.
LEMMA CompleteInit == Init => CInv
<1>1. Init => IInv
  BY Initial
<1> QED
  BY <1>1
  DEF Init, CInv, WholeAtPublish, CellsPending, StillReading, PublishedWholeEra, NoFile, Output, Outputs

\* When the portal never ends an empty response early, a cell file that is
\* complete on disk covers the whole era: main()'s `break' is never premature.
THEOREM PublishesWholeEra ==
  ASSUME ~SilentDrop
  PROVE  Spec => []PublishedWholeEra
<1>1. CInv => PublishedWholeEra
  BY DEF CInv
<1>2. CInv /\ [Next]_vars => CInv'
  BY Complete
<1> QED
  BY <1>1, <1>2, CompleteInit, PTL DEF Spec
-----------------------------------------------------------------------------
(***************************************************************************)
(* Refinement: a line with logs is EraStream's Take, the death of a run is *)
(* its FallBack, the closing of the cell file is its Publish, and every    *)
(* other step is a stutter.                                                *)
(***************************************************************************)

\* A prefix is a SubSeq from 1, as FallBack writes it.
LEMMA PrefixIsSubSeq ==
  ASSUME NEW s \in Seq(Block), NEW t \in Seq(Block), PrefixOf(s, t)
  PROVE  \E n \in 0..Len(t) : s = SubSeq(t, 1, n)
<1>1. Len(s) \in Nat /\ Len(t) \in Nat /\ Len(s) \in 0..Len(t)
  BY LenProperties DEF PrefixOf
<1>2. \A i \in 1..Len(s) : t[i] \in Block /\ s[i] = t[i]
  BY <1>1 DEF PrefixOf
<1>3. /\ SubSeq(t, 1, Len(s)) \in Seq(Block)
      /\ Len(SubSeq(t, 1, Len(s))) = Len(s)
      /\ \A i \in 1..Len(s) : SubSeq(t, 1, Len(s))[i] = t[i]
  BY <1>1, <1>2, SubSeqProperties
<1>4. s = SubSeq(t, 1, Len(s))
  BY <1>2, <1>3, SeqEqual
<1> QED
  BY <1>1, <1>4

\* The death of a run, the files left as they are, falls back to the checkpoint.
LEMMA StopFallsBack ==
  ASSUME IInv, pc # "off", Stop, ckpt' = ckpt, Published' = Published
  PROVE  Era!FallBack
<1>1. ckpt.ledger \in Seq(Block) /\ ledger \in Seq(Block) /\ PrefixOf(ckpt.ledger, ledger)
  BY DEF IInv, TypeOK, Saved
<1>2. Taken = ledger /\ Taken' = ckpt.ledger
  BY DEF Taken, Stop
<1> QED
  BY <1>1, <1>2, PrefixIsSubSeq DEF Era!FallBack

\* What follows a response changes neither the accumulation nor the files.
LEMMA AfterResponseStutters ==
  ASSUME CInv, pc \in {"post", "read"}, NEW f, AfterResponse(f), UNCHANGED <<ckpt, files>>
  PROVE  UNCHANGED Era!vars
BY DEF AfterResponse, NoProgress, AskAgain, Break, Advance, LoopTop, Taken, Published, Era!vars

\* A line of the response is the next Take, or a bare header.
LEMMA ReadTakes ==
  ASSUME CInv, ReadLine
  PROVE  (\E b \in Matching : Era!Take(b)) \/ UNCHANGED Era!vars
<1>1. PICK b \in ERA_LO..ERA_HI : NextLine(b) /\ ledger' = Accumulate(b)
  BY DEF ReadLine
<1>2. Taken = ledger /\ Taken' = ledger' /\ Published' = Published
  BY DEF ReadLine, Taken, Published
<1>3. CASE b \notin Matching
  BY <1>1, <1>2, <1>3 DEF Accumulate, Era!vars
<1>4. CASE b \in Matching
  <2>1. {ledger[i] : i \in 1..Len(ledger)} = {m \in Matching : m <= last}
    BY DEF CInv, IInv, ExactlyOnce, Exact
  <2>2. /\ last \in Int /\ b \in Int /\ last < b
        /\ \A m \in Matching : m \in Int /\ (m <= last \/ m >= b)
    BY <1>1, M2Assumption DEF CInv, IInv, TypeOK, Block, NextLine
  <2>3. ASSUME NEW i \in 1..Len(ledger) PROVE ledger[i] < b
    <3>1. ledger[i] \in {m \in Matching : m <= last}
      BY <2>1
    <3>2. ledger[i] \in Int /\ ledger[i] <= last
      BY <2>2, <3>1
    <3> QED
      BY <2>2, <3>2
  <2>4. ASSUME NEW m \in Matching, m < b
        PROVE  \E i \in 1..Len(ledger) : ledger[i] = m
    <3>1. m <= last
      BY <2>2, <2>4
    <3> QED
      BY <2>1, <3>1
  <2> QED
    BY <1>1, <1>2, <1>4, <2>3, <2>4 DEF Accumulate, Era!Take
<1> QED
  BY <1>3, <1>4

\* Opening an output shows nothing; closing the first one publishes.
LEMMA OutputsPublish ==
  ASSUME CInv, OpenOutput \/ CloseOutput
  PROVE  Era!Publish \/ Era!FallBack \/ UNCHANGED Era!vars
<1>1. /\ pc \in {"publish", "write"} /\ out \in 1..3 /\ files \in [Output -> File]
      /\ Outputs[out] \in Output /\ "cells" \in Output
      /\ Outputs[out] = "cells" <=> out = 1
      /\ Exact(ledger, ERA_HI) /\ ckpt' = ckpt
  BY DEF OpenOutput, CloseOutput, CInv, IInv, TypeOK, WholeAtPublish, Output, Outputs
<1>2. CASE OpenOutput
  <2>1. Taken' = Taken
    BY <1>2 DEF OpenOutput, mem, Taken
  <2>2. out = 1 => files["cells"].st # "whole"
    BY <1>1 DEF CInv, CellsPending
  <2>3. Published' = Published
    BY <1>1, <1>2, <2>2 DEF OpenOutput, Published
  <2> QED
    BY <2>1, <2>3 DEF Era!vars
<1>3. CASE CloseOutput /\ out = 1
  <2>1. Published = {}
    BY <1>1, <1>3 DEF CInv, CellsPending, Published
  <2>2. files'["cells"] = [st |-> "whole", data |-> ledger]
    BY <1>1, <1>3 DEF CloseOutput
  <2>3. Published' = {ledger}
    BY <2>2 DEF Published
  <2>4. Taken = ledger /\ Taken' = Taken
    BY <1>3 DEF CloseOutput, Taken
  <2> QED
    BY <1>1, <2>1, <2>3, <2>4 DEF Era!Publish, Era!Exact, Exact
<1>4. CASE CloseOutput /\ out # 1
  <2>1. Published' = Published
    BY <1>1, <1>4 DEF CloseOutput, Published
  <2>2. CASE out = 3
    BY <1>1, <1>4, <2>1, <2>2, StopFallsBack DEF CloseOutput, CInv
  <2>3. CASE out = 2
    <3>1. Taken' = Taken
      BY <1>1, <1>4, <2>3 DEF CloseOutput, Taken
    <3> QED
      BY <2>1, <3>1 DEF Era!vars
  <2> QED
    BY <1>1, <1>4, <2>2, <2>3
<1> QED
  BY <1>2, <1>3, <1>4

\* Every step of the stream is a step of EraStream or leaves it alone.
LEMMA StepRefines == CInv /\ [Next]_vars => [Era!Next]_Era!vars
<1> SUFFICES ASSUME CInv, [Next]_vars PROVE [Era!Next]_Era!vars
  OBVIOUS
<1>1. CASE Start
  BY <1>1 DEF Start, Load, AlreadyDone, LoopTop, Taken, Published, Era!vars
<1>2. CASE Crash
  BY <1>2, StopFallsBack DEF Crash, CInv, Published, Era!Next
<1>3. CASE PostOk
  BY <1>3 DEF PostOk, mem, Taken, Published, Era!vars
<1>4. ASSUME pc \in {"post", "read"}, TransportError, UNCHANGED <<ckpt, files>>
      PROVE  [Era!Next]_Era!vars
  <2>1. CASE Stop
    BY <1>4, <2>1, StopFallsBack DEF CInv, Published, Era!Next
  <2>2. CASE AfterResponse(fails + 1)
    BY <1>4, <2>2, AfterResponseStutters
  <2> QED
    BY <1>4, <2>1, <2>2 DEF TransportError
<1>5. CASE PostBusy \/ PostError
  <2>1. CASE Stop /\ pc = "post" /\ UNCHANGED <<ckpt, files>>
    BY <2>1, StopFallsBack DEF CInv, Published, Era!Next
  <2>2. CASE TransportError /\ pc = "post" /\ UNCHANGED <<ckpt, files>>
    BY <1>4, <2>2
  <2>3. CASE UNCHANGED <<pc, ledger, ckpt, files>>
    BY <2>3 DEF Taken, Published, Era!vars
  <2> QED
    BY <1>5, <2>1, <2>2, <2>3 DEF PostBusy, PostError
<1>6. CASE ReadLine
  BY <1>6, ReadTakes DEF Era!Next
<1>7. CASE ReadError
  BY <1>4, <1>7 DEF ReadError
<1>8. CASE ReadEnd
  BY <1>8, AfterResponseStutters DEF ReadEnd
<1>9. CASE OpenOutput \/ CloseOutput
  BY <1>9, OutputsPublish DEF Era!Next
<1>10. CASE UNCHANGED vars
  BY <1>10 DEF vars, mem, Taken, Published, Era!vars
<1> QED
  BY <1>1, <1>2, <1>3, <1>5, <1>6, <1>7, <1>8, <1>9, <1>10 DEF Next, Work

\* The era stream of m2_stream.py implements EraStream: with retries, partial
\* responses and crashes at any step it takes each matching block in order,
\* loses at most what no checkpoint held, and publishes the whole era once.
THEOREM StreamImplementsEra ==
  ASSUME ~SilentDrop
  PROVE  Spec => ImplementsEra
<1>1. Init => Era!Init
  BY DEF Init, Era!Init, Taken, Published, NewState, NoFile, Output, Outputs
<1>2. CInv /\ [Next]_vars => CInv'
  BY Complete
<1> QED
  BY <1>1, <1>2, CompleteInit, StepRefines, PTL DEF Spec, ImplementsEra, Era!Spec
-----------------------------------------------------------------------------
(***************************************************************************)
(* The outputs.  OutputsAgree is not inductive: it needs that a run which  *)
(* still reads found no file at all (main() looks at the cells, and they   *)
(* are opened first), that the files are opened in the order of Outputs,   *)
(* and that nothing is read any more once one is open.                     *)
(***************************************************************************)
NoneOpened == \A f \in Output : files[f].st = "absent"

FirstOpened  == files["cells"].st = "absent" => NoneOpened
UntilPublish == pc \in {"post", "read"} => out = 1 /\ NoneOpened
InOrder      == pc \in {"publish", "write"} =>
                  \A k \in 1..3 :
                    /\ files[Outputs[k]].st = "whole" => files[Outputs[k]].data = ledger
                    /\ files[Outputs[k]].st = "absent"
                         <=> k > out \/ (k = out /\ pc = "publish")

OInv == IInv /\ FirstOpened /\ UntilPublish /\ InOrder /\ OutputsAgree

\* Output and its order: "cells" is the first of three different files.
LEMMA ThreeOutputs ==
  /\ Output = {"cells", "ticks", "summary"}
  /\ \A k \in 1..3 : Outputs[k] \in Output /\ (Outputs[k] = "cells" <=> k = 1)
  /\ \A j, k \in 1..3 : Outputs[j] = Outputs[k] => j = k
BY DEF Output, Outputs

\* A step that leaves the files as they are, stopping or before publication.
LEMMA OutputsLeftAlone ==
  ASSUME OInv, IInv', UNCHANGED files,
         \/ pc' = "off"
         \/ pc' \in {"post", "read", "publish"} /\ out' = 1 /\ NoneOpened
  PROVE  OInv'
<1>1. FirstOpened' /\ OutputsAgree'
  BY DEF OInv, FirstOpened, NoneOpened, OutputsAgree
<1>2. UntilPublish' /\ InOrder'
  BY ThreeOutputs DEF UntilPublish, InOrder, NoneOpened
<1> QED
  BY <1>1, <1>2 DEF OInv

\* Every step keeps it.
LEMMA OutputsInductive == OInv /\ [Next]_vars => OInv'
<1> SUFFICES ASSUME OInv, [Next]_vars PROVE OInv'
  OBVIOUS
<1>0. IInv /\ IInv'
  BY Inductive DEF OInv
<1>1. CASE Start
  <2>1. NoneOpened /\ files' = files /\ out' = 1 /\ pc' \in {"post", "publish"}
    BY <1>1 DEF Start, AlreadyDone, LoopTop, OInv, FirstOpened
  <2> QED
    BY <1>0, <2>1, OutputsLeftAlone
<1>2. CASE Crash
  BY <1>0, <1>2, OutputsLeftAlone DEF Crash, Stop
<1>3. CASE PostOk \/ PostBusy \/ PostError \/ ReadLine \/ ReadError \/ ReadEnd
  <2>1. pc \in {"post", "read"} /\ files' = files
    BY <1>3 DEF PostOk, PostBusy, PostError, ReadLine, ReadError, ReadEnd
  <2>2. out = 1 /\ NoneOpened
    BY <2>1 DEF OInv, UntilPublish
  <2>3. \/ pc' = "off"
        \/ pc' \in {"post", "read", "publish"} /\ out' = out
    BY <1>3, <2>1
    DEF PostOk, PostBusy, PostError, ReadLine, ReadError, ReadEnd, TransportError,
        AfterResponse, AskAgain, Break, Advance, LoopTop, Stop, mem
  <2> QED
    BY <1>0, <2>1, <2>2, <2>3, OutputsLeftAlone
<1>4. CASE OpenOutput
  <2>1. /\ pc = "publish" /\ pc' = "write" /\ out' = out /\ ledger' = ledger
        /\ out \in 1..3 /\ files \in [Output -> File]
        /\ files' = [files EXCEPT ![Outputs[out]] = [st |-> "torn", data |-> <<>>]]
    BY <1>0, <1>4 DEF OpenOutput, mem, IInv, TypeOK
  <2>2. /\ \A f \in Output : f # Outputs[out] => files'[f] = files[f]
        /\ files'[Outputs[out]].st = "torn"
    BY <2>1, ThreeOutputs
  <2>3. \A k \in 1..3 : k # out => files'[Outputs[k]] = files[Outputs[k]]
    BY <2>1, <2>2, ThreeOutputs
  <2>4. InOrder'
    BY <2>1, <2>2, <2>3 DEF OInv, InOrder
  <2>5. FirstOpened'
    <3>1. out # 1 => files["cells"].st # "absent"
      BY <2>1, ThreeOutputs DEF OInv, InOrder
    <3> QED
      BY <2>2, <3>1, ThreeOutputs DEF FirstOpened
  <2>6. OutputsAgree'
    BY <2>2 DEF OInv, OutputsAgree
  <2> QED
    BY <1>0, <2>1, <2>4, <2>5, <2>6 DEF OInv, UntilPublish
<1>5. CASE CloseOutput
  <2>1. /\ pc = "write" /\ pc' \in {"publish", "off"} /\ out \in 1..3
        /\ files \in [Output -> File]
        /\ files' = [files EXCEPT ![Outputs[out]] = [st |-> "whole", data |-> ledger]]
        /\ pc' = "publish" => out' = out + 1 /\ ledger' = ledger
    BY <1>0, <1>5 DEF CloseOutput, Stop, IInv, TypeOK
  <2>2. /\ \A f \in Output : f # Outputs[out] => files'[f] = files[f]
        /\ files'[Outputs[out]] = [st |-> "whole", data |-> ledger]
    BY <2>1, ThreeOutputs
  <2>3. \A k \in 1..3 : k # out => files'[Outputs[k]] = files[Outputs[k]]
    BY <2>1, <2>2, ThreeOutputs
  <2>4. \A k \in 1..3 : files[Outputs[k]].st = "whole" => files[Outputs[k]].data = ledger
    BY <2>1 DEF OInv, InOrder
  <2>5. \A f \in Output : files'[f].st = "whole" => files'[f].data = ledger
    BY <2>2, <2>4 DEF Output
  <2>6. InOrder'
    BY <2>1, <2>2, <2>3, <2>4 DEF OInv, InOrder
  <2>7. FirstOpened'
    <3>1. files["cells"].st # "absent" /\ "cells" \in Output
      BY <2>1, ThreeOutputs DEF OInv, InOrder
    <3>2. files'["cells"].st # "absent"
      BY <2>2, <3>1
    <3> QED
      BY <3>2 DEF FirstOpened
  <2>8. OutputsAgree'
    BY <2>5 DEF OutputsAgree
  <2> QED
    BY <1>0, <2>1, <2>6, <2>7, <2>8 DEF OInv, UntilPublish
<1>6. CASE UNCHANGED vars
  BY <1>0, <1>6
  DEF vars, mem, OInv, FirstOpened, NoneOpened, UntilPublish, InOrder, OutputsAgree
<1> QED
  BY <1>1, <1>2, <1>3, <1>4, <1>5, <1>6 DEF Next, Work

\* Whichever run wrote them and wherever one crashed, the outputs that are
\* complete hold the same accumulation, even when the portal breaks its
\* promise: the cells file keeps every later run from writing the others.
THEOREM OutputsAreOfOneRun == Spec => []OutputsAgree
<1>1. Init => OInv
  BY Initial, ThreeOutputs
  DEF Init, OInv, FirstOpened, NoneOpened, UntilPublish, InOrder, OutputsAgree, NoFile
<1>2. OInv => OutputsAgree
  BY DEF OInv
<1> QED
  BY <1>1, <1>2, OutputsInductive, PTL DEF Spec
-----------------------------------------------------------------------------
\* A checkpoint that is replaced covers no less and begins with what the one
\* before it held, whichever run wrote either.
THEOREM CheckpointsOnlyGrow == Spec => CheckpointOnlyGrows
<1>1. IInv /\ [Next]_vars =>
        [/\ ckpt'.doneTo >= ckpt.doneTo
         /\ \E n \in 0..Len(ckpt'.ledger) : ckpt.ledger = SubSeq(ckpt'.ledger, 1, n)]_ckpt
  <2> SUFFICES ASSUME IInv, Next, ckpt' # ckpt
               PROVE  /\ ckpt'.doneTo >= ckpt.doneTo
                      /\ \E n \in 0..Len(ckpt'.ledger) :
                            ckpt.ledger = SubSeq(ckpt'.ledger, 1, n)
    BY DEF vars
  <2>1. ReadLine
    BY DEF Next, Work, Start, Crash, PostOk, PostBusy, PostError, ReadError, ReadEnd,
           OpenOutput, CloseOutput
  <2>2. PICK b \in ERA_LO..ERA_HI :
          /\ NextLine(b) /\ ledger' = Accumulate(b)
          /\ ckpt' = [doneTo |-> b, ledger |-> ledger']
    BY <2>1 DEF ReadLine, Saving
  <2>3. /\ pc = "read" /\ last < b /\ last \in Block /\ doneTo \in Block
        /\ ckpt \in [doneTo : Block, ledger : Seq(Block)] /\ ledger \in Seq(Block)
        /\ ckpt.doneTo <= doneTo /\ doneTo <= last
        /\ PrefixOf(ckpt.ledger, ledger) /\ Exact(ledger, last)
        /\ \A m \in Matching : m <= last \/ m >= b
    BY <2>1, <2>2 DEF ReadLine, NextLine, IInv, TypeOK, Position, Saved, ExactlyOnce
  <2>4. ledger' \in Seq(Block) /\ PrefixOf(ledger, ledger')
    BY <2>2, <2>3, ExactAppend DEF Accumulate
  <2>5. PrefixOf(ckpt.ledger, ledger')
    BY <2>3, <2>4, LenProperties DEF PrefixOf
  <2>6. \E n \in 0..Len(ledger') : ckpt.ledger = SubSeq(ledger', 1, n)
    BY <2>3, <2>4, <2>5, PrefixIsSubSeq
  <2>7. b >= ckpt.doneTo
    BY <2>3, M2Assumption DEF Block
  <2> QED
    BY <2>2, <2>6, <2>7
<1> QED
  BY <1>1, Initial, Inductive, PTL DEF Spec, CheckpointOnlyGrows
=============================================================================

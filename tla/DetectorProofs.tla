--------------------------- MODULE DetectorProofs ---------------------------
(***************************************************************************)
(* Theorems about the threshold detector, for every path, line distance,   *)
(* penetration, dwell, period and way of checking.                         *)
(***************************************************************************)
EXTENDS Detector, TLAPS

(***************************************************************************)
(* The inductive invariant.  The properties of the events are about the    *)
(* past; what makes them hold at the next firing is what is known of the   *)
(* excursion that is still open.                                           *)
(***************************************************************************)
Next1 == Len(events) + 1

\* The line in force is the one the next event will be fired over.
LineInForce == b = Line(Next1) /\ Since(Next1) <= Now

\* An open excursion, and the blocks it has let pass.
Open == crossed # None =>
  /\ Since(Next1) <= crossed /\ crossed < Now
  /\ consec = Now - crossed
  /\ \A i \in crossed..(Now - 1) : xs(i) >= b
  /\ crossed > Since(Next1) => xs(crossed - 1) < b

Passed == crossed # None /\ ~BERN =>
  \A i \in crossed..(Now - 1) :
    i % PERIOD # 0 \/ xs(i) < b + PEN \/ i - crossed + 1 < DWELL

\* Without one, the last block was inside, or the detector fired at it.
Closed == crossed = None =>
  /\ consec = 0
  /\ Now > Since(Next1) => xs(Now - 1) < b

\* With sure checks after a jump and no dwell, no excursion is left open whose
\* crossing block jumped and penetrated.
Sure == BERN /\ COX >= 0 /\ DWELL <= 1
Unjumped == crossed # None /\ Sure =>
  ~(js(crossed) > 0 /\ xs(crossed) >= b + PEN)

IInv == /\ TypeOK /\ LineInForce /\ Open /\ Passed /\ Closed /\ Unjumped
        /\ Excursions /\ LabelsCrossing /\ NoMissedFiring /\ FilterRespected
        /\ SureAfterJump
-----------------------------------------------------------------------------
\* What one more element does to a sequence.
LEMMA Appended ==
  ASSUME NEW S, NEW s \in Seq(S), NEW e \in S
  PROVE  /\ Append(s, e) \in Seq(S)
         /\ Len(s) \in Nat
         /\ Len(Append(s, e)) = Len(s) + 1
         /\ Append(s, e)[Len(s) + 1] = e
         /\ \A n \in 1..Len(s) : Append(s, e)[n] = s[n]
         /\ \A n \in 1..Len(s) : s[n] \in S
OBVIOUS

\* The blocks of the path are points.
LEMMA BlocksArePoints ==
  ASSUME TypeOK, NEW p \in Blocks
  PROVE  p \in Point
<1>1. Price \in Int
  <2>1. CASE path = <<>>
    BY <2>1 DEF Price
  <2>2. CASE path # <<>>
    <3>1. path \in Seq(Point) /\ Len(path) \in 1..Len(path)
      BY <2>2 DEF TypeOK
    <3>2. path[Len(path)] \in Point
      BY <3>1
    <3> QED
      BY <2>2, <3>2 DEF Price, Point
  <2> QED
    BY <2>1, <2>2
<1>2. PICK m \in Moves, j \in Jumps \cup {0} : p = [x |-> Price + m + j, j |-> j]
  BY DEF Blocks
<1>3. m \in Int /\ j \in Nat
  BY DetectorAssumption
<1> QED
  BY <1>1, <1>2, <1>3 DEF Point

\* What reading one block changes of the path.
LEMMA Reading ==
  ASSUME TypeOK, NEW p \in Blocks, path' = Append(path, p)
  PROVE  /\ p.x \in Int /\ p.j \in Nat
         /\ Now \in Nat /\ Now' = Now + 1
         /\ path' \in Seq(Point)
         /\ path'[Now + 1] = p
         /\ \A i \in 0..(Now - 1) : path'[i + 1] = path[i + 1]
         /\ \A i \in 0..(Now - 1) : xs(i) \in Int /\ js(i) \in Nat
<1>1. p \in Point
  BY BlocksArePoints
<1>2. path \in Seq(Point)
  BY DEF TypeOK
<1>3. /\ path' \in Seq(Point)
      /\ Len(path) \in Nat
      /\ Len(path') = Len(path) + 1
      /\ path'[Len(path) + 1] = p
      /\ \A n \in 1..Len(path) : path'[n] = path[n]
      /\ \A n \in 1..Len(path) : path[n] \in Point
  BY <1>1, <1>2, Appended
<1> QED
  BY <1>1, <1>3 DEF Now, Point, xs, js

\* The excursion the new block leaves open, or the one it fires.
LEMMA Excursing ==
  ASSUME TypeOK, Open, Closed, LineInForce, NEW p \in Blocks,
         path' = Append(path, p), p.x >= b
  PROVE  /\ Crossing(p) \in Since(Next1)..Now
         /\ Crossing(p) \in Nat
         /\ Outside(p) = Now - Crossing(p) + 1
         /\ \A i \in Crossing(p)..Now : path'[i + 1].x >= b
         /\ Crossing(p) > Since(Next1) => path'[Crossing(p)].x < b
         /\ crossed # None => Crossing(p) = crossed
         /\ crossed = None => Crossing(p) = Now
<1>1. /\ p.x \in Int /\ Now \in Nat /\ path'[Now + 1] = p /\ b \in Int
      /\ \A i \in 0..(Now - 1) : path'[i + 1] = path[i + 1]
  BY Reading DEF TypeOK
<1>2. Since(Next1) \in Nat /\ Since(Next1) <= Now
  <2>1. Len(events) \in Nat /\ \A n \in 1..Len(events) : events[n] \in Event
    BY DEF TypeOK
  <2>2. CASE Len(events) = 0
    BY <1>1, <2>2 DEF Since, Next1
  <2>3. CASE Len(events) # 0
    <3>1. events[Len(events)].fire \in Nat
      BY <2>1, <2>3 DEF Event
    <3>2. Since(Next1) = events[Len(events)].fire + 1
      BY <2>1, <2>3 DEF Since, Next1
    <3> QED
      BY <3>1, <3>2 DEF LineInForce
  <2> QED
    BY <2>2, <2>3
<1>3. CASE crossed = None
  <2>1. Crossing(p) = Now /\ Outside(p) = 1
    BY <1>1, <1>3 DEF Crossing, Outside
  <2>2. Now > Since(Next1) => path[Now].x < b
    BY <1>1, <1>3 DEF Closed, xs
  <2>3. Now > Since(Next1) => path'[Now].x < b
    <3> SUFFICES ASSUME Now > Since(Next1) PROVE path'[Now].x < b
      OBVIOUS
    <3>1. Now - 1 \in 0..(Now - 1) /\ (Now - 1) + 1 = Now
      BY <1>1, <1>2
    <3> QED
      BY <1>1, <2>2, <3>1
  <2>4. \A i \in Now..Now : path'[i + 1].x >= b
    <3> TAKE i \in Now..Now
    <3>1. i = Now
      BY <1>1
    <3> QED
      BY <1>1, <3>1
  <2>5. Now \in Since(Next1)..Now /\ 1 = Now - Now + 1
    BY <1>1, <1>2
  <2> QED
    BY <1>1, <1>3, <2>1, <2>3, <2>4, <2>5
<1>4. CASE crossed # None
  <2>1. /\ crossed \in Nat /\ crossed < Now /\ Since(Next1) <= crossed
        /\ consec = Now - crossed
        /\ \A i \in crossed..(Now - 1) : path[i + 1].x >= b
    BY <1>4 DEF Open, xs, TypeOK
  <2>2. Crossing(p) = crossed /\ Outside(p) = Now - crossed + 1
    BY <1>1, <1>4, <2>1 DEF Crossing, Outside
  <2>3. \A i \in crossed..Now : path'[i + 1].x >= b
    <3> TAKE i \in crossed..Now
    <3>1. CASE i = Now
      BY <1>1, <3>1
    <3>2. CASE i # Now
      <4>1. i \in 0..(Now - 1) /\ i \in crossed..(Now - 1)
        BY <1>1, <2>1, <3>2
      <4> QED
        BY <1>1, <2>1, <4>1
    <3> QED
      BY <3>1, <3>2
  <2>4. crossed > Since(Next1) => path'[crossed].x < b
    <3> SUFFICES ASSUME crossed > Since(Next1) PROVE path'[crossed].x < b
      OBVIOUS
    <3>1. path[crossed - 1 + 1].x < b
      BY <1>4 DEF Open, xs
    <3>2. crossed - 1 \in 0..(Now - 1) /\ crossed - 1 + 1 = crossed
      BY <1>1, <1>2, <2>1
    <3> QED
      BY <1>1, <3>1, <3>2
  <2>5. crossed \in Since(Next1)..Now
    BY <1>1, <1>2, <2>1
  <2> QED
    BY <1>4, <2>1, <2>2, <2>3, <2>4, <2>5
<1> QED
  BY <1>3, <1>4

\* The line and the start of an event depend on the path already read only.
LEMMA LinesStay ==
  ASSUME TypeOK, LineInForce, Excursions, NEW p \in Blocks,
         path' = Append(path, p), NEW n \in 1..Next1,
         \A k \in 1..Len(events) : events'[k] = events[k]
  PROVE  Line(n)' = Line(n) /\ Since(n)' = Since(n)
<1>1. CASE n = 1
  BY <1>1 DEF Line, Since
<1>2. CASE n # 1
  <2>1. n - 1 \in 1..Len(events)
    BY <1>2 DEF TypeOK, Next1
  <2>2. events[n - 1] \in Event /\ events'[n - 1] = events[n - 1]
    BY <2>1 DEF TypeOK
  <2>3. events[n - 1].fire < Now /\ events[n - 1].fire \in Nat
    BY <2>1, <2>2 DEF Excursions, Excursion, Event
  <2>4. path'[events[n - 1].fire + 1] = path[events[n - 1].fire + 1]
    <3>1. events[n - 1].fire \in 0..(Now - 1)
      BY <2>3, Reading
    <3> QED
      BY <3>1, Reading
  <2> QED
    BY <1>2, <2>2, <2>4 DEF Line, Since, xs
<1> QED
  BY <1>1, <1>2
-----------------------------------------------------------------------------
\* The events of the past stay what they are.
LEMMA PastEventsStay ==
  ASSUME IInv, NEW p \in Blocks, path' = Append(path, p),
         NEW n \in 1..Len(events),
         \A k \in 1..Len(events) : events'[k] = events[k]
  PROVE  /\ Excursion(n)'
         /\ LET c == events[n].cross
            IN  events'[n].jump <=> js(c)' > 0 /\ xs(c)' - js(c)' < Line(n)'
         /\ ~BERN => \A i \in events'[n].cross..(events'[n].fire - 1) :
              \/ i % PERIOD # 0
              \/ xs(i)' < Line(n)' + PEN
              \/ i - events'[n].cross + 1 < DWELL
         /\ events'[n].over >= PEN /\ events'[n].delay >= DWELL
         /\ Sure /\ events'[n].jump /\ xs(events[n].cross)' >= Line(n)' + PEN
              => events'[n].delay = 1
<1>1. n \in 1..Next1 /\ n \in Nat
  BY DEF IInv, TypeOK, Next1
<1>2. Line(n)' = Line(n) /\ Since(n)' = Since(n)
  BY <1>1, LinesStay DEF IInv
<1>3. /\ Now \in Nat /\ Now' = Now + 1
      /\ \A i \in 0..(Now - 1) : path'[i + 1] = path[i + 1]
  BY Reading DEF IInv
<1>4. events[n] \in Event /\ events'[n] = events[n]
  BY DEF IInv, TypeOK
<1>5. /\ Excursion(n)
      /\ events[n].cross \in Nat /\ events[n].fire \in 0..(Now - 1)
      /\ events[n].cross <= events[n].fire
  BY <1>3, <1>4 DEF IInv, Excursions, Excursion, Event
<1>6. \A i \in 0..events[n].fire : path'[i + 1] = path[i + 1]
  <2> TAKE i \in 0..events[n].fire
  <2>1. i \in 0..(Now - 1)
    BY <1>3, <1>5
  <2> QED
    BY <1>3, <2>1
<1>7. Since(n) \in Nat
  <2>1. CASE n = 1
    BY <2>1 DEF Since
  <2>2. CASE n # 1
    <3>1. events[n - 1] \in Event
      BY <2>2 DEF IInv, TypeOK
    <3> QED
      BY <2>2, <3>1 DEF Since, Event
  <2> QED
    BY <2>1, <2>2
<1>8. Excursion(n)'
  <2>1. \A i \in events[n].cross..events[n].fire : path'[i + 1].x >= Line(n)
    <3> TAKE i \in events[n].cross..events[n].fire
    <3>1. i \in 0..events[n].fire
      BY <1>5
    <3> QED
      BY <1>5, <1>6, <3>1 DEF Excursion, xs
  <2>2. events[n].cross > Since(n) => path'[events[n].cross].x < Line(n)
    <3> SUFFICES ASSUME events[n].cross > Since(n)
                 PROVE  path'[events[n].cross].x < Line(n)
      OBVIOUS
    <3>1. /\ events[n].cross - 1 \in 0..events[n].fire
          /\ events[n].cross - 1 + 1 = events[n].cross
      BY <1>5, <1>7
    <3>2. path[events[n].cross - 1 + 1].x < Line(n)
      BY <1>5 DEF Excursion, xs
    <3> QED
      BY <1>6, <3>1, <3>2
  <2>3. path'[events[n].fire + 1] = path[events[n].fire + 1]
    <3>1. events[n].fire \in 0..events[n].fire
      BY <1>5
    <3> QED
      BY <1>6, <3>1
  <2>4. events[n].cross - 1 + 1 = events[n].cross
    BY <1>5
  <2>5. events[n].fire < Now'
    BY <1>3, <1>5
  <2>6. /\ Since(n) <= events[n].cross
        /\ events[n].delay = events[n].fire - events[n].cross + 1
        /\ events[n].over = path'[events[n].fire + 1].x - Line(n)
    BY <1>5, <2>3 DEF Excursion, xs
  <2> QED
    BY <1>2, <1>4, <1>5, <2>1, <2>2, <2>4, <2>5, <2>6 DEF Excursion, xs
<1>9. LET c == events[n].cross
      IN  events'[n].jump <=> js(c)' > 0 /\ xs(c)' - js(c)' < Line(n)'
  <2>1. path'[events[n].cross + 1] = path[events[n].cross + 1]
    <3>1. events[n].cross \in 0..events[n].fire
      BY <1>5
    <3> QED
      BY <1>6, <3>1
  <2> QED
    BY <1>2, <1>4, <2>1 DEF IInv, LabelsCrossing, xs, js
<1>10. ~BERN => \A i \in events'[n].cross..(events'[n].fire - 1) :
         \/ i % PERIOD # 0
         \/ xs(i)' < Line(n)' + PEN
         \/ i - events'[n].cross + 1 < DWELL
  <2> SUFFICES ASSUME ~BERN, NEW i \in events[n].cross..(events[n].fire - 1)
               PROVE  \/ i % PERIOD # 0
                      \/ path'[i + 1].x < Line(n) + PEN
                      \/ i - events[n].cross + 1 < DWELL
    BY <1>2, <1>4 DEF xs
  <2>1. path'[i + 1] = path[i + 1]
    <3>1. i \in 0..events[n].fire
      BY <1>5
    <3> QED
      BY <1>6, <3>1
  <2> QED
    BY <2>1 DEF IInv, NoMissedFiring, xs
<1>11. Sure /\ events'[n].jump /\ xs(events[n].cross)' >= Line(n)' + PEN
         => events'[n].delay = 1
  <2>1. path'[events[n].cross + 1] = path[events[n].cross + 1]
    <3>1. events[n].cross \in 0..events[n].fire
      BY <1>5
    <3> QED
      BY <1>6, <3>1
  <2>2. events'[n].cross = events[n].cross
    BY <1>4
  <2> QED
    BY <1>2, <1>4, <2>1, <2>2 DEF IInv, SureAfterJump, Sure, xs
<1> QED
  BY <1>4, <1>8, <1>9, <1>10, <1>11 DEF IInv, FilterRespected

\* A check is sure at a block that jumps, under Cox checking.
LEMMA JumpIsChecked ==
  ASSUME Now \in Nat, Sure, NEW p \in Point, p.j > 0
  PROVE  FALSE \notin Checks(p)
<1>1. /\ Now \in 0..Now /\ At(Now, p).j > 0
      /\ \A l \in (Now + 1)..Now : At(l, p).j = 0
  BY DEF At
<1> DEFINE k == CHOOSE k \in 0..Now : /\ At(k, p).j > 0
                                     /\ \A l \in (k + 1)..Now : At(l, p).j = 0
<1>2. k \in 0..Now /\ At(k, p).j > 0 /\ \A l \in (k + 1)..Now : At(l, p).j = 0
  <2>1. \E i \in 0..Now : At(i, p).j > 0 /\ \A l \in (i + 1)..Now : At(l, p).j = 0
    BY <1>1
  <2> QED
    BY <2>1
<1>3. LastJump(p) = k
  BY <1>1 DEF LastJump
<1> HIDE DEF k
<1>4. k = Now
  <2> SUFFICES ASSUME k # Now PROVE FALSE
    OBVIOUS
  <2>1. Now \in (k + 1)..Now
    BY <1>2
  <2> QED
    BY <1>2, <2>1 DEF At
<1>5. Now - LastJump(p) <= COX /\ COX # None
  BY <1>3, <1>4, DetectorAssumption DEF Sure, None
<1> QED
  BY <1>5 DEF Checks, Sure

\* A block without a firing keeps the invariant.
LEMMA PassKeeps ==
  ASSUME IInv, NEW p \in Blocks, path' = Append(path, p), Pass(p)
  PROVE  IInv'
<1>1. /\ p.x \in Int /\ Now \in Nat /\ Now' = Now + 1 /\ b \in Int
      /\ path' \in Seq(Point) /\ path'[Now + 1] = p
      /\ \A i \in 0..(Now - 1) : path'[i + 1] = path[i + 1]
  BY Reading DEF IInv, TypeOK
<1>2. /\ b' = b /\ events' = events /\ Next1' = Next1
      /\ crossed' = Crossing(p) /\ consec' = Outside(p)
  BY DEF Pass, Next1
<1>3. p.x < b => crossed' = None /\ consec' = 0
  BY <1>2 DEF Crossing, Outside
<1>4. p.x >= b =>
        /\ crossed' \in Since(Next1)..Now /\ crossed' \in Nat
        /\ consec' = Now - crossed' + 1
        /\ \A i \in crossed'..Now : path'[i + 1].x >= b
        /\ crossed' > Since(Next1) => path'[crossed'].x < b
        /\ crossed # None => crossed' = crossed
        /\ crossed = None => crossed' = Now
  BY <1>2, Excursing DEF IInv
<1>5. crossed' # None <=> p.x >= b
  BY <1>1, <1>3, <1>4 DEF None
<1>6. Line(Next1)' = Line(Next1) /\ Since(Next1)' = Since(Next1)
  <2>1. Next1 \in 1..Next1
    BY DEF IInv, TypeOK, Next1
  <2> QED
    BY <1>2, <2>1, LinesStay DEF IInv, Line, Since
<1>7. Since(Next1) \in Int /\ Since(Next1) <= Now
  <2>1. Len(events) \in Nat
        /\ (Len(events) # 0 => events[Len(events)] \in Event)
    BY DEF IInv, TypeOK
  <2> QED
    BY <2>1 DEF IInv, LineInForce, Since, Next1, Event
<1>8. TypeOK'
  BY <1>1, <1>2, <1>3, <1>4 DEF IInv, TypeOK
<1>9. LineInForce'
  BY <1>1, <1>2, <1>6, <1>7 DEF IInv, LineInForce
<1>10. Open'
  <2> SUFFICES ASSUME p.x >= b PROVE Open'
    BY <1>5 DEF Open
  <2>1. crossed' < Now' /\ consec' = Now' - crossed' /\ Now' - 1 = Now
    BY <1>1, <1>4
  <2>2. crossed' - 1 + 1 = crossed'
    BY <1>4
  <2>3. \A i \in crossed'..(Now' - 1) : xs(i)' >= b'
    BY <1>2, <1>4, <2>1 DEF xs
  <2>4. Since(Next1)' <= crossed'
        /\ (crossed' > Since(Next1)' => xs(crossed - 1)' < b')
    <3>1. Since(Next1) <= crossed'
      BY <1>1, <1>4, <1>7
    <3>2. crossed' > Since(Next1) => path'[crossed' - 1 + 1].x < b'
      BY <1>2, <1>4, <2>2
    <3> QED
      BY <1>6, <3>1, <3>2 DEF xs
  <2> QED
    BY <2>1, <2>3, <2>4 DEF Open
<1>11. Passed'
  <2> SUFFICES ASSUME p.x >= b, ~BERN, NEW i \in crossed'..Now
               PROVE  \/ i % PERIOD # 0
                      \/ path'[i + 1].x < b + PEN
                      \/ i - crossed' + 1 < DWELL
    <3>1. Now' - 1 = Now
      BY <1>1
    <3> QED
      BY <1>2, <1>5, <3>1 DEF Passed, xs
  <2>1. CASE i = Now
    <3>1. CASE FALSE \in Checks(p)
      BY <2>1, <3>1 DEF Checks
    <3>2. CASE ~Qualifies(p)
      <4>1. p.x < b + PEN \/ consec' < Patient
        BY <1>1, <1>2, <1>4, <3>2, DetectorAssumption DEF Qualifies, Patient
      <4>2. consec' = i - crossed' + 1 /\ consec' >= 1
        BY <1>1, <1>4, <2>1
      <4>3. CASE p.x < b + PEN
        BY <1>1, <2>1, <4>3
      <4>4. CASE consec' < Patient
        BY <4>2, <4>4, DetectorAssumption DEF Patient
      <4> QED
        BY <4>1, <4>3, <4>4
    <3>3. ~(p.x < b)
      BY <1>1
    <3> QED
      BY <3>1, <3>2, <3>3 DEF Pass
  <2>2. CASE i # Now
    <3>1. i \in 0..(Now - 1) /\ i \in crossed'..(Now - 1)
      BY <1>1, <1>4, <2>2
    <3>2. crossed # None /\ crossed' = crossed
      BY <1>1, <1>4, <3>1
    <3> QED
      BY <1>1, <3>1, <3>2 DEF IInv, Passed, xs
  <2> QED
    BY <2>1, <2>2
<1>12. Closed'
  <2> SUFFICES ASSUME p.x < b PROVE Closed'
    BY <1>1, <1>5 DEF Closed
  <2>1. Now' - 1 + 1 = Now + 1
    BY <1>1
  <2> QED
    BY <1>1, <1>2, <1>3, <2>1 DEF Closed, xs
<1>13. Excursions' /\ LabelsCrossing' /\ NoMissedFiring' /\ FilterRespected'
  BY <1>2, PastEventsStay
     DEF Excursions, LabelsCrossing, NoMissedFiring, FilterRespected
<1>14. SureAfterJump'
  BY <1>2, PastEventsStay DEF SureAfterJump, Sure
<1>15. Unjumped'
  <2> SUFFICES ASSUME p.x >= b, Sure
               PROVE  ~(path'[crossed' + 1].j > 0 /\ path'[crossed' + 1].x >= b + PEN)
    BY <1>2, <1>5 DEF Unjumped, Sure, xs, js
  <2>1. CASE crossed = None
    <3>1. crossed' = Now /\ consec' = 1
      BY <1>1, <1>4, <2>1
    <3> SUFFICES ASSUME p.j > 0, p.x >= b + PEN PROVE FALSE
      BY <1>1, <3>1
    <3>2. Outside(p) >= Patient
      BY <1>2, <3>1, DetectorAssumption DEF Patient, Sure
    <3>3. Qualifies(p)
      BY <3>2 DEF Qualifies
    <3>4. FALSE \notin Checks(p)
      BY <1>1, BlocksArePoints, JumpIsChecked DEF IInv
    <3>5. ~(p.x < b)
      BY <1>1
    <3> QED
      BY <3>3, <3>4, <3>5 DEF Pass
  <2>2. CASE crossed # None
    <3>1. crossed' = crossed /\ crossed \in 0..(Now - 1)
      BY <1>1, <1>4, <2>2 DEF IInv, Open
    <3> QED
      BY <1>1, <2>2, <3>1 DEF IInv, Unjumped, xs, js
  <2> QED
    BY <2>1, <2>2
<1> QED
  BY <1>8, <1>9, <1>10, <1>11, <1>12, <1>13, <1>14, <1>15 DEF IInv

\* A firing keeps the invariant, its own event included.
LEMMA FireKeeps ==
  ASSUME IInv, NEW p \in Blocks, path' = Append(path, p), Fire(p),
         NEW n \in Nat, n = Next1
  PROVE  IInv'
<1>1. /\ p.x \in Int /\ p.j \in Nat /\ Now \in Nat /\ Now' = Now + 1 /\ b \in Int
      /\ path' \in Seq(Point) /\ path'[Now + 1] = p
      /\ \A i \in 0..(Now - 1) : path'[i + 1] = path[i + 1]
  BY Reading DEF IInv, TypeOK
<1> DEFINE c == Crossing(p)
           e == [delay |-> Now - c + 1, over |-> p.x - b,
                 jump |-> JumpLabel(c, p), fire |-> Now, cross |-> c]
<1>2. /\ p.x >= b /\ Qualifies(p) /\ TRUE \in Checks(p)
      /\ events' = Append(events, e)
      /\ b' = p.x + W /\ crossed' = None /\ consec' = 0
  BY DEF Fire, Anchor
<1>3. /\ c \in Since(Next1)..Now /\ c \in Nat
      /\ Outside(p) = Now - c + 1
      /\ \A i \in c..Now : path'[i + 1].x >= b
      /\ c > Since(Next1) => path'[c].x < b
      /\ crossed # None => c = crossed
      /\ crossed = None => c = Now
  BY <1>2, Excursing DEF IInv
<1>4. e \in Event
  <2>1. JumpLabel(c, p) \in BOOLEAN
    BY DEF JumpLabel
  <2>2. p.x - b \in Nat /\ Now - c + 1 \in Nat
    BY <1>1, <1>2, <1>3
  <2> QED
    BY <1>1, <1>3, <2>1, <2>2 DEF Event
<1>5. /\ events' \in Seq(Event)
      /\ Len(events) \in Nat /\ Len(events') = Next1 /\ Next1' = Next1 + 1
      /\ Next1 \in Nat
      /\ events'[Next1] = e
      /\ \A k \in 1..Len(events) : events'[k] = events[k]
  BY <1>2, <1>4, Appended DEF IInv, TypeOK, Next1
<1> HIDE DEF c, e
<1>6. Line(n)' = b /\ Since(n)' = Since(n) /\ n \in 1..n /\ n \in 1..Next1
  <2>1. n \in 1..Next1 /\ n \in 1..n
    BY <1>5 DEF Next1
  <2>2. Line(n) = b
    BY DEF IInv, LineInForce
  <2> QED
    BY <1>5, <2>1, <2>2, LinesStay DEF IInv
<1>7. TypeOK'
  BY <1>1, <1>2, <1>5, DetectorAssumption DEF IInv, TypeOK
<1>8. LineInForce' /\ Open' /\ Passed' /\ Closed'
  <2>1. Next1' # 1 /\ events'[Next1' - 1] = e
    BY <1>5 DEF Next1
  <2>2. e.fire = Now
    BY DEF e
  <2>3. Line(Next1)' = path'[Now + 1].x + W /\ Since(Next1)' = Now + 1
    BY <2>1, <2>2 DEF Line, Since, xs
  <2> QED
    BY <1>1, <1>2, <2>3 DEF LineInForce, Open, Passed, Closed
<1>9. Excursion(n)'
  <2>1. /\ events'[n] = e
        /\ e.cross = c /\ e.fire = Now /\ e.delay = Now - c + 1 /\ e.over = p.x - b
    BY <1>5 DEF e
  <2>2. Since(n) <= c /\ c <= Now /\ Now < Now' /\ c - 1 + 1 = c
    BY <1>1, <1>3
  <2> QED
    BY <1>1, <1>3, <1>6, <2>1, <2>2 DEF Excursion, xs
<1>10. events'[n].jump <=> LET k == events[n].cross
                           IN  js(k)' > 0 /\ xs(k)' - js(k)' < Line(n)'
  <2>1. events'[n].jump = JumpLabel(c, p) /\ events'[n].cross = c
    BY <1>5 DEF e
  <2>2. At(c, p) = path'[c + 1]
    <3>1. CASE c = Now
      BY <1>1, <3>1 DEF At
    <3>2. CASE c # Now
      <4>1. c \in 0..(Now - 1)
        BY <1>1, <1>3, <3>2
      <4> QED
        BY <1>1, <3>2, <4>1 DEF At
    <3> QED
      BY <3>1, <3>2
  <2> QED
    BY <1>6, <2>1, <2>2 DEF JumpLabel, xs, js
<1>11. ASSUME ~BERN, NEW i \in c..(Now - 1)
       PROVE  i % PERIOD # 0 \/ path'[i + 1].x < b + PEN \/ i - c + 1 < DWELL
  <2>1. i \in 0..(Now - 1) /\ crossed # None /\ c = crossed
    BY <1>1, <1>3, <1>11
  <2>2. path'[i + 1] = path[i + 1]
    BY <1>1, <2>1
  <2> QED
    BY <1>11, <2>1, <2>2 DEF IInv, Passed, xs
<1>12. events'[n].over >= PEN /\ events'[n].delay >= DWELL
  <2>1. events'[n].over = p.x - b /\ events'[n].delay = Outside(p)
    BY <1>3, <1>5 DEF e
  <2>2. p.x >= b + PEN /\ Outside(p) >= Patient
    BY <1>2 DEF Qualifies
  <2>3. Patient >= DWELL /\ Patient \in Nat /\ Outside(p) \in Int
    BY <1>1, <1>3, DetectorAssumption DEF Patient
  <2> QED
    BY <1>1, <2>1, <2>2, <2>3, DetectorAssumption
<1>13. \A k \in 1..Len(events)' : k = n \/ k \in 1..Len(events)
  BY <1>5 DEF Next1
<1>14. Excursions' /\ LabelsCrossing' /\ FilterRespected'
  <2> SUFFICES ASSUME NEW k \in 1..Len(events)'
               PROVE  /\ Excursion(k)'
                      /\ events'[k].jump
                           <=> LET d == events[k].cross
                               IN  js(d)' > 0 /\ xs(d)' - js(d)' < Line(k)'
                      /\ events'[k].over >= PEN /\ events'[k].delay >= DWELL
    BY DEF Excursions, LabelsCrossing, FilterRespected
  <2>1. CASE k = n
    BY <1>9, <1>10, <1>12, <2>1
  <2>2. CASE k \in 1..Len(events)
    BY <1>5, <2>2, PastEventsStay
  <2> QED
    BY <1>13, <2>1, <2>2
<1>15. NoMissedFiring'
  <2> SUFFICES ASSUME ~BERN, NEW k \in 1..Len(events)',
                      NEW i \in events'[k].cross..(events'[k].fire - 1)
               PROVE  \/ i % PERIOD # 0
                      \/ xs(i)' < Line(k)' + PEN
                      \/ i - events'[k].cross + 1 < DWELL
    BY DEF NoMissedFiring
  <2>1. CASE k = n
    <3>1. events'[n].cross = c /\ events'[n].fire = Now
      BY <1>5 DEF e
    <3> QED
      BY <1>6, <1>11, <2>1, <3>1 DEF xs
  <2>2. CASE k \in 1..Len(events)
    BY <1>5, <2>2, PastEventsStay
  <2> QED
    BY <1>13, <2>1, <2>2
<1>16. Sure /\ events'[n].jump /\ xs(events[n].cross)' >= Line(n)' + PEN
         => events'[n].delay = 1
  <2> SUFFICES ASSUME Sure, events'[n].jump, path'[c + 1].x >= b + PEN
               PROVE  events'[n].delay = 1
    <3>1. events'[n].cross = c
      BY <1>5 DEF e
    <3> QED
      BY <1>6, <3>1 DEF xs
  <2>1. events'[n].delay = Now - c + 1 /\ events'[n].cross = c
    BY <1>5 DEF e
  <2>2. path'[c + 1].j > 0
    BY <1>10, <2>1 DEF js
  <2>3. ASSUME c # Now PROVE FALSE
    <3>1. crossed # None /\ c = crossed /\ c \in 0..(Now - 1)
      BY <1>1, <1>3, <2>3
    <3> QED
      BY <1>1, <2>2, <3>1 DEF IInv, Unjumped, xs, js
  <2> QED
    BY <1>1, <2>1, <2>3
<1>17. SureAfterJump'
  <2> SUFFICES ASSUME NEW k \in 1..Len(events)'
               PROVE  Sure /\ events'[k].jump /\ xs(events[k].cross)' >= Line(k)' + PEN
                        => events'[k].delay = 1
    BY DEF SureAfterJump, Sure
  <2>1. CASE k = n
    BY <1>16, <2>1
  <2>2. CASE k \in 1..Len(events)
    <3>1. events'[k] = events[k]
      BY <1>5, <2>2
    <3> QED
      BY <1>5, <2>2, <3>1, PastEventsStay
  <2> QED
    BY <1>13, <2>1, <2>2
<1>18. Unjumped'
  BY <1>2 DEF Unjumped
<1> QED
  BY <1>7, <1>8, <1>14, <1>15, <1>17, <1>18 DEF IInv
-----------------------------------------------------------------------------
LEMMA InitInv == Init => IInv
<1> SUFFICES ASSUME Init PROVE IInv
  OBVIOUS
<1>1. /\ path = <<>> /\ events = <<>> /\ b = W /\ crossed = None /\ consec = 0
      /\ Len(path) = 0 /\ Len(events) = 0
  BY DEF Init
<1>2. TypeOK
  BY <1>1, DetectorAssumption DEF TypeOK
<1> QED
  BY <1>1, <1>2 DEF IInv, LineInForce, Open, Passed, Closed, Unjumped, Next1, Line,
     Since, Now, Excursions, LabelsCrossing, NoMissedFiring, FilterRespected,
     SureAfterJump

LEMMA StepInv == IInv /\ [Next]_vars => IInv'
<1> SUFFICES ASSUME IInv, [Next]_vars PROVE IInv'
  OBVIOUS
<1>1. ASSUME NEW p \in Blocks, path' = Append(path, p), Pass(p)
      PROVE  IInv'
  BY <1>1, PassKeeps
<1>2. ASSUME NEW p \in Blocks, path' = Append(path, p), Fire(p)
      PROVE  IInv'
  <2>1. Next1 \in Nat
    BY DEF IInv, TypeOK, Next1
  <2> QED
    BY <1>2, <2>1, FireKeeps
<1>3. CASE UNCHANGED vars
  BY <1>3 DEF vars, IInv, TypeOK, LineInForce, Open, Passed, Closed, Unjumped, Sure,
     Next1, Line, Since, Now, xs, js, Excursions, Excursion, LabelsCrossing,
     NoMissedFiring, FilterRespected, SureAfterJump
<1> QED
  BY <1>1, <1>2, <1>3 DEF Next

LEMMA Invariance == Spec => []IInv
BY InitInv, StepInv, PTL DEF Spec

\* The detector's state and events are of their types.
THEOREM TypeCorrect == Spec => []TypeOK
<1>1. IInv => TypeOK
  BY DEF IInv
<1> QED
  BY <1>1, Invariance, PTL

\* run_operator() returns whole, disjoint excursions over the line in force,
\* with their own delay and overshoot.
THEOREM EventsAreExcursions == Spec => []WholeExcursions
<1>1. IInv => WholeExcursions
  BY DEF IInv, WholeExcursions
<1> QED
  BY <1>1, Invariance, PTL

\* A label taken at the firing says what happened at the crossing.
THEOREM LabelsAreOfCrossings == Spec => []LabelsCrossing
<1>1. IInv => LabelsCrossing
  BY DEF IInv
<1> QED
  BY <1>1, Invariance, PTL

\* Under periodic checks the detector fires at the first checked block that
\* qualifies.
THEOREM FiresAtFirstChance == Spec => []NoMissedFiring
<1>1. IInv => NoMissedFiring
  BY DEF IInv
<1> QED
  BY <1>1, Invariance, PTL

\* Every event has the penetration and the dwell asked for.
THEOREM EventsPassFilter == Spec => []FilterRespected
<1>1. IInv => FilterRespected
  BY DEF IInv
<1> QED
  BY <1>1, Invariance, PTL

\* Cox checking fires at once on every jump that crosses and penetrates.
THEOREM JumpsFireAtOnce == Spec => []SureAfterJump
<1>1. IInv => SureAfterJump
  BY DEF IInv
<1> QED
  BY <1>1, Invariance, PTL

\* Of as many consecutive blocks as the period one has a check.
LEMMA OneIsChecked ==
  ASSUME NEW a \in Nat, NEW m \in Nat \ {0}
  PROVE  \E k \in 0..(m - 1) : (a + k) % m = 0
<1>1. a % m \in 0..(m - 1) /\ a = m * (a \div m) + (a % m) /\ a \div m \in Nat
  OBVIOUS
<1>2. CASE a % m = 0
  <2>1. 0 \in 0..(m - 1) /\ a + 0 = a
    OBVIOUS
  <2> QED
    BY <1>2, <2>1
<1>3. CASE a % m # 0
  <2>1. m - (a % m) \in 0..(m - 1)
    BY <1>1, <1>3
  <2>2. a + (m - (a % m)) = m * (a \div m) + m
    BY <1>1
  <2>3. (m * (a \div m) + m) % m = 0
    BY <1>1
  <2> QED
    BY <2>1, <2>2, <2>3
<1> QED
  BY <1>2, <1>3

\* An excursion in which every block checked was too early is shorter than the
\* dwell and one period.
LEMMA EarlyIsShort ==
  ASSUME NEW from \in Nat, NEW to \in Nat,
         \A i \in from..(to - 1) : i % PERIOD # 0 \/ i - from + 1 < DWELL
  PROVE  to - from < Patience
<1>1. /\ Patient \in Nat /\ Patient >= 1 /\ Patient >= DWELL
      /\ PERIOD \in Nat \ {0} /\ DWELL \in Nat
  BY DetectorAssumption DEF Patient
<1> SUFFICES ASSUME to - from >= Patient + PERIOD - 1 PROVE FALSE
  BY <1>1 DEF Patience
<1>2. from + Patient - 1 \in Nat
  BY <1>1
<1>3. PICK k \in 0..(PERIOD - 1) : (from + Patient - 1 + k) % PERIOD = 0
  BY <1>1, <1>2, OneIsChecked
<1> DEFINE i == from + Patient - 1 + k
<1>4. i \in from..(to - 1) /\ i % PERIOD = 0 /\ ~(i - from + 1 < DWELL)
  BY <1>1, <1>3
<1> HIDE DEF i
<1> QED
  BY <1>4

\* Without penetration no event is later than the dwell and one period, and no
\* open excursion has waited as long.
THEOREM DelaysAreBounded == Spec => []DelayBounded
<1>1. ASSUME IInv, ~BERN, PEN = 0 PROVE consec < Patience
  <2>1. Now \in Nat
    BY <1>1 DEF IInv, TypeOK, Now
  <2>2. CASE crossed = None
    <3>1. consec = 0
      BY <1>1, <2>2 DEF IInv, Closed
    <3>2. Patient >= 1 /\ Patient \in Nat
      BY DetectorAssumption DEF Patient
    <3> QED
      BY <3>1, <3>2, DetectorAssumption DEF Patience
  <2>3. CASE crossed # None
    <3>1. crossed \in Nat /\ consec = Now - crossed /\ b \in Int
      BY <1>1, <2>3 DEF IInv, Open, TypeOK
    <3>2. ASSUME NEW i \in crossed..(Now - 1)
          PROVE  i % PERIOD # 0 \/ i - crossed + 1 < DWELL
      <4>1. xs(i) >= b
        BY <1>1, <2>3 DEF IInv, Open
      <4>2. xs(i) \in Int
        <5>1. i \in 0..(Now - 1)
          BY <2>1, <3>1
        <5>2. path[i + 1] \in Point
          BY <1>1, <2>1, <5>1 DEF IInv, TypeOK, Now
        <5> QED
          BY <5>2 DEF xs, Point
      <4>3. ~(xs(i) < b + PEN)
        BY <1>1, <3>1, <4>1, <4>2
      <4> QED
        BY <1>1, <2>3, <4>3 DEF IInv, Passed
    <3> QED
      BY <2>1, <3>1, <3>2, EarlyIsShort
  <2> QED
    BY <2>2, <2>3
<1>2. ASSUME IInv, ~BERN, PEN = 0, NEW n \in 1..Len(events)
      PROVE  events[n].delay <= Patience
  <2>1. events[n] \in Event
    BY <1>2 DEF IInv, TypeOK
  <2>2. Excursion(n)
    BY <1>2 DEF IInv, Excursions
  <2>3. /\ events[n].cross \in Nat /\ events[n].fire \in Nat
        /\ events[n].delay = events[n].fire - events[n].cross + 1
    BY <2>1, <2>2 DEF Event, Excursion
  <2>4. ASSUME NEW i \in events[n].cross..(events[n].fire - 1)
        PROVE  i % PERIOD # 0 \/ i - events[n].cross + 1 < DWELL
    <3>1. xs(i) >= Line(n)
      <4>1. i \in events[n].cross..events[n].fire
        BY <2>3
      <4> QED
        BY <2>2, <4>1 DEF Excursion
    <3>2. xs(i) \in Int /\ Line(n) \in Int
      <4>1. Now \in Nat /\ i \in 0..(Now - 1)
        BY <1>2, <2>2, <2>3 DEF IInv, TypeOK, Now, Excursion
      <4>2. path[i + 1] \in Point
        BY <1>2, <4>1 DEF IInv, TypeOK, Now
      <4>3. CASE n = 1
        BY <4>2, <4>3, DetectorAssumption DEF xs, Point, Line
      <4>4. CASE n # 1
        <5>1. n - 1 \in 1..Len(events)
          BY <1>2, <4>4 DEF IInv, TypeOK
        <5>2. events[n - 1] \in Event /\ Excursion(n - 1)
          BY <1>2, <5>1 DEF IInv, TypeOK, Excursions
        <5>3. events[n - 1].fire \in 0..(Now - 1)
          BY <4>1, <5>2 DEF Event, Excursion
        <5>4. path[events[n - 1].fire + 1] \in Point
          BY <1>2, <4>1, <5>3 DEF IInv, TypeOK, Now
        <5> QED
          BY <4>2, <4>4, <5>4, DetectorAssumption DEF xs, Point, Line
      <4> QED
        BY <4>3, <4>4
    <3>3. ~(xs(i) < Line(n) + PEN)
      BY <1>2, <3>1, <3>2
    <3> QED
      BY <1>2, <3>3 DEF IInv, NoMissedFiring
  <2>5. events[n].fire - events[n].cross < Patience
    BY <2>3, <2>4, EarlyIsShort
  <2>6. Patience \in Int
    BY DetectorAssumption DEF Patience, Patient
  <2> QED
    BY <2>3, <2>5, <2>6
<1>3. IInv => DelayBounded
  BY <1>1, <1>2 DEF DelayBounded
<1> QED
  BY <1>3, Invariance, PTL
=============================================================================

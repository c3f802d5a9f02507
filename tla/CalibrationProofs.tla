------------------------- MODULE CalibrationProofs -------------------------
(***************************************************************************)
(* Items 2 and 3 of the calibration.  The vectorised scan implements the   *)
(* operator it is a copy of, and the map it accumulates is that of the     *)
(* operator's events, for every path, line distance and period; and a      *)
(* firing of the zoo or of Part B is priced and counted once.              *)
(***************************************************************************)
EXTENDS BracketMap, Recentring, Inversion, PathLaw, OrderProofs

\* What the operator would say of block c's jump, and the invariant: the label
\* carried since the crossing is what would be looked up now.  The line has
\* not moved since, and the path is only appended to.
Looked(c) == path[c + 1].j > 0 /\ path[c + 1].x - path[c + 1].j < b

Remembered == crossed # -1 => crossed < Now /\ (cross_jl <=> Looked(crossed))

IInv == TypeOK /\ Remembered
-----------------------------------------------------------------------------
LEMMA BlocksArePoints ==
  ASSUME TypeOK, NEW p \in Blocks
  PROVE  p \in Point /\ p.x \in Int /\ p.j \in Nat
<1>1. Price \in Int
  <2>1. CASE path = <<>>
    BY <2>1 DEF Price
  <2>2. CASE path # <<>>
    <3>1. path \in Seq(Point) /\ Len(path) \in 1..Len(path)
      BY <2>2 DEF TypeOK
    <3>2. path[Len(path)] \in Point
      BY <3>1
    <3> QED
      BY <2>2, <3>2 DEF Price, Point
  <2> QED
    BY <2>1, <2>2
<1>2. PICK m \in Moves, j \in Jumps \cup {0} : p = [x |-> Price + m + j, j |-> j]
  BY DEF Blocks
<1>3. m \in Int /\ j \in Nat
  BY VectorAssumption
<1> QED
  BY <1>1, <1>2, <1>3 DEF Point

LEMMA Reading ==
  ASSUME TypeOK, NEW p \in Blocks, path' = Append(path, p)
  PROVE  /\ p.x \in Int /\ p.j \in Nat
         /\ Now \in Nat /\ Now' = Now + 1
         /\ path' \in Seq(Point)
         /\ path'[Now + 1] = p
         /\ \A i \in 0..(Now - 1) : path'[i + 1] = path[i + 1]
<1>1. p \in Point /\ p.x \in Int /\ p.j \in Nat
  BY BlocksArePoints
<1>2. path \in Seq(Point)
  BY DEF TypeOK
<1>3. /\ path' \in Seq(Point)
      /\ Len(path) \in Nat
      /\ Len(path') = Len(path) + 1
      /\ path'[Len(path) + 1] = p
      /\ \A n \in 1..Len(path) : path'[n] = path[n]
  BY <1>1, <1>2
<1> QED
  BY <1>1, <1>3 DEF Now

\* The bookkeeping of one block: the crossing is the operator's, and the label
\* carried to a firing is the one the operator looks up.
LEMMA Bookkeeping ==
  ASSUME IInv, NEW p \in Blocks, path' = Append(path, p)
  PROVE  /\ Crossed(p) \in Nat \cup {-1}
         /\ Crossed(p) <= Now
         /\ Crossed(p) = -1 <=> p.x < b
         /\ Crossed(p) = (IF p.x < b THEN -1 ELSE IF crossed = -1 THEN Now ELSE crossed)
         /\ Label(p) \in BOOLEAN
         /\ Crossed(p) # -1 =>
              (Label(p) <=> /\ path'[Crossed(p) + 1].j > 0
                            /\ path'[Crossed(p) + 1].x - path'[Crossed(p) + 1].j < b)
<1>1. /\ p.x \in Int /\ p.j \in Nat /\ Now \in Nat /\ path'[Now + 1] = p
      /\ \A i \in 0..(Now - 1) : path'[i + 1] = path[i + 1]
  BY Reading DEF IInv
<1>2. crossed \in Nat \cup {-1} /\ b \in Int /\ cross_jl \in BOOLEAN
  BY DEF IInv, TypeOK
<1>3. CASE p.x < b
  <2>1. Crossed(p) = -1 /\ Label(p) = cross_jl
    BY <1>1, <1>2, <1>3 DEF Crossed, Label, Newly, Below
  <2> QED
    BY <1>1, <1>2, <1>3, <2>1
<1>4. CASE ~(p.x < b) /\ crossed = -1
  <2>1. Crossed(p) = Now /\ (Label(p) <=> p.j > 0 /\ p.x - p.j < b)
    BY <1>1, <1>4 DEF Crossed, Label, Newly, Below
  <2>2. Label(p) \in BOOLEAN
    BY <1>2 DEF Label
  <2>3. /\ path'[Crossed(p) + 1].j = p.j
        /\ path'[Crossed(p) + 1].x = p.x
    BY <1>1, <2>1
  <2>4. Label(p) <=> /\ path'[Crossed(p) + 1].j > 0
                     /\ path'[Crossed(p) + 1].x - path'[Crossed(p) + 1].j < b
    BY <2>1, <2>3
  <2>5. Now # -1
    BY <1>1
  <2>6. /\ Crossed(p) \in Nat \cup {-1} /\ Crossed(p) <= Now
        /\ Crossed(p) = -1 <=> p.x < b
    BY <1>1, <1>4, <2>1, <2>5
  <2>7. Crossed(p) = (IF p.x < b THEN -1 ELSE IF crossed = -1 THEN Now ELSE crossed)
    BY <1>4, <2>1
  <2> QED
    BY <2>2, <2>4, <2>6, <2>7
<1>5. CASE ~(p.x < b) /\ crossed # -1
  <2>1. Crossed(p) = crossed /\ Label(p) = cross_jl
    BY <1>2, <1>5 DEF Crossed, Label, Newly, Below
  <2>2. crossed \in 0..(Now - 1) /\ (cross_jl <=> Looked(crossed))
    BY <1>1, <1>2, <1>5 DEF IInv, Remembered
  <2>3. path'[crossed + 1] = path[crossed + 1]
    BY <1>1, <2>2
  <2> QED
    BY <1>1, <1>2, <1>5, <2>1, <2>2, <2>3 DEF Looked
<1> QED
  BY <1>3, <1>4, <1>5
-----------------------------------------------------------------------------
LEMMA InitInv == Init => IInv
<1> SUFFICES ASSUME Init PROVE IInv
  OBVIOUS
<1>1. path \in Seq(Point) /\ events \in Seq(Event) /\ b \in Int
  BY VectorAssumption DEF Init
<1>2. crossed = -1 /\ cross_jl \in BOOLEAN
  BY DEF Init
<1> QED
  BY <1>1, <1>2 DEF IInv, TypeOK, Remembered

LEMMA StepInv == IInv /\ [Next]_vars => IInv'
<1> SUFFICES ASSUME IInv, [Next]_vars PROVE IInv'
  OBVIOUS
<1>1. CASE UNCHANGED vars
  BY <1>1 DEF vars, IInv, TypeOK, Remembered, Looked, Now
<1>2. ASSUME NEW p \in Blocks, path' = Append(path, p), cross_jl' = Label(p), Fire(p)
      PROVE  IInv'
  <2>1. /\ p.x \in Int /\ Now \in Nat /\ path' \in Seq(Point) /\ b \in Int
        /\ Crossed(p) \in Nat \cup {-1} /\ Crossed(p) <= Now /\ Label(p) \in BOOLEAN
    BY <1>2, Reading, Bookkeeping DEF IInv, TypeOK
  <2>2. Crossed(p) \in Nat /\ p.x >= b
    BY <1>2, <2>1 DEF Fire, Fires
  <2>3. [delay |-> Now - Crossed(p) + 1, over |-> p.x - b, jump |-> Label(p),
         fire |-> Now, cross |-> Crossed(p)] \in Event
    BY <2>1, <2>2 DEF Event
  <2>4. events' \in Seq(Event)
    BY <1>2, <2>3 DEF Fire, IInv, TypeOK
  <2> QED
    BY <1>2, <2>1, <2>4, VectorAssumption DEF Fire, IInv, TypeOK, Remembered
<1>3. ASSUME NEW p \in Blocks, path' = Append(path, p), cross_jl' = Label(p), Keep(p)
      PROVE  IInv'
  <2>1. /\ Now \in Nat /\ Now' = Now + 1 /\ path' \in Seq(Point)
        /\ Crossed(p) \in Nat \cup {-1} /\ Crossed(p) <= Now /\ Label(p) \in BOOLEAN
        /\ crossed' = Crossed(p) /\ b' = b /\ events' = events
    BY <1>3, Reading, Bookkeeping DEF IInv, Keep
  <2>2. TypeOK'
    BY <1>3, <2>1 DEF IInv, TypeOK
  <2>3. Remembered'
    <3> SUFFICES ASSUME Crossed(p) # -1
                 PROVE  Crossed(p) < Now' /\ (Label(p) <=> Looked(crossed)')
      BY <1>3, <2>1 DEF Remembered
    <3>1. Label(p) <=> /\ path'[Crossed(p) + 1].j > 0
                       /\ path'[Crossed(p) + 1].x - path'[Crossed(p) + 1].j < b
      BY <1>3, Bookkeeping
    <3> QED
      BY <2>1, <3>1 DEF Looked
  <2> QED
    BY <2>2, <2>3 DEF IInv
<1> QED
  BY <1>1, <1>2, <1>3 DEF Next

\* The scan's carried state and its events are of their types.
THEOREM TypeCorrect == Spec => []TypeOK
<1>1. IInv => TypeOK
  BY DEF IInv
<1> QED
  BY <1>1, InitInv, StepInv, PTL DEF Spec

\* The initial states are the operator's.
LEMMA InitMaps == Init => Operator!Init
BY DEF Init, Operator!Init, Operator!None, Outside

\* A block of the scan is that block of the operator.
LEMMA StepMaps == IInv /\ [Next]_vars => [Operator!Next]_Operator!vars
<1> SUFFICES ASSUME IInv, [Next]_vars PROVE [Operator!Next]_Operator!vars
  OBVIOUS
<1>1. CASE UNCHANGED vars
  BY <1>1 DEF vars, Operator!vars, Outside, Now
<1>2. ASSUME Now < B, NEW p \in Blocks, path' = Append(path, p),
             cross_jl' = Label(p), Fire(p) \/ Keep(p)
      PROVE  Operator!Next
  <2>1. /\ p.x \in Int /\ p.j \in Nat /\ Now \in Nat /\ Now' = Now + 1
        /\ path'[Now + 1] = p /\ b \in Int /\ crossed \in Nat \cup {-1}
        /\ \A i \in 0..(Now - 1) : path'[i + 1] = path[i + 1]
    BY <1>2, Reading DEF IInv, TypeOK
  <2>2. Operator!Now = Now /\ Operator!Now < B /\ p \in Operator!Blocks
    BY <1>2 DEF Operator!Now, Now, Blocks, Operator!Blocks, Price, Operator!Price
  <2>3. Operator!Crossing(p) = Crossed(p)
    BY <1>2, <2>2, Bookkeeping DEF Operator!Crossing, Operator!None
  <2>4. Operator!Outside(p) = IF p.x < b THEN 0 ELSE Now - Crossed(p) + 1
    <3>1. crossed = -1 => Outside = 0
      BY DEF Outside
    <3>2. crossed # -1 => Outside = Now - crossed
      BY <2>1 DEF Outside
    <3> QED
      BY <1>2, <2>1, <3>1, <3>2, Bookkeeping DEF Operator!Outside, Operator!None
  <2>5. Operator!Checks(p) = {Now % PERIOD = 0}
    BY <2>2 DEF Operator!Checks
  <2>6. p.x >= b => Operator!Qualifies(p)
    <3>1. Operator!Patient = 1
      BY DEF Operator!Patient
    <3>2. p.x >= b => Now - Crossed(p) + 1 >= 1
      BY <1>2, <2>1, Bookkeeping
    <3> QED
      BY <2>1, <2>4, <3>1, <3>2 DEF Operator!Qualifies
  <2>7. Crossed(p) # -1 => Operator!JumpLabel(Crossed(p), p) = Label(p)
    <3> SUFFICES ASSUME Crossed(p) # -1
                 PROVE  Operator!JumpLabel(Crossed(p), p) = Label(p)
      OBVIOUS
    <3>1. Crossed(p) \in 0..Now
      BY <1>2, <2>1, Bookkeeping
    <3>2. Operator!At(Crossed(p), p) = path'[Crossed(p) + 1]
      <4>1. CASE Crossed(p) = Now
        BY <2>1, <2>2, <4>1 DEF Operator!At
      <4>2. CASE Crossed(p) # Now
        <5>1. Crossed(p) \in 0..(Now - 1)
          BY <2>1, <3>1, <4>2
        <5> QED
          BY <2>1, <2>2, <4>2, <5>1 DEF Operator!At
      <4> QED
        BY <4>1, <4>2
    <3> QED
      BY <1>2, <3>2, Bookkeeping DEF Operator!JumpLabel
  <2>8. CASE Fire(p)
    <3>1. /\ Now % PERIOD = 0 /\ Crossed(p) >= 0 /\ p.x >= b
          /\ events' = Append(events,
               [delay |-> Now - Crossed(p) + 1, over |-> p.x - b, jump |-> Label(p),
                fire |-> Now, cross |-> Crossed(p)])
          /\ b' = p.x + W /\ crossed' = -1
      BY <2>8 DEF Fire, Fires
    <3>2. Operator!JumpLabel(Crossed(p), p) = Label(p)
      BY <2>7, <3>1
    <3>3. Outside' = 0
      BY <3>1 DEF Outside
    <3>4. Operator!Fire(p)
      BY <2>2, <2>3, <2>5, <2>6, <3>1, <3>2, <3>3
         DEF Operator!Fire, Operator!None, Operator!Anchor
    <3> QED
      BY <1>2, <2>2, <3>4 DEF Operator!Next
  <2>9. CASE Keep(p)
    <3>1. ~Fires(p) /\ crossed' = Crossed(p) /\ b' = b /\ events' = events
      BY <2>9 DEF Keep
    <3>2. p.x < b \/ FALSE \in Operator!Checks(p)
      <4>1. p.x < b \/ (Crossed(p) >= 0 /\ p.x >= b)
        BY <1>2, <2>1, Bookkeeping
      <4>2. p.x < b \/ (Now % PERIOD = 0) = FALSE
        BY <3>1, <4>1 DEF Fires
      <4> QED
        BY <2>5, <4>2
    <3>3. Outside' = Operator!Outside(p)
      <4>1. CASE p.x < b
        BY <1>2, <2>4, <3>1, <4>1, Bookkeeping DEF Outside
      <4>2. CASE ~(p.x < b)
        <5>1. Crossed(p) \in Nat
          BY <1>2, <4>2, Bookkeeping
        <5> QED
          BY <2>1, <2>4, <3>1, <4>2, <5>1 DEF Outside
      <4> QED
        BY <4>1, <4>2
    <3>4. Operator!Pass(p)
      BY <2>3, <3>1, <3>2, <3>3 DEF Operator!Pass
    <3> QED
      BY <1>2, <2>2, <3>4 DEF Operator!Next
  <2> QED
    BY <1>2, <2>8, <2>9
<1> QED
  BY <1>1, <1>2 DEF Next

\* The vectorised scan has, block by block, the line, the crossing and the
\* events of run_operator() with periodic checks: the agreement that
\* --validate samples on one world and three periods.
THEOREM ScanImplementsOperator == Spec => ScanAgrees
<1>1. Spec => []IInv
  BY InitInv, StepInv, PTL DEF Spec
<1> QED
  BY <1>1, InitMaps, StepMaps, PTL DEF Spec, ScanAgrees, Operator!Spec
-----------------------------------------------------------------------------
(***************************************************************************)
(* The accumulators.  Each is the number of events of some kind; it grows  *)
(* with the list of events or stays with it.                               *)
(***************************************************************************)
Having(q, G) == {n \in DOMAIN q : q[n] \in G}

Jumped         == {e \in Event : e.jump}
Within(ab)     == {e \in Event : e.delay <= ab}
JumpedIn(ab)   == {e \in Event : e.delay <= ab /\ e.jump}
Exceeding(c)   == {e \in Event : e.delay <= c[2] /\ Exceeds(e.over, c[1], e.delay)}
Tailed           == {e \in Event : e.delay <= 2 /\ e.over > 2 * Z0}

NumberOf(G) == Cardinality(Having(events, G))

Accumulated ==
  /\ n_all = Len(events)
  /\ n_jc = NumberOf(Jumped)
  /\ n_adm = [ab \in Abars |-> NumberOf(Within(ab))]
  /\ n_jl = [ab \in Abars |-> NumberOf(JumpedIn(ab))]
  /\ n_exc = [c \in Kappas \X Abars |-> NumberOf(Exceeding(c))]
  /\ PERIOD = 1 => hill_n = NumberOf(Tailed)

MapInv == IInv /\ Accumulated

\* One more event is one more of its kinds.
LEMMA OneMoreHas ==
  ASSUME NEW T, NEW G, NEW q \in Seq(T), NEW e \in T
  PROVE  /\ Cardinality(Having(q, G)) \in Nat
         /\ Cardinality(Having(Append(q, e), G))
              = Cardinality(Having(q, G)) + One(e \in G)
<1>1. /\ Len(q) \in Nat /\ DOMAIN q = 1..Len(q)
      /\ DOMAIN Append(q, e) = 1..(Len(q) + 1)
      /\ \A n \in 1..Len(q) : Append(q, e)[n] = q[n]
      /\ Append(q, e)[Len(q) + 1] = e
  OBVIOUS
<1>2. IsFiniteSet(1..Len(q)) /\ Having(q, G) \subseteq 1..Len(q)
  <2>1. Having(q, G) \subseteq 1..Len(q)
    BY <1>1 DEF Having
  <2>2. 1 \in Int /\ Len(q) \in Int
    BY <1>1
  <2>3. IsFiniteSet(1..Len(q))
    BY <2>2, FS_Interval
  <2> QED
    BY <2>1, <2>3
<1>3. IsFiniteSet(Having(q, G)) /\ Cardinality(Having(q, G)) \in Nat
  BY <1>2, FS_Subset, FS_CardinalityType
<1>4. CASE e \in G
  <2>1. Having(Append(q, e), G) = Having(q, G) \cup {Len(q) + 1}
    BY <1>1, <1>4 DEF Having
  <2>2. Len(q) + 1 \notin Having(q, G)
    BY <1>1, <1>2
  <2>3. Cardinality(Having(q, G) \cup {Len(q) + 1}) = Cardinality(Having(q, G)) + 1
    BY <1>3, <2>2, FS_AddElement
  <2> QED
    BY <1>3, <1>4, <2>1, <2>3 DEF One
<1>5. CASE e \notin G
  <2>1. Having(Append(q, e), G) = Having(q, G)
    BY <1>1, <1>5 DEF Having
  <2> QED
    BY <1>3, <1>5, <2>1 DEF One
<1> QED
  BY <1>4, <1>5

LEMMA MapBegins == MapInit => MapInv
<1> SUFFICES ASSUME MapInit PROVE MapInv
  OBVIOUS
<1>1. IInv /\ events = <<>>
  BY InitInv DEF MapInit, Init
<1>2. \A G : NumberOf(G) = 0
  <2>1. \A G : Having(events, G) = {}
    BY <1>1 DEF Having
  <2> QED
    BY <2>1, FS_EmptySet DEF NumberOf
<1>3. n_exc = [c \in Kappas \X Abars |-> 0]
  BY DEF MapInit
<1> QED
  BY <1>1, <1>2, <1>3 DEF MapInit, MapInv, Accumulated

\* The block that fires: the event appended is of the kinds the accumulators
\* ask about, in their own words.
LEMMA FiringCounts ==
  ASSUME MapInv, NEW p \in Blocks, path' = Append(path, p), Fire(p), Counts(p)
  PROVE  Accumulated'
<1> DEFINE e == [delay |-> Now - Crossed(p) + 1, over |-> p.x - b, jump |-> Label(p),
                 fire |-> Now, cross |-> Crossed(p)]
<1>1. /\ p.x \in Int /\ Now \in Nat /\ b \in Int
      /\ Crossed(p) \in Nat \cup {-1} /\ Crossed(p) <= Now /\ Label(p) \in BOOLEAN
  BY Reading, Bookkeeping DEF MapInv, IInv, TypeOK
<1>2. Fires(p) /\ Crossed(p) \in Nat /\ events' = Append(events, e)
  BY <1>1 DEF Fire, Fires
<1>3. e \in Event /\ events \in Seq(Event)
  BY <1>1, <1>2 DEF Event, MapInv, IInv, TypeOK
<1>4. e.delay = Delay(p) /\ e.over = Over(p) /\ e.jump = Label(p)
  BY DEF Delay, Over
<1> HIDE DEF e
<1>5. \A G : /\ NumberOf(G) \in Nat
             /\ NumberOf(G)' = NumberOf(G) + One(e \in G)
  BY <1>2, <1>3, OneMoreHas DEF NumberOf
<1>6. n_all' = Len(events')
  BY <1>2, <1>3 DEF Counts, One, MapInv, Accumulated
<1>7. n_jc' = NumberOf(Jumped)'
  <2>1. e \in Jumped <=> Label(p)
    BY <1>3, <1>4 DEF Jumped
  <2> QED
    BY <1>2, <1>5, <2>1 DEF Counts, Carried, One, MapInv, Accumulated
<1>8. n_adm' = [ab \in Abars |-> NumberOf(Within(ab))']
  <2>1. \A ab : e \in Within(ab) <=> Delay(p) <= ab
    BY <1>3, <1>4 DEF Within
  <2> QED
    BY <1>2, <1>5, <2>1 DEF Counts, One, MapInv, Accumulated
<1>9. n_jl' = [ab \in Abars |-> NumberOf(JumpedIn(ab))']
  <2>1. \A ab : e \in JumpedIn(ab) <=> Delay(p) <= ab /\ Label(p)
    BY <1>3, <1>4 DEF JumpedIn
  <2> QED
    BY <1>2, <1>5, <2>1 DEF Counts, Carried, One, MapInv, Accumulated
<1>10. n_exc' = [c \in Kappas \X Abars |-> NumberOf(Exceeding(c))']
  <2>1. \A c : e \in Exceeding(c) <=> Delay(p) <= c[2] /\ Exceeds(Over(p), c[1], Delay(p))
    BY <1>3, <1>4 DEF Exceeding
  <2> QED
    BY <1>2, <1>5, <2>1 DEF Counts, One, MapInv, Accumulated
<1>11. PERIOD = 1 => hill_n' = NumberOf(Tailed)'
  <2>1. e \in Tailed <=> Delay(p) <= 2 /\ Over(p) > 2 * Z0
    BY <1>3, <1>4 DEF Tailed
  <2> QED
    BY <1>2, <1>5, <2>1 DEF Counts, One, MapInv, Accumulated
<1> QED
  BY <1>6, <1>7, <1>8, <1>9, <1>10, <1>11 DEF Accumulated

\* A block without a firing leaves them as they are.
LEMMA QuietCounts ==
  ASSUME MapInv, NEW p \in Blocks, Keep(p), Counts(p)
  PROVE  Accumulated'
<1>1. ~Fires(p) /\ events' = events
  BY DEF Keep
<1>2. events \in Seq(Event)
  BY DEF MapInv, IInv, TypeOK
<1>3. \A G : NumberOf(G) \in Nat /\ NumberOf(G)' = NumberOf(G)
  <2>1. \A G : Having(events, G) \subseteq 1..Len(events) /\ Len(events) \in Nat
    BY <1>2 DEF Having
  <2>2. ASSUME NEW G
        PROVE  NumberOf(G) \in Nat
    <3>1. IsFiniteSet(1..Len(events))
      BY <2>1, FS_Interval
    <3>2. IsFiniteSet(Having(events, G))
      BY <2>1, <3>1, FS_Subset
    <3> QED
      BY <3>2, FS_CardinalityType DEF NumberOf
  <2> QED
    BY <1>1, <2>2 DEF NumberOf
<1>4. /\ n_all' = n_all + 0 /\ n_jc' = n_jc + 0 /\ hill_n' = hill_n + 0
      /\ n_adm' = [ab \in Abars |-> n_adm[ab] + 0]
      /\ n_jl' = [ab \in Abars |-> n_jl[ab] + 0]
      /\ n_exc' = [c \in Kappas \X Abars |-> n_exc[c] + 0]
  BY <1>1 DEF Counts, One
<1>5. Len(events) \in Nat
  BY <1>2
<1> QED
  BY <1>1, <1>3, <1>4, <1>5 DEF MapInv, Accumulated

LEMMA MapGoesOn == MapInv /\ [MapNext]_<<vars, counts>> => MapInv'
<1> SUFFICES ASSUME MapInv, [MapNext]_<<vars, counts>> PROVE MapInv'
  OBVIOUS
<1>1. [Next]_vars
  BY DEF MapNext, Next
<1>2. IInv'
  BY <1>1, StepInv DEF MapInv
<1>3. CASE MapNext
  BY <1>2, <1>3, FiringCounts, QuietCounts DEF MapNext, MapInv
<1>4. CASE UNCHANGED <<vars, counts>>
  BY <1>2, <1>4 DEF vars, counts, MapInv, Accumulated, NumberOf
<1> QED
  BY <1>3, <1>4

LEMMA MapCounts == MapInv => CountsAreOfEvents
<1> SUFFICES ASSUME MapInv PROVE CountsAreOfEvents
  OBVIOUS
<1>1. \A n \in DOMAIN events : events[n] \in Event
  BY DEF MapInv, IInv, TypeOK
<1>2. /\ Having(events, Jumped) = {n \in DOMAIN events : events[n].jump}
      /\ Having(events, Tailed) = {n \in DOMAIN events :
                                   events[n].delay <= 2 /\ events[n].over > 2 * Z0}
      /\ \A ab : Having(events, Within(ab)) = {n \in DOMAIN events : events[n].delay <= ab}
      /\ \A ab : Having(events, JumpedIn(ab))
                   = {n \in DOMAIN events : events[n].delay <= ab /\ events[n].jump}
      /\ \A c : Having(events, Exceeding(c))
                  = {n \in DOMAIN events : /\ events[n].delay <= c[2]
                                           /\ Exceeds(events[n].over, c[1], events[n].delay)}
  BY <1>1 DEF Having, Jumped, Tailed, Within, JumpedIn, Exceeding
<1> QED
  BY <1>2 DEF MapInv, Accumulated, CountsAreOfEvents, Count, NumberOf

\* Squares keep the order of what is not negative.
LEMMA SquaresKeepOrder ==
  ASSUME NEW u \in Int, NEW v \in Nat, v <= u
  PROVE  v * v <= u * u
<1>1. v * v <= u * v
  OBVIOUS
<1>2. u * v <= u * u
  OBVIOUS
<1> QED
  BY <1>1, <1>2

\* A threshold K over the delay a leaves room for a drift m that at the cut is
\* half of it at most.
LEMMA HalfIsLeft ==
  ASSUME NEW o \in Int, NEW a \in Nat, NEW ab \in Int, NEW m \in Int, NEW K \in Int,
         a <= ab, 4 * (m * m) * ab <= K, o > 0, o * o > K * a
  PROVE  LET u == 2 * (o - m * a) IN u > 0 /\ u * u > K * a
<1> DEFINE d == m * a
           u == 2 * (o - d)
<1>1. d \in Int /\ m * m \in Nat
  OBVIOUS
<1>2. 4 * (m * m) * a <= K
  <2>1. (m * m) * a <= (m * m) * ab
    BY <1>1
  <2> QED
    BY <1>1, <2>1
<1>3. (4 * (m * m) * a) * a <= K * a
  BY <1>1, <1>2
<1>4. (2 * d) * (2 * d) = (4 * (m * m) * a) * a
  OBVIOUS
<1>5. (2 * d) * (2 * d) < o * o
  BY <1>1, <1>3, <1>4
<1> HIDE DEF d
<1>6. 2 * d < o
  <2> SUFFICES ASSUME o <= 2 * d PROVE FALSE
    BY <1>1
  <2>1. o * o <= (2 * d) * (2 * d)
    BY <1>1, SquaresKeepOrder
  <2> QED
    BY <1>1, <1>5, <2>1
<1>7. u \in Int /\ o <= u
  BY <1>1, <1>6
<1>8. o * o <= u * u
  BY <1>7, SquaresKeepOrder
<1>9. K * a \in Int /\ o * o \in Int /\ u * u \in Int
  BY <1>7
<1>10. u > 0 /\ u * u > K * a
  BY <1>7, <1>8, <1>9
<1> QED
  BY <1>10 DEF d

LEMMA MapDrift == MapInv => DriftLeavesHalf
<1> SUFFICES ASSUME MapInv, NEW c \in Cells, NEW n \in DOMAIN events,
                    events[n].delay <= c.abar,
                    Exceeds(events[n].over, c.kappa, events[n].delay)
             PROVE  Exceeds(2 * (events[n].over - MU * events[n].delay), c.kappa,
                            events[n].delay)
  BY DEF DriftLeavesHalf
<1> DEFINE e == events[n]
           K == c.kappa * c.kappa * SIGMA * SIGMA
<1>1. c.kappa \in Int /\ c.abar \in Int /\ DriftOk(c.kappa, c.abar)
  <2>1. PICK d \in Kappas \X Abars : /\ DriftOk(d[1], d[2])
                                    /\ c = [kappa |-> d[1], abar |-> d[2],
                                            m |-> n_adm[d[2]], e |-> n_exc[d]]
    BY DEF Cells
  <2> QED
    BY <2>1, MapAssumption
<1>2. e \in Event
  BY DEF MapInv, IInv, TypeOK
<1>3. e.over \in Int /\ e.delay \in Nat
  BY <1>2 DEF Event
<1>4. K \in Int /\ 4 * (MU * MU) * c.abar <= K
  BY <1>1, MapAssumption DEF DriftOk
<1>5. e.over > 0 /\ e.over * e.over > K * e.delay
  BY DEF Exceeds
<1> HIDE DEF e, K
<1>6. e.delay <= c.abar
  BY DEF e
<1>7. LET u == 2 * (e.over - MU * e.delay) IN u > 0 /\ u * u > K * e.delay
  BY <1>1, <1>3, <1>4, <1>5, <1>6, HalfIsLeft, MapAssumption
<1> QED
  BY <1>7 DEF Exceeds, e, K

\* What Part A accumulates is what a list of run_operator()'q events would give,
\* cell by cell, and an exceedance of an admissible cell keeps half of its
\* threshold without the drift.
THEOREM MapIsOfEvents == MapSpec => []MapOfEvents
<1>1. MapInv => MapOfEvents
  BY MapCounts, MapDrift DEF MapInv, IInv, MapOfEvents
<1> QED
  BY <1>1, MapBegins, MapGoesOn, PTL DEF MapSpec
-----------------------------------------------------------------------------
(***************************************************************************)
(* The zoo and Part B.  What a firing is priced at lies between nothing    *)
(* and the cap, and the cap is met only beyond the range; the rest is that *)
(* the counters move together.                                             *)
(***************************************************************************)
ZooInv == Zoo!TypeOK /\ nFire <= step /\ Zoo!RestsInBand /\ Zoo!SharesOfOne

LEMMA ZooPrices ==
  ASSUME NEW d \in Int, Zoo!Fires(d)
  PROVE  /\ Zoo!Target(d) \in Int /\ -AD < Zoo!Target(d) /\ Zoo!Target(d) < AU
         /\ Zoo!LogCost(d, Zoo!Target(d)) \in 0..K_CAP
         /\ Zoo!InRange(d) => Zoo!LogCost(d, Zoo!Target(d)) < K_CAP
<1> DEFINE t == Zoo!Target(d)
<1>1. /\ AU \in 1..(H - 1) /\ AD \in 1..(H - 1) /\ H \in Nat /\ K_CAP \in Nat
      /\ TU \in Int /\ TD \in Int /\ -AD < TU /\ TU < AU /\ -AD < -TD /\ -TD < AU
  BY RecentringAssumption DEF Zoo!ZooPolicy, Zoo!InBand
<1>2. /\ t \in Int /\ -AD < t /\ t < AU
      /\ d >= t => d >= AU
      /\ d < t => d <= -AD
  BY <1>1 DEF Zoo!Fires, Zoo!Target
<1> HIDE DEF t
<1>3. CASE Zoo!InRange(d)
  <2> DEFINE k == IF d >= t THEN LogPotential[d] - LogPotential[t]
                  ELSE LogPotential[-d] - LogPotential[-t]
  <2>1. /\ d \in -(H - 1)..(H - 1) /\ -d \in -(H - 1)..(H - 1)
        /\ t \in -(H - 1)..(H - 1) /\ -t \in -(H - 1)..(H - 1)
    BY <1>1, <1>2, <1>3 DEF Zoo!InRange
  <2>2. k \in 0..(K_CAP - 1)
    <3>1. CASE d >= t
      <4>1. LogPotential[d] - LogPotential[t] \in 0..(K_CAP - 1)
        BY <1>2, <2>1, <3>1, RecentringAssumption
      <4> QED
        BY <3>1, <4>1
    <3>2. CASE ~(d >= t)
      <4>1. -t <= -d
        BY <1>2, <3>2
      <4>2. LogPotential[-d] - LogPotential[-t] \in 0..(K_CAP - 1)
        BY <2>1, <4>1, RecentringAssumption
      <4> QED
        BY <3>2, <4>2
    <3> QED
      BY <3>1, <3>2
  <2>3. Zoo!LogCost(d, t) = IF k > K_CAP THEN K_CAP ELSE k
    BY <1>3 DEF Zoo!LogCost
  <2> HIDE DEF k
  <2>4. Zoo!LogCost(d, t) \in 0..(K_CAP - 1)
    BY <1>1, <2>2, <2>3
  <2> QED
    BY <1>1, <1>2, <2>4 DEF t
<1>4. CASE ~Zoo!InRange(d)
  <2>1. Zoo!LogCost(d, t) = K_CAP
    BY <1>4 DEF Zoo!LogCost
  <2> QED
    BY <1>1, <1>2, <1>4, <2>1 DEF t
<1> QED
  BY <1>3, <1>4

LEMMA ZooBegins == Zoo!Init => ZooInv
<1> SUFFICES ASSUME Zoo!Init PROVE ZooInv
  OBVIOUS
<1>1. /\ AU \in 1..(H - 1) /\ AD \in 1..(H - 1) /\ H \in Nat /\ K_CAP \in Nat
      /\ N_STEPS \in Nat /\ S0 \in Int
  BY RecentringAssumption
<1>2. step = 0 /\ s = S0 /\ minS = S0 /\ centre = S0 /\ cost = 0 /\ nFire = 0
      /\ jCost = 0 /\ nJumpFire = 0 /\ nCap = 0
  BY DEF Zoo!Init
<1>3. s - centre = 0
  BY <1>1, <1>2
<1>4. Zoo!RestsInBand
  BY <1>1, <1>3 DEF Zoo!RestsInBand, Zoo!InBand
<1>5. Zoo!SharesOfOne
  BY <1>1, <1>2 DEF Zoo!SharesOfOne
<1>6. Zoo!TypeOK /\ nFire <= step
  BY <1>1, <1>2 DEF Zoo!TypeOK
<1> QED
  BY <1>4, <1>5, <1>6 DEF ZooInv

\* The counters of one step of the zoo.
LEMMA ZooCounts ==
  ASSUME ZooInv, NEW move \in Steps, NEW jump \in ZooJumps, Zoo!Step(move, jump)
  PROVE  ZooInv'
<1> DEFINE d == (s + move + jump) - centre
           k == Zoo!LogCost(d, Zoo!Target(d))
           counted == Zoo!Counted(d)
<1>1. /\ H \in Nat /\ K_CAP \in Nat /\ N_STEPS \in Nat /\ move \in Int /\ jump \in Int
      /\ AU \in 1..(H - 1) /\ AD \in 1..(H - 1)
  BY RecentringAssumption
<1>2. /\ step \in 0..N_STEPS /\ s \in Int /\ minS \in Int /\ centre \in Int
      /\ cost \in Int /\ nFire \in 0..N_STEPS /\ jCost \in Int
      /\ nJumpFire \in 0..N_STEPS /\ nCap \in 0..N_STEPS /\ nFire <= step
      /\ nJumpFire <= nFire /\ nCap <= nFire /\ jCost <= cost
      /\ (\A m \in Steps : Zoo!InRange(AU + m) /\ Zoo!InRange(m - AD)) => nCap <= nJumpFire
      /\ K_CAP * nCap <= cost /\ cost <= K_CAP * nFire
  BY DEF ZooInv, Zoo!TypeOK, Zoo!SharesOfOne
<1>3. -AD < s - centre /\ s - centre < AU
  BY RecentringAssumption DEF ZooInv, Zoo!RestsInBand, Zoo!InBand
<1>4. d \in Int
  BY <1>1, <1>2
<1>5. /\ step < N_STEPS /\ step' = step + 1 /\ s' = s + move + jump
      /\ minS' = Zoo!Least(minS, s + move + jump)
      /\ cost' = IF counted THEN cost + k ELSE cost
      /\ nFire' = IF counted THEN nFire + 1 ELSE nFire
      /\ centre' = IF Zoo!Fires(d) THEN (s + move + jump) - Zoo!Target(d) ELSE centre
      /\ nCap' = IF counted /\ k >= K_CAP THEN nCap + 1 ELSE nCap
      /\ jCost' = IF counted /\ jump # 0 THEN jCost + k ELSE jCost
      /\ nJumpFire' = IF counted /\ jump # 0 THEN nJumpFire + 1 ELSE nJumpFire
  BY DEF Zoo!Step, Zoo!Move, Zoo!Apart, Zoo!Plus, Zoo!OfJumps
<1>6. counted => Zoo!Fires(d)
  BY DEF Zoo!Counted
<1>7. Zoo!Fires(d) => /\ Zoo!Target(d) \in Int /\ -AD < Zoo!Target(d) /\ Zoo!Target(d) < AU
                      /\ k \in 0..K_CAP
                      /\ Zoo!InRange(d) => k < K_CAP
  BY <1>4, ZooPrices
\* A firing without a jump lands within a step of the band.
<1>8. ASSUME \A m \in Steps : Zoo!InRange(AU + m) /\ Zoo!InRange(m - AD), jump = 0
      PROVE  Zoo!InRange(d)
  <2>1. Zoo!InRange(AU + move) /\ Zoo!InRange(move - AD)
    BY <1>8
  <2> QED
    BY <1>1, <1>2, <1>3, <1>8, <2>1 DEF Zoo!InRange
<1>9. ~Zoo!Fires(d) => -AD < d /\ d < AU
  BY <1>1, <1>4 DEF Zoo!Fires
<1>10. s' \in Int /\ minS' \in Int /\ centre' \in Int
  BY <1>1, <1>2, <1>5, <1>7 DEF Zoo!Least
<1>11. -AD < s' - centre' /\ s' - centre' < AU
  <2>1. CASE Zoo!Fires(d)
    <3>1. s' = s + move + jump /\ centre' = (s + move + jump) - Zoo!Target(d)
      BY <1>5, <2>1
    <3>2. Zoo!Target(d) \in Int /\ s + move + jump \in Int
      BY <1>1, <1>2, <1>7, <2>1
    <3> HIDE DEF d
    <3>3. s' - centre' = Zoo!Target(d)
      BY <3>1, <3>2
    <3> QED
      BY <1>7, <2>1, <3>3
  <2>2. CASE ~Zoo!Fires(d)
    <3>1. s' - centre' = d
      BY <1>5, <2>2
    <3> QED
      BY <1>9, <2>2, <3>1
  <2> QED
    BY <2>1, <2>2
<1> HIDE DEF d, k, counted
<1>12. /\ step' \in 0..N_STEPS /\ nFire' <= step' /\ nFire' \in 0..N_STEPS
       /\ nJumpFire' <= nFire' /\ nJumpFire' \in 0..N_STEPS
       /\ nCap' <= nFire' /\ nCap' \in 0..N_STEPS
  BY <1>1, <1>2, <1>5
<1>13. cost' \in Int /\ jCost' \in Int /\ jCost' <= cost'
  <2>1. CASE counted
    <3>1. k \in 0..K_CAP /\ cost' = cost + k
          /\ jCost' = IF jump # 0 THEN jCost + k ELSE jCost
      BY <1>5, <1>6, <1>7, <2>1
    <3> QED
      BY <1>1, <1>2, <3>1
  <2>2. CASE ~counted
    BY <1>2, <1>5, <2>2
  <2> QED
    BY <2>1, <2>2
<1>14. ASSUME \A m \in Steps : Zoo!InRange(AU + m) /\ Zoo!InRange(m - AD)
       PROVE  nCap' <= nJumpFire'
  <2>1. nCap <= nJumpFire
    BY <1>2, <1>14
  <2>2. CASE counted /\ k >= K_CAP
    <3>1. jump # 0
      BY <1>1, <1>6, <1>7, <1>8, <1>14, <2>2
    <3> QED
      BY <1>2, <1>5, <2>1, <2>2, <3>1
  <2>3. CASE ~(counted /\ k >= K_CAP)
    BY <1>2, <1>5, <2>1, <2>3
  <2> QED
    BY <2>2, <2>3
<1>15. K_CAP * nCap' <= cost' /\ cost' <= K_CAP * nFire'
  <2>1. CASE counted
    <3>1. k \in 0..K_CAP /\ cost' = cost + k /\ nFire' = nFire + 1
      BY <1>5, <1>6, <1>7, <2>1
    <3>2. K_CAP * (nFire + 1) = K_CAP * nFire + K_CAP
          /\ K_CAP * (nCap + 1) = K_CAP * nCap + K_CAP
          /\ K_CAP * nFire \in Int /\ K_CAP * nCap \in Int
      BY <1>1, <1>2
    <3>3. cost' <= K_CAP * nFire'
      BY <1>1, <1>2, <3>1, <3>2
    <3>4. CASE k >= K_CAP
      <4>1. nCap' = nCap + 1 /\ k = K_CAP
        BY <1>1, <1>5, <2>1, <3>1, <3>4
      <4> QED
        BY <1>1, <1>2, <3>1, <3>2, <3>3, <4>1
    <3>5. CASE ~(k >= K_CAP)
      <4>1. nCap' = nCap
        BY <1>5, <3>5
      <4> QED
        BY <1>1, <1>2, <3>1, <3>2, <3>3, <4>1
    <3> QED
      BY <3>4, <3>5
  <2>2. CASE ~counted
    BY <1>2, <1>5, <2>2
  <2> QED
    BY <2>1, <2>2
<1>16. Zoo!TypeOK'
  BY <1>10, <1>12, <1>13 DEF Zoo!TypeOK
<1>17. Zoo!RestsInBand'
  BY <1>11 DEF Zoo!RestsInBand, Zoo!InBand
<1>18. Zoo!SharesOfOne'
  BY <1>12, <1>13, <1>14, <1>15 DEF Zoo!SharesOfOne
<1> QED
  BY <1>12, <1>16, <1>17, <1>18 DEF ZooInv
-----------------------------------------------------------------------------
LEMMA NoSign == -0 = 0
<1> DEFINE n == -0
<1>1. n \in Int /\ n <= 0 /\ n >= 0
  OBVIOUS
<1> HIDE DEF n
<1>2. n = 0
  BY <1>1
<1> QED
  BY <1>2 DEF n

SurInv == /\ step \in Nat /\ s \in Int /\ centre \in Int /\ cost \in Int /\ nFire \in Nat
          /\ premSum \in Int /\ ojSum \in Int /\ nJ \in Nat /\ nBeyond \in Nat
          /\ costBeyond \in Int
          /\ Sur!SurchargeBound /\ Sur!CostSplits

LEMMA SurPrices ==
  ASSUME NEW d \in Int
  PROVE  /\ Sur!K(d) \in 0..K_CAP
         /\ d >= H => Sur!K(d) = K_CAP
         /\ d \in 0..(H - 1) => Sur!K(d) = LogPotential[d]
         /\ Sur!K(d) = Sur!Zoo!LogCost(d, 0)
<1>1. H \in Nat /\ K_CAP \in Nat /\ TRIGGER \in 1..(H - 1)
  BY RecentringAssumption
<1>2. CASE d <= -H \/ d >= H
  <2>1. Sur!K(d) = K_CAP
    BY <1>2 DEF Sur!K
  <2>2. ~(-H < d /\ d < H)
    BY <1>1, <1>2
  <2>3. Sur!Zoo!LogCost(d, 0) = K_CAP
    BY <2>2 DEF Sur!Zoo!LogCost, Sur!Zoo!InRange
  <2> QED
    BY <1>1, <1>2, <2>1, <2>3
<1>3. CASE ~(d <= -H \/ d >= H)
  <2> DEFINE v == IF d >= 0 THEN LogPotential[d] ELSE LogPotential[-d]
  <2>1. d \in -(H - 1)..(H - 1) /\ -d \in -(H - 1)..(H - 1) /\ 0 \in -(H - 1)..(H - 1)
    BY <1>1, <1>3
  <2>2. v \in 0..(K_CAP - 1)
    <3>1. \A y \in -(H - 1)..(H - 1) :
            0 <= y => LogPotential[y] - LogPotential[0] \in 0..(K_CAP - 1)
      BY <2>1, RecentringAssumption
    <3>2. \A y \in -(H - 1)..(H - 1) : LogPotential[y] \in Int
      BY RecentringAssumption
    <3>3. LogPotential[0] = 0
      BY RecentringAssumption
    <3>4. CASE d >= 0
      <4>1. LogPotential[d] - 0 \in 0..(K_CAP - 1) /\ LogPotential[d] \in Int
        BY <2>1, <3>1, <3>2, <3>3, <3>4
      <4> QED
        BY <3>4, <4>1
    <3>5. CASE ~(d >= 0)
      <4>1. LogPotential[-d] - 0 \in 0..(K_CAP - 1) /\ LogPotential[-d] \in Int
        BY <2>1, <3>1, <3>2, <3>3, <3>5
      <4> QED
        BY <3>5, <4>1
    <3> QED
      BY <3>4, <3>5
  <2>3. Sur!K(d) = IF K_CAP <= v THEN K_CAP ELSE v
    BY <1>3 DEF Sur!K, Sur!Least
  <2>4. Sur!Zoo!LogCost(d, 0) = LET k == IF d >= 0 THEN LogPotential[d] - LogPotential[0]
                                         ELSE LogPotential[-d] - LogPotential[-0]
                                IN  IF k > K_CAP THEN K_CAP ELSE k
    BY <1>1, <1>3 DEF Sur!Zoo!LogCost, Sur!Zoo!InRange
  <2>5. LogPotential[0] = 0 /\ LogPotential[d] \in Int /\ LogPotential[-d] \in Int
    BY <2>1, RecentringAssumption
  <2>a. LogPotential[-0] = 0
    BY <2>5, NoSign
  <2>6. Sur!Zoo!LogCost(d, 0) = IF v > K_CAP THEN K_CAP ELSE v
    BY <2>4, <2>5, <2>a
  <2>7. d >= 0 => v = LogPotential[d]
    OBVIOUS
  <2> HIDE DEF v
  <2>8. Sur!K(d) = v /\ Sur!Zoo!LogCost(d, 0) = v
    BY <1>1, <2>2, <2>3, <2>6
  <2> QED
    BY <1>1, <1>3, <2>2, <2>7, <2>8
<1> QED
  BY <1>2, <1>3

LEMMA SurBegins == Sur!Init => SurInv
<1> SUFFICES ASSUME Sur!Init PROVE SurInv
  OBVIOUS
<1>1. S0 \in Int /\ K_CAP \in Nat /\ SLOPE \in Nat
  BY RecentringAssumption
<1> QED
  BY <1>1 DEF Sur!Init, SurInv, Sur!SurchargeBound, Sur!CostSplits

\* What one firing adds, of each of its three kinds.
LEMMA SurCounts ==
  ASSUME SurInv, NEW move \in Steps, NEW jump \in SurJumps, Sur!Step(move, jump)
  PROVE  SurInv'
<1> DEFINE d    == (s + move + jump) - centre
           dPre == s + move - centre
           counted == step >= Sur!Burn /\ Sur!Fired(d)
           inside  == step >= Sur!Burn /\ Sur!JumpFire(d, dPre, jump) /\ d < H
           beyond  == step >= Sur!Burn /\ Sur!JumpFire(d, dPre, jump) /\ Sur!Beyond(d)
<1>1. /\ H \in Nat /\ K_CAP \in Nat /\ SLOPE \in Nat /\ TRIGGER \in 1..(H - 1)
      /\ move \in Int /\ jump \in Int
  BY RecentringAssumption
<1>2. /\ step \in Nat /\ s \in Int /\ centre \in Int /\ cost \in Int /\ nFire \in Nat
      /\ premSum \in Int /\ ojSum \in Int /\ nJ \in Nat /\ nBeyond \in Nat
      /\ costBeyond \in Int
      /\ premSum >= SLOPE * ojSum /\ nJ + nBeyond <= nFire
      /\ costBeyond = K_CAP * nBeyond /\ premSum + costBeyond <= cost
  BY DEF SurInv, Sur!SurchargeBound, Sur!CostSplits
<1>3. d \in Int /\ dPre \in Int
  BY <1>1, <1>2
<1>4. /\ step' = step + 1 /\ s' = s + move + jump
      /\ centre' = IF Sur!Fired(d) THEN s + move + jump ELSE centre
      /\ cost' = IF counted THEN cost + Sur!K(d) ELSE cost
      /\ nFire' = IF counted THEN nFire + 1 ELSE nFire
      /\ premSum' = IF inside THEN premSum + Sur!Premium(d, dPre) ELSE premSum
      /\ ojSum' = IF inside THEN ojSum + Sur!Overshoot(d, dPre) ELSE ojSum
      /\ nJ' = IF inside THEN nJ + 1 ELSE nJ
      /\ nBeyond' = IF beyond THEN nBeyond + 1 ELSE nBeyond
      /\ costBeyond' = IF beyond THEN costBeyond + Sur!K(d) ELSE costBeyond
  BY DEF Sur!Step, Sur!Plus
<1>5. /\ inside => counted /\ ~beyond /\ dPre < TRIGGER /\ TRIGGER <= d /\ d < H
      /\ beyond => counted /\ d >= H
  BY <1>1, <1>3 DEF Sur!JumpFire, Sur!Fired, Sur!Beyond
<1>6. Sur!K(d) \in 0..K_CAP /\ (beyond => Sur!K(d) = K_CAP)
  BY <1>3, <1>5, SurPrices
<1>7. ASSUME inside
      PROVE  /\ Sur!Overshoot(d, dPre) = d - TRIGGER
             /\ Sur!Premium(d, dPre) \in Int /\ Sur!Premium(d, dPre) <= Sur!K(d)
             /\ Sur!Premium(d, dPre) >= SLOPE * (d - TRIGGER)
  <2>1. /\ TRIGGER \in Int /\ TRIGGER <= d /\ dPre < TRIGGER
        /\ TRIGGER \in 0..(H - 1) /\ d \in 0..(H - 1)
    BY <1>1, <1>3, <1>5, <1>7
  <2>2. Sur!Most(dPre, TRIGGER) = TRIGGER
    BY <1>3, <2>1 DEF Sur!Most
  <2>3. Sur!Hypothetical(d, dPre) = TRIGGER
    BY <1>3, <2>1, <2>2 DEF Sur!Hypothetical, Sur!Least
  <2>4. /\ Sur!K(d) = LogPotential[d] /\ Sur!K(TRIGGER) = LogPotential[TRIGGER]
        /\ Sur!K(d) \in 0..K_CAP /\ Sur!K(TRIGGER) \in 0..K_CAP
    BY <1>3, <2>1, SurPrices
  <2>5. LogPotential[d] - LogPotential[TRIGGER] >= SLOPE * (d - TRIGGER)
    BY <2>1, RecentringAssumption
  <2>6. Sur!Premium(d, dPre) = Sur!K(d) - Sur!K(TRIGGER)
    BY <2>3 DEF Sur!Premium
  <2> QED
    BY <1>1, <2>2, <2>4, <2>5, <2>6 DEF Sur!Overshoot
<1>8. s' \in Int /\ centre' \in Int
  BY <1>1, <1>2, <1>4
<1> HIDE DEF d, dPre, counted, inside, beyond
<1>9. CASE inside
  <2>1. /\ cost' = cost + Sur!K(d) /\ nFire' = nFire + 1
        /\ premSum' = premSum + Sur!Premium(d, dPre) /\ ojSum' = ojSum + (d - TRIGGER)
        /\ nJ' = nJ + 1 /\ nBeyond' = nBeyond /\ costBeyond' = costBeyond
    BY <1>4, <1>5, <1>7, <1>9
  <2>2. /\ Sur!Premium(d, dPre) \in Int /\ Sur!Premium(d, dPre) <= Sur!K(d)
        /\ Sur!Premium(d, dPre) >= SLOPE * (d - TRIGGER)
    BY <1>7, <1>9
  <2>3. SLOPE * (ojSum + (d - TRIGGER)) = SLOPE * ojSum + SLOPE * (d - TRIGGER)
        /\ SLOPE * ojSum \in Int /\ SLOPE * (d - TRIGGER) \in Int
    BY <1>1, <1>2, <1>3
  <2>4. premSum' >= SLOPE * ojSum'
    BY <1>2, <2>1, <2>2, <2>3
  <2>5. /\ premSum' \in Int /\ ojSum' \in Int /\ cost' \in Int
        /\ nJ' + nBeyond' <= nFire' /\ premSum' + costBeyond' <= cost'
    BY <1>1, <1>2, <1>3, <1>6, <2>1, <2>2
  <2> QED
    BY <1>2, <1>4, <1>8, <2>1, <2>4, <2>5 DEF SurInv, Sur!SurchargeBound, Sur!CostSplits
<1>10. CASE beyond
  <2>1. /\ cost' = cost + K_CAP /\ nFire' = nFire + 1
        /\ premSum' = premSum /\ ojSum' = ojSum
        /\ nJ' = nJ /\ nBeyond' = nBeyond + 1 /\ costBeyond' = costBeyond + K_CAP
    BY <1>4, <1>5, <1>6, <1>10
  <2>2. K_CAP * (nBeyond + 1) = K_CAP * nBeyond + K_CAP /\ K_CAP * nBeyond \in Int
    BY <1>1, <1>2
  <2>3. costBeyond' = K_CAP * nBeyond'
    BY <1>2, <2>1, <2>2
  <2>4. /\ nJ' + nBeyond' <= nFire' /\ premSum' + costBeyond' <= cost'
        /\ cost' \in Int /\ costBeyond' \in Int
    BY <1>1, <1>2, <2>1
  <2>5. premSum' >= SLOPE * ojSum'
    BY <1>2, <2>1
  <2> QED
    BY <1>2, <1>4, <1>8, <2>1, <2>3, <2>4, <2>5 DEF SurInv, Sur!SurchargeBound, Sur!CostSplits
<1>11. CASE ~inside /\ ~beyond
  <2>1. /\ premSum' = premSum /\ ojSum' = ojSum
        /\ nJ' = nJ /\ nBeyond' = nBeyond /\ costBeyond' = costBeyond
    BY <1>4, <1>11
  <2>2. cost' \in Int /\ cost' >= cost /\ nFire' \in Nat /\ nFire' >= nFire
    BY <1>1, <1>2, <1>4, <1>6
  <2> QED
    BY <1>2, <1>4, <1>8, <2>1, <2>2 DEF SurInv, Sur!SurchargeBound, Sur!CostSplits
<1> QED
  BY <1>9, <1>10, <1>11

\* A step of Part B, as a step of the zoo with its policy.
LEMMA SurMovesAsZoo ==
  ASSUME SurInv, NEW move \in Steps, NEW jump \in SurJumps, Sur!Step(move, jump)
  PROVE  Sur!Zoo!Move(move, jump)
<1> DEFINE p == s + move + jump
           d == p - centre
<1>1. H \in Nat /\ TRIGGER \in 1..(H - 1) /\ move \in Int /\ jump \in Int
  BY RecentringAssumption
<1>2. s \in Int /\ centre \in Int
  BY DEF SurInv
<1>3. d \in Int /\ p \in Int
  BY <1>1, <1>2
<1>4. Sur!Zoo!Target(d) = 0
  BY NoSign DEF Sur!Zoo!Target
<1>5. Sur!K(d) = Sur!Zoo!LogCost(d, Sur!Zoo!Target(d))
  BY <1>3, <1>4, SurPrices
<1>6. Sur!Zoo!Fires(d) = Sur!Fired(d)
  BY DEF Sur!Zoo!Fires, Sur!Fired
<1>7. Sur!Zoo!Counted(d) = (step >= Sur!Burn /\ Sur!Fired(d))
  BY <1>6 DEF Sur!Zoo!Counted, Sur!Zoo!Burn, Sur!Burn
<1>8. p - Sur!Zoo!Target(d) = p
  BY <1>3, <1>4
<1>9. /\ step < N_STEPS /\ step' = step + 1 /\ s' = p
      /\ minS' = Sur!Least(minS, p)
      /\ cost' = Sur!Plus(cost, step >= Sur!Burn /\ Sur!Fired(d), Sur!K(d))
      /\ nFire' = Sur!Plus(nFire, step >= Sur!Burn /\ Sur!Fired(d), 1)
      /\ centre' = IF Sur!Fired(d) THEN p ELSE centre
  BY DEF Sur!Step
<1> HIDE DEF p, d
<1>10. /\ step < N_STEPS /\ step' = step + 1 /\ s' = p
       /\ minS' = Sur!Zoo!Least(minS, p)
       /\ cost' = Sur!Zoo!Plus(cost, Sur!Zoo!Counted(d),
                               Sur!Zoo!LogCost(d, Sur!Zoo!Target(d)))
       /\ nFire' = Sur!Zoo!Plus(nFire, Sur!Zoo!Counted(d), 1)
       /\ centre' = IF Sur!Zoo!Fires(d) THEN p - Sur!Zoo!Target(d) ELSE centre
  BY <1>5, <1>6, <1>7, <1>8, <1>9 DEF Sur!Least, Sur!Zoo!Least, Sur!Plus, Sur!Zoo!Plus
<1> QED
  BY <1>10 DEF Sur!Zoo!Move, p, d

RecInv == /\ script = "zoo" => ZooInv
          /\ script = "surch" => SurInv

\* For every policy build_zoo() may draw and every potential that grows, steps
\* and jumps of any size: a replica rests strictly between its triggers after
\* each step, and its counters are of one set of firings (the share of jumps is
\* a share, what is capped landed beyond the range, the cost is a price of each
\* firing between nothing and the cap); Part B's surcharge is no less than its
\* overshoots, its parts are disjoint, and it moves as the zoo's column does.
THEOREM RecentringsArePriced == RecSpec => RecentringsPriced
<1>1. RecInit => RecInv
  BY ZooBegins, SurBegins DEF RecInit, RecInv
<1>2. ASSUME RecInv, [RecNext]_recVars
      PROVE  /\ RecInv'
             /\ \/ UNCHANGED <<walkVars, surVars>>
                \/ script # "surch"
                \/ \E move \in Steps, jump \in SurJumps : Sur!Zoo!Move(move, jump)
  <2>1. CASE UNCHANGED recVars
    <3>1. UNCHANGED <<script, step, s, minS, centre, cost, nFire, jCost, nJumpFire, nCap,
                      premSum, ojSum, nJ, nBeyond, costBeyond>>
      BY <2>1 DEF recVars, walkVars, zooVars, surVars
    <3>2. (ZooInv' <=> ZooInv) /\ (SurInv' <=> SurInv)
      BY <3>1 DEF ZooInv, Zoo!TypeOK, Zoo!RestsInBand, Zoo!SharesOfOne, Zoo!InBand,
                  SurInv, Sur!SurchargeBound, Sur!CostSplits
    <3> QED
      BY <1>2, <3>1, <3>2 DEF RecInv, walkVars, surVars
  <2>2. CASE script' = script /\ script = "zoo" /\ Zoo!Next
    <3>1. ZooInv'
      BY <1>2, <2>2, ZooCounts DEF RecInv, Zoo!Next
    <3> QED
      BY <2>2, <3>1 DEF RecInv
  <2>3. CASE script' = script /\ script = "surch" /\ Sur!Next
    <3>1. PICK move \in Steps, jump \in SurJumps : Sur!Step(move, jump)
      BY <2>3 DEF Sur!Next
    <3>2. SurInv
      BY <1>2, <2>3 DEF RecInv
    <3>3. SurInv' /\ Sur!Zoo!Move(move, jump)
      BY <3>1, <3>2, SurCounts, SurMovesAsZoo
    <3> QED
      BY <2>3, <3>3 DEF RecInv
  <2> QED
    BY <1>2, <2>1, <2>2, <2>3 DEF RecNext
<1>3. RecInv => /\ script = "zoo" => Zoo!RestsInBand /\ Zoo!SharesOfOne
                /\ script = "surch" => Sur!SurchargeBound /\ Sur!CostSplits
  BY DEF RecInv, ZooInv, SurInv
<1>4. RecInv /\ [RecNext]_recVars
        => [script = "surch" =>
              \E move \in Steps, jump \in SurJumps : Sur!Zoo!Move(move, jump)]_<<walkVars, surVars>>
  BY <1>2
<1>5. RecInv /\ [RecNext]_recVars => RecInv'
  BY <1>2
<1> QED
  BY <1>1, <1>3, <1>4, <1>5, PTL DEF RecSpec, RecentringsPriced
-----------------------------------------------------------------------------
(***************************************************************************)
(* The inversion.  A block of the scan looks at no later block, so the     *)
(* states over a prefix of the path are the first states over the path;    *)
(* and an event is written in the block it fires in, so the events that    *)
(* fire within an era are the ones the state has at its end.               *)
(***************************************************************************)
SpePoint == [x : Int, j : Nat]
SpeOp    == [w : Nat, period : Nat \ {0}, dwell : Nat, pen : Nat]
SpeEvent == [delay : Int, over : Int, fire : Nat, cross : Nat, jump : BOOLEAN]
SpeState == [b : Int, crossed : Int, consec : Nat, events : Seq(SpeEvent)]

LEMMA StepIs ==
  ASSUME NEW p \in Seq(SpePoint), NEW o \in SpeOp, NEW i \in 0..(Len(p) - 1),
         NEW st \in SpeState, st.crossed = -1 \/ st.crossed \in 0..(i - 1)
  PROVE  LET r == Spe!Step(p, o, st, i)
         IN  /\ r \in SpeState
             /\ r.crossed = -1 \/ r.crossed \in 0..i
             /\ \/ r.events = st.events
                \/ \E e \in SpeEvent : /\ e.fire = i /\ e.cross \in 0..i
                                       /\ r.events = Append(st.events, e)
<1> DEFINE y == p[i + 1].x
           c == IF y < st.b THEN -1 ELSE IF st.crossed = -1 THEN i ELSE st.crossed
           n == IF y < st.b THEN 0 ELSE IF st.crossed = -1 THEN 1 ELSE st.consec + 1
           jl == p[c + 1].j > 0 /\ p[c + 1].x - p[c + 1].j < st.b
           e == [delay |-> i - c + 1, over |-> y - st.b, fire |-> i, cross |-> c, jump |-> jl]
           fires == /\ c # -1 /\ i % o.period = 0 /\ y >= st.b + o.pen
                    /\ n >= Spe!Larger(o.dwell, 1)
<1>1. PICK r : r = Spe!Step(p, o, st, i)
  OBVIOUS
<1>2. r = IF fires THEN [b |-> y + o.w, crossed |-> -1, consec |-> 0,
                         events |-> Append(st.events, e)]
          ELSE [st EXCEPT !.crossed = c, !.consec = n]
  BY <1>1 DEF Spe!Step, Spe!None
<1>3. i \in Nat /\ y \in Int /\ o.w \in Int
  <2>1. Len(p) \in Nat /\ i + 1 \in 1..Len(p) /\ i \in Nat
    OBVIOUS
  <2>2. p[i + 1] \in SpePoint
    BY <2>1
  <2> QED
    BY <2>1, <2>2 DEF SpePoint, SpeOp
<1>4. st.b \in Int /\ st.crossed \in Int /\ st.consec \in Nat /\ st.events \in Seq(SpeEvent)
  BY DEF SpeState
<1>5. /\ c = -1 \/ c \in 0..i
      /\ c \in Int /\ n \in Nat
  BY <1>3, <1>4
<1> HIDE DEF y, c, n, jl
<1>6. CASE fires
  <2>1. c \in 0..i
    BY <1>5, <1>6
  <2>2. jl \in BOOLEAN
    BY DEF jl
  <2>3. e \in SpeEvent /\ e.fire = i /\ e.cross = c
    BY <1>3, <1>4, <1>5, <2>1, <2>2 DEF SpeEvent
  <2> HIDE DEF e
  <2>4. r = [b |-> y + o.w, crossed |-> -1, consec |-> 0, events |-> Append(st.events, e)]
    BY <1>2, <1>6
  <2>5. Append(st.events, e) \in Seq(SpeEvent)
    <3> DEFINE K == SpeEvent
    <3>1. st.events \in Seq(K) /\ e \in K
      BY <1>4, <2>3
    <3> HIDE DEF K
    <3>2. Append(st.events, e) \in Seq(K)
      BY <3>1
    <3> QED
      BY <3>2 DEF K
  <2>6. r \in SpeState
    BY <1>3, <2>4, <2>5 DEF SpeState
  <2> QED
    BY <1>1, <2>1, <2>3, <2>4, <2>6
<1>7. CASE ~fires
  <2>1. r = [st EXCEPT !.crossed = c, !.consec = n]
    BY <1>2, <1>7
  <2>2. r \in SpeState /\ r.crossed = c /\ r.events = st.events
    BY <1>5, <2>1 DEF SpeState
  <2> QED
    BY <1>1, <1>5, <2>2
<1> QED
  BY <1>6, <1>7

LEMMA StepLooksBack ==
  ASSUME NEW p, NEW q, NEW o, NEW i \in Nat, NEW st,
         st.crossed = -1 \/ st.crossed \in 0..(i - 1), \A k \in 1..(i + 1) : q[k] = p[k]
  PROVE  Spe!Step(q, o, st, i) = Spe!Step(p, o, st, i)
<1> DEFINE c(f) == IF f[i + 1].x < st.b THEN -1
                   ELSE IF st.crossed = -1 THEN i ELSE st.crossed
<1>1. q[i + 1] = p[i + 1]
  <2>1. i + 1 \in 1..(i + 1)
    OBVIOUS
  <2> QED
    BY <2>1
<1>2. c(q) = c(p)
  BY <1>1
<1>3. c(p) # -1 => q[c(p) + 1] = p[c(p) + 1]
  <2>1. c(p) # -1 => c(p) + 1 \in 1..(i + 1)
    OBVIOUS
  <2> HIDE DEF c
  <2> QED
    BY <2>1
<1> QED
  BY <1>1, <1>2, <1>3 DEF Spe!Step, Spe!None

Folding(P, p, o, n) ==
  P = [m \in 0..n |-> IF m = 0 THEN Spe!Start(o) ELSE Spe!Step(p, o, P[m - 1], m - 1)]

LEMMA FoldingExists ==
  ASSUME NEW p, NEW o, NEW N \in Nat
  PROVE  \E P : Folding(P, p, o, N)
<1> DEFINE T == {n \in Nat : \E P : Folding(P, p, o, n)}
<1>1. 0 \in T
  <2> DEFINE P == [m \in 0..0 |-> Spe!Start(o)]
  <2>1. \A m \in 0..0 : m = 0
    OBVIOUS
  <2>2. P = [m \in 0..0 |-> IF m = 0 THEN Spe!Start(o) ELSE Spe!Step(p, o, P[m - 1], m - 1)]
    BY <2>1
  <2> QED
    BY <2>2 DEF Folding
<1>2. ASSUME NEW n \in Nat, n \in T PROVE n + 1 \in T
  <2>1. PICK P : P = [m \in 0..n |-> IF m = 0 THEN Spe!Start(o)
                                     ELSE Spe!Step(p, o, P[m - 1], m - 1)]
    BY <1>2 DEF Folding
  <2> DEFINE F == [m \in 0..(n + 1) |-> IF m = n + 1 THEN Spe!Step(p, o, P[n], n) ELSE P[m]]
             G == [m \in 0..(n + 1) |-> IF m = 0 THEN Spe!Start(o)
                                        ELSE Spe!Step(p, o, F[m - 1], m - 1)]
  <2>2. \A m \in 0..n : m \in 0..(n + 1) /\ F[m] = P[m]
    OBVIOUS
  <2>3. \A m \in 0..n : m # 0 => m - 1 \in 0..n
    OBVIOUS
  <2>4. \A m \in 0..(n + 1) : F[m] = G[m]
    <3> TAKE m \in 0..(n + 1)
    <3>1. CASE m \in 0..n
      <4>1. P[m] = IF m = 0 THEN Spe!Start(o) ELSE Spe!Step(p, o, P[m - 1], m - 1)
        BY <2>1, <3>1
      <4> QED
        BY <2>2, <2>3, <3>1, <4>1
    <3>2. CASE m = n + 1
      <4>1. n \in 0..n /\ m # 0 /\ m - 1 = n /\ F[n] = P[n]
        BY <2>2, <3>2
      <4> QED
        BY <3>2, <4>1
    <3> QED
      BY <3>1, <3>2
  <2>5. F = G
    BY <2>4
  <2>6. Folding(F, p, o, n + 1)
    BY <2>5 DEF Folding
  <2>7. n + 1 \in Nat
    OBVIOUS
  <2> HIDE DEF F, G
  <2> QED
    BY <2>6, <2>7
<1> HIDE DEF T
<1>3. Nat \subseteq T
  BY <1>1, <1>2, NatInd
<1> QED
  BY <1>3 DEF T

\* The states of the scan, and what they hold.
LEMMA StatesAre ==
  ASSUME NEW p \in Seq(SpePoint), NEW o \in SpeOp
  PROVE  LET P == Spe!States(p, o)
         IN  /\ P[0] = Spe!Start(o)
             /\ \A n \in 1..Len(p) : P[n] = Spe!Step(p, o, P[n - 1], n - 1)
             /\ \A n \in 0..Len(p) : /\ P[n] \in SpeState
                                     /\ P[n].crossed = -1 \/ P[n].crossed \in 0..(n - 1)
                                     /\ \A k \in DOMAIN P[n].events :
                                          /\ P[n].events[k].fire < n
                                          /\ P[n].events[k].cross < n
<1> DEFINE N == Len(p)
           P == Spe!States(p, o)
           T == {n \in 0..N : /\ P[n] \in SpeState
                              /\ P[n].crossed = -1 \/ P[n].crossed \in 0..(n - 1)
                              /\ \A k \in DOMAIN P[n].events : /\ P[n].events[k].fire < n
                                                               /\ P[n].events[k].cross < n}
<1>1. N \in Nat
  OBVIOUS
<1>2. Folding(P, p, o, N)
  <2>1. \E F : Folding(F, p, o, N)
    BY <1>1, FoldingExists
  <2>2. P = CHOOSE F : Folding(F, p, o, N)
    BY DEF Spe!States, Folding
  <2> HIDE DEF P
  <2> QED
    BY <2>1, <2>2
<1> HIDE DEF P
<1>3. P[0] = Spe!Start(o) /\ \A n \in 1..N : P[n] = Spe!Step(p, o, P[n - 1], n - 1)
  <2>1. P = [m \in 0..N |-> IF m = 0 THEN Spe!Start(o) ELSE Spe!Step(p, o, P[m - 1], m - 1)]
    BY <1>2 DEF Folding
  <2>2. 0 \in 0..N /\ \A n \in 1..N : n \in 0..N /\ n # 0
    BY <1>1
  <2> HIDE DEF N
  <2> QED
    BY <2>1, <2>2
<1>4. 0 \in T
  <2>1. P[0] = [b |-> o.w, crossed |-> -1, consec |-> 0, events |-> <<>>]
    BY <1>3 DEF Spe!Start, Spe!None
  <2>2. o.w \in Int /\ <<>> \in Seq(SpeEvent)
    BY DEF SpeOp
  <2>3. P[0] \in SpeState /\ P[0].crossed = -1 /\ P[0].events = <<>>
    BY <2>1, <2>2 DEF SpeState
  <2> QED
    BY <1>1, <2>3
<1>5. \A n \in 0..(N - 1) : n \in T => n + 1 \in T
  <2> SUFFICES ASSUME NEW n \in 0..(N - 1), n \in T PROVE n + 1 \in T
    OBVIOUS
  <2>1. n + 1 \in 1..N /\ n + 1 \in 0..N /\ (n + 1) - 1 = n /\ n \in Nat
    BY <1>1
  <2>2. PICK st : st = P[n]
    OBVIOUS
  <2>3. PICK r : r = Spe!Step(p, o, st, n)
    OBVIOUS
  <2>4. P[n + 1] = r
    BY <1>3, <2>1, <2>2, <2>3
  <2>5. /\ st \in SpeState
        /\ st.crossed = -1 \/ st.crossed \in 0..(n - 1)
        /\ \A k \in DOMAIN st.events : st.events[k].fire < n /\ st.events[k].cross < n
    BY <2>2
  <2>6. /\ r \in SpeState
        /\ r.crossed = -1 \/ r.crossed \in 0..n
        /\ \/ r.events = st.events
           \/ \E e \in SpeEvent : e.fire = n /\ e.cross \in 0..n /\ r.events = Append(st.events, e)
    BY <2>3, <2>5, StepIs
  <2>7. \A k \in DOMAIN r.events : r.events[k].fire < n + 1 /\ r.events[k].cross < n + 1
    <3>1. st.events \in Seq(SpeEvent)
      BY <2>5 DEF SpeState
    <3>2. \A k \in DOMAIN st.events : st.events[k].fire \in Nat /\ st.events[k].cross \in Nat
      <4>1. \A k \in DOMAIN st.events : st.events[k] \in SpeEvent
        BY <3>1
      <4> QED
        BY <4>1 DEF SpeEvent
    <3>3. CASE r.events = st.events
      BY <2>1, <2>5, <3>2, <3>3
    <3>4. ASSUME NEW e \in SpeEvent, e.fire = n, e.cross \in 0..n, r.events = Append(st.events, e)
          PROVE  \A k \in DOMAIN r.events : r.events[k].fire < n + 1 /\ r.events[k].cross < n + 1
      <4>1. /\ Len(st.events) \in Nat /\ DOMAIN st.events = 1..Len(st.events)
            /\ DOMAIN r.events = 1..(Len(st.events) + 1) /\ r.events[Len(st.events) + 1] = e
            /\ \A k \in 1..Len(st.events) : r.events[k] = st.events[k]
        BY <3>1, <3>4
      <4>2. \A k \in 1..(Len(st.events) + 1) : k \in 1..Len(st.events) \/ k = Len(st.events) + 1
        BY <4>1
      <4>3. e.fire < n + 1 /\ e.cross < n + 1
        BY <2>1, <3>4
      <4>4. ASSUME NEW k \in 1..Len(st.events)
            PROVE  r.events[k].fire < n + 1 /\ r.events[k].cross < n + 1
        <5>1. PICK u, v : u = st.events[k].fire /\ v = st.events[k].cross
          OBVIOUS
        <5>2. u \in Nat /\ v \in Nat /\ u < n /\ v < n
          BY <2>5, <3>2, <4>1, <5>1
        <5>3. u < n + 1 /\ v < n + 1
          BY <2>1, <5>2
        <5>4. r.events[k] = st.events[k]
          BY <4>1
        <5> QED
          BY <5>1, <5>3, <5>4
      <4> QED
        BY <4>1, <4>2, <4>3, <4>4
    <3> QED
      BY <2>6, <3>3, <3>4
  <2> QED
    BY <2>1, <2>4, <2>6, <2>7
<1> HIDE DEF T, N
<1>6. \A n \in 0..N : n \in T
  BY <1>1, <1>4, <1>5, UpTo
<1> QED
  BY <1>3, <1>6 DEF T, N, P
\* The events are appended to, and an event appended fires in that block.
LEMMA EventsGrow ==
  ASSUME NEW p \in Seq(SpePoint), NEW o \in SpeOp, NEW m \in 0..Len(p)
  PROVE  LET P == Spe!States(p, o)
             L == Len(P[m].events)
         IN  \A n \in m..Len(p) :
               /\ L <= Len(P[n].events)
               /\ \A k \in 1..L : P[n].events[k] = P[m].events[k]
               /\ \A k \in (L + 1)..Len(P[n].events) : P[n].events[k].fire >= m
<1> DEFINE N == Len(p)
           Ev(n) == Spe!States(p, o)[n].events
           L == Len(Ev(m))
           Grown(f) == /\ L <= Len(f)
                       /\ \A k \in 1..L : f[k] = Ev(m)[k]
                       /\ \A k \in (L + 1)..Len(f) : f[k].fire >= m
           T == {d \in 0..(N - m) : Grown(Ev(m + d))}
<1>1. N \in Nat /\ m \in Nat /\ m <= N /\ N - m \in Nat
  OBVIOUS
<1>2. \A n \in 0..N : Ev(n) \in Seq(SpeEvent)
  BY StatesAre DEF SpeState
<1>3. \A n \in 0..(N - 1) :
        \/ Ev(n + 1) = Ev(n)
        \/ \E e \in SpeEvent : e.fire = n /\ Ev(n + 1) = Append(Ev(n), e)
  <2> TAKE n \in 0..(N - 1)
  <2>1. n + 1 \in 1..N /\ n \in 0..N /\ (n + 1) - 1 = n
    BY <1>1
  <2>2. PICK st : st = Spe!States(p, o)[n]
    OBVIOUS
  <2>3. st \in SpeState /\ (st.crossed = -1 \/ st.crossed \in 0..(n - 1))
    BY <2>1, <2>2, StatesAre
  <2>4. Spe!States(p, o)[n + 1] = Spe!Step(p, o, st, n)
    BY <2>1, <2>2, StatesAre
  <2>5. \/ Spe!Step(p, o, st, n).events = st.events
        \/ \E e \in SpeEvent : e.fire = n /\ Spe!Step(p, o, st, n).events = Append(st.events, e)
    BY <2>3, StepIs
  <2> QED
    BY <2>2, <2>4, <2>5
<1> HIDE DEF Ev
<1>4. 0 \in T
  <2>1. Len(Ev(m)) \in Nat /\ m + 0 = m /\ 0 \in 0..(N - m)
    BY <1>1, <1>2
  <2> QED
    BY <2>1
<1>5. \A d \in 0..((N - m) - 1) : d \in T => d + 1 \in T
  <2> SUFFICES ASSUME NEW d \in 0..((N - m) - 1), d \in T PROVE d + 1 \in T
    OBVIOUS
  <2> DEFINE n == m + d
  <2>1. /\ d + 1 \in 0..(N - m) /\ n \in 0..(N - 1) /\ n \in 0..N /\ m + (d + 1) = n + 1
        /\ n \in Nat /\ n >= m
    <3>1. d \in Nat /\ d <= (N - m) - 1
      BY <1>1
    <3> HIDE DEF N, T
    <3> QED
      BY <1>1, <3>1
  <2>2. Grown(Ev(n))
    OBVIOUS
  <2> HIDE DEF n
  <2>3. Ev(n) \in Seq(SpeEvent) /\ L \in Nat
    BY <1>1, <1>2, <2>1
  <2>4. CASE Ev(n + 1) = Ev(n)
    BY <2>1, <2>2, <2>4
  <2>5. ASSUME NEW e \in SpeEvent, e.fire = n, Ev(n + 1) = Append(Ev(n), e)
        PROVE  Grown(Ev(n + 1))
    <3>1. PICK f : f = Ev(n)
      OBVIOUS
    <3>2. PICK h : h = Ev(n + 1)
      OBVIOUS
    <3>3. /\ Len(f) \in Nat /\ Len(h) = Len(f) + 1 /\ h[Len(f) + 1] = e
          /\ \A k \in 1..Len(f) : h[k] = f[k]
      <4> DEFINE K == SpeEvent
      <4>1. f \in Seq(K) /\ e \in K /\ h = Append(f, e)
        BY <2>3, <2>5, <3>1, <3>2
      <4> HIDE DEF K
      <4> QED
        BY <4>1
    <3>4. Grown(f)
      BY <2>2, <3>1
    <3>5. L <= Len(h) /\ \A k \in 1..L : h[k] = Ev(m)[k]
      <4>1. L <= Len(f) /\ L \in Nat
        BY <2>3, <3>4
      <4>2. \A k \in 1..L : k \in 1..Len(f)
        BY <3>3, <4>1
      <4> HIDE DEF L
      <4>3. L <= Len(h)
        BY <3>3, <4>1
      <4> QED
        BY <3>3, <3>4, <4>2, <4>3 DEF L
    <3>6. \A k \in (L + 1)..Len(h) : h[k].fire >= m
      <4> TAKE k \in (L + 1)..Len(h)
      <4> HIDE DEF L
      <4>1. (k \in (L + 1)..Len(f) /\ k \in 1..Len(f)) \/ k = Len(f) + 1
        BY <2>3, <3>3
      <4> USE DEF L
      <4>2. CASE k \in (L + 1)..Len(f) /\ k \in 1..Len(f)
        BY <3>3, <3>4, <4>2
      <4>3. CASE k = Len(f) + 1
        BY <2>1, <2>5, <3>3, <4>3
      <4> QED
        BY <4>1, <4>2, <4>3
    <3> QED
      BY <3>2, <3>5, <3>6
  <2>6. Grown(Ev(n + 1))
    BY <1>3, <2>1, <2>2, <2>4, <2>5
  <2> QED
    BY <2>1, <2>6
<1> HIDE DEF T
<1>6. \A d \in 0..(N - m) : d \in T
  BY <1>1, <1>4, <1>5, UpTo
<1>7. \A n \in m..N : Grown(Ev(n))
  <2> TAKE n \in m..N
  <2>1. n - m \in 0..(N - m) /\ m + (n - m) = n
    BY <1>1
  <2> QED
    BY <1>6, <2>1 DEF T
<1> QED
  BY <1>7 DEF Ev

LEMMA SpeSums ==
  /\ \A h : Spe!CumSum(h) = CumSum(h) /\ Spe!Summed(h) = Summed(h)
  /\ \A h, keep : Spe!Compressed(h, keep) = Compressed(h, keep)
  /\ \A T : Spe!Cardinality(T) = Cardinality(T)
<1>1. \A h : Spe!CumSum(h) = CumSum(h)
  BY DEF Spe!CumSum, CumSum
<1>2. \A h : Spe!Summed(h) = Summed(h)
  BY <1>1 DEF Spe!Summed, Summed
<1>3. \A h, keep : Spe!Compressed(h, keep) = Compressed(h, keep)
  BY DEF Spe!Compressed, Compressed, Spe!Cardinality, Cardinality, Spe!IsFiniteSet, IsFiniteSet
<1>4. \A T : Spe!Cardinality(T) = Cardinality(T)
  BY DEF Spe!Cardinality, Cardinality, Spe!IsFiniteSet, IsFiniteSet
<1> QED
  BY <1>1, <1>2, <1>3, <1>4

\* A mask that keeps the first ones.
LEMMA FirstAreKept ==
  ASSUME NEW h, NEW L \in Nat
  PROVE  Compressed(h, 1..L) = [n \in 1..L |-> h[n]]
<1> DEFINE At(n) == CHOOSE i \in 1..L : Cardinality({k \in 1..L : k < i}) = n - 1
<1>1. Cardinality(1..L) = L
  <2>1. 1 \in Int /\ L \in Int /\ (1 > L => L = 0) /\ L - 1 + 1 = L
    OBVIOUS
  <2> QED
    BY <2>1, FS_Interval
<1>2. \A i \in 1..L : Cardinality({k \in 1..L : k < i}) = i - 1
  <2> TAKE i \in 1..L
  <2>1. {k \in 1..L : k < i} = 1..(i - 1)
    OBVIOUS
  <2>2. 1 \in Int /\ i - 1 \in Int /\ (1 > i - 1 => i - 1 = 0) /\ (i - 1) - 1 + 1 = i - 1
    OBVIOUS
  <2>3. Cardinality(1..(i - 1)) = i - 1
    BY <2>2, FS_Interval
  <2> QED
    BY <2>1, <2>3
<1>3. \A n \in 1..L : At(n) = n
  <2> TAKE n \in 1..L
  <2>1. \A i \in 1..L : Cardinality({k \in 1..L : k < i}) = n - 1 <=> i = n
    BY <1>2
  <2> QED
    BY <2>1
<1>4. Compressed(h, 1..L) = [n \in 1..Cardinality(1..L) |-> h[At(n)]]
  BY DEF Compressed
<1> HIDE DEF At
<1> QED
  BY <1>1, <1>3, <1>4

\* "Event-prefix truncation": the events cut to an era are those of the scan's
\* state at its end.
LEMMA PrefixIs ==
  ASSUME NEW p \in Seq(SpePoint), NEW o \in SpeOp, NEW m \in 0..Len(p)
  PROVE  Spe!Prefix(Spe!Scan(p, o), m) = Spe!States(p, o)[m].events
<1> DEFINE P == Spe!States(p, o)
<1>1. PICK f : f = P[m].events
  OBVIOUS
<1>2. PICK h : h = P[Len(p)].events
  OBVIOUS
<1>3. Len(p) \in Nat /\ m \in Nat /\ Len(p) \in m..Len(p) /\ Len(p) \in 0..Len(p)
  OBVIOUS
<1>4. /\ f \in Seq(SpeEvent) /\ h \in Seq(SpeEvent)
      /\ \A k \in DOMAIN f : f[k].fire < m
  BY <1>1, <1>2, <1>3, StatesAre DEF SpeState
<1>5. /\ Len(f) <= Len(h)
      /\ \A k \in 1..Len(f) : h[k] = f[k]
      /\ \A k \in (Len(f) + 1)..Len(h) : h[k].fire >= m
  BY <1>1, <1>2, <1>3, EventsGrow
<1>6. /\ Len(f) \in Nat /\ DOMAIN f = 1..Len(f) /\ Len(h) \in Nat /\ DOMAIN h = 1..Len(h)
      /\ \A k \in DOMAIN h : h[k] \in SpeEvent
  BY <1>4
<1>7. \A k \in DOMAIN h : h[k].fire \in Nat
  BY <1>6 DEF SpeEvent
<1>8. {k \in DOMAIN h : h[k].fire < m} = 1..Len(f)
  <2>1. \A k \in 1..Len(h) : k \in 1..Len(f) \/ k \in (Len(f) + 1)..Len(h)
    BY <1>6
  <2>2. \A k \in 1..Len(f) : k \in 1..Len(h)
    BY <1>5, <1>6
  <2>3. \A k \in 1..Len(f) : h[k].fire < m
    BY <1>4, <1>5, <1>6
  <2>4. \A k \in (Len(f) + 1)..Len(h) : k \in 1..Len(h) => ~(h[k].fire < m)
    BY <1>3, <1>5, <1>6, <1>7
  <2> QED
    BY <1>6, <2>1, <2>2, <2>3, <2>4
<1>9. Spe!Prefix(h, m) = Compressed(h, 1..Len(f))
  BY <1>8, SpeSums DEF Spe!Prefix
<1>10. Compressed(h, 1..Len(f)) = [n \in 1..Len(f) |-> h[n]]
  BY <1>6, FirstAreKept
<1>11. [n \in 1..Len(f) |-> h[n]] = f
  <2>1. f = [n \in 1..Len(f) |-> f[n]]
    BY <1>4
  <2>2. [n \in 1..Len(f) |-> h[n]] = [n \in 1..Len(f) |-> f[n]]
    BY <1>5
  <2> QED
    BY <2>1, <2>2
<1> QED
  BY <1>1, <1>2, <1>9, <1>10, <1>11 DEF Spe!Scan

\* The states over a prefix are the first states over the path.
LEMMA PrefixStates ==
  ASSUME NEW p \in Seq(SpePoint), NEW o \in SpeOp, NEW m \in 0..Len(p)
  PROVE  Spe!Scan(SubSeq(p, 1, m), o) = Spe!States(p, o)[m].events
<1> DEFINE T == {n \in 0..m : Spe!States(SubSeq(p, 1, m), o)[n] = Spe!States(p, o)[n]}
<1>1. PICK q : q = SubSeq(p, 1, m)
  OBVIOUS
<1>2. /\ q \in Seq(SpePoint) /\ Len(q) = m /\ \A k \in 1..m : q[k] = p[k]
      /\ m \in Nat /\ Len(p) \in Nat /\ m <= Len(p)
  BY <1>1
<1>3. PICK P : P = Spe!States(p, o)
  OBVIOUS
<1>4. PICK Q : Q = Spe!States(q, o)
  OBVIOUS
<1>5. /\ Q[0] = Spe!Start(o) /\ \A n \in 1..m : Q[n] = Spe!Step(q, o, Q[n - 1], n - 1)
  BY <1>2, <1>4, StatesAre
<1>6. /\ P[0] = Spe!Start(o) /\ \A n \in 1..Len(p) : P[n] = Spe!Step(p, o, P[n - 1], n - 1)
      /\ \A n \in 0..Len(p) : P[n].crossed = -1 \/ P[n].crossed \in 0..(n - 1)
  BY <1>3, StatesAre
<1>7. 0 \in T
  BY <1>1, <1>2, <1>3, <1>4, <1>5, <1>6
<1>8. \A n \in 0..(m - 1) : n \in T => n + 1 \in T
  <2> SUFFICES ASSUME NEW n \in 0..(m - 1), Q[n] = P[n] PROVE n + 1 \in T
    BY <1>1, <1>3, <1>4
  <2>1. /\ n + 1 \in 0..m /\ n + 1 \in 1..m /\ n + 1 \in 1..Len(p) /\ n \in 0..Len(p)
        /\ (n + 1) - 1 = n /\ n \in Nat
    BY <1>2
  <2>2. P[n + 1] = Spe!Step(p, o, P[n], n) /\ Q[n + 1] = Spe!Step(q, o, P[n], n)
    BY <1>5, <1>6, <2>1
  <2>3. \A k \in 1..(n + 1) : q[k] = p[k]
    BY <1>2, <2>1
  <2>4. Spe!Step(q, o, P[n], n) = Spe!Step(p, o, P[n], n)
    BY <1>6, <2>1, <2>3, StepLooksBack
  <2> QED
    BY <1>1, <1>3, <1>4, <2>1, <2>2, <2>4
<1> HIDE DEF T
<1>9. m \in T
  <2>1. \A n \in 0..m : n \in T
    BY <1>2, <1>7, <1>8, UpTo
  <2> QED
    BY <1>2, <2>1
<1> QED
  BY <1>1, <1>2, <1>9 DEF T, Spe!Scan-----------------------------------------------------------------------------
(* The scale an event is read against ends where its crossing begins.        *)
LEMMA SizesAre ==
  ASSUME NEW p \in Seq(SpePoint)
  PROVE  \A n \in 0..Len(p) : Spe!Size(p, n) \in Nat
<1> TAKE n \in 0..Len(p)
<1>1. CASE n = 0
  BY <1>1 DEF Spe!Size
<1>2. CASE n # 0
  <2>1. n \in 1..Len(p) /\ (n - 1 # 0 => n - 1 \in 1..Len(p)) /\ Len(p) \in Nat
    BY <1>2
  <2>2. \A k \in 1..Len(p) : p[k].x \in Int
    <3>1. \A k \in 1..Len(p) : p[k] \in SpePoint
      OBVIOUS
    <3> QED
      BY <3>1 DEF SpePoint
  <2>3. Spe!X(p, n) \in Int /\ Spe!X(p, n - 1) \in Int
    BY <2>1, <2>2 DEF Spe!X
  <2> QED
    BY <1>2, <2>3 DEF Spe!Size
<1> QED
  BY <1>1, <1>2

LEMMA ScaleLooksBack ==
  ASSUME NEW p \in Seq(SpePoint), NEW q \in Seq(SpePoint), Len(q) = Len(p),
         NEW cr \in 0..Len(p), \A n \in 1..cr : q[n] = p[n]
  PROVE  Spe!Sigma2(q, cr) = Spe!Sigma2(p, cr)
<1> DEFINE Terms(r) == [n \in 1..Len(r) |-> Spe!Size(r, n) * Spe!Size(r, n - 1)]
           T == {n \in 0..cr : CumSum(Terms(q))[n] = CumSum(Terms(p))[n]}
<1>1. cr \in Nat /\ Len(p) \in Nat /\ cr <= Len(p)
  OBVIOUS
<1>2. ASSUME NEW r \in Seq(SpePoint)
      PROVE  /\ Terms(r) \in Seq(Int) /\ Len(Terms(r)) = Len(r)
             /\ CumSum(Terms(r))[0] = 0
             /\ \A n \in 1..Len(r) : CumSum(Terms(r))[n] = CumSum(Terms(r))[n - 1] + Terms(r)[n]
  <2>1. \A n \in 1..Len(r) : Spe!Size(r, n) \in Int /\ Spe!Size(r, n - 1) \in Int
    <3>1. \A n \in 1..Len(r) : n \in 0..Len(r) /\ n - 1 \in 0..Len(r)
      OBVIOUS
    <3>2. \A n \in 0..Len(r) : Spe!Size(r, n) \in Nat
      BY SizesAre
    <3> QED
      BY <3>1, <3>2
  <2>2. \A u, v \in Int : u * v \in Int
    OBVIOUS
  <2>3. \A n \in 1..Len(r) : Spe!Size(r, n) * Spe!Size(r, n - 1) \in Int
    BY <2>1, <2>2
  <2>4. Len(r) \in Nat
    OBVIOUS
  <2>5. Terms(r) \in Seq(Int) /\ Len(Terms(r)) = Len(r)
    BY <2>3, <2>4
  <2> HIDE DEF Terms
  <2> QED
    BY <2>5, CumSumIs
<1>3. \A n \in 1..cr : Terms(q)[n] = Terms(p)[n]
  <2> TAKE n \in 1..cr
  <2>1. n \in 1..Len(p) /\ n \in 1..Len(q) /\ (n # 0 /\ n - 1 # 0 => n - 1 \in 1..cr)
        /\ (n - 1) - 1 <= cr /\ (n - 1 # 0 /\ (n - 1) - 1 # 0 => (n - 1) - 1 \in 1..cr)
    BY <1>1
  <2>2. Spe!Size(q, n) = Spe!Size(p, n)
    BY <2>1 DEF Spe!Size, Spe!X
  <2>3. Spe!Size(q, n - 1) = Spe!Size(p, n - 1)
    BY <2>1 DEF Spe!Size, Spe!X
  <2> QED
    BY <2>1, <2>2, <2>3
<1>4. /\ \A n \in 1..Len(p) : CumSum(Terms(p))[n] = CumSum(Terms(p))[n - 1] + Terms(p)[n]
      /\ \A n \in 1..Len(p) : CumSum(Terms(q))[n] = CumSum(Terms(q))[n - 1] + Terms(q)[n]
      /\ CumSum(Terms(p))[0] = CumSum(Terms(q))[0]
  BY <1>2
<1>5. PICK G, F, u, v : /\ G = CumSum(Terms(p)) /\ F = CumSum(Terms(q))
                        /\ u = Terms(p) /\ v = Terms(q)
  OBVIOUS
<1>6. Spe!CP(p) = G /\ Spe!CP(q) = F
  BY <1>5, SpeSums DEF Spe!CP
<1>7. 0 \in T
  BY <1>1, <1>4
<1>8. \A n \in 0..(cr - 1) : n \in T => n + 1 \in T
  <2> SUFFICES ASSUME NEW n \in 0..(cr - 1), F[n] = G[n] PROVE n + 1 \in T
    BY <1>5
  <2>1. n + 1 \in 0..cr /\ n + 1 \in 1..cr /\ n + 1 \in 1..Len(p) /\ (n + 1) - 1 = n
    BY <1>1
  <2>2. G[n + 1] = G[n] + u[n + 1] /\ F[n + 1] = F[n] + v[n + 1] /\ u[n + 1] = v[n + 1]
    BY <1>3, <1>4, <1>5, <2>1
  <2>3. F[n + 1] = G[n + 1]
    BY <2>2
  <2> QED
    BY <1>5, <2>1, <2>3
<1> HIDE DEF T, Terms
<1>9. \A n \in 0..cr : n \in T
  BY <1>1, <1>7, <1>8, UpTo
<1>10. \A n \in 0..cr : F[n] = G[n]
  BY <1>5, <1>9 DEF T
<1>11. cr >= TRAIL => cr \in 0..cr /\ cr - TRAIL \in 0..cr
  BY <1>1, InversionAssumption
<1>12. cr < TRAIL \/ cr >= TRAIL
  BY <1>1, InversionAssumption
<1> QED
  BY <1>6, <1>10, <1>11, <1>12 DEF Spe!Sigma2

\* ... whatever the blocks from the crossing on had been.
LEMMA ScaleOtherwise ==
  ASSUME NEW p \in Seq(SpePoint), NEW cr \in 0..Len(p)
  PROVE  Spe!Sigma2(Spe!Otherwise(p, cr), cr) = Spe!Sigma2(p, cr)
<1>1. PICK q : q = Spe!Otherwise(p, cr)
  OBVIOUS
<1>2. Len(p) \in Nat /\ DOMAIN p = 1..Len(p) /\ \A n \in 1..Len(p) : p[n] \in SpePoint
  OBVIOUS
<1>3. q = [n \in 1..Len(p) |-> IF n <= cr THEN p[n] ELSE [p[n] EXCEPT !.x = @ + 5]]
  BY <1>1, <1>2 DEF Spe!Otherwise
<1>4. ASSUME NEW n \in 1..Len(p) PROVE [p[n] EXCEPT !.x = @ + 5] \in SpePoint
  <2>1. PICK r : r = p[n]
    OBVIOUS
  <2>2. r \in [x : Int, j : Nat]
    BY <1>2, <2>1 DEF SpePoint
  <2>3. [r EXCEPT !.x = r.x + 5] \in [x : Int, j : Nat]
    BY <2>2
  <2> QED
    BY <2>1, <2>3 DEF SpePoint
<1>5. \A n \in 1..Len(p) : q[n] \in SpePoint
  BY <1>2, <1>3, <1>4
<1>6. q \in Seq(SpePoint) /\ Len(q) = Len(p)
  <2> DEFINE K == SpePoint
  <2>1. \A n \in 1..Len(p) : q[n] \in K
    BY <1>5
  <2> HIDE DEF K
  <2>2. q \in Seq(K) /\ Len(q) = Len(p)
    BY <1>2, <1>3, <2>1
  <2> QED
    BY <2>2 DEF K
<1>7. \A n \in 1..cr : q[n] = p[n]
  BY <1>2, <1>3
<1> QED
  BY <1>1, <1>6, <1>7, ScaleLooksBack-----------------------------------------------------------------------------
(* The components' samples.  A component is known by its first operator, so    *)
(* each event admitted is in the sample of exactly one.                        *)
LEMMA FirstsAre ==
  ASSUME NEW k \in Nat \ {0}
  PROVE  /\ \A n \in 1..k : \E i \in Spe!Firsts(k) : n \in Spe!Members(k, i)
         /\ \A i, j \in Spe!Firsts(k) :
              i # j => Spe!Members(k, i) \cap Spe!Members(k, j) = {}
         /\ Spe!Firsts(k) \subseteq 1..k /\ 1 \in Spe!Firsts(k)
<1>1. ASSUME NEW n \in 1..k
      PROVE  \E i \in Spe!Firsts(k) : n \in Spe!Members(k, i)
  <2>1. Spe!Members(k, n) \subseteq Nat /\ n \in Spe!Members(k, n)
    BY DEF Spe!Members
  <2>2. PICK i \in Spe!Members(k, n) : \A m \in Spe!Members(k, n) : i <= m
    BY <2>1, LeastNat
  <2>3. Spe!Members(k, i) = Spe!Members(k, n) /\ i \in 1..k
    BY <2>2 DEF Spe!Members
  <2>4. i \in Spe!Firsts(k)
    BY <2>2, <2>3 DEF Spe!Firsts
  <2> QED
    BY <2>1, <2>3, <2>4
<1>2. ASSUME NEW i \in Spe!Firsts(k), NEW j \in Spe!Firsts(k), i # j
      PROVE  Spe!Members(k, i) \cap Spe!Members(k, j) = {}
  <2> SUFFICES ASSUME NEW n \in Spe!Members(k, i) \cap Spe!Members(k, j) PROVE FALSE
    OBVIOUS
  <2>1. i \in 1..k /\ j \in 1..k
    BY DEF Spe!Firsts
  <2>2. Spe!Component(i) = Spe!Component(j)
    BY DEF Spe!Members
  <2>3. i \in Spe!Members(k, j) /\ j \in Spe!Members(k, i)
    BY <2>1, <2>2 DEF Spe!Members
  <2>4. i <= j /\ j <= i
    BY <2>3 DEF Spe!Firsts
  <2> QED
    BY <1>2, <2>1, <2>4
<1>3. Spe!Firsts(k) \subseteq 1..k
  BY DEF Spe!Firsts
<1>4. 1 \in Spe!Firsts(k)
  <2>1. 1 \in 1..k /\ \A n \in 1..k : 1 <= n
    OBVIOUS
  <2> QED
    BY <2>1 DEF Spe!Firsts, Spe!Members
<1> QED
  BY <1>1, <1>2, <1>3, <1>4

\* The largest component is one of them.
LEMMA LargestIs ==
  ASSUME NEW k \in Nat \ {0}
  PROVE  Spe!Largest(k) \in Spe!Firsts(k)
<1> DEFINE Size(i) == Cardinality(Spe!Members(k, i))
           R == {Size(i) : i \in Spe!Firsts(k)}
<1>1. Spe!Firsts(k) \subseteq 1..k /\ 1 \in Spe!Firsts(k) /\ k \in Nat
  BY FirstsAre
<1>2. \A i \in Spe!Firsts(k) : Size(i) \in 0..k
  <2> TAKE i \in Spe!Firsts(k)
  <2>1. 1 \in Int /\ k \in Int /\ ~(1 > k) /\ k - 1 + 1 = k
    BY <1>1
  <2>2. IsFiniteSet(1..k) /\ Cardinality(1..k) = k
    BY <2>1, FS_Interval
  <2>3. Spe!Members(k, i) \in SUBSET (1..k)
    BY DEF Spe!Members
  <2>4. IsFiniteSet(Spe!Members(k, i)) /\ Size(i) <= Cardinality(1..k)
    BY <2>2, <2>3, FS_Subset
  <2>5. Size(i) \in Nat
    BY <2>4, FS_CardinalityType
  <2> QED
    BY <1>1, <2>2, <2>4, <2>5
<1> HIDE DEF Size
<1>3. R \subseteq 0..k /\ R # {}
  BY <1>1, <1>2
<1>4. PICK m \in R : \A r \in R : m >= r
  BY <1>1, <1>3, GreatestNat
<1> DEFINE Best == {i \in Spe!Firsts(k) : Size(i) = m}
<1>5. Best \subseteq Nat /\ Best # {}
  BY <1>1, <1>4
<1>6. PICK i \in Best : \A n \in Best : i <= n
  BY <1>5, LeastNat
<1>7. \A n \in Spe!Firsts(k) : Size(i) > Size(n) \/ (Size(i) = Size(n) /\ i <= n)
  <2> TAKE n \in Spe!Firsts(k)
  <2>1. Size(n) \in R /\ Size(n) \in 0..k /\ m \in 0..k /\ Size(i) = m
    BY <1>2, <1>3, <1>4, <1>6
  <2>2. m >= Size(n)
    BY <1>4, <2>1
  <2>3. CASE Size(n) = m
    BY <1>6, <2>1, <2>3
  <2>4. CASE Size(n) # m
    BY <2>1, <2>2, <2>4
  <2> QED
    BY <2>3, <2>4
<1>8. \E l \in Spe!Firsts(k) :
        \A n \in Spe!Firsts(k) :
          \/ Spe!Cardinality(Spe!Members(k, l)) > Spe!Cardinality(Spe!Members(k, n))
          \/ /\ Spe!Cardinality(Spe!Members(k, l)) = Spe!Cardinality(Spe!Members(k, n))
             /\ l <= n
  BY <1>6, <1>7, SpeSums DEF Size
<1> QED
  BY <1>8 DEF Spe!Largest

\* What the halves of a component hold, and what all components hold.
LEMMA SampleSplits ==
  ASSUME NEW k \in Nat \ {0}, NEW A, IsFiniteSet(A), \A a \in A : a[1] \in 1..k
  PROVE  /\ \A dom : Spe!Of(A, Spe!FirstHalf(dom)) + Spe!Of(A, Spe!OtherHalf(dom))
                       = Spe!Of(A, dom)
         /\ Summed([i \in 1..k |-> IF i \in Spe!Firsts(k) THEN Spe!Of(A, Spe!Members(k, i))
                                   ELSE 0]) = Cardinality(A)
<1> DEFINE Part(group) == {a \in A : a[1] \in group}
<1>1. \A group : /\ Spe!Of(A, group) = Cardinality(Part(group))
                 /\ IsFiniteSet(Part(group)) /\ Cardinality(Part(group)) \in Nat
  <2> TAKE group
  <2>1. Part(group) \in SUBSET A
    OBVIOUS
  <2>2. Spe!Of(A, group) = Cardinality(Part(group))
    BY SpeSums DEF Spe!Of
  <2> HIDE DEF Part
  <2> QED
    BY <2>1, <2>2, FS_Subset, FS_CardinalityType
<1>2. ASSUME NEW dom
      PROVE  Spe!Of(A, Spe!FirstHalf(dom)) + Spe!Of(A, Spe!OtherHalf(dom)) = Spe!Of(A, dom)
  <2> DEFINE U == Part(Spe!FirstHalf(dom))
             V == Part(Spe!OtherHalf(dom))
  <2>1. Spe!FirstHalf(dom) \subseteq dom /\ Spe!OtherHalf(dom) = dom \ Spe!FirstHalf(dom)
    BY DEF Spe!FirstHalf, Spe!OtherHalf
  <2>2. Part(dom) = U \cup V /\ U \cap V = {}
    BY <2>1
  <2>3. /\ IsFiniteSet(U) /\ IsFiniteSet(V)
        /\ Cardinality(U) \in Nat /\ Cardinality(V) \in Nat
    BY <1>1
  <2> HIDE DEF U, V, Part
  <2>4. Cardinality(U \cup V) = Cardinality(U) + Cardinality(V) - Cardinality(U \cap V)
    BY <2>3, FS_Union
  <2>5. Cardinality(U \cap V) = 0
    BY <2>2, FS_EmptySet
  <2>6. Cardinality(U \cup V) = Cardinality(U) + Cardinality(V)
    BY <2>3, <2>4, <2>5
  <2>7. /\ Spe!Of(A, Spe!FirstHalf(dom)) = Cardinality(U)
        /\ Spe!Of(A, Spe!OtherHalf(dom)) = Cardinality(V)
        /\ Spe!Of(A, dom) = Cardinality(Part(dom))
    BY <1>1 DEF U, V
  <2>8. Cardinality(Part(dom)) = Cardinality(U \cup V)
    BY <2>2, Zenon
  <2> QED
    BY <2>6, <2>7, <2>8
<1> DEFINE G == [i \in 1..k |-> IF i \in Spe!Firsts(k) THEN Part(Spe!Members(k, i)) ELSE {}]
           g == [i \in 1..k |-> IF i \in Spe!Firsts(k) THEN Spe!Of(A, Spe!Members(k, i)) ELSE 0]
<1>3. \A i \in 1..k : G[i] \subseteq A
  OBVIOUS
<1>4. \A i, j \in 1..k : i # j => G[i] \cap G[j] = {}
  BY FirstsAre
<1>5. Cardinality({}) = 0
  BY FS_EmptySet
<1>6. \A i \in 1..k : g[i] = Cardinality(G[i]) /\ g[i] \in Int
  <2> TAKE i \in 1..k
  <2>1. CASE i \in Spe!Firsts(k)
    <3>1. G[i] = Part(Spe!Members(k, i)) /\ g[i] = Spe!Of(A, Spe!Members(k, i))
      BY <2>1
    <3> HIDE DEF G, g, Part
    <3> QED
      BY <1>1, <3>1
  <2>2. CASE i \notin Spe!Firsts(k)
    <3>1. G[i] = {} /\ g[i] = 0
      BY <2>2
    <3> HIDE DEF G, g
    <3> QED
      BY <1>5, <3>1
  <2> QED
    BY <2>1, <2>2
<1>7. PartsTo(A, G, k) = A
  <2>1. ASSUME NEW a \in A PROVE \E i \in 1..k : a \in G[i]
    <3>1. PICK i \in Spe!Firsts(k) : a[1] \in Spe!Members(k, i)
      BY FirstsAre
    <3>2. i \in 1..k /\ G[i] = Part(Spe!Members(k, i))
      BY FirstsAre
    <3> QED
      BY <3>1, <3>2
  <2> HIDE DEF G
  <2> QED
    BY <2>1 DEF PartsTo
<1>8. DOMAIN g = 1..k /\ g \in Seq(Int) /\ k \in Nat
  <2>1. DOMAIN g = 1..k /\ k \in Nat
    OBVIOUS
  <2>2. g = [i \in 1..k |-> g[i]]
    OBVIOUS
  <2>3. \A i \in 1..k : g[i] \in Int
    BY <1>6
  <2> HIDE DEF g, G
  <2>4. g \in Seq(Int)
    BY <2>1, <2>2, <2>3
  <2> QED
    BY <2>1, <2>4
<1> HIDE DEF G, g, Part
<1>9. Summed(g) = Cardinality(PartsTo(A, G, k))
  BY <1>3, <1>4, <1>6, <1>8, SumOfParts
<1>10. Summed(g) = Cardinality(A)
  BY <1>7, <1>9
<1> QED
  BY <1>2, <1>10 DEF g-----------------------------------------------------------------------------
(* The sweeps.  Each scan is that of its operator over the whole path, which   *)
(* is complete before an operator is drawn; each cell is what the scans say.   *)
SpeInv ==
  /\ spath \in Seq(SpePoint) /\ Len(spath) <= B_FULL
  /\ ops \in Seq(SpeOp) /\ Len(ops) <= N_OPS
  /\ ops # <<>> => Len(spath) = B_FULL
  /\ scans \in Seq(Seq(SpeEvent)) /\ Len(scans) = Len(ops)
  /\ \A i \in DOMAIN ops : scans[i] = Spe!Scan(spath, ops[i])
  /\ \E m \in 0..Len(Sweeps) : /\ metrics = [n \in 1..m |-> Spe!Metrics(Sweeps[n])]
                               /\ m # 0 => Len(ops) = N_OPS /\ ops # <<>>

LEMMA ScanIsEvents ==
  ASSUME NEW p \in Seq(SpePoint), NEW o \in SpeOp
  PROVE  /\ Spe!Scan(p, o) \in Seq(SpeEvent)
         /\ \A n \in DOMAIN Spe!Scan(p, o) : Spe!Scan(p, o)[n].cross \in 0..Len(p)
<1>1. Len(p) \in 0..Len(p) /\ Len(p) \in Nat
  OBVIOUS
<1>2. PICK h : h = Spe!States(p, o)[Len(p)].events
  OBVIOUS
<1>3. h \in Seq(SpeEvent) /\ \A n \in DOMAIN h : h[n].cross < Len(p)
  BY <1>1, <1>2, StatesAre DEF SpeState
<1>4. \A n \in DOMAIN h : h[n].cross \in Nat
  <2>1. \A n \in DOMAIN h : h[n] \in SpeEvent
    BY <1>3
  <2> QED
    BY <2>1 DEF SpeEvent
<1>5. \A n \in DOMAIN h : h[n].cross \in 0..Len(p)
  <2> TAKE n \in DOMAIN h
  <2>1. PICK c : c = h[n].cross
    OBVIOUS
  <2>2. c \in Nat /\ c < Len(p)
    BY <1>3, <1>4, <2>1
  <2>3. c \in 0..Len(p)
    BY <1>1, <2>2
  <2> QED
    BY <2>1, <2>3
<1> QED
  BY <1>2, <1>3, <1>5 DEF Spe!Scan

LEMMA SweepsBegin == Spe!Init => SpeInv
<1> SUFFICES ASSUME Spe!Init PROVE SpeInv
  OBVIOUS
<1>1. spath = <<>> /\ ops = <<>> /\ scans = <<>> /\ metrics = <<>>
  BY DEF Spe!Init
<1>2. spath \in Seq(SpePoint) /\ ops \in Seq(SpeOp) /\ scans \in Seq(Seq(SpeEvent))
  BY <1>1
<1>3. Len(Sweeps) \in Nat /\ B_FULL \in Nat /\ N_OPS \in Nat
  BY InversionAssumption
<1>4. Len(spath) = 0 /\ Len(ops) = 0 /\ Len(scans) = 0 /\ DOMAIN ops = {}
  BY <1>1
<1>5. metrics = [n \in 1..0 |-> Spe!Metrics(Sweeps[n])] /\ 0 \in 0..Len(Sweeps)
  BY <1>1, <1>3
<1> QED
  BY <1>1, <1>2, <1>3, <1>4, <1>5 DEF SpeInv

LEMMA WorldGoesOn ==
  ASSUME SpeInv, NEW m \in Increments, Spe!World(m)
  PROVE  SpeInv'
<1>1. /\ Len(spath) < B_FULL
      /\ spath' = Append(spath, [x |-> Spe!X(spath, Len(spath)) + m[1] + m[2], j |-> m[2]])
      /\ ops' = ops /\ scans' = scans /\ metrics' = metrics
  BY DEF Spe!World
<1>2. m[1] \in Int /\ m[2] \in Nat /\ B_FULL \in Nat
  BY InversionAssumption
<1>3. Len(spath) \in Nat /\ (Len(spath) # 0 => Len(spath) \in 1..Len(spath))
      /\ \A n \in 1..Len(spath) : spath[n] \in SpePoint
  BY DEF SpeInv
<1>4. Spe!X(spath, Len(spath)) \in Int
  BY <1>3 DEF Spe!X, SpePoint
<1>5. PICK y : y = [x |-> Spe!X(spath, Len(spath)) + m[1] + m[2], j |-> m[2]]
  OBVIOUS
<1>6. y \in SpePoint
  BY <1>2, <1>4, <1>5 DEF SpePoint
<1>7. spath' \in Seq(SpePoint) /\ Len(spath') <= B_FULL
  <2> DEFINE K == SpePoint
  <2>1. spath \in Seq(K) /\ y \in K /\ spath' = Append(spath, y)
    BY <1>1, <1>5, <1>6 DEF SpeInv
  <2> HIDE DEF K
  <2>2. spath' \in Seq(K) /\ Len(spath') = Len(spath) + 1
    BY <2>1
  <2>3. Len(spath') <= B_FULL
    BY <1>1, <1>2, <1>3, <2>2
  <2> QED
    BY <2>2, <2>3 DEF K
<1>8. ops = <<>>
  BY <1>1, <1>2, <1>3 DEF SpeInv
<1>9. metrics = <<>>
  <2>1. PICK k \in 0..Len(Sweeps) : /\ metrics = [n \in 1..k |-> Spe!Metrics(Sweeps[n])]
                                    /\ k # 0 => Len(ops) = N_OPS /\ ops # <<>>
    BY DEF SpeInv
  <2>2. k = 0
    BY <1>8, <2>1
  <2> QED
    BY <2>1, <2>2
<1>10. metrics' = [n \in 1..0 |-> Spe!Metrics(Sweeps[n])'] /\ 0 \in 0..Len(Sweeps)
  BY <1>1, <1>9, InversionAssumption
<1>11. DOMAIN ops' = {} /\ ops' = <<>>
  BY <1>1, <1>8
<1>12. /\ ops' \in Seq(SpeOp) /\ Len(ops') <= N_OPS
       /\ scans' \in Seq(Seq(SpeEvent)) /\ Len(scans') = Len(ops')
  BY <1>1 DEF SpeInv
<1>13. \E k \in 0..Len(Sweeps) : /\ metrics' = [n \in 1..k |-> Spe!Metrics(Sweeps[n])']
                                 /\ k # 0 => Len(ops') = N_OPS /\ ops' # <<>>
  BY <1>10
<1>14. \A i \in DOMAIN ops' : scans'[i] = Spe!Scan(spath', ops'[i])
  BY <1>11
<1> QED
  BY <1>7, <1>11, <1>12, <1>13, <1>14 DEF SpeInv
LEMMA OperatorIsDrawn ==
  ASSUME SpeInv, NEW w \in Widths, NEW c \in [period : Nat \ {0}, dwell : Nat, pen : Nat],
         Spe!DrawOp(w, c)
  PROVE  SpeInv'
<1>1. PICK o : o = [w |-> w, period |-> c.period, dwell |-> c.dwell,
                    pen |-> IF c.pen = 0 THEN 0 ELSE w \div c.pen]
  OBVIOUS
<1>2. /\ Len(spath) = B_FULL /\ Len(ops) < N_OPS
      /\ ops' = Append(ops, o) /\ scans' = Append(scans, Spe!Scan(spath, o))
      /\ spath' = spath /\ metrics' = metrics
  BY <1>1 DEF Spe!DrawOp
<1>3. w \in Nat /\ N_OPS \in Nat /\ Len(Sweeps) \in Nat
  BY InversionAssumption
<1>4. o \in SpeOp
  <2>1. PICK d : d = c.pen
    OBVIOUS
  <2>2. d \in Nat /\ (d # 0 => w \div d \in Nat)
    BY <1>3, <2>1
  <2> QED
    BY <1>1, <1>3, <2>1, <2>2 DEF SpeOp
<1>5. PICK f : f = Spe!Scan(spath, o)
  OBVIOUS
<1>6. f \in Seq(SpeEvent)
  BY <1>4, <1>5, ScanIsEvents DEF SpeInv
<1>7. /\ Len(ops) \in Nat /\ Len(scans) = Len(ops)
      /\ ops' \in Seq(SpeOp) /\ Len(ops') = Len(ops) + 1 /\ ops'[Len(ops) + 1] = o
      /\ \A i \in 1..Len(ops) : ops'[i] = ops[i]
  <2> DEFINE K == SpeOp
  <2>1. ops \in Seq(K) /\ o \in K /\ ops' = Append(ops, o) /\ Len(scans) = Len(ops)
    BY <1>2, <1>4 DEF SpeInv
  <2> HIDE DEF K
  <2>2. /\ Len(ops) \in Nat /\ ops' \in Seq(K) /\ Len(ops') = Len(ops) + 1
        /\ ops'[Len(ops) + 1] = o /\ \A i \in 1..Len(ops) : ops'[i] = ops[i]
    BY <2>1
  <2> QED
    BY <2>1, <2>2 DEF K
<1>8. /\ scans' \in Seq(Seq(SpeEvent)) /\ Len(scans') = Len(ops) + 1
      /\ scans'[Len(ops) + 1] = f /\ \A i \in 1..Len(ops) : scans'[i] = scans[i]
  <2> DEFINE K == Seq(SpeEvent)
  <2>1. scans \in Seq(K) /\ f \in K /\ scans' = Append(scans, f)
    BY <1>2, <1>5, <1>6 DEF SpeInv
  <2> HIDE DEF K
  <2>2. /\ scans' \in Seq(K) /\ Len(scans') = Len(scans) + 1
        /\ scans'[Len(scans) + 1] = f /\ \A i \in 1..Len(scans) : scans'[i] = scans[i]
    BY <2>1
  <2> QED
    BY <1>7, <2>2 DEF K
<1>9. \A i \in DOMAIN ops' : scans'[i] = Spe!Scan(spath', ops'[i])
  <2> TAKE i \in DOMAIN ops'
  <2>1. DOMAIN ops' = 1..(Len(ops) + 1) /\ DOMAIN ops = 1..Len(ops)
    BY <1>7 DEF SpeInv
  <2>2. CASE i \in 1..Len(ops)
    <3>1. scans'[i] = scans[i] /\ ops'[i] = ops[i] /\ scans[i] = Spe!Scan(spath, ops[i])
      BY <1>7, <1>8, <2>1, <2>2 DEF SpeInv
    <3> QED
      BY <1>2, <3>1
  <2>3. CASE i = Len(ops) + 1
    BY <1>2, <1>5, <1>7, <1>8, <2>3
  <2> QED
    BY <1>7, <2>1, <2>2, <2>3
<1>10. metrics = <<>>
  <2>1. PICK k \in 0..Len(Sweeps) : /\ metrics = [n \in 1..k |-> Spe!Metrics(Sweeps[n])]
                                    /\ k # 0 => Len(ops) = N_OPS /\ ops # <<>>
    BY DEF SpeInv
  <2>2. k = 0
    BY <1>2, <1>3, <1>7, <2>1
  <2> QED
    BY <2>1, <2>2
<1>11. metrics' = [n \in 1..0 |-> Spe!Metrics(Sweeps[n])'] /\ 0 \in 0..Len(Sweeps)
  BY <1>2, <1>3, <1>10
<1>12. \E k \in 0..Len(Sweeps) : /\ metrics' = [n \in 1..k |-> Spe!Metrics(Sweeps[n])']
                                 /\ k # 0 => Len(ops') = N_OPS /\ ops' # <<>>
  BY <1>11
<1>13. Len(ops') <= N_OPS /\ Len(scans') = Len(ops')
  BY <1>2, <1>3, <1>7, <1>8
<1>14. spath' \in Seq(SpePoint) /\ Len(spath') <= B_FULL /\ Len(spath') = B_FULL
  BY <1>2 DEF SpeInv
<1> QED
  BY <1>7, <1>8, <1>9, <1>12, <1>13, <1>14 DEF SpeInv

\* A cell is what it says of a path, the operators and their scans.
LEMMA CellsStay ==
  ASSUME spath' = spath, ops' = ops, scans' = scans, NEW c
  PROVE  Spe!Metrics(c)' = Spe!Metrics(c)
<1>1. \A ev, abar : Spe!Admitted(ev, abar)' = Spe!Admitted(ev, abar)
  BY DEF Spe!Admitted
<1>2. \A ev, adm : Spe!Exceeding(ev, adm)' = Spe!Exceeding(ev, adm)
  BY DEF Spe!Exceeding
<1>3. \A k, i : Spe!Members(k, i)' = Spe!Members(k, i)
  BY DEF Spe!Members, Spe!Component
<1>4. \A k : Spe!Firsts(k)' = Spe!Firsts(k)
  BY <1>3 DEF Spe!Firsts
<1>5. \A k : Spe!Largest(k)' = Spe!Largest(k)
  BY <1>3, <1>4 DEF Spe!Largest
<1> QED
  BY <1>1, <1>2, <1>3, <1>4, <1>5 DEF Spe!Metrics

LEMMA CellIsAdded == SpeInv /\ Spe!Cell => SpeInv'
<1> SUFFICES ASSUME SpeInv, Spe!Cell PROVE SpeInv'
  OBVIOUS
<1>1. /\ Len(ops) = N_OPS /\ Len(metrics) < Len(Sweeps)
      /\ metrics' = Append(metrics, Spe!Metrics(Sweeps[Len(metrics) + 1]))
      /\ spath' = spath /\ ops' = ops /\ scans' = scans
  BY DEF Spe!Cell
<1>2. PICK k \in 0..Len(Sweeps) : metrics = [n \in 1..k |-> Spe!Metrics(Sweeps[n])]
  BY DEF SpeInv
<1>3. PICK F : F = [n \in 1..Len(Sweeps) |-> Spe!Metrics(Sweeps[n])]
  OBVIOUS
<1>4. Len(Sweeps) \in Nat /\ k \in Nat
  BY InversionAssumption
<1>5. metrics = [n \in 1..k |-> F[n]] /\ Len(metrics) = k
  BY <1>2, <1>3, <1>4
<1>6. k + 1 \in 1..Len(Sweeps) /\ k + 1 \in 0..Len(Sweeps)
  BY <1>1, <1>4, <1>5
<1>7. metrics' = Append(metrics, F[k + 1])
  BY <1>1, <1>3, <1>5, <1>6
<1>8. metrics' = [n \in 1..(k + 1) |-> F[n]]
  <2> DEFINE R == {F[n] : n \in 1..(k + 1)}
  <2>1. \A n \in 1..(k + 1) : F[n] \in R
    OBVIOUS
  <2>2. k + 1 \in 1..(k + 1) /\ \A n \in 1..k : n \in 1..(k + 1)
    BY <1>4
  <2> HIDE DEF R
  <2>3. metrics \in Seq(R) /\ F[k + 1] \in R
    BY <1>4, <1>5, <2>1, <2>2
  <2>4. /\ metrics' \in Seq(R) /\ Len(metrics') = k + 1 /\ metrics'[k + 1] = F[k + 1]
        /\ \A n \in 1..k : metrics'[n] = metrics[n]
    BY <1>4, <1>5, <1>7, <2>3
  <2>5. \A n \in 1..(k + 1) : metrics'[n] = F[n]
    <3> TAKE n \in 1..(k + 1)
    <3>1. n \in 1..k \/ n = k + 1
      BY <1>4
    <3> QED
      BY <1>5, <2>4, <3>1
  <2>6. metrics' = [n \in 1..(k + 1) |-> metrics'[n]]
    BY <2>4
  <2> QED
    BY <2>5, <2>6
<1>9. \A n \in 1..(k + 1) : F[n] = Spe!Metrics(Sweeps[n])'
  <2> TAKE n \in 1..(k + 1)
  <2>1. n \in 1..Len(Sweeps)
    BY <1>4, <1>6
  <2>2. PICK c : c = Sweeps[n]
    OBVIOUS
  <2>3. Spe!Metrics(c)' = Spe!Metrics(c)
    BY <1>1, CellsStay
  <2> QED
    BY <1>3, <2>1, <2>2, <2>3
<1>10. metrics' = [n \in 1..(k + 1) |-> Spe!Metrics(Sweeps[n])']
  BY <1>8, <1>9
<1>11. Len(ops') = N_OPS /\ ops' # <<>>
  <2>1. Sweeps[k + 1] \in [k : 1..N_OPS, era : 0..B_FULL, abar : Nat]
    <3> DEFINE K == [k : 1..N_OPS, era : 0..B_FULL, abar : Nat]
    <3>1. Sweeps \in Seq(K)
      BY InversionAssumption
    <3> HIDE DEF K
    <3>2. Sweeps[k + 1] \in K
      BY <1>6, <3>1
    <3> QED
      BY <3>2 DEF K
  <2>2. PICK n : n = Sweeps[k + 1].k
    OBVIOUS
  <2>3. n \in 1..N_OPS /\ N_OPS \in Nat
    BY <2>1, <2>2, InversionAssumption
  <2>4. Len(ops) # 0
    BY <1>1, <2>3
  <2>5. Len(<<>>) = 0
    OBVIOUS
  <2>6. ops # <<>>
    BY <2>4, <2>5
  <2> QED
    BY <1>1, <2>6
<1>12. \E m \in 0..Len(Sweeps) : /\ metrics' = [n \in 1..m |-> Spe!Metrics(Sweeps[n])']
                                 /\ m # 0 => Len(ops') = N_OPS /\ ops' # <<>>
  BY <1>6, <1>10, <1>11
<1>13. /\ spath' \in Seq(SpePoint) /\ Len(spath') <= B_FULL
       /\ ops' \in Seq(SpeOp) /\ Len(ops') <= N_OPS
       /\ ops' # <<>> => Len(spath') = B_FULL
       /\ scans' \in Seq(Seq(SpeEvent)) /\ Len(scans') = Len(ops')
       /\ \A i \in DOMAIN ops' : scans'[i] = Spe!Scan(spath', ops'[i])
  BY <1>1 DEF SpeInv
<1> QED
  BY <1>12, <1>13 DEF SpeInv
LEMMA SweepsGoOn == SpeInv /\ [Spe!Next]_specVars => SpeInv'
<1> SUFFICES ASSUME SpeInv, [Spe!Next]_specVars PROVE SpeInv'
  OBVIOUS
<1>1. ASSUME NEW m \in Increments, Spe!World(m) PROVE SpeInv'
  BY <1>1, WorldGoesOn
<1>2. ASSUME NEW w \in Widths, NEW n \in DOMAIN Mix, Spe!DrawOp(w, Mix[n]) PROVE SpeInv'
  <2> DEFINE K == [period : Nat \ {0}, dwell : Nat, pen : Nat]
  <2>1. Mix \in Seq(K)
    BY InversionAssumption
  <2> HIDE DEF K
  <2>2. Mix[n] \in K
    BY <2>1
  <2>3. PICK c : c = Mix[n]
    OBVIOUS
  <2>4. c \in [period : Nat \ {0}, dwell : Nat, pen : Nat] /\ Spe!DrawOp(w, c)
    BY <1>2, <2>2, <2>3 DEF K
  <2> QED
    BY <2>4, OperatorIsDrawn
<1>3. ASSUME Spe!Cell PROVE SpeInv'
  BY <1>3, CellIsAdded
<1>4. ASSUME UNCHANGED specVars PROVE SpeInv'
  <2>1. spath' = spath /\ ops' = ops /\ scans' = scans /\ metrics' = metrics
    BY <1>4 DEF specVars
  <2>2. PICK k \in 0..Len(Sweeps) : /\ metrics = [n \in 1..k |-> Spe!Metrics(Sweeps[n])]
                                    /\ k # 0 => Len(ops) = N_OPS /\ ops # <<>>
    BY DEF SpeInv
  <2>3. \A n \in 1..k : Spe!Metrics(Sweeps[n])' = Spe!Metrics(Sweeps[n])
    <3> TAKE n \in 1..k
    <3>1. PICK c : c = Sweeps[n]
      OBVIOUS
    <3>2. Spe!Metrics(c)' = Spe!Metrics(c)
      BY <2>1, CellsStay
    <3> QED
      BY <3>1, <3>2
  <2>4. metrics' = [n \in 1..k |-> Spe!Metrics(Sweeps[n])']
    BY <2>1, <2>2, <2>3
  <2>5. \E m \in 0..Len(Sweeps) : /\ metrics' = [n \in 1..m |-> Spe!Metrics(Sweeps[n])']
                                  /\ m # 0 => Len(ops') = N_OPS /\ ops' # <<>>
    BY <2>1, <2>2, <2>4
  <2>6. /\ spath' \in Seq(SpePoint) /\ Len(spath') <= B_FULL
        /\ ops' \in Seq(SpeOp) /\ Len(ops') <= N_OPS
        /\ ops' # <<>> => Len(spath') = B_FULL
        /\ scans' \in Seq(Seq(SpeEvent)) /\ Len(scans') = Len(ops')
        /\ \A i \in DOMAIN ops' : scans'[i] = Spe!Scan(spath', ops'[i])
    BY <2>1 DEF SpeInv
  <2> QED
    BY <2>5, <2>6 DEF SpeInv
<1> QED
  BY <1>1, <1>2, <1>3, <1>4 DEF Spe!Next

LEMMA EraIsPrefix == SpeInv => Spe!EraPrefix
<1> SUFFICES ASSUME SpeInv, NEW i \in DOMAIN ops, NEW n \in DOMAIN Sweeps
             PROVE  Spe!Prefix(scans[i], Sweeps[n].era)
                      = Spe!Scan(SubSeq(spath, 1, Sweeps[n].era), ops[i])
  BY DEF Spe!EraPrefix
<1>1. PICK era : era = Sweeps[n].era
  OBVIOUS
<1>2. era \in 0..B_FULL
  <2> DEFINE K == [k : 1..N_OPS, era : 0..B_FULL, abar : Nat]
  <2>1. Sweeps \in Seq(K)
    BY InversionAssumption
  <2> HIDE DEF K
  <2>2. Sweeps[n] \in K
    BY <2>1
  <2> QED
    BY <1>1, <2>2 DEF K
<1>3. ops[i] \in SpeOp
  <2> DEFINE K == SpeOp
  <2>1. ops \in Seq(K)
    BY DEF SpeInv
  <2> HIDE DEF K
  <2>2. ops[i] \in K
    BY <2>1
  <2> QED
    BY <2>2 DEF K
<1>4. ops # <<>>
  OBVIOUS
<1>5. spath \in Seq(SpePoint) /\ era \in 0..Len(spath) /\ scans[i] = Spe!Scan(spath, ops[i])
  BY <1>2, <1>4 DEF SpeInv
<1>6. PICK o : o = ops[i]
  OBVIOUS
<1>7. Spe!Prefix(Spe!Scan(spath, o), era) = Spe!Scan(SubSeq(spath, 1, era), o)
  BY <1>3, <1>5, <1>6, PrefixIs, PrefixStates
<1> QED
  BY <1>1, <1>5, <1>6, <1>7

LEMMA ScalesAreOfTheTrail == SpeInv => Spe!ScaleIsOfTheTrail
<1> SUFFICES ASSUME SpeInv, NEW i \in DOMAIN ops, NEW n \in DOMAIN scans[i]
             PROVE  Spe!Sigma2(Spe!Otherwise(spath, scans[i][n].cross), scans[i][n].cross)
                      = Spe!Sigma2(spath, scans[i][n].cross)
  BY DEF Spe!ScaleIsOfTheTrail
<1>1. ops[i] \in SpeOp
  <2> DEFINE K == SpeOp
  <2>1. ops \in Seq(K)
    BY DEF SpeInv
  <2> HIDE DEF K
  <2>2. ops[i] \in K
    BY <2>1
  <2> QED
    BY <2>2 DEF K
<1>2. PICK o, f, c : o = ops[i] /\ f = scans[i] /\ c = scans[i][n].cross
  OBVIOUS
<1>3. spath \in Seq(SpePoint) /\ f = Spe!Scan(spath, o) /\ n \in DOMAIN f /\ c = f[n].cross
  BY <1>2 DEF SpeInv
<1>4. c \in 0..Len(spath)
  BY <1>1, <1>2, <1>3, ScanIsEvents
<1>5. Spe!Sigma2(Spe!Otherwise(spath, c), c) = Spe!Sigma2(spath, c)
  BY <1>3, <1>4, ScaleOtherwise
<1> QED
  BY <1>2, <1>5

\* The events of finitely many scans are finitely many.
LEMMA EventsAreFinite ==
  ASSUME NEW k \in Nat, NEW ev, \A i \in 1..k : IsFiniteSet(DOMAIN ev[i])
  PROVE  IsFiniteSet(UNION {{i} \X DOMAIN ev[i] : i \in 1..k})
<1> DEFINE U(n) == UNION {{i} \X DOMAIN ev[i] : i \in 1..n}
           T == {n \in 0..k : IsFiniteSet(U(n))}
<1>1. 0 \in T
  <2>1. U(0) = {}
    OBVIOUS
  <2>2. IsFiniteSet(U(0))
    BY <2>1, FS_EmptySet
  <2> HIDE DEF U
  <2> QED
    BY <2>2
<1>2. \A n \in 0..(k - 1) : n \in T => n + 1 \in T
  <2> SUFFICES ASSUME NEW n \in 0..(k - 1), IsFiniteSet(U(n)) PROVE n + 1 \in T
    OBVIOUS
  <2>1. /\ n + 1 \in 0..k /\ n + 1 \in 1..k
        /\ \A i : i \in 1..(n + 1) <=> i \in 1..n \/ i = n + 1
    OBVIOUS
  <2>2. PICK V, D, m : V = U(n) /\ D = DOMAIN ev[n + 1] /\ m = n + 1
    OBVIOUS
  <2>3. U(n + 1) = V \cup ({m} \X D)
    BY <2>1, <2>2
  <2>4. IsFiniteSet({m}) /\ IsFiniteSet(D) /\ IsFiniteSet(V)
    BY <2>1, <2>2, FS_Singleton
  <2>5. IsFiniteSet({m} \X D)
    BY <2>4, FS_Product
  <2>6. IsFiniteSet(V \cup ({m} \X D))
    BY <2>4, <2>5, FS_Union
  <2> HIDE DEF U
  <2> QED
    BY <2>1, <2>3, <2>6
<1> HIDE DEF T
<1>3. k \in T
  <2>1. \A n \in 0..k : n \in T
    BY <1>1, <1>2, UpTo
  <2> QED
    BY <2>1
<1> QED
  BY <1>3 DEF T
LEMMA SamplesAreSplit == SpeInv => Spe!SamplesSplit
<1> SUFFICES ASSUME SpeInv, NEW n \in DOMAIN metrics, metrics[n].ok
             PROVE  LET c  == metrics[n]
                        k  == Sweeps[n].k
                        lv == c.levels[Spe!Largest(k)]
                    IN  /\ Spe!Pair(c.k) = lv[1] /\ Spe!Pair(c.n) = lv[2]
                        /\ c.e = Spe!Total(c.levels, k, 1)
                        /\ c.m = Spe!Total(c.levels, k, 2)
  BY DEF Spe!SamplesSplit
<1>1. PICK m \in 0..Len(Sweeps) : /\ metrics = [i \in 1..m |-> Spe!Metrics(Sweeps[i])]
                                  /\ m # 0 => Len(ops) = N_OPS /\ ops # <<>>
  BY DEF SpeInv
<1>2. n \in 1..m /\ n \in 1..Len(Sweeps) /\ m # 0 /\ Len(Sweeps) \in Nat
  BY <1>1, InversionAssumption
<1>3. PICK k, era, abar : k = Sweeps[n].k /\ era = Sweeps[n].era /\ abar = Sweeps[n].abar
  OBVIOUS
<1>4. k \in 1..N_OPS /\ era \in 0..B_FULL /\ N_OPS \in Nat /\ k \in Nat \ {0}
  <2> DEFINE K == [k : 1..N_OPS, era : 0..B_FULL, abar : Nat]
  <2>1. Sweeps \in Seq(K)
    BY InversionAssumption
  <2> HIDE DEF K
  <2>2. Sweeps[n] \in K
    BY <1>2, <2>1
  <2>3. Sweeps[n].k \in 1..N_OPS /\ Sweeps[n].era \in 0..B_FULL
    BY <2>2 DEF K
  <2>4. N_OPS \in Nat
    BY InversionAssumption
  <2> QED
    BY <1>3, <2>3, <2>4
<1>5. PICK ev : ev = [i \in 1..k |-> Spe!Prefix(scans[i], era)]
  OBVIOUS
<1>6. PICK A : A = Spe!Admitted(ev, abar)
  OBVIOUS
<1>7. PICK E : E = Spe!Exceeding(ev, A)
  OBVIOUS
<1>8. IsFiniteSet(A) /\ \A a \in A : a[1] \in 1..k
  <2>1. \A i \in 1..k : IsFiniteSet(DOMAIN ev[i])
    <3> TAKE i \in 1..k
    <3>0. Len(ops) = N_OPS /\ ops # <<>> /\ DOMAIN ops = 1..Len(ops)
      BY <1>1, <1>2 DEF SpeInv
    <3>1. i \in DOMAIN ops /\ spath \in Seq(SpePoint)
          /\ Len(spath) = B_FULL /\ scans[i] = Spe!Scan(spath, ops[i])
      <4>1. i \in 1..N_OPS
        BY <1>4
      <4> QED
        BY <3>0, <4>1 DEF SpeInv
    <3>2. ops[i] \in SpeOp
      <4> DEFINE K == SpeOp
      <4>1. ops \in Seq(K)
        BY DEF SpeInv
      <4> HIDE DEF K
      <4>2. ops[i] \in K
        BY <3>1, <4>1
      <4> QED
        BY <4>2 DEF K
    <3>3. PICK o : o = ops[i]
      OBVIOUS
    <3>4. PICK h : h = Spe!Prefix(Spe!Scan(spath, o), era)
      OBVIOUS
    <3>5. era \in 0..Len(spath)
      BY <1>4, <3>1
    <3>6. h = Spe!States(spath, o)[era].events
      BY <3>1, <3>2, <3>3, <3>4, <3>5, PrefixIs
    <3>7. Spe!States(spath, o)[era] \in SpeState
      BY <3>1, <3>2, <3>3, <3>5, StatesAre
    <3>8. h \in Seq(SpeEvent)
      BY <3>6, <3>7 DEF SpeState
    <3>9. PICK N : N = Len(h)
      OBVIOUS
    <3>10. DOMAIN h = 1..N /\ N \in Nat
      BY <3>8, <3>9
    <3>11. IsFiniteSet(1..N)
      <4>1. 1 \in Int /\ N \in Int
        BY <3>10
      <4> QED
        BY <4>1, FS_Interval
    <3>12. ev[i] = h
      BY <1>5, <3>1, <3>3, <3>4
    <3> QED
      BY <3>10, <3>11, <3>12
  <2>2. PICK U : U = UNION {{i} \X DOMAIN ev[i] : i \in 1..k}
    OBVIOUS
  <2>3. IsFiniteSet(U)
    BY <1>4, <2>1, <2>2, EventsAreFinite
  <2>4. DOMAIN ev = 1..k
    BY <1>5
  <2>5. A \in SUBSET U
    BY <1>6, <2>2, <2>4 DEF Spe!Admitted
  <2>6. \A a \in U : a[1] \in 1..k
    BY <2>2
  <2> QED
    BY <2>3, <2>5, <2>6, FS_Subset
<1>9. IsFiniteSet(E) /\ \A a \in E : a[1] \in 1..k
  <2>1. E \in SUBSET A
    BY <1>7 DEF Spe!Exceeding
  <2> QED
    BY <1>8, <2>1, FS_Subset
<1>10. PICK L, dom : L = Spe!Largest(k) /\ dom = Spe!Members(k, L)
  OBVIOUS
<1>11. L \in Spe!Firsts(k)
  BY <1>4, <1>10, LargestIs
<1>12. PICK c : c = metrics[n]
  OBVIOUS
<1>13. c = [m |-> Cardinality(A), ok |-> TRUE, e |-> Cardinality(E),
            n |-> <<Spe!Of(A, Spe!FirstHalf(dom)), Spe!Of(A, Spe!OtherHalf(dom))>>,
            k |-> <<Spe!Of(E, Spe!FirstHalf(dom)), Spe!Of(E, Spe!OtherHalf(dom))>>,
            levels |-> [i \in Spe!Firsts(k) |-> <<Spe!Of(E, Spe!Members(k, i)),
                                                  Spe!Of(A, Spe!Members(k, i))>>]]
  <2>1. c = Spe!Metrics(Sweeps[n]) /\ c.ok
    BY <1>1, <1>2, <1>12
  <2>2. PICK w : w = Sweeps[n]
    OBVIOUS
  <2>3. c = Spe!Metrics(w) /\ k = w.k /\ era = w.era /\ abar = w.abar
    BY <1>3, <2>1, <2>2
  <2>4. Spe!Cardinality(A) = Cardinality(A) /\ Spe!Cardinality(E) = Cardinality(E)
    BY SpeSums
  <2>5. c = IF Spe!Cardinality(A) < MIN_EVENTS
            THEN [m |-> Spe!Cardinality(A), ok |-> FALSE]
            ELSE [m |-> Spe!Cardinality(A), ok |-> TRUE, e |-> Spe!Cardinality(E),
                  n |-> <<Spe!Of(A, Spe!FirstHalf(dom)), Spe!Of(A, Spe!OtherHalf(dom))>>,
                  k |-> <<Spe!Of(E, Spe!FirstHalf(dom)), Spe!Of(E, Spe!OtherHalf(dom))>>,
                  levels |-> [i \in Spe!Firsts(k) |-> <<Spe!Of(E, Spe!Members(k, i)),
                                                        Spe!Of(A, Spe!Members(k, i))>>]]
    BY <1>5, <1>6, <1>7, <1>10, <2>3 DEF Spe!Metrics
  <2>6. ~(Spe!Cardinality(A) < MIN_EVENTS)
    <3> SUFFICES ASSUME Spe!Cardinality(A) < MIN_EVENTS PROVE FALSE
      OBVIOUS
    <3>1. c = [m |-> Spe!Cardinality(A), ok |-> FALSE]
      BY <2>5
    <3>2. c.ok = FALSE
      BY <3>1
    <3> QED
      BY <2>1, <3>2
  <2> QED
    BY <2>4, <2>5, <2>6
<1>14. /\ Spe!Of(A, Spe!FirstHalf(dom)) + Spe!Of(A, Spe!OtherHalf(dom)) = Spe!Of(A, dom)
       /\ Spe!Of(E, Spe!FirstHalf(dom)) + Spe!Of(E, Spe!OtherHalf(dom)) = Spe!Of(E, dom)
  BY <1>4, <1>8, <1>9, SampleSplits
<1>15. /\ Summed([i \in 1..k |-> IF i \in Spe!Firsts(k) THEN Spe!Of(A, Spe!Members(k, i))
                                 ELSE 0]) = Cardinality(A)
       /\ Summed([i \in 1..k |-> IF i \in Spe!Firsts(k) THEN Spe!Of(E, Spe!Members(k, i))
                                 ELSE 0]) = Cardinality(E)
  BY <1>4, <1>8, <1>9, SampleSplits
<1>16. PICK lv : lv = c.levels
  OBVIOUS
<1>17. /\ DOMAIN lv = Spe!Firsts(k)
       /\ \A i \in Spe!Firsts(k) : /\ lv[i][1] = Spe!Of(E, Spe!Members(k, i))
                                   /\ lv[i][2] = Spe!Of(A, Spe!Members(k, i))
  BY <1>13, <1>16
<1>18. Spe!Pair(c.k) = lv[L][1] /\ Spe!Pair(c.n) = lv[L][2]
  BY <1>10, <1>11, <1>13, <1>14, <1>17 DEF Spe!Pair
<1>19. c.e = Spe!Total(lv, k, 1) /\ c.m = Spe!Total(lv, k, 2)
  <2>1. [i \in 1..k |-> IF i \in DOMAIN lv THEN lv[i][1] ELSE 0]
          = [i \in 1..k |-> IF i \in Spe!Firsts(k) THEN Spe!Of(E, Spe!Members(k, i)) ELSE 0]
    BY <1>17
  <2>2. [i \in 1..k |-> IF i \in DOMAIN lv THEN lv[i][2] ELSE 0]
          = [i \in 1..k |-> IF i \in Spe!Firsts(k) THEN Spe!Of(A, Spe!Members(k, i)) ELSE 0]
    BY <1>17
  <2>3. Spe!Total(lv, k, 1) = Cardinality(E) /\ Spe!Total(lv, k, 2) = Cardinality(A)
    BY <1>15, <2>1, <2>2, SpeSums DEF Spe!Total
  <2>4. c.e = Cardinality(E) /\ c.m = Cardinality(A)
    BY <1>13
  <2> QED
    BY <2>3, <2>4
<1> QED
  BY <1>3, <1>10, <1>12, <1>16, <1>18, <1>19

\* In every cell of the sweeps, cutting the events to the era is scanning the
\* era, no event is read against a scale of its own move, and the components'
\* samples, and the halves of the largest one, split the pooled sample.
THEOREM InversionIsSound == Spe!Spec => []InversionSound
<1>1. Spe!Init => SpeInv
  BY SweepsBegin
<1>2. SpeInv /\ [Spe!Next]_(Spe!vars) => SpeInv'
  <2>1. UNCHANGED Spe!vars => UNCHANGED specVars
    BY DEF specVars, Spe!vars
  <2> QED
    BY <2>1, SweepsGoOn
<1>3. SpeInv => InversionSound
  BY EraIsPrefix, ScalesAreOfTheTrail, SamplesAreSplit DEF InversionSound
<1> QED
  BY <1>1, <1>2, <1>3, PTL DEF Spe!Spec-----------------------------------------------------------------------------
(***************************************************************************)
(* The account of a path.  First the fractions: Euclid's algorithm divides *)
(* both numbers and grows with them, so that a fraction in lowest terms is *)
(* known by its value alone.                                               *)
(***************************************************************************)
\* There is one quotient and one rest.
LEMMA OneQuotient ==
  ASSUME NEW y \in Nat \ {0}, NEW q \in Int, NEW r \in Int, NEW u \in Int, NEW v \in Int,
         0 <= r, r < y, 0 <= v, v < y, y * q + r = y * u + v
  PROVE  q = u /\ r = v
<1>1. ASSUME NEW k \in Int, NEW l \in Int, NEW e \in Int, NEW f \in Int,
             0 <= e, f < y, y * k + e = y * l + f
      PROVE  k <= l
  <2> SUFFICES ASSUME k >= l + 1 PROVE FALSE
    OBVIOUS
  <2>1. y * (k - l) >= y
    <3>1. k - l >= 1 /\ k - l \in Int
      OBVIOUS
    <3> QED
      BY <3>1
  <2>2. y * (k - l) = y * k - y * l /\ y * k \in Int /\ y * l \in Int
    OBVIOUS
  <2> QED
    BY <1>1, <2>1, <2>2
<1>2. q <= u
  BY <1>1
<1>3. u <= q
  BY <1>1
<1>4. q = u
  BY <1>2, <1>3
<1> QED
  BY <1>4

LEMMA ExactQuotient ==
  ASSUME NEW u \in Int, NEW g \in Nat \ {0}
  PROVE  (u * g) \div g = u
<1>1. u * g \in Int
  OBVIOUS
<1>2. PICK y : y = u * g
  OBVIOUS
<1>3. /\ y \in Int /\ y \div g \in Int /\ y % g \in Int
      /\ 0 <= y % g /\ y % g < g /\ y = g * (y \div g) + (y % g)
  BY <1>1, <1>2
<1>4. g * u + 0 = g * (y \div g) + (y % g)
  BY <1>2, <1>3
<1>5. u = y \div g
  <2>1. PICK q, r : q = y \div g /\ r = y % g
    OBVIOUS
  <2>2. q \in Int /\ r \in Int /\ 0 <= r /\ r < g /\ g * u + 0 = g * q + r
    BY <1>3, <1>4, <2>1
  <2>3. 0 \in Int /\ 0 <= 0 /\ 0 < g
    OBVIOUS
  <2> QED
    BY <2>1, <2>2, <2>3, OneQuotient
<1> QED
  BY <1>2, <1>5

LEMMA RestScales ==
  ASSUME NEW i \in Nat, NEW j \in Nat \ {0}, NEW k \in Nat \ {0}
  PROVE  /\ i % j \in 0..(j - 1)
         /\ (k * i) % (k * j) = k * (i % j)
<1>1. PICK q, r : q = i \div j /\ r = i % j
  OBVIOUS
<1>2. q \in Int /\ r \in Int /\ 0 <= r /\ r < j /\ i = j * q + r
  BY <1>1
<1>3. PICK x, y : x = k * i /\ y = k * j
  OBVIOUS
<1>4. x \in Int /\ y \in Nat \ {0}
  BY <1>3
<1>5. PICK u, v : u = x \div y /\ v = x % y
  OBVIOUS
<1>6. u \in Int /\ v \in Int /\ 0 <= v /\ v < y /\ x = y * u + v
  BY <1>4, <1>5
<1>7. y * q + k * r = y * u + v
  <2>1. k * (j * q + r) = (k * j) * q + k * r
    BY <1>2
  <2> QED
    BY <1>2, <1>3, <1>6, <2>1
<1>8. k * r \in Int /\ 0 <= k * r /\ k * r < y
  <2>1. k * r <= k * (j - 1) /\ k * (j - 1) = k * j - k /\ 0 <= k * r
    BY <1>2
  <2> QED
    BY <1>2, <1>3, <2>1
<1>9. k * r = v
  <2>1. PICK z : z = k * r
    OBVIOUS
  <2>2. z \in Int /\ 0 <= z /\ z < y /\ y * q + z = y * u + v
    BY <1>7, <1>8, <2>1
  <2>3. z = v
    BY <1>2, <1>4, <1>6, <2>2, OneQuotient
  <2> QED
    BY <2>1, <2>3
<1> QED
  BY <1>1, <1>2, <1>3, <1>5, <1>9

Rows(G, n) == G = [j \in 0..n |-> [i \in Nat |-> IF j = 0 THEN i ELSE G[i % j][j]]]

LEMMA RowsExist ==
  ASSUME NEW N \in Nat
  PROVE  \E G : Rows(G, N)
<1> DEFINE T == {n \in Nat : \E G : Rows(G, n)}
<1>1. 0 \in T
  <2> DEFINE G == [j \in 0..0 |-> [i \in Nat |-> i]]
  <2>1. \A j \in 0..0 : j = 0
    OBVIOUS
  <2>2. G = [j \in 0..0 |-> [i \in Nat |-> IF j = 0 THEN i ELSE G[i % j][j]]]
    BY <2>1
  <2> QED
    BY <2>2 DEF Rows
<1>2. ASSUME NEW n \in Nat, n \in T PROVE n + 1 \in T
  <2>1. PICK G : G = [j \in 0..n |-> [i \in Nat |-> IF j = 0 THEN i ELSE G[i % j][j]]]
    BY <1>2 DEF Rows
  <2> DEFINE F == [j \in 0..(n + 1) |->
                     IF j = n + 1 THEN [i \in Nat |-> G[i % (n + 1)][n + 1]] ELSE G[j]]
             E(j) == [i \in Nat |-> IF j = 0 THEN i ELSE F[i % j][j]]
  <2>2. \A j \in 0..n : j \in 0..(n + 1) /\ F[j] = G[j]
    OBVIOUS
  <2>3. \A j \in 1..(n + 1), i \in Nat : i % j \in 0..n
    <3> TAKE j \in 1..(n + 1), i \in Nat
    <3>1. i % j \in 0..(j - 1)
      <4>1. j \in Nat \ {0} /\ 1 \in Nat \ {0}
        OBVIOUS
      <4> QED
        BY <4>1, RestScales
    <3> QED
      BY <3>1
  <2>4. \A j \in 0..(n + 1) : F[j] = E(j)
    <3> TAKE j \in 0..(n + 1)
    <3>1. CASE j \in 0..n
      <4>1. G[j] = [i \in Nat |-> IF j = 0 THEN i ELSE G[i % j][j]]
        BY <2>1, <3>1
      <4>2. \A i \in Nat : j # 0 => F[i % j] = G[i % j]
        <5>1. j # 0 => j \in 1..(n + 1)
          BY <3>1
        <5> HIDE DEF F
        <5> QED
          BY <2>2, <2>3, <5>1
      <4>3. F[j] = G[j]
        BY <2>2, <3>1
      <4> HIDE DEF F
      <4> QED
        BY <4>1, <4>2, <4>3
    <3>2. CASE j = n + 1
      <4>1. F[j] = [i \in Nat |-> G[i % (n + 1)][n + 1]]
        BY <3>2
      <4>2. \A i \in Nat : F[i % j] = G[i % j]
        <5>1. j \in 1..(n + 1)
          BY <3>2
        <5> HIDE DEF F
        <5> QED
          BY <2>2, <2>3, <5>1
      <4>3. j # 0
        BY <3>2
      <4> HIDE DEF F
      <4> QED
        BY <3>2, <4>1, <4>2, <4>3
    <3>3. j \in 0..n \/ j = n + 1
      OBVIOUS
    <3> QED
      BY <3>1, <3>2, <3>3
  <2>5. F = [j \in 0..(n + 1) |-> E(j)]
    <3>1. DOMAIN F = 0..(n + 1)
      OBVIOUS
    <3>2. F = [j \in 0..(n + 1) |-> F[j]]
      OBVIOUS
    <3> HIDE DEF F, E
    <3> QED
      BY <2>4, <3>2
  <2>6. Rows(F, n + 1)
    BY <2>5 DEF Rows
  <2>7. n + 1 \in Nat
    OBVIOUS
  <2> HIDE DEF F
  <2> QED
    BY <2>6, <2>7
<1> HIDE DEF T
<1>3. Nat \subseteq T
  BY <1>1, <1>2, NatInd
<1> QED
  BY <1>3 DEF T

RowsTo(n) == CHOOSE G : Rows(G, n)

LEMMA RowsAre ==
  ASSUME NEW n \in Nat
  PROVE  /\ \A i \in Nat : RowsTo(n)[0][i] = i
         /\ \A j \in 1..n, i \in Nat : RowsTo(n)[j][i] = RowsTo(n)[i % j][j]
         /\ \A m : Law!Gcd(m, n) = RowsTo(n)[n][m]
<1>1. PICK G : G = RowsTo(n)
  OBVIOUS
<1>2. Rows(G, n)
  BY <1>1, RowsExist DEF RowsTo
<1>3. \A j \in 0..n : G[j] = [i \in Nat |-> IF j = 0 THEN i ELSE G[i % j][j]]
  BY <1>2 DEF Rows
<1>4. 0 \in 0..n /\ \A j \in 1..n : j \in 0..n /\ j # 0
  OBVIOUS
<1>5. \A m : Law!Gcd(m, n) = G[n][m]
  BY <1>1 DEF Law!Gcd, RowsTo, Rows
<1>6. \A i \in Nat : G[0][i] = i
  BY <1>3, <1>4
<1>7. ASSUME NEW j \in 1..n, NEW i \in Nat PROVE G[j][i] = G[i % j][j]
  BY <1>3, <1>4
<1> QED
  BY <1>1, <1>5, <1>6, <1>7
\* It divides both.
LEMMA GcdDivides ==
  ASSUME NEW m \in Nat, NEW n \in Nat \ {0}
  PROVE  /\ Law!Gcd(m, n) \in Nat \ {0}
         /\ \E u \in Nat : m = u * Law!Gcd(m, n)
         /\ \E v \in Nat \ {0} : n = v * Law!Gcd(m, n)
<1>1. PICK G : G = RowsTo(n)
  OBVIOUS
<1>2. /\ n \in Nat
      /\ \A i \in Nat : G[0][i] = i
      /\ \A j \in 1..n, i \in Nat : G[j][i] = G[i % j][j]
      /\ Law!Gcd(m, n) = G[n][m]
  BY <1>1, RowsAre
<1> DEFINE Good(j, i) == /\ G[j][i] \in Nat \ {0}
                         /\ \E u \in Nat : i = u * G[j][i]
                         /\ \E v \in Nat : j = v * G[j][i]
           T == {j \in 0..n : \A k \in 0..j, i \in Nat : k + i # 0 => Good(k, i)}
<1>3. 0 \in T
  <2>1. ASSUME NEW i \in Nat, i # 0 PROVE Good(0, i)
    <3>1. G[0][i] = i
      BY <1>2
    <3>2. i = 1 * i /\ 0 = 0 * i /\ i \in Nat \ {0}
      BY <2>1
    <3> QED
      BY <3>1, <3>2
  <2>2. \A k \in 0..0 : k = 0 /\ \A i \in Nat : k + i # 0 => i # 0
    OBVIOUS
  <2> HIDE DEF Good
  <2>3. \A k \in 0..0, i \in Nat : k + i # 0 => Good(k, i)
    BY <2>1, <2>2
  <2> QED
    BY <1>2, <2>3
<1>4. \A j \in 0..(n - 1) : j \in T => j + 1 \in T
  <2> SUFFICES ASSUME NEW j \in 0..(n - 1),
                      \A k \in 0..j, i \in Nat : k + i # 0 => Good(k, i)
               PROVE  j + 1 \in T
    OBVIOUS
  <2>1. PICK l : l = j + 1
    OBVIOUS
  <2>2. l \in 1..n /\ l \in 0..n /\ l \in Nat \ {0} /\ l - 1 = j
    BY <2>1
  <2>3. ASSUME NEW i \in Nat PROVE Good(l, i)
    <3>1. PICK r, q : r = i % l /\ q = i \div l
      OBVIOUS
    <3>2. r \in 0..j /\ r \in Nat /\ q \in Nat /\ i = l * q + r
      <4>1. r \in 0..(l - 1)
        <5>1. 1 \in Nat \ {0}
          OBVIOUS
        <5> QED
          BY <2>2, <3>1, <5>1, RestScales
      <4>2. q \in Nat /\ i = l * q + r
        BY <2>2, <3>1
      <4> QED
        BY <2>2, <4>1, <4>2
    <3>3. Good(r, l)
      <4>1. r + l # 0
        BY <2>2, <3>2
      <4> HIDE DEF Good
      <4> QED
        BY <2>2, <3>2, <4>1
    <3>4. PICK g : g = G[r][l]
      OBVIOUS
    <3>5. g \in Nat \ {0} /\ G[l][i] = g
      BY <1>2, <2>2, <3>1, <3>3, <3>4
    <3>6. PICK u \in Nat, v \in Nat : l = u * g /\ r = v * g
      BY <3>3, <3>4
    <3>7. u * q + v \in Nat /\ i = (u * q + v) * g
      BY <3>2, <3>5, <3>6
    <3> QED
      BY <3>5, <3>6, <3>7
  <2>4. \A k \in 0..l : k \in 0..j \/ k = l
    BY <2>1
  <2> HIDE DEF Good
  <2>5. \A k \in 0..l, i \in Nat : k + i # 0 => Good(k, i)
    BY <2>3, <2>4
  <2> QED
    BY <2>1, <2>2, <2>5
<1> HIDE DEF T, Good
<1>5. n \in T
  <2>1. \A j \in 0..n : j \in T
    BY <1>2, <1>3, <1>4, UpTo
  <2> QED
    BY <2>1
<1>6. Good(n, m)
  <2>1. n \in 0..n /\ n + m # 0
    OBVIOUS
  <2> QED
    BY <1>5, <2>1 DEF T
<1>7. PICK g : g = Law!Gcd(m, n)
  OBVIOUS
<1>8. /\ g \in Nat \ {0} /\ \E u \in Nat : m = u * g
      /\ \E v \in Nat : n = v * g
  BY <1>2, <1>6, <1>7 DEF Good
<1>9. PICK v \in Nat : n = v * g
  BY <1>8
<1>10. v # 0
  BY <1>8, <1>9
<1> QED
  BY <1>7, <1>8, <1>9, <1>10

\* ... and grows with them.
LEMMA GcdScales ==
  ASSUME NEW m \in Nat, NEW n \in Nat \ {0}, NEW k \in Nat \ {0}
  PROVE  Law!Gcd(k * m, k * n) = k * Law!Gcd(m, n)
<1>1. PICK G : G = RowsTo(n)
  OBVIOUS
<1>2. PICK N : N = k * n
  OBVIOUS
<1>3. N \in Nat \ {0}
  BY <1>2
<1>4. PICK F : F = RowsTo(N)
  OBVIOUS
<1>5. /\ n \in Nat
      /\ \A i \in Nat : G[0][i] = i
      /\ \A j \in 1..n, i \in Nat : G[j][i] = G[i % j][j]
      /\ Law!Gcd(m, n) = G[n][m]
  BY <1>1, RowsAre
<1>6. /\ \A i \in Nat : F[0][i] = i
      /\ \A j \in 1..N, i \in Nat : F[j][i] = F[i % j][j]
      /\ \A i : Law!Gcd(i, N) = F[N][i]
  <2>1. N \in Nat
    BY <1>3
  <2> QED
    BY <2>1, <1>4, RowsAre
<1> DEFINE Good(j, i) == F[k * j][k * i] = k * G[j][i]
           T == {j \in 0..n : \A l \in 0..j, i \in Nat : Good(l, i)}
<1>7. 0 \in T
  <2>1. \A i \in Nat : k * i \in Nat /\ k * 0 = 0
    OBVIOUS
  <2>2. \A i \in Nat : Good(0, i)
    BY <1>5, <1>6, <2>1
  <2>3. \A l \in 0..0 : l = 0
    OBVIOUS
  <2> HIDE DEF Good
  <2> QED
    BY <1>5, <2>2, <2>3
<1>8. \A j \in 0..(n - 1) : j \in T => j + 1 \in T
  <2> SUFFICES ASSUME NEW j \in 0..(n - 1), \A l \in 0..j, i \in Nat : Good(l, i)
               PROVE  j + 1 \in T
    OBVIOUS
  <2>1. PICK l : l = j + 1
    OBVIOUS
  <2>2. l \in 1..n /\ l \in 0..n /\ l \in Nat \ {0} /\ l - 1 = j
    BY <2>1
  <2>3. ASSUME NEW i \in Nat PROVE Good(l, i)
    <3>1. PICK r : r = i % l
      OBVIOUS
    <3>2. r \in 0..(l - 1) /\ (k * i) % (k * l) = k * r
      BY <2>2, <3>1, RestScales
    <3>3. Good(r, l)
      <4>1. r \in 0..j /\ l \in Nat
        BY <2>2, <3>2
      <4> HIDE DEF Good
      <4> QED
        BY <4>1
    <3>4. G[l][i] = G[r][l]
      BY <1>5, <2>2, <3>1
    <3>5. k * l \in 1..N /\ k * i \in Nat
      <4>1. k * l <= k * n /\ k * l \in Nat \ {0}
        BY <2>2
      <4> QED
        BY <1>2, <1>3, <4>1
    <3>6. F[k * l][k * i] = F[k * r][k * l]
      <4>1. PICK x, y : x = k * l /\ y = k * i
        OBVIOUS
      <4>2. F[x][y] = F[y % x][x]
        BY <1>6, <3>5, <4>1
      <4> QED
        BY <3>2, <4>1, <4>2
    <3> QED
      BY <3>3, <3>4, <3>6
  <2>4. \A e \in 0..l : e \in 0..j \/ e = l
    BY <2>1
  <2> HIDE DEF Good
  <2>5. \A e \in 0..l, i \in Nat : Good(e, i)
    BY <2>3, <2>4
  <2> QED
    BY <2>1, <2>2, <2>5
<1> HIDE DEF T
<1>9. n \in T
  <2>1. \A j \in 0..n : j \in T
    BY <1>5, <1>7, <1>8, UpTo
  <2> QED
    BY <2>1
<1>10. Good(n, m)
  <2>1. n \in 0..n
    OBVIOUS
  <2> HIDE DEF Good
  <2> QED
    BY <1>9, <2>1 DEF T
<1> QED
  BY <1>2, <1>5, <1>6, <1>10
Rat == Int \X (Nat \ {0})
Is(p, n, D) == p[1] * D = n * p[2]

LEMMA RatIs ==
  /\ \A p \in Rat : p[1] \in Int /\ p[2] \in Nat \ {0} /\ p = <<p[1], p[2]>>
  /\ \A n \in Int, d \in Nat \ {0} : <<n, d>> \in Rat
BY DEF Rat

\* A fraction is the numbers it was made of, divided by one and the same.
LEMMA FracIs ==
  ASSUME NEW n \in Int, NEW d \in Nat \ {0}
  PROVE  \E u \in Int, v \in Nat \ {0}, g \in Nat \ {0} :
           /\ Law!Frac(n, d) = <<u, v>> /\ n = u * g /\ d = v * g
           /\ g = Law!Gcd(Law!Size(n), d)
<1>1. PICK m : m = Law!Size(n)
  OBVIOUS
<1>2. m \in Nat /\ (m = n \/ m = -n)
  BY <1>1 DEF Law!Size
<1>3. Law!Size(d) = d
  BY DEF Law!Size
<1>4. PICK g : g = Law!Gcd(m, d)
  OBVIOUS
<1>5. /\ g \in Nat \ {0} /\ \E u \in Nat : m = u * g
      /\ \E v \in Nat \ {0} : d = v * g
  BY <1>2, <1>4, GcdDivides
<1>6. PICK w \in Nat, v \in Nat \ {0} : m = w * g /\ d = v * g
  BY <1>5
<1>7. PICK u \in Int : n = u * g
  <2>1. n = w * g \/ n = (-w) * g
    BY <1>2, <1>5, <1>6
  <2> QED
    BY <2>1
<1>8. Law!Frac(n, d) = <<n \div g, d \div g>>
  BY <1>1, <1>3, <1>4 DEF Law!Frac
<1>9. n \div g = u /\ d \div g = v
  <2>1. v \in Int
    OBVIOUS
  <2> QED
    BY <1>5, <1>6, <1>7, <2>1, ExactQuotient
<1> QED
  BY <1>1, <1>4, <1>5, <1>6, <1>7, <1>8, <1>9

LEMMA FracValue ==
  ASSUME NEW n \in Int, NEW d \in Nat \ {0}
  PROVE  /\ Law!Frac(n, d) \in Rat
         /\ Is(Law!Frac(n, d), n, d)
<1>1. PICK u \in Int, v \in Nat \ {0}, g \in Nat \ {0} :
        /\ Law!Frac(n, d) = <<u, v>> /\ n = u * g /\ d = v * g
        /\ g = Law!Gcd(Law!Size(n), d)
  BY FracIs
<1>2. u * (v * g) = (u * g) * v
  OBVIOUS
<1>3. PICK p : p = Law!Frac(n, d)
  OBVIOUS
<1>4. p = <<u, v>>
  BY <1>1, <1>3
<1>5. p[1] = u /\ p[2] = v /\ p \in Rat
  BY <1>4, RatIs
<1> QED
  BY <1>1, <1>2, <1>3, <1>5 DEF Is

\* ... so that it is known by its value.
LEMMA FracScales ==
  ASSUME NEW n \in Int, NEW d \in Nat \ {0}, NEW k \in Nat \ {0}
  PROVE  Law!Frac(k * n, k * d) = Law!Frac(n, d)
<1>1. PICK N, D : N = k * n /\ D = k * d
  OBVIOUS
<1>2. N \in Int /\ D \in Nat \ {0}
  BY <1>1
<1>3. PICK u \in Int, v \in Nat \ {0}, g \in Nat \ {0} :
        /\ Law!Frac(n, d) = <<u, v>> /\ n = u * g /\ d = v * g
        /\ g = Law!Gcd(Law!Size(n), d)
  BY FracIs
<1>4. PICK w \in Int, x \in Nat \ {0}, h \in Nat \ {0} :
        /\ Law!Frac(N, D) = <<w, x>> /\ N = w * h /\ D = x * h
        /\ h = Law!Gcd(Law!Size(N), D)
  BY <1>2, FracIs
<1>5. h = k * g
  <2>1. PICK m : m = Law!Size(n)
    OBVIOUS
  <2>2. m \in Nat
    BY <2>1 DEF Law!Size
  <2>3. Law!Size(N) = k * m
    <3>1. n >= 0 => k * n >= 0 /\ k * n \in Nat
      OBVIOUS
    <3>2. n < 0 => k * n < 0 /\ -(k * n) = k * (-n)
      OBVIOUS
    <3> QED
      BY <1>1, <2>1, <3>1, <3>2 DEF Law!Size
  <2>4. Law!Gcd(k * m, k * d) = k * Law!Gcd(m, d)
    BY <2>2, GcdScales
  <2> QED
    BY <1>1, <1>3, <1>4, <2>1, <2>3, <2>4
<1>6. w = u
  <2>1. h * w = h * u
    <3>1. k * (u * g) = (k * g) * u /\ w * h = h * w
      OBVIOUS
    <3> QED
      BY <1>1, <1>3, <1>4, <1>5, <3>1
  <2> QED
    BY <2>1, ExactQuotient
<1>7. x = v
  <2>1. h * x = h * v
    <3>1. k * (v * g) = (k * g) * v /\ x * h = h * x
      OBVIOUS
    <3> QED
      BY <1>1, <1>3, <1>4, <1>5, <3>1
  <2> QED
    BY <2>1
<1> QED
  BY <1>1, <1>3, <1>4, <1>6, <1>7

LEMMA FracSame ==
  ASSUME NEW n \in Int, NEW d \in Nat \ {0}, NEW m \in Int, NEW e \in Nat \ {0}
  PROVE  n * e = m * d <=> Law!Frac(n, d) = Law!Frac(m, e)
<1>1. ASSUME n * e = m * d PROVE Law!Frac(n, d) = Law!Frac(m, e)
  <2>1. Law!Frac(e * n, e * d) = Law!Frac(n, d)
    BY FracScales
  <2>2. Law!Frac(d * m, d * e) = Law!Frac(m, e)
    BY FracScales
  <2>3. e * n = d * m /\ e * d = d * e
    BY <1>1
  <2> QED
    BY <2>1, <2>2, <2>3
<1>2. ASSUME Law!Frac(n, d) = Law!Frac(m, e) PROVE n * e = m * d
  <2>1. PICK u \in Int, v \in Nat \ {0}, g \in Nat \ {0} :
          /\ Law!Frac(n, d) = <<u, v>> /\ n = u * g /\ d = v * g
          /\ g = Law!Gcd(Law!Size(n), d)
    BY FracIs
  <2>2. PICK w \in Int, x \in Nat \ {0}, h \in Nat \ {0} :
          /\ Law!Frac(m, e) = <<w, x>> /\ m = w * h /\ e = x * h
          /\ h = Law!Gcd(Law!Size(m), e)
    BY FracIs
  <2>3. u = w /\ v = x
    <3>1. <<u, v>> = <<w, x>>
      BY <1>2, <2>1, <2>2
    <3> QED
      BY <3>1
  <2>4. (u * g) * (v * h) = (u * h) * (v * g)
    OBVIOUS
  <2> QED
    BY <2>1, <2>2, <2>3, <2>4
<1> QED
  BY <1>1, <1>2
\* Sums, differences, products and quotients have the values they should, and a
\* sum or a difference is in lowest terms.
LEMMA PlusValue ==
  ASSUME NEW p \in Rat, NEW q \in Rat, NEW n \in Int, NEW m \in Int,
         NEW D \in Nat \ {0}, Is(p, n, D), Is(q, m, D)
  PROVE  /\ Law!Plus(p, q) = Law!Frac(n + m, D)
         /\ Law!Plus(p, q) \in Rat /\ Is(Law!Plus(p, q), n + m, D)
<1>1. PICK a, d, c, e : a = p[1] /\ d = p[2] /\ c = q[1] /\ e = q[2]
  OBVIOUS
<1>2. a \in Int /\ c \in Int /\ d \in Nat \ {0} /\ e \in Nat \ {0}
  BY <1>1, RatIs
<1>3. a * D = n * d /\ c * D = m * e
  BY <1>1 DEF Is
<1>4. PICK g : g = Law!Gcd(d, e)
  OBVIOUS
<1>5. PICK u \in Int, v \in Nat \ {0} : d = u * g /\ e = v * g /\ g \in Nat \ {0}
  <2>1. d \in Nat
    BY <1>2
  <2>2. /\ g \in Nat \ {0} /\ \E u \in Nat : d = u * g
        /\ \E v \in Nat \ {0} : e = v * g
    BY <1>2, <1>4, <2>1, GcdDivides
  <2> QED
    BY <2>2
<1>6. d \div g = u /\ e \div g = v
  <2>1. v \in Int
    OBVIOUS
  <2> QED
    BY <1>5, <2>1, ExactQuotient
<1>7. Law!Plus(p, q) = Law!Frac(a * v + c * u, d * v)
  BY <1>1, <1>4, <1>6 DEF Law!Plus
<1>8. a * v + c * u \in Int /\ d * v \in Nat \ {0} /\ n + m \in Int
  BY <1>2
<1>9. (a * v + c * u) * D = (n + m) * (d * v)
  <2>1. (a * v + c * u) * D = (a * D) * v + (c * D) * u
    BY <1>2
  <2>2. (n * d) * v + (m * (v * g)) * u = n * (d * v) + m * ((u * g) * v)
    BY <1>2, <1>5
  <2>3. n * (d * v) + m * (d * v) = (n + m) * (d * v)
    BY <1>2
  <2> QED
    BY <1>3, <1>5, <2>1, <2>2, <2>3
<1>10. Law!Plus(p, q) = Law!Frac(n + m, D)
  BY <1>7, <1>8, <1>9, FracSame
<1> QED
  BY <1>8, <1>10, FracValue

LEMMA MinusValue ==
  ASSUME NEW p \in Rat, NEW q \in Rat, NEW n \in Int, NEW m \in Int,
         NEW D \in Nat \ {0}, Is(p, n, D), Is(q, m, D)
  PROVE  /\ Law!Minus(p, q) = Law!Frac(n - m, D)
         /\ Law!Minus(p, q) \in Rat /\ Is(Law!Minus(p, q), n - m, D)
<1>1. PICK c, e : c = q[1] /\ e = q[2]
  OBVIOUS
<1>2. c \in Int /\ e \in Nat \ {0}
  BY <1>1, RatIs
<1>3. PICK r : r = <<-c, e>>
  OBVIOUS
<1>4. r \in Rat /\ r[1] = -c /\ r[2] = e
  BY <1>2, <1>3, RatIs
<1>5. Is(r, -m, D)
  <2>1. c * D = m * e
    BY <1>1 DEF Is
  <2>2. (-c) * D = -(c * D) /\ (-m) * e = -(m * e)
    BY <1>2
  <2> QED
    BY <1>4, <2>1, <2>2 DEF Is
<1>6. PICK k : k = -m
  OBVIOUS
<1>7. k \in Int /\ n + k = n - m
  BY <1>6
<1>8. /\ Law!Plus(p, r) = Law!Frac(n + k, D)
      /\ Law!Plus(p, r) \in Rat /\ Is(Law!Plus(p, r), n + k, D)
  BY <1>4, <1>5, <1>6, <1>7, PlusValue
<1>9. Law!Minus(p, q) = Law!Plus(p, r)
  BY <1>1, <1>3 DEF Law!Minus
<1> QED
  BY <1>7, <1>8, <1>9

LEMMA TimesValue ==
  ASSUME NEW p \in Rat, NEW q \in Rat, NEW n \in Int, NEW m \in Int,
         NEW D \in Nat \ {0}, NEW E \in Nat \ {0}, Is(p, n, D), Is(q, m, E)
  PROVE  /\ Law!Times(p, q) = Law!Frac(n * m, D * E)
         /\ Law!Times(p, q) \in Rat /\ Is(Law!Times(p, q), n * m, D * E)
<1>1. PICK a, d, c, e : a = p[1] /\ d = p[2] /\ c = q[1] /\ e = q[2]
  OBVIOUS
<1>2. a \in Int /\ c \in Int /\ d \in Nat \ {0} /\ e \in Nat \ {0}
  BY <1>1, RatIs
<1>3. PICK x, y : x = Law!Frac(a, e) /\ y = Law!Frac(c, d)
  OBVIOUS
<1>4. x \in Rat /\ y \in Rat /\ Is(x, a, e) /\ Is(y, c, d)
  BY <1>2, <1>3, FracValue
<1>5. PICK i, j, k, l : i = x[1] /\ j = x[2] /\ k = y[1] /\ l = y[2]
  OBVIOUS
<1>6. i \in Int /\ k \in Int /\ j \in Nat \ {0} /\ l \in Nat \ {0}
  BY <1>4, <1>5, RatIs
<1>7. i * e = a * j /\ k * d = c * l /\ a * D = n * d /\ c * E = m * e
  BY <1>1, <1>4, <1>5 DEF Is
<1>8. Law!Times(p, q) = Law!Frac(i * k, j * l)
  BY <1>1, <1>3, <1>5 DEF Law!Times
<1>9. /\ i * k \in Int /\ j * l \in Nat \ {0}
      /\ n * m \in Int /\ D * E \in Nat \ {0}
  BY <1>6
<1>10. (i * k) * (D * E) = (n * m) * (j * l)
  <2>1. d * e # 0 /\ d * e \in Nat
    BY <1>2
  <2>2. ((i * k) * (D * E)) * (d * e) = ((i * e) * (k * d)) * (D * E)
    BY <1>2, <1>6
  <2>3. ((a * j) * (c * l)) * (D * E) = ((a * D) * (c * E)) * (j * l)
    BY <1>2, <1>6
  <2>4. ((n * d) * (m * e)) * (j * l) = ((n * m) * (j * l)) * (d * e)
    BY <1>2, <1>6
  <2>5. ((i * k) * (D * E)) * (d * e) = ((n * m) * (j * l)) * (d * e)
    BY <1>7, <2>2, <2>3, <2>4
  <2>6. PICK f, g, h : f = (i * k) * (D * E) /\ g = (n * m) * (j * l) /\ h = d * e
    OBVIOUS
  <2>7. f \in Int /\ g \in Int /\ h \in Nat \ {0} /\ f * h = g * h
    BY <1>2, <1>6, <2>1, <2>5, <2>6
  <2> QED
    BY <2>6, <2>7
<1>11. Law!Times(p, q) = Law!Frac(n * m, D * E)
  BY <1>8, <1>9, <1>10, FracSame
<1> QED
  BY <1>9, <1>11, FracValue

LEMMA OverValue ==
  ASSUME NEW p \in Rat, NEW q \in Rat, NEW n \in Int, NEW m \in Nat \ {0},
         NEW D \in Nat \ {0}, NEW E \in Nat \ {0}, Is(p, n, D), Is(q, m, E)
  PROVE  /\ Law!Over(p, q) = Law!Frac(n * E, D * m)
         /\ Law!Over(p, q) \in Rat /\ Is(Law!Over(p, q), n * E, D * m)
<1>1. PICK c, e : c = q[1] /\ e = q[2]
  OBVIOUS
<1>2. c \in Int /\ e \in Nat \ {0} /\ c * E = m * e
  BY <1>1, RatIs DEF Is
<1>3. c > 0
  <2>1. m * e > 0
    BY <1>2
  <2>2. c <= 0 => c * E <= 0
    BY <1>2
  <2> QED
    BY <1>2, <2>1, <2>2
<1>4. PICK r : r = <<e, c>>
  OBVIOUS
<1>5. r \in Rat /\ r[1] = e /\ r[2] = c
  <2>1. e \in Int /\ c \in Nat \ {0}
    BY <1>2, <1>3
  <2> QED
    BY <1>4, <2>1, RatIs
<1>6. Is(r, E, m)
  <2>1. e * m = E * c
    BY <1>2
  <2> QED
    BY <1>5, <2>1 DEF Is
<1>7. Law!Over(p, q) = Law!Times(p, r)
  BY <1>1, <1>3, <1>4 DEF Law!Over
<1>8. E \in Int
  OBVIOUS
<1> QED
  BY <1>5, <1>6, <1>7, <1>8, TimesValue

\* A fraction has one value, and is that of any numbers in the same proportion.
LEMMA OneValue ==
  ASSUME NEW p \in Rat, NEW n \in Int, NEW D \in Nat \ {0}, Is(p, n, D),
         NEW m \in Int, NEW E \in Nat \ {0}
  PROVE  Is(p, m, E) <=> n * E = m * D
<1>1. PICK a, d : a = p[1] /\ d = p[2]
  OBVIOUS
<1>2. a \in Int /\ d \in Nat \ {0} /\ a * D = n * d
  BY <1>1, RatIs DEF Is
<1>3. ASSUME a * E = m * d PROVE n * E = m * D
  <2>1. (n * E) * d = (a * D) * E /\ (m * D) * d = (a * E) * D
    BY <1>2, <1>3
  <2>2. PICK f, g : f = n * E /\ g = m * D
    OBVIOUS
  <2>3. f \in Int /\ g \in Int /\ f * d = g * d
    BY <1>2, <2>1, <2>2
  <2> QED
    BY <1>2, <2>2, <2>3
<1>4. ASSUME n * E = m * D PROVE a * E = m * d
  <2>1. (a * E) * D = (n * d) * E /\ (m * d) * D = (n * E) * d
    BY <1>2, <1>4
  <2>2. PICK f, g : f = a * E /\ g = m * d
    OBVIOUS
  <2>3. f \in Int /\ g \in Int /\ f * D = g * D
    BY <1>2, <2>1, <2>2
  <2> QED
    BY <1>2, <2>2, <2>3
<1> QED
  BY <1>1, <1>3, <1>4 DEF Is
LEMMA IsScaled ==
  ASSUME NEW p \in Rat, NEW n \in Int, NEW D \in Nat \ {0}, Is(p, n, D),
         NEW k \in Nat \ {0}
  PROVE  k * n \in Int /\ k * D \in Nat \ {0} /\ Is(p, k * n, k * D)
<1>1. PICK m, E : m = k * n /\ E = k * D
  OBVIOUS
<1>2. m \in Int /\ E \in Nat \ {0}
  BY <1>1
<1>3. n * E = m * D
  BY <1>1
<1> QED
  BY <1>1, <1>2, <1>3, OneValue

\* Five fractions have a common denominator, which is a multiple of a given one.
Shared(p, q, r, t, w, E) ==
  \E k \in Nat \ {0}, D \in Nat \ {0} :
    /\ D = k * E
    /\ \E n \in Int : Is(p, n, D)
    /\ \E n \in Int : Is(q, n, D)
    /\ \E n \in Int : Is(r, n, D)
    /\ \E n \in Int : Is(t, n, D)
    /\ \E n \in Int : Is(w, n, D)

LEMMA Common ==
  ASSUME NEW p \in Rat, NEW q \in Rat, NEW r \in Rat, NEW t \in Rat, NEW w \in Rat,
         NEW E \in Nat \ {0}
  PROVE  Shared(p, q, r, t, w, E)
<1>1. ASSUME NEW x \in Rat, NEW D \in Nat \ {0}
      PROVE  \E k \in Nat \ {0}, F \in Nat \ {0} :
               F = k * D /\ \E n \in Int : Is(x, n, F)
  <2>1. PICK n, d : n = x[1] /\ d = x[2]
    OBVIOUS
  <2>2. n \in Int /\ d \in Nat \ {0}
    BY <2>1, RatIs
  <2>3. n * D \in Int /\ n * (d * D) = (n * D) * d
    BY <2>2
  <2>4. d * D \in Nat \ {0} /\ Is(x, n * D, d * D)
    BY <2>1, <2>2, <2>3 DEF Is
  <2> QED
    BY <2>2, <2>3, <2>4
<1>2. ASSUME NEW x \in Rat, NEW D \in Nat \ {0}, NEW n \in Int, Is(x, n, D),
             NEW k \in Nat \ {0}
      PROVE  \E m \in Int : Is(x, m, k * D)
  BY <1>2, IsScaled
<1>3. PICK i \in Nat \ {0}, A \in Nat \ {0} : A = i * E /\ \E n \in Int : Is(p, n, A)
  BY <1>1
<1>4. A \in Nat \ {0}
  BY <1>3
<1>5. PICK j \in Nat \ {0}, F \in Nat \ {0} : F = j * A /\ \E n \in Int : Is(q, n, F)
  BY <1>1, <1>4
<1>6. F \in Nat \ {0}
  BY <1>4, <1>5
<1>7. PICK l \in Nat \ {0}, G \in Nat \ {0} : G = l * F /\ \E n \in Int : Is(r, n, G)
  BY <1>1, <1>6
<1>8. G \in Nat \ {0}
  BY <1>6, <1>7
<1>9. PICK m \in Nat \ {0}, K \in Nat \ {0} : K = m * G /\ \E n \in Int : Is(t, n, K)
  BY <1>1, <1>8
<1>10. K \in Nat \ {0}
  BY <1>8, <1>9
<1>11. PICK o \in Nat \ {0}, D \in Nat \ {0} : D = o * K /\ \E n \in Int : Is(w, n, D)
  BY <1>1, <1>10
<1>12. D \in Nat \ {0}
  BY <1>10, <1>11
<1>13. \E n \in Int : Is(t, n, D)
  BY <1>2, <1>9, <1>10, <1>11
<1>14. \E n \in Int : Is(r, n, K)
  BY <1>2, <1>7, <1>8, <1>9
<1>15. \E n \in Int : Is(r, n, D)
  BY <1>2, <1>10, <1>11, <1>14
<1>16. \E n \in Int : Is(q, n, G)
  BY <1>2, <1>5, <1>6, <1>7
<1>17. \E n \in Int : Is(q, n, K)
  BY <1>2, <1>8, <1>9, <1>16
<1>18. \E n \in Int : Is(q, n, D)
  BY <1>2, <1>10, <1>11, <1>17
<1>19. \E n \in Int : Is(p, n, F)
  BY <1>2, <1>3, <1>4, <1>5
<1>20. \E n \in Int : Is(p, n, G)
  BY <1>2, <1>6, <1>7, <1>19
<1>21. \E n \in Int : Is(p, n, K)
  BY <1>2, <1>8, <1>9, <1>20
<1>22. \E n \in Int : Is(p, n, D)
  BY <1>2, <1>10, <1>11, <1>21
<1>23. PICK k : k = (((o * m) * l) * j) * i
  OBVIOUS
<1>24. k \in Nat \ {0}
  <2>1. o * m \in Nat \ {0}
    OBVIOUS
  <2>2. (o * m) * l \in Nat \ {0}
    BY <2>1
  <2>3. ((o * m) * l) * j \in Nat \ {0}
    BY <2>2
  <2> QED
    BY <1>23, <2>3
<1>25. D = k * E
  BY <1>3, <1>5, <1>7, <1>9, <1>11, <1>23
<1> QED
  BY <1>11, <1>12, <1>13, <1>15, <1>18, <1>22, <1>24, <1>25 DEF Shared

\* Fractions are compared by their values.
LEMMA LeqValue ==
  ASSUME NEW p \in Rat, NEW q \in Rat, NEW n \in Int, NEW m \in Int,
         NEW D \in Nat \ {0}, NEW E \in Nat \ {0}, Is(p, n, D), Is(q, m, E)
  PROVE  Law!Leq(p, q) <=> n * E <= m * D
<1>1. PICK a, d, c, e : a = p[1] /\ d = p[2] /\ c = q[1] /\ e = q[2]
  OBVIOUS
<1>2. a \in Int /\ c \in Int /\ d \in Nat \ {0} /\ e \in Nat \ {0}
  BY <1>1, RatIs
<1>3. a * D = n * d /\ c * E = m * e
  BY <1>1 DEF Is
<1>4. Law!Leq(p, q) <=> a * e <= c * d
  BY <1>1 DEF Law!Leq
<1>5. (a * e) * (D * E) = (n * E) * (d * e)
  <2>1. (a * e) * (D * E) = (a * D) * (e * E) /\ (n * d) * (e * E) = (n * E) * (d * e)
    BY <1>2
  <2> QED
    BY <1>3, <2>1
<1>6. (c * d) * (D * E) = (m * D) * (d * e)
  <2>1. (c * d) * (D * E) = (c * E) * (d * D) /\ (m * e) * (d * D) = (m * D) * (d * e)
    BY <1>2
  <2> QED
    BY <1>3, <2>1
<1>7. D * E \in Nat \ {0} /\ d * e \in Nat \ {0}
  BY <1>2
<1>8. PICK f, g, h, i, j, k : /\ f = a * e /\ g = c * d /\ h = D * E
                              /\ i = n * E /\ j = m * D /\ k = d * e
  OBVIOUS
<1>9. /\ f \in Int /\ g \in Int /\ i \in Int /\ j \in Int
      /\ h \in Nat \ {0} /\ k \in Nat \ {0}
      /\ f * h = i * k /\ g * h = j * k
  BY <1>2, <1>5, <1>6, <1>7, <1>8
<1>10. f <= g <=> f * h <= g * h
  BY <1>9
<1>11. i <= j <=> i * k <= j * k
  BY <1>9
<1> QED
  BY <1>4, <1>8, <1>9, <1>10, <1>11
\* What a position holds at a price within its range, by unit of liquidity: its
\* worth is the value function there.
LEMMA HeldAre ==
  ASSUME NEW p \in Nat \ {0}, NEW lo \in Int, NEW hi \in Int, lo <= p, p <= hi
  PROVE  /\ hi \in Nat \ {0}
         /\ Law!Held0(p, lo, hi) \in Rat /\ Is(Law!Held0(p, lo, hi), p * (hi - p), hi)
         /\ Law!Held1(p, lo, hi) \in Rat /\ Is(Law!Held1(p, lo, hi), p - lo, 1)
         /\ Law!Worth(p, lo, hi) \in Rat
         /\ Is(Law!Worth(p, lo, hi), p * (hi - p) + (p - lo) * hi, hi)
         /\ Law!Phi(p, lo, hi) = Law!Worth(p, lo, hi)
<1>1. hi \in Nat \ {0} /\ 1 \in Nat \ {0}
  OBVIOUS
<1>2. Law!Clamped(p, lo, hi) = p
  BY DEF Law!Clamped
<1>3. PICK h : h = Law!Held0(p, lo, hi)
  OBVIOUS
<1>4. h \in Rat /\ Is(h, p * (hi - p), hi)
  <2>1. PICK n, d : n = p * p * (hi - p) /\ d = p * hi
    OBVIOUS
  <2>2. n \in Int /\ d \in Nat \ {0}
    BY <1>1, <2>1
  <2>3. h = Law!Frac(n, d)
    BY <1>2, <1>3, <2>1 DEF Law!Held0
  <2>4. h \in Rat /\ Is(h, n, d)
    BY <2>2, <2>3, FracValue
  <2>5. PICK m : m = p * (hi - p)
    OBVIOUS
  <2>6. m \in Int /\ n * hi = m * d
    <3>1. (p * p * (hi - p)) * hi = (p * (hi - p)) * (p * hi)
      OBVIOUS
    <3> QED
      BY <2>1, <2>5, <3>1
  <2> QED
    BY <1>1, <2>2, <2>4, <2>5, <2>6, OneValue
<1>5. PICK g : g = Law!Held1(p, lo, hi)
  OBVIOUS
<1>6. g \in Rat /\ Is(g, p - lo, 1) /\ Is(g, (p - lo) * hi, hi)
  <2>1. PICK n : n = p - lo
    OBVIOUS
  <2>2. n \in Int /\ g = <<n, 1>>
    BY <1>2, <1>5, <2>1 DEF Law!Held1, Law!Whole
  <2>3. g \in Rat /\ g[1] = n /\ g[2] = 1
    BY <1>1, <2>2, RatIs
  <2>4. n * 1 = n * 1 /\ n * hi = (n * hi) * 1
    BY <2>2
  <2> QED
    BY <2>1, <2>3, <2>4 DEF Is
<1>7. PICK m, n : m = p * (hi - p) /\ n = (p - lo) * hi
  OBVIOUS
<1>8. m \in Int /\ n \in Int
  BY <1>7
<1>9. Law!Worth(p, lo, hi) = Law!Plus(h, g)
  BY <1>3, <1>5 DEF Law!Worth
<1>10. /\ Law!Plus(h, g) = Law!Frac(m + n, hi)
       /\ Law!Plus(h, g) \in Rat /\ Is(Law!Plus(h, g), m + n, hi)
  BY <1>1, <1>4, <1>6, <1>7, <1>8, PlusValue
<1>11. Law!Phi(p, lo, hi) = Law!Frac(m + n, hi)
  <2>1. PICK q, r : q = Law!Whole(2 * p - lo) /\ r = Law!Frac(p * p, hi)
    OBVIOUS
  <2>2. p * p \in Int /\ 2 * p - lo \in Int
    OBVIOUS
  <2>3. r \in Rat /\ Is(r, p * p, hi)
    BY <1>1, <2>1, <2>2, FracValue
  <2>4. q \in Rat /\ Is(q, (2 * p - lo) * hi, hi)
    <3>1. PICK k : k = 2 * p - lo
      OBVIOUS
    <3>2. k \in Int /\ q = <<k, 1>>
      BY <2>1, <3>1 DEF Law!Whole
    <3>3. q \in Rat /\ q[1] = k /\ q[2] = 1
      BY <1>1, <3>2, RatIs
    <3>4. k * hi = (k * hi) * 1
      BY <3>2
    <3> QED
      BY <3>1, <3>3, <3>4 DEF Is
  <2>5. PICK i, j : i = (2 * p - lo) * hi /\ j = p * p
    OBVIOUS
  <2>6. i \in Int /\ j \in Int /\ i - j = m + n
    BY <1>7, <2>5
  <2>7. Law!Minus(q, r) = Law!Frac(i - j, hi)
    BY <1>1, <2>3, <2>4, <2>5, <2>6, MinusValue
  <2> QED
    BY <2>1, <2>6, <2>7 DEF Law!Phi
<1> QED
  BY <1>1, <1>3, <1>4, <1>5, <1>6, <1>7, <1>9, <1>10, <1>11
\* What each of the two amounts mints.
LEMMA SidesAre ==
  ASSUME NEW p \in Nat \ {0}, NEW lo \in Int, NEW hi \in Int, NEW lo2 \in Int,
         NEW hi2 \in Int, lo <= p, p <= hi, lo2 < p, p < hi2
  PROVE  LET r == Law!Over(Law!Held0(p, lo, hi), Law!Held0(p, lo2, hi2))
             t == Law!Over(Law!Held1(p, lo, hi), Law!Held1(p, lo2, hi2))
         IN  /\ hi \in Nat \ {0} /\ hi2 \in Nat \ {0}
             /\ hi * (hi2 - p) \in Nat \ {0} /\ p - lo2 \in Nat \ {0}
             /\ r \in Rat /\ Is(r, (hi - p) * hi2, hi * (hi2 - p))
             /\ t \in Rat /\ Is(t, p - lo, p - lo2)
             /\ Law!MintMin(p, lo, hi, lo2, hi2) = Law!Least(r, t)
<1>1. PICK h, k, g, l : /\ h = Law!Held0(p, lo, hi) /\ k = Law!Held0(p, lo2, hi2)
                        /\ g = Law!Held1(p, lo, hi) /\ l = Law!Held1(p, lo2, hi2)
  OBVIOUS
<1>2. PICK i, j, m, n : /\ i = p * (hi - p) /\ j = p * (hi2 - p)
                        /\ m = p - lo /\ n = p - lo2
  OBVIOUS
<1>3. /\ i \in Int /\ j \in Nat \ {0} /\ m \in Int /\ n \in Nat \ {0}
      /\ hi2 - p \in Nat \ {0} /\ 1 \in Nat \ {0}
  <2>1. hi2 - p \in Nat \ {0} /\ p - lo2 \in Nat \ {0}
    OBVIOUS
  <2> QED
    BY <1>2, <2>1
<1>4. hi \in Nat \ {0} /\ h \in Rat /\ Is(h, i, hi) /\ g \in Rat /\ Is(g, m, 1)
  BY <1>1, <1>2, HeldAre
<1>5. hi2 \in Nat \ {0} /\ k \in Rat /\ Is(k, j, hi2) /\ l \in Rat /\ Is(l, n, 1)
  <2>1. lo2 <= p /\ p <= hi2
    OBVIOUS
  <2> QED
    BY <1>1, <1>2, <2>1, HeldAre
<1>6. PICK r, t : r = Law!Over(h, k) /\ t = Law!Over(g, l)
  OBVIOUS
<1>7. r \in Rat /\ Is(r, i * hi2, hi * j)
  BY <1>3, <1>4, <1>5, <1>6, OverValue
<1>8. t \in Rat /\ Is(t, m * 1, 1 * n)
  BY <1>3, <1>4, <1>5, <1>6, OverValue
<1>9. hi * (hi2 - p) \in Nat \ {0}
  BY <1>3, <1>4
<1>10. Is(r, (hi - p) * hi2, hi * (hi2 - p))
  <2>1. PICK o, e, c, f : /\ o = i * hi2 /\ e = hi * j
                          /\ c = (hi - p) * hi2 /\ f = hi * (hi2 - p)
    OBVIOUS
  <2>2. o \in Int /\ c \in Int /\ e \in Nat \ {0} /\ f \in Nat \ {0}
    BY <1>3, <1>4, <1>5, <1>9, <2>1
  <2>3. o * f = c * e
    <3>1. ((p * (hi - p)) * hi2) * (hi * (hi2 - p)) = ((hi - p) * hi2) * (hi * (p * (hi2 - p)))
      BY <1>4, <1>5
    <3> QED
      BY <1>2, <2>1, <3>1
  <2> QED
    BY <1>7, <2>1, <2>2, <2>3, OneValue
<1>11. m * 1 = m /\ 1 * n = n
  BY <1>3
<1>12. Law!MintMin(p, lo, hi, lo2, hi2) = Law!Least(r, t)
  BY <1>1, <1>6 DEF Law!MintMin
<1> QED
  BY <1>1, <1>2, <1>3, <1>4, <1>5, <1>6, <1>7, <1>8, <1>9, <1>10, <1>11, <1>12

SameWidth(lo, hi, lo2, hi2) == hi - lo = hi2 - lo2

\* Widths kept, the side that binds is token0 above the middle of the new range
\* and token1 below.
LEMMA MintIs ==
  ASSUME NEW p \in Nat \ {0}, NEW lo \in Int, NEW hi \in Int, NEW lo2 \in Int,
         NEW hi2 \in Int, lo <= p, p <= hi, lo2 < p, p < hi2, SameWidth(lo, hi, lo2, hi2)
  PROVE  LET m == Law!MintMin(p, lo, hi, lo2, hi2)
         IN  /\ m \in Rat
             /\ lo <= lo2 => Is(m, (hi - p) * hi2, hi * (hi2 - p))
             /\ lo2 <= lo => Is(m, p - lo, p - lo2)
<1>1. PICK r, t : /\ r = Law!Over(Law!Held0(p, lo, hi), Law!Held0(p, lo2, hi2))
                  /\ t = Law!Over(Law!Held1(p, lo, hi), Law!Held1(p, lo2, hi2))
  OBVIOUS
<1>2. PICK i, j, m, n : /\ i = (hi - p) * hi2 /\ j = hi * (hi2 - p)
                        /\ m = p - lo /\ n = p - lo2
  OBVIOUS
<1>3. /\ hi \in Nat \ {0} /\ hi2 \in Nat \ {0}
      /\ j \in Nat \ {0} /\ n \in Nat \ {0}
      /\ r \in Rat /\ Is(r, i, j) /\ t \in Rat /\ Is(t, m, n)
      /\ Law!MintMin(p, lo, hi, lo2, hi2) = Law!Least(r, t)
  BY <1>1, <1>2, SidesAre
<1>4. i \in Int /\ m \in Int
  BY <1>2, <1>3
<1>5. Law!Leq(r, t) <=> i * n <= m * j
  BY <1>3, <1>4, LeqValue
<1>6. i - j = p * (lo - lo2)
  <2>1. (hi - p) * hi2 - hi * (hi2 - p) = p * (hi - hi2)
    BY <1>3
  <2>2. hi - hi2 = lo - lo2
    BY DEF SameWidth
  <2> QED
    BY <1>2, <2>1, <2>2
<1>7. m - n = lo2 - lo
  BY <1>2
<1>8. i * n - m * j = (lo - lo2) * (p * n + j)
  <2>1. i = j + p * (lo - lo2) /\ m = n + (lo2 - lo)
    BY <1>3, <1>4, <1>6, <1>7
  <2>2. (j + p * (lo - lo2)) * n - (n + (lo2 - lo)) * j = (lo - lo2) * (p * n + j)
    BY <1>3
  <2> QED
    BY <2>1, <2>2
<1>9. PICK c, d : c = lo - lo2 /\ d = p * n + j
  OBVIOUS
<1>10. c \in Int /\ d \in Nat \ {0} /\ i * n - m * j = c * d
  BY <1>3, <1>8, <1>9
<1>11. i * n \in Int /\ m * j \in Int
  BY <1>3, <1>4
<1>12. CASE lo < lo2
  <2>1. c < 0
    BY <1>9, <1>12
  <2>2. c * d < 0
    BY <1>10, <2>1
  <2>3. Law!Leq(r, t)
    BY <1>5, <1>10, <1>11, <2>2
  <2> QED
    BY <1>2, <1>3, <1>12, <2>3 DEF Law!Least
<1>13. CASE lo2 < lo
  <2>1. c > 0
    BY <1>9, <1>13
  <2>2. c * d > 0
    BY <1>10, <2>1
  <2>3. ~Law!Leq(r, t)
    BY <1>5, <1>10, <1>11, <2>2
  <2> QED
    BY <1>2, <1>3, <1>13, <2>3 DEF Law!Least
<1>14. CASE lo = lo2
  <2>1. c = 0
    BY <1>9, <1>14
  <2>2. i * n = m * j
    BY <1>10, <1>11, <2>1
  <2>3. Is(r, m, n)
    BY <1>3, <1>4, <2>2, OneValue
  <2>4. Law!Least(r, t) = r
    BY <1>5, <1>11, <2>2 DEF Law!Least
  <2> QED
    BY <1>2, <1>3, <2>3, <2>4
<1> QED
  BY <1>12, <1>13, <1>14
\* What a re-placement of the same width gives up: the residual, in lowest terms.
Kept(p, lo, hi, lo2, hi2) == Law!Times(Law!MintMin(p, lo, hi, lo2, hi2), Law!Phi(p, lo2, hi2))
Loss(p, lo, hi, lo2, hi2) == Law!Minus(Law!Phi(p, lo, hi), Kept(p, lo, hi, lo2, hi2))

\* The same as a fraction, by the side that binds.
Amount0(p, hi, hi2) == (hi - p) * hi2
Amount1(p, lo)      == p - lo
UpLoss(p, lo, hi, lo2, hi2) ==
  Amount1(p, lo) * Amount0(p, hi2, hi) - Amount0(p, hi, hi2) * Amount1(p, lo2)
DownLoss(p, lo, hi, lo2, hi2) == p * (-UpLoss(p, lo, hi, lo2, hi2))
DownUnit(p, hi, lo2, hi2) == hi * (hi2 * Amount1(p, lo2))

LEMMA LossIs ==
  ASSUME NEW p \in Nat \ {0}, NEW lo \in Int, NEW hi \in Int, NEW lo2 \in Int,
         NEW hi2 \in Int, lo <= p, p <= hi, lo2 < p, p < hi2, SameWidth(lo, hi, lo2, hi2)
  PROVE  /\ Kept(p, lo, hi, lo2, hi2) \in Rat
         /\ Loss(p, lo, hi, lo2, hi2) \in Rat
         /\ Amount0(p, hi2, hi) \in Nat \ {0}
         /\ DownUnit(p, hi, lo2, hi2) \in Nat \ {0}
         /\ lo <= lo2 => Loss(p, lo, hi, lo2, hi2)
              = Law!Frac(UpLoss(p, lo, hi, lo2, hi2), Amount0(p, hi2, hi))
         /\ lo2 <= lo => Loss(p, lo, hi, lo2, hi2)
              = Law!Frac(DownLoss(p, lo, hi, lo2, hi2), DownUnit(p, hi, lo2, hi2))
<1>a. PICK i, j, h, g : /\ i = Amount0(p, hi, hi2) /\ j = Amount0(p, hi2, hi)
                        /\ h = Amount1(p, lo) /\ g = Amount1(p, lo2)
  OBVIOUS
<1>0. i = (hi - p) * hi2 /\ j = hi * (hi2 - p) /\ h = p - lo /\ g = p - lo2
  BY <1>a DEF Amount0, Amount1
<1>1. PICK m, v, w : /\ m = Law!MintMin(p, lo, hi, lo2, hi2)
                     /\ v = Law!Phi(p, lo, hi) /\ w = Law!Phi(p, lo2, hi2)
  OBVIOUS
<1>2. PICK x, y : x = p * (hi - p) + (p - lo) * hi /\ y = p * (hi2 - p) + (p - lo2) * hi2
  OBVIOUS
<1>3. hi \in Nat \ {0} /\ v \in Rat /\ Is(v, x, hi)
  BY <1>1, <1>2, HeldAre
<1>4. hi2 \in Nat \ {0} /\ w \in Rat /\ Is(w, y, hi2)
  <2>1. lo2 <= p /\ p <= hi2
    OBVIOUS
  <2> QED
    BY <1>1, <1>2, <2>1, HeldAre
<1>5. /\ m \in Rat /\ (lo <= lo2 => Is(m, i, j)) /\ (lo2 <= lo => Is(m, h, g))
  BY <1>0, <1>1, MintIs
<1>6. /\ i \in Int /\ h \in Int /\ x \in Int /\ y \in Int /\ g \in Nat \ {0} /\ hi2 - p \in Nat \ {0}
      /\ j \in Nat \ {0} /\ hi2 * g \in Nat \ {0} /\ hi * (hi2 * g) \in Nat \ {0}
  <2>1. g \in Nat \ {0} /\ hi2 - p \in Nat \ {0}
    BY <1>0
  <2>2. j \in Nat \ {0} /\ hi2 * g \in Nat \ {0}
    BY <1>0, <1>3, <1>4, <2>1
  <2> QED
    BY <1>0, <1>2, <1>3, <1>4, <2>1, <2>2
<1>7. PICK k : k = Kept(p, lo, hi, lo2, hi2)
  OBVIOUS
<1>8. k = Law!Times(m, w) /\ Loss(p, lo, hi, lo2, hi2) = Law!Minus(v, k)
  BY <1>1, <1>7 DEF Kept, Loss
<1>9. ASSUME lo <= lo2
      PROVE  k \in Rat /\ Law!Minus(v, k) = Law!Frac(h * j - i * g, j)
                       /\ Law!Minus(v, k) \in Rat
  <2>1. k \in Rat /\ Is(k, i * y, j * hi2)
    BY <1>4, <1>5, <1>6, <1>8, <1>9, TimesValue
  <2>2. PICK c, e, f : /\ c = x * (hi2 - p) /\ e = i * y /\ f = j * hi2
    OBVIOUS
  <2>3. PICK n, o : n = (hi - p) * y /\ o = h * j - i * g
    OBVIOUS
  <2>4. c \in Int /\ n \in Int /\ o \in Int /\ e \in Int /\ f \in Nat \ {0}
    BY <1>4, <1>6, <2>2, <2>3
  <2>5. Is(v, c, j)
    <3>1. x * j = c * hi
      <4>1. x * (hi * (hi2 - p)) = (x * (hi2 - p)) * hi
        BY <1>3, <1>6
      <4> QED
        BY <1>0, <2>2, <4>1
    <3> QED
      BY <1>3, <1>6, <2>4, <3>1, OneValue
  <2>6. Is(k, n, j)
    <3>1. e * j = n * f
      <4>1. (((hi - p) * hi2) * y) * j = ((hi - p) * y) * (j * hi2)
        BY <1>4, <1>6
      <4> QED
        BY <1>0, <2>2, <2>3, <4>1
    <3> QED
      BY <1>6, <2>1, <2>2, <2>4, <3>1, OneValue
  <2>7. c - n = o
    <3>1. (p * (hi - p) + (p - lo) * hi) * (hi2 - p) - (hi - p) * (p * (hi2 - p) + (p - lo2) * hi2)
            = (p - lo) * (hi * (hi2 - p)) - ((hi - p) * hi2) * (p - lo2)
      OBVIOUS
    <3> QED
      BY <1>0, <1>2, <2>2, <2>3, <3>1
  <2>8. Law!Minus(v, k) = Law!Frac(c - n, j) /\ Law!Minus(v, k) \in Rat
    BY <1>3, <1>6, <2>1, <2>4, <2>5, <2>6, MinusValue
  <2> QED
    BY <2>1, <2>3, <2>7, <2>8
<1>10. ASSUME lo2 <= lo
       PROVE  /\ k \in Rat /\ Law!Minus(v, k) = Law!Frac(p * (i * g - h * j), hi * (hi2 * g))
              /\ Law!Minus(v, k) \in Rat
  <2>1. k \in Rat /\ Is(k, h * y, g * hi2)
    BY <1>4, <1>5, <1>6, <1>8, <1>10, TimesValue
  <2>2. PICK D, e, f : D = hi * (hi2 * g) /\ e = h * y /\ f = g * hi2
    OBVIOUS
  <2>3. PICK c, n, o : c = x * (hi2 * g) /\ n = e * hi /\ o = p * (i * g - h * j)
    OBVIOUS
  <2>4. /\ c \in Int /\ n \in Int /\ o \in Int /\ e \in Int /\ f \in Nat \ {0}
        /\ D \in Nat \ {0}
    BY <1>3, <1>4, <1>6, <2>2, <2>3
  <2>5. Is(v, c, D)
    <3>1. x * D = c * hi
      <4>1. x * (hi * (hi2 * g)) = (x * (hi2 * g)) * hi
        BY <1>3, <1>4, <1>6
      <4> QED
        BY <2>2, <2>3, <4>1
    <3> QED
      BY <1>3, <1>6, <2>4, <3>1, OneValue
  <2>6. Is(k, n, D)
    <3>1. e * D = n * f
      <4>1. e * (hi * (hi2 * g)) = (e * hi) * (g * hi2)
        BY <1>3, <1>4, <1>6, <2>4
      <4> QED
        BY <2>2, <2>3, <4>1
    <3> QED
      BY <2>1, <2>2, <2>4, <3>1, OneValue
  <2>7. c - n = o
    <3>1. (p * (hi - p) + (p - lo) * hi) * (hi2 * (p - lo2))
             - ((p - lo) * (p * (hi2 - p) + (p - lo2) * hi2)) * hi
            = p * (((hi - p) * hi2) * (p - lo2) - (p - lo) * (hi * (hi2 - p)))
      OBVIOUS
    <3> QED
      BY <1>0, <1>2, <2>2, <2>3, <3>1
  <2>8. Law!Minus(v, k) = Law!Frac(c - n, D) /\ Law!Minus(v, k) \in Rat
    BY <1>3, <2>1, <2>4, <2>5, <2>6, MinusValue
  <2> QED
    BY <2>1, <2>2, <2>3, <2>7, <2>8
<1>11. k \in Rat /\ Law!Minus(v, k) \in Rat
  <2>1. lo <= lo2 \/ lo2 <= lo
    OBVIOUS
  <2> QED
    BY <1>9, <1>10, <2>1
<1>12. /\ UpLoss(p, lo, hi, lo2, hi2) = h * j - i * g
       /\ DownLoss(p, lo, hi, lo2, hi2) = p * (i * g - h * j)
       /\ DownUnit(p, hi, lo2, hi2) = hi * (hi2 * g)
  <2>1. i * g - h * j = -(h * j - i * g)
    BY <1>6
  <2> QED
    BY <1>a, <2>1 DEF UpLoss, DownLoss, DownUnit
<1> QED
  <2>1. lo <= lo2 => Loss(p, lo, hi, lo2, hi2) = Law!Frac(h * j - i * g, j)
    BY <1>8, <1>9
  <2>2. lo2 <= lo => Loss(p, lo, hi, lo2, hi2)
                       = Law!Frac(p * (i * g - h * j), hi * (hi2 * g))
    BY <1>8, <1>10
  <2> QED
    BY <1>a, <1>6, <1>7, <1>8, <1>11, <1>12, <2>1, <2>2

\* It is something unless the range stays where it is.
LEMMA LossSign ==
  ASSUME NEW p \in Nat \ {0}, NEW lo \in Int, NEW hi \in Int, NEW lo2 \in Int,
         NEW hi2 \in Int, lo <= p, p <= hi, lo2 < p, p < hi2, SameWidth(lo, hi, lo2, hi2)
  PROVE  \E n \in Nat, D \in Nat \ {0} :
           /\ Loss(p, lo, hi, lo2, hi2) = Law!Frac(n, D)
           /\ n = 0 <=> lo = lo2
<1>1. PICK i, j, h, g : /\ i = Amount0(p, hi, hi2) /\ j = Amount0(p, hi2, hi)
                        /\ h = Amount1(p, lo) /\ g = Amount1(p, lo2)
  OBVIOUS
<1>2. i = (hi - p) * hi2 /\ j = hi * (hi2 - p) /\ h = p - lo /\ g = p - lo2
  BY <1>1 DEF Amount0, Amount1
<1>3. i \in Int /\ j \in Int /\ h \in Nat /\ g \in Nat \ {0}
  BY <1>2
<1>4. i - j = p * (lo - lo2)
  <2>1. (hi - p) * hi2 - hi * (hi2 - p) = p * (hi - hi2)
    OBVIOUS
  <2>2. hi - hi2 = lo - lo2
    BY DEF SameWidth
  <2> QED
    BY <1>2, <2>1, <2>2
<1>5. i \in Nat /\ h - g = lo2 - lo
  <2>1. hi - p \in Nat /\ hi2 \in Nat
    OBVIOUS
  <2> QED
    BY <1>2, <2>1
<1>6. PICK x, y, D : /\ x = UpLoss(p, lo, hi, lo2, hi2)
                     /\ y = DownLoss(p, lo, hi, lo2, hi2)
                     /\ D = DownUnit(p, hi, lo2, hi2)
  OBVIOUS
<1>7. /\ j \in Nat \ {0} /\ D \in Nat \ {0}
      /\ lo <= lo2 => Loss(p, lo, hi, lo2, hi2) = Law!Frac(x, j)
      /\ lo2 <= lo => Loss(p, lo, hi, lo2, hi2) = Law!Frac(y, D)
  BY <1>1, <1>6, LossIs
<1>8. x = h * j - i * g
  BY <1>1, <1>6 DEF UpLoss
<1>9. x \in Int /\ y = p * (-x)
  <2>1. x \in Int
    BY <1>3, <1>8
  <2> QED
    BY <1>6, <2>1 DEF DownLoss
<1>10. CASE lo < lo2
  <2>1. i < j /\ g < h
    <3>1. p * (lo - lo2) < 0
      BY <1>10
    <3> QED
      BY <1>3, <1>4, <1>5, <1>10, <3>1
  <2>2. i * g <= j * g /\ j * g < j * h
    BY <1>3, <1>7, <1>5, <2>1
  <2>3. x \in Nat \ {0}
    BY <1>3, <1>8, <2>2
  <2> QED
    BY <1>7, <1>10, <2>3
<1>11. CASE lo2 < lo
  <2>1. j < i /\ h < g
    <3>1. p * (lo - lo2) > 0
      BY <1>11
    <3> QED
      BY <1>3, <1>4, <1>5, <1>11, <3>1
  <2>2. j * h <= j * g /\ j * g < i * g
    BY <1>3, <1>7, <1>5, <2>1
  <2>3. -x \in Nat \ {0}
    BY <1>3, <1>8, <2>2
  <2>4. y \in Nat \ {0}
    BY <1>9, <2>3
  <2> QED
    BY <1>7, <1>11, <2>4
<1>12. CASE lo = lo2
  <2>1. i = j /\ h = g
    <3>1. p * (lo - lo2) = 0
      BY <1>12
    <3> QED
      BY <1>3, <1>4, <1>5, <1>12, <3>1
  <2>2. x = 0 /\ 0 \in Nat
    BY <1>3, <1>8, <2>1
  <2> QED
    BY <1>7, <1>12, <2>2
<1> QED
  BY <1>10, <1>11, <1>12
LEMMA WholeIs ==
  ASSUME NEW n \in Int, NEW D \in Nat \ {0}
  PROVE  /\ Law!Whole(n) \in Rat /\ Is(Law!Whole(n), n, 1) /\ Is(Law!Whole(n), n * D, D)
         /\ Law!Whole(n)[1] = n /\ Law!Whole(n)[2] = 1
<1>1. PICK q : q = Law!Whole(n)
  OBVIOUS
<1>2. q = <<n, 1>> /\ 1 \in Nat \ {0}
  BY <1>1 DEF Law!Whole
<1>3. q \in Rat /\ q[1] = n /\ q[2] = 1
  BY <1>2, RatIs
<1>4. n * D = (n * D) * 1 /\ n * 1 = n * 1
  OBVIOUS
<1> QED
  BY <1>1, <1>3, <1>4 DEF Is

\* Two terms are the change from one value to another.
Explains(v, x, y, w) ==
  \E E \in Nat \ {0}, i \in Int, j \in Int, k \in Int, l \in Int :
    /\ Is(v, i, E) /\ Is(x, j, E) /\ Is(y, k, E) /\ Is(w, l, E)
    /\ l = i + j + k

\* The value function is of second degree within its range: a step there is
\* exactly its first and its second term.
LEMMA Taylor ==
  ASSUME NEW p \in Nat \ {0}, NEW q \in Nat \ {0}, NEW lo \in Int, NEW hi \in Int,
         lo < p, p < hi, lo <= q, q <= hi, NEW r \in Rat
  PROVE  LET v == Law!Times(r, Law!FVal(p, lo, hi))
             x == Law!Times(r, Law!Times(Law!FPrime(p, lo, hi), Law!Whole(q - p)))
             y == Law!Times(r, Law!Times(Law!HalfFSecond(p, lo, hi),
                                         Law!Whole((q - p) * (q - p))))
             w == Law!Times(r, Law!Phi(q, lo, hi))
         IN  /\ v \in Rat /\ x \in Rat /\ y \in Rat /\ w \in Rat
             /\ Explains(v, x, y, w)
<1>1. PICK n, e : n = r[1] /\ e = r[2]
  OBVIOUS
<1>2. n \in Int /\ e \in Nat \ {0} /\ Is(r, n, e)
  BY <1>1, RatIs DEF Is
<1>3. /\ Law!FVal(p, lo, hi) = Law!Phi(p, lo, hi)
      /\ Law!FPrime(p, lo, hi) = Law!Frac(2 * (hi - p), hi)
      /\ Law!HalfFSecond(p, lo, hi) = Law!Frac(-1, hi)
  BY DEF Law!FVal, Law!FPrime, Law!HalfFSecond
<1>4. PICK a2, c, d, f : /\ a2 = p * (hi - p) + (p - lo) * hi
                         /\ c = q * (hi - q) + (q - lo) * hi
                         /\ d = 2 * (hi - p) /\ f = q - p
  OBVIOUS
<1>5. /\ hi \in Nat \ {0} /\ a2 \in Int /\ c \in Int /\ d \in Int /\ f \in Int
      /\ f * f \in Int /\ -1 \in Int /\ 1 \in Nat \ {0}
      /\ d * f \in Int /\ (-1) * (f * f) \in Int /\ hi * 1 = hi
  BY <1>4
<1>6. Law!Phi(p, lo, hi) \in Rat /\ Is(Law!Phi(p, lo, hi), a2, hi)
  <2>1. lo <= p /\ p <= hi
    OBVIOUS
  <2> QED
    BY <1>4, <2>1, HeldAre
<1>7. Law!Phi(q, lo, hi) \in Rat /\ Is(Law!Phi(q, lo, hi), c, hi)
  BY <1>4, HeldAre
<1>8. PICK g, h : /\ g = Law!Times(Law!FPrime(p, lo, hi), Law!Whole(f))
                  /\ h = Law!Times(Law!HalfFSecond(p, lo, hi), Law!Whole(f * f))
  OBVIOUS
<1>9. g \in Rat /\ Is(g, d * f, hi)
  <2>1. PICK t, w : t = Law!Frac(d, hi) /\ w = Law!Whole(f)
    OBVIOUS
  <2>2. t \in Rat /\ Is(t, d, hi)
    BY <1>5, <2>1, FracValue
  <2>3. w \in Rat /\ Is(w, f, 1)
    BY <1>5, <2>1, WholeIs
  <2>4. Law!Times(t, w) \in Rat /\ Is(Law!Times(t, w), d * f, hi * 1)
    BY <1>5, <2>2, <2>3, TimesValue
  <2> QED
    BY <1>3, <1>4, <1>5, <1>8, <2>1, <2>4
<1>10. h \in Rat /\ Is(h, (-1) * (f * f), hi)
  <2>1. PICK t, w, z : t = Law!Frac(-1, hi) /\ w = Law!Whole(z) /\ z = f * f
    OBVIOUS
  <2>2. t \in Rat /\ Is(t, -1, hi)
    BY <1>5, <2>1, FracValue
  <2>3. w \in Rat /\ Is(w, z, 1) /\ z \in Int
    BY <1>5, <2>1, WholeIs
  <2>4. Law!Times(t, w) \in Rat /\ Is(Law!Times(t, w), (-1) * z, hi * 1)
    BY <1>5, <2>2, <2>3, TimesValue
  <2> QED
    BY <1>3, <1>5, <1>8, <2>1, <2>4
<1>11. PICK v, x, y, w : /\ v = Law!Times(r, Law!Phi(p, lo, hi))
                         /\ x = Law!Times(r, g) /\ y = Law!Times(r, h)
                         /\ w = Law!Times(r, Law!Phi(q, lo, hi))
  OBVIOUS
<1>12. PICK E, i, j, k, l : /\ E = e * hi /\ i = n * a2 /\ j = n * (d * f)
                            /\ k = n * ((-1) * (f * f)) /\ l = n * c
  OBVIOUS
<1>13. /\ E \in Nat \ {0} /\ i \in Int /\ j \in Int /\ k \in Int /\ l \in Int
  BY <1>2, <1>5, <1>12
<1>14. v \in Rat /\ Is(v, i, E)
  BY <1>2, <1>5, <1>6, <1>11, <1>12, TimesValue
<1>15. x \in Rat /\ Is(x, j, E)
  BY <1>2, <1>5, <1>9, <1>11, <1>12, TimesValue
<1>16. y \in Rat /\ Is(y, k, E)
  BY <1>2, <1>5, <1>10, <1>11, <1>12, TimesValue
<1>17. w \in Rat /\ Is(w, l, E)
  BY <1>2, <1>5, <1>7, <1>11, <1>12, TimesValue
<1>18. l = i + j + k
  <2>1. c = a2 + d * f + (-1) * (f * f)
    BY <1>4
  <2>2. n * (a2 + d * f + (-1) * (f * f)) = n * a2 + n * (d * f) + n * ((-1) * (f * f))
    BY <1>2, <1>5
  <2> QED
    BY <1>12, <2>1, <2>2
<1>19. Explains(v, x, y, w)
  BY <1>13, <1>14, <1>15, <1>16, <1>17, <1>18 DEF Explains
<1> QED
  BY <1>3, <1>4, <1>8, <1>11, <1>14, <1>15, <1>16, <1>17, <1>19
\* What was given up and what is held, less what was held at first, is what the
\* path accounts for: the identity, about any five fractions.
Balanced(g, v, c, i, t) == Law!Minus(Law!Plus(g, v), c) = Law!Plus(i, t)

InParts(g, v, c, i, t, k, l, m, n, o, D) ==
  /\ Is(g, k, D) /\ Is(v, l, D) /\ Is(c, m, D) /\ Is(i, n, D) /\ Is(t, o, D)

Even(k, l, m, n, o) == (k + l) - m = n + o

LEMMA BalanceIs ==
  ASSUME NEW g \in Rat, NEW v \in Rat, NEW c \in Rat, NEW i \in Rat, NEW t \in Rat,
         NEW D \in Nat \ {0}, NEW k \in Int, NEW l \in Int, NEW m \in Int,
         NEW n \in Int, NEW o \in Int,
         InParts(g, v, c, i, t, k, l, m, n, o, D)
  PROVE  Balanced(g, v, c, i, t) <=> Even(k, l, m, n, o)
<1>1. PICK x, y, z : x = k + l /\ y = (k + l) - m /\ z = n + o
  OBVIOUS
<1>2. x \in Int /\ y \in Int /\ z \in Int /\ y = x - m
  BY <1>1
<1>a. Is(g, k, D) /\ Is(v, l, D) /\ Is(c, m, D) /\ Is(i, n, D) /\ Is(t, o, D)
  BY DEF InParts
<1>3. Law!Plus(g, v) \in Rat /\ Is(Law!Plus(g, v), x, D)
  BY <1>a, <1>1, PlusValue
<1>4. Law!Minus(Law!Plus(g, v), c) = Law!Frac(y, D)
  BY <1>a, <1>2, <1>3, MinusValue
<1>5. Law!Plus(i, t) = Law!Frac(z, D)
  BY <1>a, <1>1, PlusValue
<1>6. y * D = z * D <=> Law!Frac(y, D) = Law!Frac(z, D)
  BY <1>2, FracSame
<1>7. y * D = z * D <=> y = z
  BY <1>2
<1> QED
  BY <1>1, <1>4, <1>5, <1>6, <1>7 DEF Balanced, Even

LEMMA StepBalances ==
  ASSUME NEW g \in Rat, NEW v \in Rat, NEW c \in Rat, NEW i \in Rat, NEW t \in Rat,
         NEW w \in Rat, NEW x \in Rat, NEW y \in Rat, Balanced(g, v, c, i, t), Explains(v, x, y, w)
  PROVE  Balanced(g, w, c, Law!Plus(i, x), Law!Plus(t, y))
<1>a. PICK E \in Nat \ {0}, k \in Int, l \in Int, m \in Int, n \in Int :
        /\ Is(v, k, E) /\ Is(x, l, E) /\ Is(y, m, E) /\ Is(w, n, E)
        /\ n = k + l + m
  BY DEF Explains
<1>0. Shared(g, c, i, t, g, E)
  BY Common
<1>1. PICK f \in Nat \ {0}, D \in Nat \ {0} :
        /\ D = f * E
        /\ \E e \in Int : Is(g, e, D)
        /\ \E e \in Int : Is(c, e, D)
        /\ \E e \in Int : Is(i, e, D)
        /\ \E e \in Int : Is(t, e, D)
        /\ \E e \in Int : Is(g, e, D)
  BY <1>0 DEF Shared
<1>2. PICK gn \in Int : Is(g, gn, D)
  BY <1>1
<1>3. PICK cn \in Int : Is(c, cn, D)
  BY <1>1
<1>4. PICK in \in Int : Is(i, in, D)
  BY <1>1
<1>5. PICK tn \in Int : Is(t, tn, D)
  BY <1>1
<1>6. PICK vn, xn, yn, wn : vn = f * k /\ xn = f * l /\ yn = f * m /\ wn = f * n
  OBVIOUS
<1>7. /\ vn \in Int /\ xn \in Int /\ yn \in Int /\ wn \in Int
      /\ Is(v, vn, D) /\ Is(x, xn, D) /\ Is(y, yn, D) /\ Is(w, wn, D)
  BY <1>a, <1>1, <1>6, IsScaled
<1>8. wn = vn + xn + yn
  BY <1>a, <1>6
<1>9. (gn + vn) - cn = in + tn
  <2>1. InParts(g, v, c, i, t, gn, vn, cn, in, tn, D)
    BY <1>2, <1>3, <1>4, <1>5, <1>7 DEF InParts
  <2>2. vn \in Int
    BY <1>7
  <2> QED
    <3>1. Even(gn, vn, cn, in, tn)
      BY <2>1, <2>2, BalanceIs
    <3> QED
      BY <3>1 DEF Even
<1>10. /\ Law!Plus(i, x) \in Rat /\ Is(Law!Plus(i, x), in + xn, D)
       /\ Law!Plus(t, y) \in Rat /\ Is(Law!Plus(t, y), tn + yn, D)
  BY <1>4, <1>5, <1>7, PlusValue
<1>11. in + xn \in Int /\ tn + yn \in Int
  BY <1>7
<1>12. (gn + wn) - cn = (in + xn) + (tn + yn)
  BY <1>7, <1>8, <1>9
<1>13. PICK ix, ty, io, to : /\ ix = in + xn /\ ty = tn + yn
                             /\ io = Law!Plus(i, x) /\ to = Law!Plus(t, y)
  OBVIOUS
<1>14. InParts(g, w, c, io, to, gn, wn, cn, ix, ty, D)
  BY <1>2, <1>3, <1>7, <1>10, <1>13 DEF InParts
<1>15. /\ wn \in Int /\ ix \in Int /\ ty \in Int /\ io \in Rat /\ to \in Rat
       /\ (gn + wn) - cn = ix + ty
  BY <1>7, <1>10, <1>11, <1>12, <1>13
<1>16. Balanced(g, w, c, io, to)
  <2>1. Even(gn, wn, cn, ix, ty)
    BY <1>15 DEF Even
  <2> QED
    BY <1>14, <1>15, <2>1, BalanceIs
<1> QED
  BY <1>13, <1>16

LEMMA FiringBalances ==
  ASSUME NEW g \in Rat, NEW w \in Rat, NEW c \in Rat, NEW i \in Rat, NEW t \in Rat,
         NEW k \in Rat, Balanced(g, w, c, i, t)
  PROVE  Balanced(Law!Plus(g, Law!Minus(w, k)), k, c, i, t)
<1>1. PICK e, E : e = k[1] /\ E = k[2]
  OBVIOUS
<1>2. e \in Int /\ E \in Nat \ {0} /\ Is(k, e, E)
  BY <1>1, RatIs DEF Is
<1>0. Shared(g, w, c, i, t, E)
  BY <1>2, Common
<1>3. PICK f \in Nat \ {0}, D \in Nat \ {0} :
        /\ D = f * E
        /\ \E n \in Int : Is(g, n, D)
        /\ \E n \in Int : Is(w, n, D)
        /\ \E n \in Int : Is(c, n, D)
        /\ \E n \in Int : Is(i, n, D)
        /\ \E n \in Int : Is(t, n, D)
  BY <1>0 DEF Shared
<1>4. PICK gn \in Int : Is(g, gn, D)
  BY <1>3
<1>5. PICK wn \in Int : Is(w, wn, D)
  BY <1>3
<1>6. PICK cn \in Int : Is(c, cn, D)
  BY <1>3
<1>7. PICK in \in Int : Is(i, in, D)
  BY <1>3
<1>8. PICK tn \in Int : Is(t, tn, D)
  BY <1>3
<1>9. PICK kn : kn = f * e
  OBVIOUS
<1>10. kn \in Int /\ Is(k, kn, D)
  BY <1>2, <1>3, <1>9, IsScaled
<1>11. (gn + wn) - cn = in + tn
  <2>1. InParts(g, w, c, i, t, gn, wn, cn, in, tn, D)
    BY <1>4, <1>5, <1>6, <1>7, <1>8 DEF InParts
  <2>2. Even(gn, wn, cn, in, tn)
    BY <2>1, BalanceIs
  <2> QED
    BY <2>2 DEF Even
<1>12. /\ wn - kn \in Int /\ Law!Minus(w, k) \in Rat /\ Is(Law!Minus(w, k), wn - kn, D)
  BY <1>5, <1>10, MinusValue
<1>13. PICK x : x = Law!Plus(g, Law!Minus(w, k))
  OBVIOUS
<1>14. PICK dn, xn : dn = wn - kn /\ xn = gn + dn
  OBVIOUS
<1>15. dn \in Int /\ xn \in Int /\ (xn + kn) - cn = in + tn
  BY <1>10, <1>11, <1>14
<1>16. x \in Rat /\ Is(x, xn, D)
  BY <1>4, <1>12, <1>13, <1>14, <1>15, PlusValue
<1>17. Balanced(x, k, c, i, t)
  <2>1. InParts(x, k, c, i, t, xn, kn, cn, in, tn, D)
    BY <1>6, <1>7, <1>8, <1>10, <1>16 DEF InParts
  <2>2. Even(xn, kn, cn, in, tn)
    BY <1>15 DEF Even
  <2> QED
    BY <1>10, <1>15, <1>16, <2>1, <2>2, BalanceIs
<1> QED
  BY <1>13, <1>17
\* Signs, and what lies above one, are those of the values.
LEMMA SignIs ==
  ASSUME NEW p \in Rat, NEW n \in Int, NEW D \in Nat \ {0}, Is(p, n, D)
  PROVE  /\ 0 < p[1] <=> 0 < n
         /\ 0 = p[1] <=> 0 = n
         /\ p[2] < p[1] <=> D < n
         /\ p[2] <= p[1] <=> D <= n
<1>1. PICK a2, d : a2 = p[1] /\ d = p[2]
  OBVIOUS
<1>2. a2 \in Int /\ d \in Nat \ {0} /\ a2 * D = n * d
  BY <1>1, RatIs DEF Is
<1>3. /\ a2 > 0 => a2 * D > 0
      /\ a2 = 0 => a2 * D = 0
      /\ a2 < 0 => a2 * D < 0
  BY <1>2
<1>4. /\ n > 0 => n * d > 0
      /\ n = 0 => n * d = 0
      /\ n < 0 => n * d < 0
  BY <1>2
<1>5. (0 < a2 <=> 0 < n) /\ (0 = a2 <=> 0 = n)
  BY <1>2, <1>3, <1>4
<1>6. PICK x, y : x = a2 - d /\ y = n - D
  OBVIOUS
<1>7. x \in Int /\ y \in Int /\ x * D = y * d
  BY <1>2, <1>6
<1>8. /\ x > 0 => x * D > 0
      /\ x = 0 => x * D = 0
      /\ x < 0 => x * D < 0
  BY <1>7
<1>9. /\ y > 0 => y * d > 0
      /\ y = 0 => y * d = 0
      /\ y < 0 => y * d < 0
  BY <1>2, <1>7
<1>10. (0 < x <=> 0 < y) /\ (0 <= x <=> 0 <= y)
  BY <1>7, <1>8, <1>9
<1>11. (d < a2 <=> D < n) /\ (d <= a2 <=> D <= n)
  BY <1>2, <1>6, <1>10
<1> QED
  BY <1>1, <1>5, <1>11

LEMMA RatValue ==
  ASSUME NEW p \in Rat
  PROVE  p[1] \in Int /\ p[2] \in Nat \ {0} /\ Is(p, p[1], p[2])
BY RatIs DEF Is

LEMMA TimesPositive ==
  ASSUME NEW p \in Rat, NEW q \in Rat, 0 < p[1], 0 < q[1]
  PROVE  Law!Times(p, q) \in Rat /\ 0 < Law!Times(p, q)[1]
<1>1. PICK n, d, m, e : n = p[1] /\ d = p[2] /\ m = q[1] /\ e = q[2]
  OBVIOUS
<1>2. /\ n \in Nat \ {0} /\ m \in Nat \ {0} /\ d \in Nat \ {0} /\ e \in Nat \ {0}
      /\ Is(p, n, d) /\ Is(q, m, e)
  BY <1>1, RatValue
<1>3. n \in Int /\ m \in Int /\ n * m \in Int /\ 0 < n * m /\ d * e \in Nat \ {0}
  BY <1>2
<1>4. Law!Times(p, q) \in Rat /\ Is(Law!Times(p, q), n * m, d * e)
  BY <1>2, <1>3, TimesValue
<1> QED
  BY <1>3, <1>4, SignIs

LEMMA PlusPositive ==
  ASSUME NEW p \in Rat, NEW q \in Rat, 0 <= p[1], 0 < q[1]
  PROVE  Law!Plus(p, q) \in Rat /\ 0 < Law!Plus(p, q)[1]
<1>1. PICK n, d, m, e : n = p[1] /\ d = p[2] /\ m = q[1] /\ e = q[2]
  OBVIOUS
<1>2. /\ n \in Nat /\ m \in Nat \ {0} /\ d \in Nat \ {0} /\ e \in Nat \ {0}
      /\ Is(p, n, d) /\ Is(q, m, e)
  BY <1>1, RatValue
<1>3. n \in Int /\ m \in Int
  BY <1>2
<1>4. PICK i, j, D : i = e * n /\ j = d * m /\ D = d * e
  OBVIOUS
<1>5. i \in Int /\ D \in Nat \ {0} /\ Is(p, i, D)
  <2>1. e * n \in Int /\ e * d \in Nat \ {0} /\ Is(p, e * n, e * d)
    BY <1>2, <1>3, IsScaled
  <2>2. e * d = d * e
    BY <1>2
  <2> QED
    BY <1>4, <2>1, <2>2
<1>6. j \in Int /\ Is(q, j, D)
  BY <1>2, <1>3, <1>4, IsScaled
<1>7. 0 <= i /\ 0 < j
  BY <1>2, <1>4
<1>8. Law!Plus(p, q) \in Rat /\ Is(Law!Plus(p, q), i + j, D)
  BY <1>5, <1>6, PlusValue
<1>9. i + j \in Int /\ 0 < i + j
  BY <1>5, <1>6, <1>7
<1> QED
  BY <1>5, <1>8, <1>9, SignIs

\* A value over a smaller one is above one.
LEMMA RatioAbove ==
  ASSUME NEW v \in Rat, NEW k \in Rat, 0 < k[1], 0 < Law!Minus(v, k)[1]
  PROVE  Law!Over(v, k) \in Rat /\ Law!Over(v, k)[2] < Law!Over(v, k)[1]
<1>1. PICK n, d, m, e : n = v[1] /\ d = v[2] /\ m = k[1] /\ e = k[2]
  OBVIOUS
<1>2. /\ n \in Int /\ m \in Nat \ {0} /\ d \in Nat \ {0} /\ e \in Nat \ {0}
      /\ Is(v, n, d) /\ Is(k, m, e)
  BY <1>1, RatValue
<1>3. Law!Over(v, k) \in Rat /\ Is(Law!Over(v, k), n * e, d * m)
  BY <1>2, OverValue
<1>4. PICK i, j, D : i = e * n /\ j = d * m /\ D = d * e
  OBVIOUS
<1>5. i \in Int /\ D \in Nat \ {0} /\ Is(v, i, D)
  <2>1. e * n \in Int /\ e * d \in Nat \ {0} /\ Is(v, e * n, e * d)
    BY <1>2, IsScaled
  <2>2. e * d = d * e
    BY <1>2
  <2> QED
    BY <1>4, <2>1, <2>2
<1>6. j \in Nat \ {0} /\ j \in Int /\ Is(k, j, D)
  <2>1. m \in Int
    BY <1>2
  <2>2. j \in Int /\ Is(k, j, D)
    BY <1>2, <1>4, <2>1, IsScaled
  <2>3. j \in Nat \ {0}
    BY <1>2, <1>4
  <2> QED
    BY <2>2, <2>3
<1>7. Law!Minus(v, k) \in Rat /\ Is(Law!Minus(v, k), i - j, D)
  BY <1>5, <1>6, MinusValue
<1>8. i - j \in Int
  BY <1>5, <1>6
<1>9. 0 < i - j
  BY <1>5, <1>7, <1>8, SignIs
<1>10. n * e = i /\ d * m = j
  BY <1>2, <1>4
<1>11. j < i
  BY <1>5, <1>6, <1>9
<1> QED
  BY <1>3, <1>5, <1>6, <1>10, <1>11, SignIs

LEMMA TimesAbove ==
  ASSUME NEW p \in Rat, NEW q \in Rat, p[2] <= p[1], q[2] < q[1]
  PROVE  Law!Times(p, q) \in Rat /\ Law!Times(p, q)[2] < Law!Times(p, q)[1]
<1>1. PICK n, d, m, e : n = p[1] /\ d = p[2] /\ m = q[1] /\ e = q[2]
  OBVIOUS
<1>2. /\ n \in Int /\ m \in Int /\ d \in Nat \ {0} /\ e \in Nat \ {0}
      /\ Is(p, n, d) /\ Is(q, m, e) /\ d <= n /\ e < m
  BY <1>1, RatValue
<1>3. n * m \in Int /\ d * e \in Nat \ {0} /\ d * e < n * m
  <2>1. d * e < d * m
    BY <1>2
  <2>2. d * m <= n * m
    BY <1>2
  <2> QED
    BY <1>2, <2>1, <2>2
<1>4. Law!Times(p, q) \in Rat /\ Is(Law!Times(p, q), n * m, d * e)
  BY <1>2, TimesValue
<1> QED
  BY <1>3, <1>4, SignIs

\* What a position gives up is what a unit of its liquidity does.
LEMMA FactorOut ==
  ASSUME NEW r \in Rat, NEW v \in Rat, NEW m \in Rat, NEW w \in Rat
  PROVE  Law!Minus(Law!Times(r, v), Law!Times(Law!Times(r, m), w))
           = Law!Times(r, Law!Minus(v, Law!Times(m, w)))
<1>1. PICK rn, rd, vn, vd, mn, md, wn, wd :
        /\ rn = r[1] /\ rd = r[2] /\ vn = v[1] /\ vd = v[2]
        /\ mn = m[1] /\ md = m[2] /\ wn = w[1] /\ wd = w[2]
  OBVIOUS
<1>2. /\ rn \in Int /\ vn \in Int /\ mn \in Int /\ wn \in Int
      /\ rd \in Nat \ {0} /\ vd \in Nat \ {0} /\ md \in Nat \ {0} /\ wd \in Nat \ {0}
      /\ Is(r, rn, rd) /\ Is(v, vn, vd) /\ Is(m, mn, md) /\ Is(w, wn, wd)
  BY <1>1, RatValue
<1>3. PICK kd, kn, D, x, y : /\ kd = md * wd /\ kn = mn * wn /\ D = vd * kd
                             /\ x = kd * vn /\ y = vd * kn
  OBVIOUS
<1>4. /\ kd \in Nat \ {0} /\ kn \in Int /\ D \in Nat \ {0} /\ x \in Int /\ y \in Int
  BY <1>2, <1>3
<1>5. PICK tw : tw = Law!Times(m, w)
  OBVIOUS
<1>6. tw \in Rat /\ Is(tw, kn, kd)
  BY <1>2, <1>3, <1>5, TimesValue
<1>7. Is(v, x, D)
  <2>1. Is(v, kd * vn, kd * vd)
    BY <1>2, <1>4, IsScaled
  <2>2. kd * vd = vd * kd
    BY <1>2, <1>4
  <2> QED
    BY <1>3, <2>1, <2>2
<1>8. Is(tw, y, D)
  BY <1>2, <1>3, <1>4, <1>6, IsScaled
<1>9. PICK l, z : l = Law!Minus(v, tw) /\ z = x - y
  OBVIOUS
<1>10. l \in Rat /\ Is(l, z, D) /\ z \in Int
  BY <1>4, <1>6, <1>7, <1>8, <1>9, MinusValue
<1>11. Law!Times(r, l) = Law!Frac(rn * z, rd * D)
  BY <1>2, <1>4, <1>10, TimesValue
<1>12. PICK p, q, E : p = rn * x /\ q = rn * y /\ E = rd * D
  OBVIOUS
<1>13. p \in Int /\ q \in Int /\ E \in Nat \ {0}
  BY <1>2, <1>4, <1>12
<1>14. Law!Times(r, v) \in Rat /\ Is(Law!Times(r, v), p, E)
  BY <1>2, <1>4, <1>7, <1>12, TimesValue
<1>15. PICK rm : rm = Law!Times(r, m)
  OBVIOUS
<1>16. PICK i, j : i = rn * mn /\ j = rd * md
  OBVIOUS
<1>17. i \in Int /\ j \in Nat \ {0}
  BY <1>2, <1>16
<1>18. rm \in Rat /\ Is(rm, i, j)
  BY <1>2, <1>15, <1>16, TimesValue
<1>19. Law!Times(rm, w) \in Rat /\ Is(Law!Times(rm, w), i * wn, j * wd)
  BY <1>2, <1>17, <1>18, TimesValue
<1>20. Is(Law!Times(rm, w), q, E)
  <2>1. vd * (i * wn) \in Int /\ Is(Law!Times(rm, w), vd * (i * wn), vd * (j * wd))
    <3>1. i * wn \in Int /\ j * wd \in Nat \ {0}
      BY <1>2, <1>17
    <3> QED
      BY <1>2, <1>19, <3>1, IsScaled
  <2>2. vd * ((rn * mn) * wn) = rn * (vd * (mn * wn))
    BY <1>2
  <2>3. vd * ((rd * md) * wd) = rd * (vd * (md * wd))
    BY <1>2
  <2> QED
    BY <1>3, <1>12, <1>16, <2>1, <2>2, <2>3
<1>21. Law!Minus(Law!Times(r, v), Law!Times(rm, w)) = Law!Frac(p - q, E)
  BY <1>13, <1>14, <1>19, <1>20, MinusValue
<1>22. p - q = rn * z
  BY <1>2, <1>4, <1>9, <1>12
<1> QED
  BY <1>5, <1>9, <1>11, <1>12, <1>15, <1>21, <1>22
\* Strictly inside both ranges a position mints something and keeps something.
LEMMA MintPositive ==
  ASSUME NEW p \in Nat \ {0}, NEW lo \in Int, NEW hi \in Int, NEW lo2 \in Int,
         NEW hi2 \in Int, lo < p, p < hi, lo2 < p, p < hi2, SameWidth(lo, hi, lo2, hi2)
  PROVE  /\ Law!MintMin(p, lo, hi, lo2, hi2) \in Rat
         /\ 0 < Law!MintMin(p, lo, hi, lo2, hi2)[1]
         /\ Law!Phi(p, lo2, hi2) \in Rat /\ 0 < Law!Phi(p, lo2, hi2)[1]
<1>1. PICK m : m = Law!MintMin(p, lo, hi, lo2, hi2)
  OBVIOUS
<1>2. /\ m \in Rat
      /\ lo <= lo2 => Is(m, (hi - p) * hi2, hi * (hi2 - p))
      /\ lo2 <= lo => Is(m, p - lo, p - lo2)
  <2>1. lo <= p /\ p <= hi
    OBVIOUS
  <2> QED
    BY <1>1, <2>1, MintIs
<1>3. hi - p \in Nat \ {0} /\ hi2 - p \in Nat \ {0} /\ hi \in Nat \ {0} /\ hi2 \in Nat \ {0}
  OBVIOUS
<1>4. PICK i, j, h, g : /\ i = (hi - p) * hi2 /\ j = hi * (hi2 - p)
                        /\ h = p - lo /\ g = p - lo2
  OBVIOUS
<1>5. i \in Nat \ {0} /\ j \in Nat \ {0} /\ h \in Nat \ {0} /\ g \in Nat \ {0}
  BY <1>3, <1>4
<1>6. i \in Int /\ h \in Int /\ 0 < i /\ 0 < h
  BY <1>5
<1>7. lo <= lo2 \/ lo2 <= lo
  OBVIOUS
<1>8. 0 < m[1]
  <2>1. CASE lo <= lo2
    <3>1. Is(m, i, j)
      BY <1>2, <1>4, <2>1
    <3> QED
      BY <1>2, <1>5, <1>6, <3>1, SignIs
  <2>2. CASE lo2 <= lo
    <3>1. Is(m, h, g)
      BY <1>2, <1>4, <2>2
    <3> QED
      BY <1>2, <1>5, <1>6, <3>1, SignIs
  <2> QED
    BY <1>7, <2>1, <2>2
<1>9. PICK w : w = Law!Phi(p, lo2, hi2)
  OBVIOUS
<1>10. w \in Rat /\ Is(w, p * (hi2 - p) + (p - lo2) * hi2, hi2)
  <2>1. lo2 <= p /\ p <= hi2
    OBVIOUS
  <2> QED
    BY <1>9, <2>1, HeldAre
<1>11. 0 < w[1]
  <2>1. PICK n : n = p * (hi2 - p) + (p - lo2) * hi2
    OBVIOUS
  <2>2. p * (hi2 - p) > 0 /\ (p - lo2) * hi2 > 0
    BY <1>3
  <2>3. n \in Int /\ 0 < n
    BY <2>1, <2>2
  <2> QED
    BY <1>3, <1>10, <2>1, <2>3, SignIs
<1> QED
  BY <1>1, <1>2, <1>8, <1>9, <1>10, <1>11

\* A re-placement elsewhere gives something up, keeps some liquidity and costs.
LEMMA Gives ==
  ASSUME NEW p \in Nat \ {0}, NEW lo \in Int, NEW hi \in Int, NEW lo2 \in Int,
         NEW hi2 \in Int, lo < p, p < hi, lo2 < p, p < hi2, SameWidth(lo, hi, lo2, hi2),
         lo # lo2, NEW r \in Rat, 0 < r[1]
  PROVE  LET new == Law!Times(r, Law!MintMin(p, lo, hi, lo2, hi2))
             k   == Law!Times(new, Law!Phi(p, lo2, hi2))
             j   == Law!Minus(Law!Times(r, Law!Phi(p, lo, hi)), k)
             q   == Law!CostRatio(p, lo, hi, lo2, hi2)
         IN  /\ new \in Rat /\ 0 < new[1] /\ k \in Rat
             /\ j \in Rat /\ 0 < j[1]
             /\ q \in Rat /\ q[2] < q[1]
<1>1. PICK m, v, w : /\ m = Law!MintMin(p, lo, hi, lo2, hi2)
                     /\ v = Law!Phi(p, lo, hi) /\ w = Law!Phi(p, lo2, hi2)
  OBVIOUS
<1>2. m \in Rat /\ 0 < m[1] /\ w \in Rat /\ 0 < w[1]
  BY <1>1, MintPositive
<1>3. lo <= p /\ p <= hi /\ lo2 <= p /\ p <= hi2
  OBVIOUS
<1>4. /\ v \in Rat /\ Law!Worth(p, lo, hi) = v
      /\ Law!Worth(p, lo2, hi2) = w
  BY <1>1, <1>3, HeldAre
<1>5. PICK new, k : new = Law!Times(r, m) /\ k = Law!Times(new, w)
  OBVIOUS
<1>6. new \in Rat /\ 0 < new[1]
  BY <1>2, <1>5, TimesPositive
<1>7. k \in Rat
  BY <1>2, <1>5, <1>6, TimesPositive
<1>8. PICK l, c : l = Law!Minus(v, c) /\ c = Law!Times(m, w)
  OBVIOUS
<1>9. c \in Rat /\ 0 < c[1]
  BY <1>2, <1>8, TimesPositive
<1>10. Loss(p, lo, hi, lo2, hi2) = l /\ Kept(p, lo, hi, lo2, hi2) = c
  BY <1>1, <1>8 DEF Loss, Kept
<1>11. l \in Rat /\ 0 < l[1]
  <2>1. l \in Rat
    BY <1>3, <1>10, LossIs
  <2>2. PICK n \in Nat, D \in Nat \ {0} :
          /\ Loss(p, lo, hi, lo2, hi2) = Law!Frac(n, D)
          /\ n = 0 <=> lo = lo2
    BY <1>3, LossSign
  <2>3. n \in Int /\ 0 < n
    BY <2>2
  <2>4. Is(l, n, D)
    BY <1>10, <2>2, <2>3, FracValue
  <2> QED
    BY <2>1, <2>3, <2>4, SignIs
<1>12. PICK j : j = Law!Minus(Law!Times(r, v), k)
  OBVIOUS
<1>13. j = Law!Times(r, l)
  BY <1>2, <1>4, <1>5, <1>8, <1>12, FactorOut
<1>14. j \in Rat /\ 0 < j[1]
  BY <1>11, <1>13, TimesPositive
<1>15. Law!CostRatio(p, lo, hi, lo2, hi2) = Law!Over(v, c)
  BY <1>1, <1>4, <1>8 DEF Law!CostRatio
<1>16. Law!Over(v, c) \in Rat /\ Law!Over(v, c)[2] < Law!Over(v, c)[1]
  BY <1>4, <1>8, <1>9, <1>11, RatioAbove
<1> QED
  BY <1>1, <1>5, <1>6, <1>7, <1>12, <1>14, <1>15, <1>16
-----------------------------------------------------------------------------
\* The walk of the law: the price is between the triggers, so inside the range.
PathWithin ==
  /\ pol \in Policies /\ price \in Nat \ {0} /\ mid \in Int
  /\ pol.dd < price - mid /\ price - mid < pol.du
PathFractions ==
  /\ sumJ \in Rat /\ liq \in Rat /\ ito \in Rat /\ tanaka \in Rat /\ decay \in Rat
  /\ nRecentred \in Nat
PathInv == PathWithin /\ PathFractions /\ PathExact

LEMMA PolicyIs ==
  ASSUME NEW q \in Policies
  PROVE  /\ q.dd \in Int /\ q.d0 \in Int /\ q.du \in Int /\ HalfWidth \in Nat
         /\ q.dd < q.d0 /\ q.d0 < q.du
         /\ -HalfWidth <= q.dd /\ q.du <= HalfWidth
         /\ \A ds \in PriceMoves :
              ds \in Int /\ -HalfWidth <= q.dd + ds /\ q.du + ds <= HalfWidth
BY PathAssumption

FirstHeld == Law!FVal(FirstPrice, FirstPrice - pol.d0 - HalfWidth,
                      FirstPrice - pol.d0 + HalfWidth)
NowHeld == Law!Times(liq, Law!FVal(price, Law!Sa, Law!Sb))

LEMMA IdentityIs ==
  Law!IdentityHolds <=> Balanced(sumJ, NowHeld, FirstHeld, ito, tanaka)
BY DEF Law!IdentityHolds, Balanced, NowHeld, FirstHeld

\* The first value, whatever the policy.
LEMMA FirstIs ==
  ASSUME pol \in Policies
  PROVE  FirstHeld \in Rat
<1>1. PICK d, u, p : d = pol.d0 /\ u = HalfWidth /\ p = FirstPrice
  OBVIOUS
<1>2. d \in Int /\ u \in Nat /\ -u < d /\ d < u
  BY <1>1, PolicyIs
<1>3. p \in Nat \ {0}
  BY <1>1, PathAssumption
<1>4. PICK lo, hi : lo = p - d - u /\ hi = p - d + u
  OBVIOUS
<1>5. lo \in Int /\ hi \in Int /\ lo < p /\ p < hi
  BY <1>2, <1>3, <1>4
<1>6. Law!FVal(p, lo, hi) = Law!Phi(p, lo, hi)
  BY <1>3, <1>5 DEF Law!FVal
<1>7. Law!Phi(p, lo, hi) \in Rat
  <2>1. lo <= p /\ p <= hi
    BY <1>3, <1>5
  <2> QED
    BY <1>3, <1>5, <2>1, HeldAre
<1> QED
  BY <1>1, <1>4, <1>6, <1>7 DEF FirstHeld

LEMMA PathBegins ==
  ASSUME Law!Init
  PROVE  PathInv
<1>1. /\ pol \in Policies /\ price = FirstPrice /\ mid = FirstPrice - pol.d0
      /\ nRecentred = 0 /\ liq = Law!Whole(1) /\ decay = Law!Whole(1)
      /\ sumJ = Law!Whole(0) /\ ito = Law!Whole(0) /\ tanaka = Law!Whole(0)
  BY DEF Law!Init
<1>2. FirstPrice \in Nat \ {0}
  BY PathAssumption
<1>3. /\ pol.dd \in Int /\ pol.d0 \in Int /\ pol.du \in Int /\ HalfWidth \in Nat
      /\ pol.dd < pol.d0 /\ pol.d0 < pol.du
  BY <1>1, PolicyIs
<1>4. PathWithin
  <2>1. price \in Nat \ {0} /\ mid \in Int /\ price - mid = pol.d0
    BY <1>1, <1>2, <1>3
  <2> QED
    BY <1>1, <1>3, <2>1 DEF PathWithin
<1>5. 0 \in Int /\ 1 \in Int /\ 1 \in Nat \ {0}
  OBVIOUS
<1>6. /\ Law!Whole(0) \in Rat /\ Is(Law!Whole(0), 0, 1)
      /\ Law!Whole(0)[1] = 0 /\ Law!Whole(0)[2] = 1
  BY <1>5, WholeIs
<1>7. /\ Law!Whole(1) \in Rat /\ Is(Law!Whole(1), 1, 1)
      /\ Law!Whole(1)[1] = 1 /\ Law!Whole(1)[2] = 1
  BY <1>5, WholeIs
<1>8. PathFractions
  BY <1>1, <1>6, <1>7 DEF PathFractions
<1>9. Law!Dissipates
  BY <1>1, <1>6, <1>7 DEF Law!Dissipates, Law!Leq
<1>10. Law!IdentityHolds
  <2>1. PICK c : c = FirstHeld
    OBVIOUS
  <2>2. c \in Rat
    BY <1>1, <2>1, FirstIs
  <2>3. PICK n, D : n = c[1] /\ D = c[2]
    OBVIOUS
  <2>4. n \in Int /\ D \in Nat \ {0} /\ Is(c, n, D)
    BY <2>2, <2>3, RatValue
  <2>5. PICK v : v = Law!Times(Law!Whole(1), c)
    OBVIOUS
  <2>6. v \in Rat /\ Is(v, n, D)
    <3>1. 1 * n = n /\ 1 * D = D
      BY <2>4
    <3> QED
      BY <1>5, <1>7, <2>2, <2>4, <2>5, <3>1, TimesValue
  <2>7. Is(Law!Whole(0), 0, D)
    <3>1. 0 * D = 0
      BY <2>4
    <3> QED
      BY <1>5, <2>4, <3>1, WholeIs
  <2>8. NowHeld = v
    BY <1>1, <2>1, <2>5 DEF NowHeld, FirstHeld, Law!Sa, Law!Sb
  <2>9. InParts(Law!Whole(0), v, c, Law!Whole(0), Law!Whole(0), 0, n, n, 0, 0, D)
    BY <2>4, <2>6, <2>7 DEF InParts
  <2>10. Even(0, n, n, 0, 0)
    BY <2>4 DEF Even
  <2>11. Balanced(Law!Whole(0), v, c, Law!Whole(0), Law!Whole(0))
    BY <1>5, <1>6, <2>2, <2>4, <2>6, <2>9, <2>10, BalanceIs
  <2> QED
    BY <1>1, <2>1, <2>8, <2>11, IdentityIs
<1> QED
  BY <1>4, <1>8, <1>9, <1>10 DEF PathInv, PathExact
\* A step of the price: it stays within the range, and the two terms of the
\* account are what the position in the range gains.
LEMMA PriceSteps ==
  ASSUME PathInv, NEW ds \in PriceMoves, Law!Step(ds)
  PROVE  \E p \in Nat \ {0}, q \in Nat \ {0}, lo \in Int, hi \in Int :
           /\ price = p /\ price' = q
           /\ mid - HalfWidth = lo /\ mid + HalfWidth = hi
           /\ lo < p /\ p < hi /\ lo < q /\ q < hi
           /\ ito' \in Rat /\ tanaka' \in Rat
           /\ pol' = pol /\ FirstHeld' = FirstHeld /\ FirstHeld \in Rat
           /\ Law!Times(liq, Law!Phi(q, lo, hi)) \in Rat
           /\ Balanced(sumJ, Law!Times(liq, Law!Phi(q, lo, hi)), FirstHeld, ito', tanaka')
<1>1. PICK p, q, lo, hi : /\ p = price /\ q = price' /\ lo = mid - HalfWidth
                          /\ hi = mid + HalfWidth
  OBVIOUS
<1>2. PathWithin /\ PathFractions /\ Law!IdentityHolds
  BY DEF PathInv, PathExact
<1>3. /\ pol \in Policies /\ p \in Nat \ {0} /\ mid \in Int
      /\ pol.dd < p - mid /\ p - mid < pol.du
  BY <1>1, <1>2 DEF PathWithin
<1>4. /\ pol.dd \in Int /\ pol.du \in Int /\ HalfWidth \in Nat
      /\ -HalfWidth <= pol.dd /\ pol.du <= HalfWidth
      /\ ds \in Int /\ -HalfWidth <= pol.dd + ds /\ pol.du + ds <= HalfWidth
  BY <1>3, PolicyIs
<1>5. price + ds > 0 /\ price' = price + ds /\ pol' = pol
  BY DEF Law!Step
<1>6. q \in Nat \ {0} /\ ds = q - p
  BY <1>1, <1>3, <1>4, <1>5
<1>7. lo \in Int /\ hi \in Int /\ lo < p /\ p < hi /\ lo < q /\ q < hi
  <2>1. lo \in Int /\ hi \in Int
    BY <1>1, <1>3, <1>4
  <2>2. lo < p /\ p < hi
    BY <1>1, <1>3, <1>4
  <2>3. lo < q /\ q < hi
    BY <1>1, <1>3, <1>4, <1>6
  <2> QED
    BY <2>1, <2>2, <2>3
<1>8. PICK v, x, y, w :
        /\ v = Law!Times(liq, Law!FVal(p, lo, hi))
        /\ x = Law!Times(liq, Law!Times(Law!FPrime(p, lo, hi), Law!Whole(q - p)))
        /\ y = Law!Times(liq, Law!Times(Law!HalfFSecond(p, lo, hi),
                                        Law!Whole((q - p) * (q - p))))
        /\ w = Law!Times(liq, Law!Phi(q, lo, hi))
  OBVIOUS
<1>9. liq \in Rat /\ sumJ \in Rat /\ ito \in Rat /\ tanaka \in Rat
  BY <1>2 DEF PathFractions
<1>10. v \in Rat /\ x \in Rat /\ y \in Rat /\ w \in Rat /\ Explains(v, x, y, w)
  <2>1. lo <= q /\ q <= hi
    BY <1>6, <1>7
  <2> QED
    BY <1>3, <1>6, <1>7, <1>8, <1>9, <2>1, Taylor
<1>11. NowHeld = v
  BY <1>1, <1>8 DEF NowHeld, Law!Sa, Law!Sb
<1>12. ito' = Law!Plus(ito, x) /\ tanaka' = Law!Plus(tanaka, y)
  BY <1>1, <1>6, <1>8 DEF Law!Step, Law!Sa, Law!Sb
<1>13. FirstHeld \in Rat
  BY <1>3, FirstIs
<1>14. Balanced(sumJ, v, FirstHeld, ito, tanaka)
  BY <1>2, <1>11, IdentityIs
<1>15. Balanced(sumJ, w, FirstHeld, ito', tanaka')
  BY <1>9, <1>10, <1>12, <1>13, <1>14, StepBalances
<1>16. ito' \in Rat /\ tanaka' \in Rat
  <2>1. ASSUME NEW r \in Rat, NEW t \in Rat PROVE Law!Plus(r, t) \in Rat
    <3>1. PICK n, d, m, e : n = r[1] /\ d = r[2] /\ m = t[1] /\ e = t[2]
      OBVIOUS
    <3>2. /\ n \in Int /\ m \in Int /\ d \in Nat \ {0} /\ e \in Nat \ {0}
          /\ Is(r, n, d) /\ Is(t, m, e)
      BY <3>1, RatValue
    <3>3. /\ e * n \in Int /\ e * d \in Nat \ {0} /\ Is(r, e * n, e * d)
          /\ d * m \in Int /\ Is(t, d * m, d * e)
      BY <3>2, IsScaled
    <3>4. d * e = e * d
      BY <3>2
    <3>5. PICK i, j, D : i = e * n /\ j = d * m /\ D = e * d
      OBVIOUS
    <3>6. i \in Int /\ j \in Int /\ D \in Nat \ {0} /\ Is(r, i, D) /\ Is(t, j, D)
      BY <3>3, <3>4, <3>5
    <3> QED
      BY <3>6, PlusValue
  <2> QED
    BY <1>9, <1>10, <1>12, <2>1
<1>17. FirstHeld' = FirstHeld
  BY <1>5 DEF FirstHeld
<1> QED
  BY <1>1, <1>3, <1>5, <1>6, <1>7, <1>8, <1>10, <1>13, <1>15, <1>16, <1>17

LEMMA OneIs ==
  /\ Law!Whole(1)[1] = 1 /\ Law!Whole(1)[2] = 1
  /\ \A d \in Rat : Law!Leq(Law!Whole(1), d) <=> d[2] <= d[1]
<1>1. 1 \in Int /\ 1 \in Nat \ {0}
  OBVIOUS
<1>2. Law!Whole(1)[1] = 1 /\ Law!Whole(1)[2] = 1
  BY <1>1, WholeIs
<1>3. ASSUME NEW d \in Rat PROVE Law!Leq(Law!Whole(1), d) <=> d[2] <= d[1]
  <2>1. d[1] \in Int /\ d[2] \in Nat \ {0}
    BY RatIs
  <2> QED
    BY <1>2, <2>1 DEF Law!Leq
<1> QED
  BY <1>2, <1>3

\* A step that does not fire.
LEMMA PathGoesOn ==
  ASSUME PathInv, NEW ds \in PriceMoves, Law!Step(ds), ~Law!Fires(price'),
         UNCHANGED <<sumJ, decay, nRecentred, liq, mid>>
  PROVE  PathInv'
<1>1. PICK p \in Nat \ {0}, q \in Nat \ {0}, lo \in Int, hi \in Int :
           /\ price = p /\ price' = q
           /\ mid - HalfWidth = lo /\ mid + HalfWidth = hi
           /\ lo < p /\ p < hi /\ lo < q /\ q < hi
           /\ ito' \in Rat /\ tanaka' \in Rat
           /\ pol' = pol /\ FirstHeld' = FirstHeld /\ FirstHeld \in Rat
           /\ Law!Times(liq, Law!Phi(q, lo, hi)) \in Rat
           /\ Balanced(sumJ, Law!Times(liq, Law!Phi(q, lo, hi)), FirstHeld, ito', tanaka')
  BY PriceSteps
<1>2. PathWithin /\ PathFractions /\ Law!Dissipates
  BY DEF PathInv, PathExact
<1>3. mid' = mid /\ liq' = liq /\ sumJ' = sumJ /\ decay' = decay /\ nRecentred' = nRecentred
  OBVIOUS
<1>4. PathWithin'
  <2>1. pol \in Policies /\ mid \in Int
    BY <1>2 DEF PathWithin
  <2>2. pol.dd \in Int /\ pol.du \in Int
    BY <2>1, PolicyIs
  <2>3. ~(q - mid <= pol.dd) /\ ~(q - mid >= pol.du)
    BY <1>1 DEF Law!Fires
  <2>4. pol.dd < q - mid /\ q - mid < pol.du
    BY <2>1, <2>2, <2>3
  <2> QED
    BY <1>1, <1>3, <2>1, <2>4 DEF PathWithin
<1>5. PathFractions'
  BY <1>1, <1>2, <1>3 DEF PathFractions
<1>6. Law!Dissipates'
  BY <1>2, <1>3 DEF Law!Dissipates
<1>7. NowHeld' = Law!Times(liq, Law!Phi(q, lo, hi))
  <2>1. Law!FVal(q, lo, hi) = Law!Phi(q, lo, hi)
    BY <1>1 DEF Law!FVal
  <2>2. Law!Sa' = lo /\ Law!Sb' = hi
    BY <1>1, <1>3 DEF Law!Sa, Law!Sb
  <2>3. NowHeld' = Law!Times(liq', Law!FVal(price', Law!Sa', Law!Sb'))
    BY DEF NowHeld
  <2> QED
    BY <1>1, <1>3, <2>1, <2>2, <2>3
<1>8. Balanced(sumJ', NowHeld', FirstHeld', ito', tanaka')
  BY <1>1, <1>3, <1>7
<1>9. Law!IdentityHolds'
  BY <1>8 DEF Law!IdentityHolds, Balanced, NowHeld, FirstHeld
<1> QED
  BY <1>4, <1>5, <1>6, <1>9 DEF PathInv, PathExact
\* A step that fires: what it gives up leaves the value for the account, and the
\* position re-placed is worth the rest.
LEMMA PathFires ==
  ASSUME PathInv, NEW ds \in PriceMoves, Law!Step(ds), Law!Replace
  PROVE  PathInv'
<1>1. PICK p \in Nat \ {0}, q \in Nat \ {0}, lo \in Int, hi \in Int :
           /\ price = p /\ price' = q
           /\ mid - HalfWidth = lo /\ mid + HalfWidth = hi
           /\ lo < p /\ p < hi /\ lo < q /\ q < hi
           /\ ito' \in Rat /\ tanaka' \in Rat
           /\ pol' = pol /\ FirstHeld' = FirstHeld /\ FirstHeld \in Rat
           /\ Law!Times(liq, Law!Phi(q, lo, hi)) \in Rat
           /\ Balanced(sumJ, Law!Times(liq, Law!Phi(q, lo, hi)), FirstHeld, ito', tanaka')
  BY PriceSteps
<1>2. PathWithin /\ PathFractions /\ Law!Dissipates
  BY DEF PathInv, PathExact
<1>3. /\ pol \in Policies /\ mid \in Int /\ liq \in Rat /\ sumJ \in Rat
      /\ decay \in Rat /\ nRecentred \in Nat
  BY <1>2 DEF PathWithin, PathFractions
<1>4. /\ pol.dd \in Int /\ pol.d0 \in Int /\ pol.du \in Int /\ HalfWidth \in Nat
      /\ pol.dd < pol.d0 /\ pol.d0 < pol.du
      /\ -HalfWidth <= pol.dd /\ pol.du <= HalfWidth
  BY <1>3, PolicyIs
<1>5. PICK lo2, hi2 : lo2 = q - pol.d0 - HalfWidth /\ hi2 = q - pol.d0 + HalfWidth
  OBVIOUS
<1>6. PICK new, k, j, c : /\ new = Law!Times(liq, Law!MintMin(q, lo, hi, lo2, hi2))
                          /\ k = Law!Times(new, Law!Phi(q, lo2, hi2))
                          /\ j = Law!Minus(Law!Times(liq, Law!Phi(q, lo, hi)), k)
                          /\ c = Law!CostRatio(q, lo, hi, lo2, hi2)
  OBVIOUS
<1>7. /\ sumJ' = Law!Plus(sumJ, j) /\ decay' = Law!Times(decay, c)
      /\ nRecentred' = nRecentred + 1 /\ liq' = new /\ mid' = q - pol.d0
  <2>1. /\ sumJ' = Law!Plus(sumJ, Law!J(price'))
        /\ decay' = Law!Times(decay, Law!CostRatio(price', Law!Sa, Law!Sb,
                        price' - pol.d0 - HalfWidth, price' - pol.d0 + HalfWidth))
        /\ nRecentred' = nRecentred + 1 /\ liq' = Law!New(price')
        /\ mid' = price' - pol.d0
    BY DEF Law!Replace
  <2>2. Law!Sa = lo /\ Law!Sb = hi
    BY <1>1 DEF Law!Sa, Law!Sb
  <2>3. Law!New(price') = new
    BY <1>1, <1>5, <1>6, <2>2 DEF Law!New
  <2>4. Law!J(price') = j
    BY <1>1, <1>5, <1>6, <2>2, <2>3 DEF Law!J
  <2> QED
    BY <1>1, <1>5, <1>6, <2>1, <2>2, <2>3, <2>4
<1>8. /\ lo2 \in Int /\ hi2 \in Int /\ lo2 < q /\ q < hi2
      /\ SameWidth(lo, hi, lo2, hi2) /\ lo # lo2
  <2>1. lo2 \in Int /\ hi2 \in Int /\ lo2 < q /\ q < hi2
    BY <1>4, <1>5
  <2>2. SameWidth(lo, hi, lo2, hi2)
    BY <1>1, <1>3, <1>4, <1>5 DEF SameWidth
  <2>3. q - mid <= pol.dd \/ q - mid >= pol.du
    BY <1>1 DEF Law!Replace, Law!Fires
  <2>4. lo # lo2
    BY <1>1, <1>3, <1>4, <1>5, <2>3
  <2> QED
    BY <2>1, <2>2, <2>4
<1>9. 0 < liq[1] /\ 0 <= sumJ[1] /\ decay[2] <= decay[1]
  BY <1>2, <1>3, OneIs DEF Law!Dissipates
<1>10. /\ new \in Rat /\ 0 < new[1] /\ k \in Rat
       /\ j \in Rat /\ 0 < j[1] /\ c \in Rat /\ c[2] < c[1]
  BY <1>1, <1>3, <1>6, <1>8, <1>9, Gives
<1>11. sumJ' \in Rat /\ 0 < sumJ'[1]
  BY <1>3, <1>7, <1>9, <1>10, PlusPositive
<1>12. decay' \in Rat /\ decay'[2] < decay'[1]
  BY <1>3, <1>7, <1>9, <1>10, TimesAbove
<1>13. PathWithin'
  <2>1. mid' \in Int /\ price' - mid' = pol.d0
    BY <1>1, <1>4, <1>7
  <2> QED
    BY <1>1, <1>3, <1>4, <2>1 DEF PathWithin
<1>14. nRecentred' \in Nat /\ nRecentred' # 0
  BY <1>3, <1>7
<1>15. PathFractions'
  BY <1>1, <1>7, <1>10, <1>11, <1>12, <1>14 DEF PathFractions
<1>16. Law!Dissipates'
  <2>1. sumJ'[1] \in Int /\ decay'[1] \in Int /\ decay'[2] \in Int
    BY <1>11, <1>12, RatIs
  <2>2. 0 <= sumJ'[1] /\ sumJ'[1] # 0
    BY <1>11, <2>1
  <2>3. decay' # Law!Whole(1) /\ Law!Leq(Law!Whole(1), decay')
    BY <1>12, <2>1, OneIs
  <2>4. Law!Whole(1)' = Law!Whole(1)
    BY DEF Law!Whole
  <2>5. 0 < liq'[1]
    BY <1>7, <1>10
  <2> QED
    BY <1>14, <2>2, <2>3, <2>4, <2>5 DEF Law!Dissipates, Law!Leq
<1>17. NowHeld' = k
  <2>1. Law!FVal(q, lo2, hi2) = Law!Phi(q, lo2, hi2)
    BY <1>8 DEF Law!FVal
  <2>2. Law!Sa' = lo2 /\ Law!Sb' = hi2
    <3>1. Law!Sa' = mid' - HalfWidth /\ Law!Sb' = mid' + HalfWidth
      BY DEF Law!Sa, Law!Sb
    <3> QED
      BY <1>5, <1>7, <3>1
  <2>3. NowHeld' = Law!Times(liq', Law!FVal(price', Law!Sa', Law!Sb'))
    BY DEF NowHeld
  <2> QED
    BY <1>1, <1>6, <1>7, <2>1, <2>2, <2>3
<1>18. Balanced(sumJ', k, FirstHeld, ito', tanaka')
  <2>1. PICK w : w = Law!Times(liq, Law!Phi(q, lo, hi))
    OBVIOUS
  <2>2. w \in Rat /\ Balanced(sumJ, w, FirstHeld, ito', tanaka')
    BY <1>1, <2>1
  <2>3. sumJ' = Law!Plus(sumJ, Law!Minus(w, k))
    BY <1>6, <1>7, <2>1
  <2> QED
    BY <1>1, <1>3, <1>10, <2>2, <2>3, FiringBalances
<1>19. Law!IdentityHolds'
  <2>1. Balanced(sumJ', NowHeld', FirstHeld', ito', tanaka')
    BY <1>1, <1>17, <1>18
  <2> QED
    BY <2>1 DEF Law!IdentityHolds, Balanced, NowHeld, FirstHeld
<1> QED
  BY <1>13, <1>15, <1>16, <1>19 DEF PathInv, PathExact

\* The dissipation identity, exactly, after every step of every path: what the
\* firings gave up and the value still held are what the path accounts for, and
\* every firing gives something up (check_identity() of act 1, mc_renewal() of
\* act 2).
THEOREM PathIsExact == Law!Spec => []PathExact
<1>1. Law!Init => PathInv
  BY PathBegins
<1>2. PathInv /\ [Law!Next]_(Law!dvars) => PathInv'
  <2> SUFFICES ASSUME PathInv, [Law!Next]_(Law!dvars) PROVE PathInv'
    OBVIOUS
  <2>1. CASE Law!Next
    <3>1. PICK ds \in PriceMoves : Law!Step(ds)
      BY <2>1 DEF Law!Next
    <3>2. \/ Law!Replace
          \/ ~Law!Fires(price') /\ UNCHANGED <<sumJ, decay, nRecentred, liq, mid>>
      BY <3>1 DEF Law!Step
    <3> QED
      BY <3>1, <3>2, PathGoesOn, PathFires
  <2>2. CASE UNCHANGED Law!dvars
    BY <2>2 DEF Law!dvars, PathInv, PathWithin, PathFractions, PathExact,
         Law!IdentityHolds, Law!Dissipates, Law!Sa, Law!Sb
  <2> QED
    BY <2>1, <2>2
<1>3. PathInv => PathExact
  BY DEF PathInv
<1> QED
  BY <1>1, <1>2, <1>3, PTL DEF Law!Spec-----------------------------------------------------------------------------
\* The closed forms of the residual are the mint arithmetic's, for every geometry.
LEMMA FracWhole ==
  ASSUME NEW n \in Int
  PROVE  Law!Frac(n, 1) = Law!Whole(n)
<1>1. 1 \in Nat \ {0}
  OBVIOUS
<1>2. PICK u \in Int, v \in Nat \ {0}, g \in Nat \ {0} :
        /\ Law!Frac(n, 1) = <<u, v>> /\ n = u * g /\ 1 = v * g
        /\ g = Law!Gcd(Law!Size(n), 1)
  BY <1>1, FracIs
<1>3. v = 1 /\ g = 1
  <2>1. v >= 2 => v * g >= 2 * g
    OBVIOUS
  <2>2. v < 2
    BY <1>2, <2>1
  <2>3. v = 1
    BY <2>2
  <2> QED
    BY <1>2, <2>3
<1>4. u = n
  BY <1>2, <1>3
<1> QED
  BY <1>2, <1>3, <1>4 DEF Law!Whole

LEMMA ResidualIs ==
  ASSUME NEW c \in Int, NEW u \in Nat \ {0}, NEW d \in Int, 0 < c + d, -u <= d, d <= u
  PROVE  Law!Amplitudes(c, u, d)
<1>1. PICK p, lo, hi, lo2, hi2 : /\ p = c + d /\ lo = c - u /\ hi = c + u
                                 /\ lo2 = p - u /\ hi2 = p + u
  OBVIOUS
<1>2. /\ p \in Nat \ {0} /\ lo \in Int /\ hi \in Int /\ lo2 \in Int /\ hi2 \in Int
      /\ lo <= p /\ p <= hi /\ lo2 < p /\ p < hi2 /\ SameWidth(lo, hi, lo2, hi2)
      /\ hi \in Nat \ {0} /\ hi2 \in Nat \ {0}
  BY <1>1 DEF SameWidth
<1>3. Law!Residual(c, u, d) = Loss(p, lo, hi, lo2, hi2)
  BY <1>1 DEF Law!Residual, Loss, Kept
<1>4. PICK i, j, h, x, y, D :
        /\ i = Amount0(p, hi, hi2) /\ j = Amount0(p, hi2, hi) /\ h = Amount1(p, lo)
        /\ x = UpLoss(p, lo, hi, lo2, hi2) /\ y = DownLoss(p, lo, hi, lo2, hi2)
        /\ D = DownUnit(p, hi, lo2, hi2)
  OBVIOUS
<1>5. /\ j \in Nat \ {0} /\ D \in Nat \ {0}
      /\ lo <= lo2 => Loss(p, lo, hi, lo2, hi2) = Law!Frac(x, j)
      /\ lo2 <= lo => Loss(p, lo, hi, lo2, hi2) = Law!Frac(y, D)
  BY <1>2, <1>4, LossIs
<1>6. /\ Amount1(p, lo2) = u
      /\ i = (u - d) * (c + d + u) /\ j = u * (c + u) /\ h = u + d
  <2>1. p - lo2 = u /\ hi - p = u - d /\ hi2 - p = u /\ p - lo = u + d /\ hi2 = c + d + u
    BY <1>1
  <2> QED
    BY <1>1, <1>4, <2>1 DEF Amount0, Amount1
<1>7. PICK e : e = d * (2 * c + u + d)
  OBVIOUS
<1>8. e \in Int /\ x = u * e
  <2>1. x = h * j - i * u
    BY <1>4, <1>6 DEF UpLoss
  <2>2. (u + d) * (u * (c + u)) - ((u - d) * (c + d + u)) * u = u * (d * (2 * c + u + d))
    OBVIOUS
  <2> QED
    BY <1>6, <1>7, <2>1, <2>2
<1>9. y = p * (-(u * e)) /\ D = hi * (hi2 * u)
  BY <1>4, <1>6, <1>8 DEF DownLoss, DownUnit
<1>10. CASE d >= 0
  <2>1. lo <= lo2
    BY <1>1, <1>10
  <2>2. Law!UpClosed(c, u, d) = Law!Frac(e, hi)
    BY <1>1, <1>7 DEF Law!UpClosed
  <2>3. x \in Int /\ x * hi = e * j
    <3>1. (u * e) * (c + u) = e * (u * (c + u))
      BY <1>8
    <3> QED
      BY <1>1, <1>6, <1>8, <3>1
  <2>4. Law!Frac(x, j) = Law!Frac(e, hi)
    BY <1>2, <1>5, <1>8, <2>3, FracSame
  <2> QED
    BY <1>3, <1>5, <1>10, <2>1, <2>2, <2>4 DEF Law!Amplitudes
<1>11. CASE d < 0
  <2>1. lo2 <= lo
    BY <1>1, <1>11
  <2>2. PICK f, E : f = -d * (c + d) * (2 * c + u + d) /\ E = (c + u) * (c + u + d)
    OBVIOUS
  <2>3. f = -(p * e) /\ E = hi * hi2
    <3>1. -d * (c + d) * (2 * c + u + d) = -((c + d) * (d * (2 * c + u + d)))
      OBVIOUS
    <3>2. hi2 = c + u + d
      BY <1>1
    <3> QED
      BY <1>1, <1>7, <2>2, <3>1, <3>2
  <2>4. f \in Int /\ E \in Nat \ {0} /\ y \in Int
    BY <1>2, <1>8, <1>9, <2>3
  <2>5. y * E = f * D
    <3>1. (p * (-(u * e))) * (hi * hi2) = (-(p * e)) * (hi * (hi2 * u))
      BY <1>2, <1>8
    <3> QED
      BY <1>9, <2>3, <3>1
  <2>6. Law!Frac(y, D) = Law!Frac(f, E)
    BY <1>5, <2>4, <2>5, FracSame
  <2>7. Law!DownClosed(c, u, d) = Law!Frac(f, E)
    BY <2>2 DEF Law!DownClosed
  <2> QED
    BY <1>3, <1>5, <1>11, <2>1, <2>6, <2>7 DEF Law!Amplitudes
<1> QED
  BY <1>10, <1>11

LEMMA CornersAre ==
  ASSUME NEW c \in Int, NEW u \in Nat \ {0}, u < c
  PROVE  Law!Corners(c, u)
<1>1. Law!Residual(c, u, u) = Law!Whole(2 * u)
  <2>1. 0 < c + u /\ -u <= u /\ u >= 0 /\ u \in Int
    OBVIOUS
  <2>2. Law!Residual(c, u, u) = Law!UpClosed(c, u, u)
    BY <2>1, ResidualIs DEF Law!Amplitudes
  <2>3. PICK n, D, m : n = u * (2 * c + u + u) /\ D = c + u /\ m = 2 * u
    OBVIOUS
  <2>4. n \in Int /\ D \in Nat \ {0} /\ m \in Int /\ 1 \in Nat \ {0} /\ n * 1 = m * D
    BY <2>3
  <2>5. Law!UpClosed(c, u, u) = Law!Frac(n, D)
    BY <2>3 DEF Law!UpClosed
  <2>6. Law!Frac(n, D) = Law!Frac(m, 1)
    BY <2>4, FracSame
  <2> QED
    BY <2>2, <2>3, <2>4, <2>5, <2>6, FracWhole
<1>2. Law!Residual(c, u, -u) = Law!Frac(2 * u * (c - u), c + u)
  <2>1. PICK d : d = -u
    OBVIOUS
  <2>2. d \in Int /\ 0 < c + d /\ -u <= d /\ d <= u /\ ~(d >= 0)
    BY <2>1
  <2>3. Law!Residual(c, u, d) = Law!DownClosed(c, u, d)
    BY <2>2, ResidualIs DEF Law!Amplitudes
  <2>4. PICK n, D, m, E : /\ n = -d * (c + d) * (2 * c + u + d) /\ D = (c + u) * (c + u + d)
                          /\ m = 2 * u * (c - u) /\ E = c + u
    OBVIOUS
  <2>5. n = u * (c - u) * (2 * c) /\ D = (c + u) * c
    <3>1. -d = u /\ c + d = c - u /\ 2 * c + u + d = 2 * c /\ c + u + d = c
      BY <2>1
    <3>2. -d * (c + d) * (2 * c + u + d) = (-d) * (c + d) * (2 * c + u + d)
      BY <2>2
    <3> QED
      BY <2>4, <3>1, <3>2
  <2>6. n \in Int /\ D \in Nat \ {0} /\ m \in Int /\ E \in Nat \ {0}
    <3>1. c \in Nat \ {0} /\ c + u \in Nat \ {0}
      OBVIOUS
    <3> QED
      BY <2>4, <2>5, <3>1
  <2>7. n * E = m * D
    <3>1. (u * (c - u) * (2 * c)) * (c + u) = (2 * u * (c - u)) * ((c + u) * c)
      OBVIOUS
    <3> QED
      BY <2>4, <2>5, <3>1
  <2>8. Law!Frac(n, D) = Law!Frac(m, E)
    BY <2>6, <2>7, FracSame
  <2>9. Law!DownClosed(c, u, d) = Law!Frac(n, D)
    BY <2>4 DEF Law!DownClosed
  <2> QED
    BY <2>1, <2>3, <2>4, <2>8, <2>9
<1> QED
  BY <1>1, <1>2 DEF Law!Corners
-----------------------------------------------------------------------------
\* The cost of a re-placement, for every pair of ranges around the price: what
\* a position is worth in units of its upper bound, and what each side costs.
Value(p, lo, hi) == p * (hi - p) + (p - lo) * hi
Cost0(p, lo, hi, lo2, hi2) ==
  Law!Frac(Value(p, lo, hi) * (hi2 - p), (hi - p) * Value(p, lo2, hi2))
Cost1(p, lo, hi, lo2, hi2) ==
  Law!Frac(Value(p, lo, hi) * ((p - lo2) * hi2), ((p - lo) * hi) * Value(p, lo2, hi2))

LEMMA PositionIs ==
  ASSUME NEW p \in Nat \ {0}, NEW lo \in Int, NEW hi \in Int, lo < p, p < hi
  PROVE  /\ hi - p \in Nat \ {0} /\ p - lo \in Nat \ {0} /\ hi \in Nat \ {0}
         /\ Value(p, lo, hi) \in Nat \ {0}
         /\ Law!Worth(p, lo, hi) \in Rat /\ Is(Law!Worth(p, lo, hi), Value(p, lo, hi), hi)
         /\ Law!Share0(p, lo, hi) = Law!Frac(p * (hi - p), Value(p, lo, hi))
         /\ Law!Share1(p, lo, hi) = Law!Frac((p - lo) * hi, Value(p, lo, hi))
<1>1. hi - p \in Nat \ {0} /\ p - lo \in Nat \ {0} /\ hi \in Nat \ {0} /\ 1 \in Nat \ {0}
      /\ lo <= p /\ p <= hi
  OBVIOUS
<1>2. PICK h, g, w, v, m, n : /\ h = Law!Held0(p, lo, hi) /\ g = Law!Held1(p, lo, hi)
                              /\ w = Law!Worth(p, lo, hi) /\ v = Value(p, lo, hi)
                              /\ m = p * (hi - p) /\ n = p - lo
  OBVIOUS
<1>3. v = m + n * hi
  BY <1>2 DEF Value
<1>4. m \in Nat \ {0} /\ n \in Nat \ {0} /\ n * hi \in Nat \ {0}
  BY <1>1, <1>2
<1>5. v \in Nat \ {0} /\ m \in Int /\ n \in Int /\ n * hi \in Int
  BY <1>3, <1>4
<1>6. /\ h \in Rat /\ Is(h, m, hi) /\ g \in Rat /\ Is(g, n, 1)
      /\ w \in Rat /\ Is(w, v, hi)
  <2>1. v = p * (hi - p) + (p - lo) * hi
    BY <1>2 DEF Value
  <2> QED
    BY <1>1, <1>2, <2>1, HeldAre
<1>7. Law!Over(h, w) = Law!Frac(m * hi, hi * v)
  BY <1>1, <1>5, <1>6, OverValue
<1>8. Law!Frac(m * hi, hi * v) = Law!Frac(m, v)
  <2>1. PICK i, D : i = m * hi /\ D = hi * v
    OBVIOUS
  <2>2. i \in Int /\ D \in Nat \ {0}
    BY <1>1, <1>5, <2>1
  <2>3. i * v = m * D
    BY <1>1, <1>5, <2>1
  <2> QED
    BY <1>5, <2>1, <2>2, <2>3, FracSame
<1>9. Law!Over(g, w) = Law!Frac(n * hi, 1 * v)
  BY <1>1, <1>5, <1>6, OverValue
<1>10. 1 * v = v
  BY <1>5
<1> QED
  BY <1>1, <1>2, <1>5, <1>6, <1>7, <1>8, <1>9, <1>10 DEF Law!Share0, Law!Share1
\* The two sides are the ratios of the token0 and of the token1 shares, the larger
\* of them is what the mint costs, and each side gains what the other loses.
CostBySides(p, lo, hi, lo2, hi2) ==
  LET x == Cost0(p, lo, hi, lo2, hi2)
      y == Cost1(p, lo, hi, lo2, hi2)
      k == Law!CostRatio(p, lo, hi, lo2, hi2)
  IN  /\ x \in Rat /\ y \in Rat /\ k \in Rat
      /\ k = Law!Most(x, y)
      /\ Law!Leq(Law!Whole(1), k)
      /\ k = Law!Whole(1) <=> Law!Share0(p, lo2, hi2) = Law!Share0(p, lo, hi)
      /\ x = Law!Over(Law!Share0(p, lo2, hi2), Law!Share0(p, lo, hi))
      /\ y = Law!Over(Law!Share1(p, lo2, hi2), Law!Share1(p, lo, hi))

LEMMA SidesCost ==
  ASSUME NEW p \in Nat \ {0}, NEW lo \in Int, NEW hi \in Int, NEW lo2 \in Int,
         NEW hi2 \in Int, lo < p, p < hi, lo2 < p, p < hi2
  PROVE  CostBySides(p, lo, hi, lo2, hi2)
<1>1. PICK k, h, l, g, v, u : /\ k = hi - p /\ h = (p - lo) * hi /\ v = Value(p, lo, hi)
                              /\ l = hi2 - p /\ g = (p - lo2) * hi2 /\ u = Value(p, lo2, hi2)
  OBVIOUS
<1>2. PICK e, f : e = Law!Worth(p, lo, hi) /\ f = Law!Worth(p, lo2, hi2)
  OBVIOUS
<1>3. /\ k \in Nat \ {0} /\ p - lo \in Nat \ {0} /\ hi \in Nat \ {0} /\ v \in Nat \ {0}
      /\ e \in Rat /\ Is(e, v, hi)
      /\ Law!Share0(p, lo, hi) = Law!Frac(p * k, v)
      /\ Law!Share1(p, lo, hi) = Law!Frac(h, v)
  BY <1>1, <1>2, PositionIs
<1>4. /\ l \in Nat \ {0} /\ p - lo2 \in Nat \ {0} /\ hi2 \in Nat \ {0} /\ u \in Nat \ {0}
      /\ f \in Rat /\ Is(f, u, hi2)
      /\ Law!Share0(p, lo2, hi2) = Law!Frac(p * l, u)
      /\ Law!Share1(p, lo2, hi2) = Law!Frac(g, u)
  BY <1>1, <1>2, PositionIs
<1>5. h \in Nat \ {0} /\ g \in Nat \ {0} /\ v = p * k + h /\ u = p * l + g
  BY <1>1, <1>3, <1>4 DEF Value
<1>6. PICK i, j, m, n : i = v * l /\ j = k * u /\ m = v * g /\ n = h * u
  OBVIOUS
<1>7. i \in Nat \ {0} /\ j \in Nat \ {0} /\ m \in Nat \ {0} /\ n \in Nat \ {0}
  BY <1>3, <1>4, <1>5, <1>6
<1>8. PICK x, y : x = Law!Frac(i, j) /\ y = Law!Frac(m, n)
  OBVIOUS
<1>9. x \in Rat /\ Is(x, i, j) /\ y \in Rat /\ Is(y, m, n)
  BY <1>7, <1>8, FracValue
<1>10. x = Cost0(p, lo, hi, lo2, hi2) /\ y = Cost1(p, lo, hi, lo2, hi2)
  BY <1>1, <1>6, <1>8 DEF Cost0, Cost1
<1>11. PICK q, z : q = h * l /\ z = k * g
  OBVIOUS
<1>12. q \in Int /\ z \in Int /\ i - j = q - z /\ m - n = p * (z - q)
  <2>1. (p * k + h) * l - k * (p * l + g) = h * l - k * g
    BY <1>3, <1>4, <1>5
  <2>2. (p * k + h) * g - h * (p * l + g) = p * (k * g - h * l)
    BY <1>3, <1>4, <1>5
  <2> QED
    BY <1>3, <1>4, <1>5, <1>6, <1>11, <2>1, <2>2
\* what each amount mints, and what it costs when it binds
<1>13. PICK r, t : /\ r = Law!Over(Law!Held0(p, lo, hi), Law!Held0(p, lo2, hi2))
                   /\ t = Law!Over(Law!Held1(p, lo, hi), Law!Held1(p, lo2, hi2))
  OBVIOUS
<1>14. PICK R, T, A, C : /\ R = (hi - p) * hi2 /\ T = hi * (hi2 - p)
                         /\ A = p - lo /\ C = p - lo2
  OBVIOUS
<1>15. /\ T \in Nat \ {0} /\ C \in Nat \ {0} /\ r \in Rat /\ Is(r, R, T)
       /\ t \in Rat /\ Is(t, A, C)
       /\ Law!MintMin(p, lo, hi, lo2, hi2) = Law!Least(r, t)
  <2>1. lo <= p /\ p <= hi
    OBVIOUS
  <2> QED
    BY <1>13, <1>14, <2>1, SidesAre
<1>16. R \in Nat \ {0} /\ A \in Nat \ {0} /\ R \in Int /\ A \in Int
       /\ R = k * hi2 /\ T = hi * l /\ h = A * hi /\ g = C * hi2
  <2>1. R = k * hi2 /\ T = hi * l /\ h = A * hi /\ g = C * hi2
    BY <1>1, <1>14
  <2> QED
    BY <1>3, <1>4, <1>14, <2>1
<1>17. Law!Leq(r, t) <=> z <= q
  <2>1. Law!Leq(r, t) <=> R * C <= A * T
    BY <1>15, <1>16, LeqValue
  <2>2. R * C = z /\ A * T = q
    <3>1. (k * hi2) * C = k * (C * hi2) /\ A * (hi * l) = (A * hi) * l
      BY <1>3, <1>4, <1>15, <1>16
    <3> QED
      BY <1>11, <1>16, <3>1
  <2> QED
    BY <2>1, <2>2
<1>18. Law!CostRatio(p, lo, hi, lo2, hi2) = Law!Over(e, Law!Times(Law!Least(r, t), f))
  BY <1>2, <1>15 DEF Law!CostRatio
<1>19. Law!Over(e, Law!Times(r, f)) = x
  <2>1. PICK o : o = Law!Times(r, f)
    OBVIOUS
  <2>2. PICK c, D : c = R * u /\ D = T * hi2
    OBVIOUS
  <2>3. c \in Nat \ {0} /\ D \in Nat \ {0} /\ u \in Int /\ v \in Int
    BY <1>3, <1>4, <1>15, <1>16, <2>2
  <2>4. o \in Rat /\ Is(o, c, D)
    BY <1>4, <1>15, <1>16, <2>1, <2>2, <2>3, TimesValue
  <2>5. Law!Over(e, o) = Law!Frac(v * D, hi * c)
    BY <1>3, <2>3, <2>4, OverValue
  <2>6. PICK w, E : w = v * D /\ E = hi * c
    OBVIOUS
  <2>7. w \in Int /\ E \in Nat \ {0} /\ i \in Int
    BY <1>3, <1>7, <2>3, <2>6
  <2>8. w * j = i * E
    <3>1. (v * ((hi * l) * hi2)) * (k * u) = (v * l) * (hi * ((k * hi2) * u))
      BY <1>3, <1>4
    <3> QED
      BY <1>6, <1>16, <2>2, <2>6, <3>1
  <2> QED
    BY <1>7, <1>8, <2>1, <2>5, <2>6, <2>7, <2>8, FracSame
<1>20. Law!Over(e, Law!Times(t, f)) = y
  <2>1. PICK o : o = Law!Times(t, f)
    OBVIOUS
  <2>2. PICK c, D : c = A * u /\ D = C * hi2
    OBVIOUS
  <2>3. c \in Nat \ {0} /\ D \in Nat \ {0} /\ u \in Int /\ v \in Int
    BY <1>3, <1>4, <1>15, <1>16, <2>2
  <2>4. o \in Rat /\ Is(o, c, D)
    BY <1>4, <1>15, <1>16, <2>1, <2>2, <2>3, TimesValue
  <2>5. Law!Over(e, o) = Law!Frac(v * D, hi * c)
    BY <1>3, <2>3, <2>4, OverValue
  <2>6. PICK w, E : w = v * D /\ E = hi * c
    OBVIOUS
  <2>7. w \in Int /\ E \in Nat \ {0} /\ m \in Int
    BY <1>3, <1>7, <2>3, <2>6
  <2>8. w * n = m * E
    <3>1. (v * (C * hi2)) * ((A * hi) * u) = (v * (C * hi2)) * (hi * (A * u))
      BY <1>3, <1>4, <1>15, <1>16
    <3> QED
      BY <1>6, <1>16, <2>2, <2>6, <3>1
  <2> QED
    BY <1>7, <1>8, <2>1, <2>5, <2>6, <2>7, <2>8, FracSame
<1>21. Law!Leq(x, y) <=> q <= z
  <2>1. i \in Int /\ m \in Int
    BY <1>7
  <2>2. Law!Leq(x, y) <=> i * n <= m * j
    BY <1>7, <1>9, <2>1, LeqValue
  <2>3. PICK F : F = v * u
    OBVIOUS
  <2>4. F \in Nat \ {0}
    BY <1>3, <1>4, <2>3
  <2>5. i * n = q * F /\ m * j = z * F
    <3>1. (v * l) * (h * u) = (h * l) * (v * u) /\ (v * g) * (k * u) = (k * g) * (v * u)
      BY <1>3, <1>4, <1>5
    <3> QED
      BY <1>6, <1>11, <2>3, <3>1
  <2>6. q * F <= z * F <=> q <= z
    BY <1>12, <2>4
  <2> QED
    BY <2>2, <2>5, <2>6
<1>22. PICK s2 : s2 = Law!CostRatio(p, lo, hi, lo2, hi2)
  OBVIOUS
<1>23. i \in Int /\ m \in Int /\ 1 \in Int /\ 1 \in Nat \ {0}
  BY <1>7
<1>24. Law!Whole(1) = Law!Frac(1, 1)
  BY <1>23, FracWhole
<1>25. ASSUME z <= q
       PROVE  /\ s2 = x /\ s2 = Law!Most(x, y) /\ Law!Leq(Law!Whole(1), s2)
              /\ s2 = Law!Whole(1) <=> z = q
  <2>1. s2 = x
    BY <1>17, <1>18, <1>19, <1>22, <1>25 DEF Law!Least
  <2>2. ASSUME z = q PROVE x = y
    <3>1. i = j /\ m = n
      BY <1>7, <1>12, <2>2
    <3>2. i * n = m * j
      BY <1>7, <3>1
    <3> QED
      BY <1>7, <1>8, <1>23, <3>2, FracSame
  <2>3. s2 = Law!Most(x, y)
    BY <1>12, <1>21, <1>25, <2>1, <2>2 DEF Law!Most
  <2>4. j <= i
    BY <1>7, <1>12, <1>25
  <2>5. x[2] <= x[1]
    BY <1>7, <1>9, <1>23, <2>4, SignIs
  <2>6. Law!Leq(Law!Whole(1), x)
    BY <1>9, <2>5, OneIs
  <2>7. i * 1 = 1 * j <=> x = Law!Frac(1, 1)
    BY <1>7, <1>8, <1>23, FracSame
  <2>8. i * 1 = 1 * j <=> z = q
    BY <1>7, <1>12
  <2> QED
    BY <1>24, <2>1, <2>3, <2>6, <2>7, <2>8
<1>26. ASSUME q < z
       PROVE  /\ s2 = y /\ s2 = Law!Most(x, y) /\ Law!Leq(Law!Whole(1), s2)
              /\ s2 # Law!Whole(1)
  <2>1. s2 = y
    BY <1>12, <1>17, <1>18, <1>20, <1>22, <1>26 DEF Law!Least
  <2>2. s2 = Law!Most(x, y)
    BY <1>12, <1>21, <1>26, <2>1 DEF Law!Most
  <2>3. n < m
    <3>1. z - q > 0
      BY <1>12, <1>26
    <3>2. p * (z - q) > 0
      BY <1>12, <3>1
    <3> QED
      BY <1>7, <1>12, <3>2
  <2>4. y[2] < y[1]
    BY <1>7, <1>9, <1>23, <2>3, SignIs
  <2>5. y[1] \in Int /\ y[2] \in Nat \ {0}
    BY <1>9, RatIs
  <2>6. Law!Leq(Law!Whole(1), y)
    BY <1>9, <2>4, <2>5, OneIs
  <2>7. y # Law!Whole(1)
    BY <2>4, <2>5, OneIs
  <2> QED
    BY <2>1, <2>2, <2>6, <2>7
<1>27. /\ s2 \in Rat /\ s2 = Law!Most(x, y) /\ Law!Leq(Law!Whole(1), s2)
       /\ s2 = Law!Whole(1) <=> z = q
  <2>1. z <= q \/ q < z
    BY <1>12
  <2> QED
    BY <1>9, <1>12, <1>25, <1>26, <2>1
\* the shares
<1>28. PICK o, w : o = p * l /\ w = p * k
  OBVIOUS
<1>29. o \in Nat \ {0} /\ w \in Nat \ {0} /\ o \in Int /\ w \in Int
       /\ g \in Int /\ h \in Int
  BY <1>3, <1>4, <1>5, <1>28
<1>30. PICK a0, b0, a1, b1 : /\ a0 = Law!Frac(o, u) /\ b0 = Law!Frac(w, v)
                             /\ a1 = Law!Frac(g, u) /\ b1 = Law!Frac(h, v)
  OBVIOUS
<1>31. /\ a0 \in Rat /\ Is(a0, o, u) /\ b0 \in Rat /\ Is(b0, w, v)
       /\ a1 \in Rat /\ Is(a1, g, u) /\ b1 \in Rat /\ Is(b1, h, v)
  BY <1>3, <1>4, <1>29, <1>30, FracValue
<1>32. a0 = b0 <=> z = q
  <2>1. o * v = w * u <=> a0 = b0
    BY <1>3, <1>4, <1>29, <1>30, FracSame
  <2>2. o * v = p * i /\ w * u = p * j
    <3>1. (p * l) * v = p * (v * l) /\ (p * k) * u = p * (k * u)
      BY <1>3, <1>4
    <3> QED
      BY <1>6, <1>28, <3>1
  <2>3. p * i = p * j <=> i = j
    BY <1>7
  <2>4. i = j <=> z = q
    BY <1>7, <1>12
  <2> QED
    BY <2>1, <2>2, <2>3, <2>4
<1>33. Law!Over(a0, b0) = x
  <2>1. Law!Over(a0, b0) = Law!Frac(o * v, u * w)
    BY <1>3, <1>4, <1>29, <1>31, OverValue
  <2>2. PICK c, D : c = o * v /\ D = u * w
    OBVIOUS
  <2>3. c \in Int /\ D \in Nat \ {0}
    BY <1>3, <1>4, <1>29, <2>2
  <2>4. c * j = i * D
    <3>1. ((p * l) * v) * (k * u) = (v * l) * (u * (p * k))
      BY <1>3, <1>4
    <3> QED
      BY <1>6, <1>28, <2>2, <3>1
  <2> QED
    BY <1>7, <1>8, <1>23, <2>1, <2>2, <2>3, <2>4, FracSame
<1>34. Law!Over(a1, b1) = y
  <2>1. Law!Over(a1, b1) = Law!Frac(g * v, u * h)
    BY <1>3, <1>4, <1>5, <1>29, <1>31, OverValue
  <2>2. g * v = m /\ u * h = n
    BY <1>3, <1>4, <1>5, <1>6
  <2> QED
    BY <1>8, <2>1, <2>2
<1> QED
  BY <1>3, <1>4, <1>9, <1>10, <1>22, <1>27, <1>28, <1>30, <1>32, <1>33, <1>34
  DEF CostBySides
\* The two potentials are what a position is worth by each side.
LEMMA PotentialIs ==
  ASSUME NEW p \in Nat \ {0}, NEW u \in Nat \ {0}, NEW x \in Int, -u < x, x < u,
         NEW lo \in Int, NEW hi \in Int, lo = p - x - u, hi = p - x + u
  PROVE  LET v == Value(p, lo, hi)
             k == hi - p
             h == (p - lo) * hi
         IN  /\ v \in Nat \ {0} /\ k \in Nat \ {0} /\ h \in Nat \ {0}
             /\ Law!ExpUp(u, p, x) \in Rat /\ Is(Law!ExpUp(u, p, x), v, k)
             /\ Law!ExpDown(u, p, x) \in Rat /\ Is(Law!ExpDown(u, p, x), v, h)
<1>1. lo < p /\ p < hi
  OBVIOUS
<1>2. PICK v, k, h : v = Value(p, lo, hi) /\ k = hi - p /\ h = (p - lo) * hi
  OBVIOUS
<1>3. v \in Nat \ {0} /\ k \in Nat \ {0} /\ p - lo \in Nat \ {0} /\ hi \in Nat \ {0}
  BY <1>1, <1>2, PositionIs
<1>4. h \in Nat \ {0} /\ v \in Int
  BY <1>2, <1>3
<1>5. v = u * (2 * p + u) - x * x /\ k = u - x /\ h = (u + x) * (p + u - x)
  <2>1. k = u - x /\ p - lo = u + x /\ hi = p + u - x
    BY <1>2
  <2>2. v = p * (u - x) + (u + x) * (p + u - x)
    BY <1>2, <2>1 DEF Value
  <2>3. p * (u - x) + (u + x) * (p + u - x) = u * (2 * p + u) - x * x
    OBVIOUS
  <2> QED
    BY <1>2, <2>1, <2>2, <2>3
<1>6. Law!ExpUp(u, p, x) = Law!Frac(v, k) /\ Law!ExpDown(u, p, x) = Law!Frac(v, h)
  BY <1>5 DEF Law!ExpUp, Law!ExpDown
<1> QED
  BY <1>2, <1>3, <1>4, <1>6, FracValue

LEMMA CostIsPotential ==
  ASSUME NEW c \in Int, NEW u \in Nat \ {0}, NEW d \in Int, NEW e \in Int, 0 < c + d,
         -u < d, d < u, -u < e, e < u
  PROVE  Law!Check1(c, u, d, e)
<1>1. PICK p, lo, hi, lo2, hi2 : /\ p = c + d /\ lo = p - d - u /\ hi = p - d + u
                                 /\ lo2 = p - e - u /\ hi2 = p - e + u
  OBVIOUS
<1>2. /\ p \in Nat \ {0} /\ lo \in Int /\ hi \in Int /\ lo2 \in Int /\ hi2 \in Int
      /\ lo < p /\ p < hi /\ lo2 < p /\ p < hi2
      /\ lo = c - u /\ hi = c + u
  BY <1>1
<1>3. PICK v, k, h, w, l, g : /\ v = Value(p, lo, hi) /\ k = hi - p /\ h = (p - lo) * hi
                              /\ w = Value(p, lo2, hi2) /\ l = hi2 - p /\ g = (p - lo2) * hi2
  OBVIOUS
<1>4. PICK i, j, m, n : /\ i = Law!ExpUp(u, p, d) /\ j = Law!ExpUp(u, p, e)
                        /\ m = Law!ExpDown(u, p, d) /\ n = Law!ExpDown(u, p, e)
  OBVIOUS
<1>5. /\ v \in Nat \ {0} /\ k \in Nat \ {0} /\ h \in Nat \ {0}
      /\ i \in Rat /\ Is(i, v, k) /\ m \in Rat /\ Is(m, v, h)
  BY <1>1, <1>2, <1>3, <1>4, PotentialIs
<1>6. /\ w \in Nat \ {0} /\ l \in Nat \ {0} /\ g \in Nat \ {0}
      /\ j \in Rat /\ Is(j, w, l) /\ n \in Rat /\ Is(n, w, g)
  BY <1>1, <1>2, <1>3, <1>4, PotentialIs
<1>7. v \in Int
  BY <1>5
<1>8. Law!Over(i, j) = Law!Frac(v * l, k * w)
  BY <1>5, <1>6, <1>7, OverValue
<1>9. Law!Over(m, n) = Law!Frac(v * g, h * w)
  BY <1>5, <1>6, <1>7, OverValue
<1>10. /\ Law!Over(i, j) = Cost0(p, lo, hi, lo2, hi2)
       /\ Law!Over(m, n) = Cost1(p, lo, hi, lo2, hi2)
  BY <1>3, <1>8, <1>9 DEF Cost0, Cost1
<1>11. Law!CostRatio(p, lo, hi, lo2, hi2)
         = Law!Most(Cost0(p, lo, hi, lo2, hi2), Cost1(p, lo, hi, lo2, hi2))
  <2>1. CostBySides(p, lo, hi, lo2, hi2)
    BY <1>2, SidesCost
  <2> QED
    BY <2>1 DEF CostBySides
<1>12. Law!Potential(c, u, d, e) = Law!Most(Law!Over(i, j), Law!Over(m, n))
  BY <1>1, <1>4 DEF Law!Potential
<1> QED
  BY <1>1, <1>2, <1>10, <1>11, <1>12 DEF Law!Check1

\* What is left of a value after a cost, times the cost, is the value.
LEMMA LeftTimesCost ==
  ASSUME NEW v \in Rat, NEW k \in Rat, 0 < v[1], 0 < k[1]
  PROVE  Law!Times(Law!Minus(Law!Whole(1), Law!Over(Law!Minus(v, k), v)), Law!Over(v, k))
           = Law!Whole(1)
<1>1. PICK n, d, m, e : n = v[1] /\ d = v[2] /\ m = k[1] /\ e = k[2]
  OBVIOUS
<1>2. /\ n \in Nat \ {0} /\ m \in Nat \ {0} /\ d \in Nat \ {0} /\ e \in Nat \ {0}
      /\ Is(v, n, d) /\ Is(k, m, e)
  BY <1>1, RatValue
<1>3. PICK i, j, D : i = e * n /\ j = d * m /\ D = d * e
  OBVIOUS
<1>4. i \in Nat \ {0} /\ j \in Nat \ {0} /\ D \in Nat \ {0} /\ i \in Int /\ j \in Int
      /\ n \in Int /\ m \in Int
  BY <1>2, <1>3
<1>5. Is(v, i, D)
  <2>1. Is(v, e * n, e * d)
    BY <1>2, <1>4, IsScaled
  <2>2. e * d = d * e
    BY <1>2
  <2> QED
    BY <1>3, <2>1, <2>2
<1>6. Is(k, j, D)
  BY <1>2, <1>3, <1>4, IsScaled
<1>7. PICK l, f, r, q : /\ l = Law!Minus(v, k) /\ f = Law!Over(l, v)
                        /\ r = Law!Minus(Law!Whole(1), f) /\ q = Law!Over(v, k)
  OBVIOUS
<1>8. l \in Rat /\ Is(l, i - j, D) /\ i - j \in Int
  BY <1>4, <1>5, <1>6, <1>7, MinusValue
<1>9. f \in Rat /\ Is(f, (i - j) * D, D * i)
  BY <1>4, <1>5, <1>7, <1>8, OverValue
<1>10. PICK z, y, E, x : z = (i - j) * D /\ E = D * i /\ y = 1 * E /\ x = y - z
  OBVIOUS
<1>11. z \in Int /\ E \in Nat \ {0} /\ y \in Int /\ 1 \in Int /\ x \in Int /\ x = D * j
  <2>1. z \in Int /\ E \in Nat \ {0} /\ 1 \in Int
    BY <1>4, <1>8, <1>10
  <2>2. D * i - (i - j) * D = D * j
    BY <1>4
  <2> QED
    BY <1>4, <1>10, <2>1, <2>2
<1>12. Law!Whole(1) \in Rat /\ Is(Law!Whole(1), y, E)
  BY <1>10, <1>11, WholeIs
<1>13. r \in Rat /\ Is(r, x, E)
  BY <1>7, <1>9, <1>10, <1>11, <1>12, MinusValue
<1>14. q \in Rat /\ Is(q, i * D, D * j)
  BY <1>4, <1>5, <1>6, <1>7, OverValue
<1>15. PICK a2, A : a2 = i * D /\ A = D * j
  OBVIOUS
<1>16. a2 \in Int /\ A \in Nat \ {0}
  BY <1>4, <1>15
<1>17. Law!Times(r, q) = Law!Frac(x * a2, E * A)
  BY <1>11, <1>13, <1>14, <1>15, <1>16, TimesValue
<1>18. x * a2 \in Int /\ E * A \in Nat \ {0} /\ 1 \in Nat \ {0} /\ (x * a2) * 1 = 1 * (E * A)
  <2>1. (D * j) * (i * D) = (D * i) * (D * j)
    BY <1>4
  <2>2. x * a2 = E * A
    BY <1>10, <1>11, <1>15, <2>1
  <2>3. E * A \in Nat \ {0}
    BY <1>11, <1>16
  <2> QED
    BY <2>2, <2>3
<1>19. Law!Frac(x * a2, E * A) = Law!Frac(1, 1)
  BY <1>11, <1>18, FracSame
<1>20. Law!Frac(1, 1) = Law!Whole(1)
  BY <1>11, FracWhole
<1> QED
  BY <1>7, <1>17, <1>19, <1>20

LEMMA FractionIsCost ==
  ASSUME NEW c \in Int, NEW u \in Nat \ {0}, NEW d \in Int, NEW e \in Int, 0 < c + d,
         -u < d, d < u, -u < e, e < u
  PROVE  Law!Times(Law!Minus(Law!Whole(1), Law!EventFraction(c, u, d, e)),
                   Law!Potential(c, u, d, e)) = Law!Whole(1)
<1>1. PICK p, lo, hi, lo2, hi2 : /\ p = c + d /\ lo = c - u /\ hi = c + u
                                 /\ lo2 = p - e - u /\ hi2 = p - e + u
  OBVIOUS
<1>2. /\ p \in Nat \ {0} /\ lo \in Int /\ hi \in Int /\ lo2 \in Int /\ hi2 \in Int
      /\ lo < p /\ p < hi /\ lo2 < p /\ p < hi2 /\ lo <= p /\ p <= hi
      /\ lo2 <= p /\ p <= hi2 /\ SameWidth(lo, hi, lo2, hi2) /\ SameWidth(lo, hi, lo, hi)
  BY <1>1 DEF SameWidth
<1>3. PICK v, m, w, k : /\ v = Law!Phi(p, lo, hi) /\ m = Law!MintMin(p, lo, hi, lo2, hi2)
                        /\ w = Law!Phi(p, lo2, hi2) /\ k = Law!Times(m, w)
  OBVIOUS
<1>4. m \in Rat /\ 0 < m[1] /\ w \in Rat /\ 0 < w[1]
  BY <1>2, <1>3, MintPositive
<1>5. v \in Rat /\ 0 < v[1]
  BY <1>2, <1>3, MintPositive
<1>6. k \in Rat /\ 0 < k[1]
  BY <1>3, <1>4, TimesPositive
<1>7. Law!EventFraction(c, u, d, e) = Law!Over(Law!Minus(v, k), v)
  BY <1>1, <1>3 DEF Law!EventFraction
<1>8. Law!Worth(p, lo, hi) = v /\ Law!Worth(p, lo2, hi2) = w
  BY <1>2, <1>3, HeldAre
<1>9. Law!CostRatio(p, lo, hi, lo2, hi2) = Law!Over(v, k)
  BY <1>3, <1>8 DEF Law!CostRatio
<1>10. Law!Check1(c, u, d, e)
  BY CostIsPotential
<1>11. Law!Potential(c, u, d, e) = Law!Over(v, k)
  BY <1>1, <1>9, <1>10 DEF Law!Check1
<1> QED
  BY <1>5, <1>6, <1>7, <1>11, LeftTimesCost
\* The bounds of the exact clock are bounds on whole numbers: k below and h above
\* the price within the range a..b, v its value, g the numerator of the fall and n
\* that of the bend.
Clock(p, lo, hi, w, v, g, n) ==
  /\ v <= w * hi
  /\ hi * g = 2 * p * ((hi - p) * (hi - p)) - (hi - 2 * p) * v
  /\ lo * (v * v) <= g * (hi * (hi * w))
  /\ lo * w <= v
  /\ n <= 4 * (w * w) * hi /\ -n <= 4 * (w * w) * hi

ClockOf(p, lo, hi, w, v, g, n) ==
  /\ w = hi - lo /\ v = Value(p, lo, hi) /\ g = (p - lo) * (p - lo) + lo * w
  /\ n = 2 * (p - lo) * v - 4 * (g * (hi - p))

LEMMA ClockIs ==
  ASSUME NEW p \in Nat \ {0}, NEW lo \in Nat \ {0}, NEW hi \in Int, lo < p, p < hi,
         NEW w \in Int, NEW v \in Int, NEW g \in Int, NEW n \in Int,
         ClockOf(p, lo, hi, w, v, g, n)
  PROVE  Clock(p, lo, hi, w, v, g, n)
<1>1. PICK h, k : h = p - lo /\ k = hi - p
  OBVIOUS
<1>2. /\ h \in Nat \ {0} /\ k \in Nat \ {0} /\ w \in Nat \ {0} /\ hi \in Nat \ {0}
      /\ h <= w /\ k <= w /\ w = h + k /\ p = lo + h /\ hi = lo + w
  BY <1>1 DEF ClockOf
<1>3. v = p * k + h * hi /\ g = h * h + lo * w
  BY <1>1 DEF ClockOf, Value
<1>4. v <= w * hi
  <2>1. w * hi - v = k * k
    <3>1. (h + k) * (lo + h + k) - ((lo + h) * k + h * (lo + h + k)) = k * k
      BY <1>2
    <3>2. hi = lo + h + k
      BY <1>2
    <3> QED
      BY <1>2, <1>3, <3>1, <3>2
  <2>2. k * k >= 0 /\ w * hi \in Int
    BY <1>2
  <2> QED
    BY <2>1, <2>2
<1>5. hi * g = 2 * p * ((hi - p) * (hi - p)) - (hi - 2 * p) * v
  <2>1. hi * ((p - lo) * (p - lo) + lo * (hi - lo))
          = 2 * p * ((hi - p) * (hi - p)) - (hi - 2 * p) * (p * (hi - p) + (p - lo) * hi)
    OBVIOUS
  <2>2. v = p * (hi - p) + (p - lo) * hi
    BY DEF ClockOf, Value
  <2>3. g = (p - lo) * (p - lo) + lo * (hi - lo)
    BY DEF ClockOf
  <2> QED
    BY <2>1, <2>2, <2>3
<1>6. lo * w <= v
  <2>1. v - lo * w = h * w + h * k
    <3>1. (lo + h) * k + h * (lo + (h + k)) - lo * (h + k) = h * (h + k) + h * k
      BY <1>2
    <3>2. hi = lo + (h + k)
      BY <1>2
    <3> QED
      BY <1>2, <1>3, <3>1, <3>2
  <2>2. PICK x, y, z : x = lo * w /\ y = h * w /\ z = h * k
    OBVIOUS
  <2>3. x \in Int /\ y \in Nat /\ z \in Nat
    BY <1>2, <2>2
  <2>4. v - x = y + z
    BY <2>1, <2>2
  <2>5. x <= v
    BY <2>3, <2>4
  <2> QED
    BY <2>2, <2>5
<1>7. lo * w <= g /\ g <= w * hi /\ g \in Nat
  <2>1. PICK x, y, z, e : x = lo * w /\ y = h * h /\ z = w * h /\ e = w * w
    OBVIOUS
  <2>2. y \in Nat /\ y <= z
    BY <1>2, <2>1
  <2>3. z <= e /\ x \in Nat
    BY <1>2, <2>1
  <2>4. z \in Int /\ e \in Int
    BY <1>2, <2>1
  <2>5. w * hi = e + x
    BY <1>2, <2>1
  <2>6. g = y + x
    BY <1>3, <2>1
  <2>7. x <= g /\ g <= e + x /\ g \in Nat
    BY <2>2, <2>3, <2>4, <2>6
  <2> QED
    BY <2>1, <2>5, <2>7
<1>8. v \in Nat
  <2>1. lo * w \in Nat
    BY <1>2
  <2> QED
    BY <1>6, <2>1
<1>9. lo * (v * v) <= g * (hi * (hi * w))
  <2>1. PICK x : x = w * hi
    OBVIOUS
  <2>2. x \in Nat /\ v <= x
    BY <1>2, <1>4, <2>1
  <2>3. v * v <= v * x /\ v * x <= x * x
    BY <1>8, <2>2
  <2>4. lo * (v * v) <= lo * (x * x)
    BY <1>8, <2>2, <2>3
  <2>5. lo * (x * x) = (lo * w) * (hi * (hi * w))
    BY <1>2, <2>1
  <2>6. hi * (hi * w) \in Nat /\ lo * w \in Nat
    BY <1>2
  <2>7. (lo * w) * (hi * (hi * w)) <= g * (hi * (hi * w))
    BY <1>7, <2>6
  <2>8. lo * (v * v) \in Int /\ g * (hi * (hi * w)) \in Int
    BY <1>7, <1>8, <2>6
  <2> QED
    BY <2>4, <2>5, <2>7, <2>8
<1>10. PICK i, j, y : i = 2 * h * v /\ j = 4 * (g * k) /\ y = (w * w) * hi
  OBVIOUS
<1>11. y \in Nat /\ i \in Nat /\ j \in Nat /\ n = i - j
  <2>1. y \in Nat /\ i \in Nat /\ j \in Nat
    BY <1>2, <1>7, <1>8, <1>10
  <2>2. n = i - j
    BY <1>1, <1>10 DEF ClockOf
  <2> QED
    BY <2>1, <2>2
<1>12. i <= 2 * y
  <2>1. h * v <= w * v /\ w * v <= w * (w * hi)
    <3>1. w * hi \in Nat
      BY <1>2
    <3> QED
      BY <1>2, <1>4, <1>8, <3>1
  <2>2. w * (w * hi) = y
    BY <1>2, <1>10
  <2>3. h * v \in Int /\ w * v \in Int /\ i = 2 * (h * v)
    BY <1>2, <1>8, <1>10
  <2> QED
    BY <1>11, <2>1, <2>2, <2>3
<1>13. j <= 4 * y
  <2>1. g * k <= g * w /\ g * w <= (w * hi) * w
    <3>1. w * hi \in Nat
      BY <1>2
    <3> QED
      BY <1>2, <1>7, <3>1
  <2>2. (w * hi) * w = y
    BY <1>2, <1>10
  <2>3. g * k \in Int /\ g * w \in Int
    BY <1>2, <1>7
  <2> QED
    BY <1>10, <1>11, <2>1, <2>2, <2>3
<1>14. n <= 4 * (w * w) * hi /\ -n <= 4 * (w * w) * hi
  <2>1. 4 * (w * w) * hi = 4 * y
    BY <1>2, <1>10
  <2> QED
    BY <1>11, <1>12, <1>13, <2>1
<1> QED
  BY <1>4, <1>5, <1>6, <1>9, <1>14 DEF Clock

LEMMA SizeIs ==
  ASSUME NEW p \in Rat, NEW n \in Int, NEW D \in Nat \ {0}, Is(p, n, D)
  PROVE  /\ Law!Size(n) \in Nat
         /\ <<Law!Size(p[1]), p[2]>> \in Rat
         /\ Is(<<Law!Size(p[1]), p[2]>>, Law!Size(n), D)
<1>1. PICK i, d : i = p[1] /\ d = p[2]
  OBVIOUS
<1>2. i \in Int /\ d \in Nat \ {0} /\ i * D = n * d
  BY <1>1, RatIs DEF Is
<1>3. PICK j, m : j = Law!Size(i) /\ m = Law!Size(n)
  OBVIOUS
<1>4. /\ j \in Nat /\ (i >= 0 => j = i) /\ (i < 0 => j = -i)
      /\ m \in Nat /\ (n >= 0 => m = n) /\ (n < 0 => m = -n)
  BY <1>2, <1>3 DEF Law!Size
<1>5. (i > 0 <=> n > 0) /\ (i = 0 <=> n = 0)
  BY <1>1, <1>2, SignIs
<1>6. (-i) * D = -(i * D) /\ (-n) * d = -(n * d)
  BY <1>2
<1>7. j * D = m * d
  <2>1. CASE i >= 0
    <3>1. n >= 0
      BY <1>2, <1>5, <2>1
    <3> QED
      BY <1>2, <1>4, <2>1, <3>1
  <2>2. CASE i < 0
    <3>1. n < 0
      BY <1>2, <1>5, <2>2
    <3> QED
      BY <1>2, <1>4, <1>6, <2>2, <3>1
  <2> QED
    BY <1>2, <2>1, <2>2
<1>8. PICK q : q = <<j, d>>
  OBVIOUS
<1>9. q \in Rat /\ q[1] = j /\ q[2] = d
  BY <1>2, <1>4, <1>8, RatIs
<1> QED
  BY <1>1, <1>3, <1>4, <1>7, <1>8, <1>9 DEF Is
LEMMA BendIs ==
  ASSUME NEW lo \in Nat \ {0}, NEW hi \in Nat \ {0}, NEW w \in Nat \ {0}, NEW v \in Nat,
         NEW n \in Int, lo * w <= v, n <= 4 * (w * w) * hi, -n <= 4 * (w * w) * hi
  PROVE  Law!Size(n * hi) * (lo * lo * lo * w) <= (12 * hi * hi) * (v * (v * v))
<1>1. PICK x, y, m : x = lo * w /\ y = 4 * (w * w) * hi /\ m = Law!Size(n * hi)
  OBVIOUS
<1>2. x \in Nat \ {0} /\ y \in Nat /\ x <= v /\ n <= y /\ -n <= y
  BY <1>1
<1>3. n * hi \in Int /\ n * hi <= y * hi /\ -(n * hi) <= y * hi
  <2>1. n * hi <= y * hi /\ (-n) * hi <= y * hi
    BY <1>2
  <2>2. (-n) * hi = -(n * hi)
    OBVIOUS
  <2> QED
    BY <2>1, <2>2
<1>4. m \in Nat /\ m <= y * hi
  <2>1. PICK z, u : z = n * hi /\ u = y * hi
    OBVIOUS
  <2>2. z \in Int /\ u \in Int /\ z <= u /\ -z <= u
    BY <1>2, <1>3, <2>1
  <2>3. m = IF z < 0 THEN -z ELSE z
    BY <1>1, <2>1 DEF Law!Size
  <2> QED
    BY <2>1, <2>2, <2>3
<1>5. x * (x * x) <= v * (v * v)
  <2>1. x * x <= v * x /\ v * x <= v * v
    BY <1>2
  <2>2. PICK i, j : i = x * x /\ j = v * v
    OBVIOUS
  <2>3. i \in Nat /\ j \in Nat /\ i <= j
    <3>1. v * x \in Nat
      BY <1>2
    <3> QED
      BY <1>2, <2>1, <2>2, <3>1
  <2>4. x * i <= x * j /\ x * j <= v * j
    BY <1>2, <2>3
  <2>5. x * i \in Int /\ x * j \in Int /\ v * j \in Int
    BY <1>2, <2>3
  <2> QED
    BY <2>2, <2>4, <2>5
<1>6. PICK o, q, r, t : /\ o = lo * lo * lo * w /\ q = x * (x * x)
                        /\ r = v * (v * v) /\ t = 4 * hi * hi
  OBVIOUS
<1>7. o \in Nat /\ q \in Nat /\ r \in Nat /\ t \in Nat /\ q <= r
  BY <1>2, <1>5, <1>6
<1>8. m * o <= (y * hi) * o
  <2>1. PICK u : u = y * hi
    OBVIOUS
  <2>2. u \in Nat /\ m <= u
    BY <1>2, <1>4, <2>1
  <2>3. m * o <= u * o
    BY <1>4, <1>7, <2>2
  <2> QED
    BY <2>1, <2>3
<1>9. (y * hi) * o = t * q
  <2>1. ((4 * (w * w) * hi) * hi) * (lo * lo * lo * w)
          = (4 * hi * hi) * ((lo * w) * ((lo * w) * (lo * w)))
    OBVIOUS
  <2> QED
    BY <1>1, <1>6, <2>1
<1>10. t * q <= t * r
  BY <1>7
<1>11. (12 * hi * hi) * r = 3 * (t * r)
  <2>1. 12 * hi * hi = 3 * t
    BY <1>6
  <2> QED
    BY <1>7, <2>1
<1>12. t * r \in Nat /\ m * o \in Int /\ t * q \in Int
  BY <1>4, <1>7
<1> QED
  BY <1>1, <1>6, <1>8, <1>9, <1>10, <1>11, <1>12

LEMMA ClockHolds ==
  ASSUME NEW c \in Int, NEW u \in Nat \ {0}, NEW d \in Int, u < c, -u < d, d < u
  PROVE  Law!Check8(c, u, d)
<1>1. PICK p, lo, hi, w : p = c + d /\ lo = c - u /\ hi = c + u /\ w = 2 * u
  OBVIOUS
<1>2. /\ p \in Nat \ {0} /\ lo \in Nat \ {0} /\ hi \in Nat \ {0} /\ w \in Nat \ {0}
      /\ lo \in Int /\ hi \in Int /\ w \in Int /\ 1 \in Nat \ {0} /\ 1 \in Int /\ 2 \in Int
      /\ lo < p /\ p < hi /\ lo <= p /\ p <= hi /\ w = hi - lo
  BY <1>1
<1>3. PICK v, g, n, k, h : /\ v = Value(p, lo, hi) /\ g = (p - lo) * (p - lo) + lo * w
                           /\ n = 2 * (p - lo) * v - 4 * (g * (hi - p))
                           /\ k = hi - p /\ h = p - lo
  OBVIOUS
<1>4. PICK f : f = Law!Phi(p, lo, hi)
  OBVIOUS
<1>5. /\ k \in Nat \ {0} /\ h \in Nat \ {0} /\ v \in Nat \ {0} /\ f \in Rat /\ Is(f, v, hi)
      /\ Law!Share0(p, lo, hi) = Law!Frac(p * k, v)
  <2>1. /\ k \in Nat \ {0} /\ h \in Nat \ {0} /\ v \in Nat \ {0}
        /\ Law!Worth(p, lo, hi) \in Rat /\ Is(Law!Worth(p, lo, hi), v, hi)
        /\ Law!Share0(p, lo, hi) = Law!Frac(p * k, v)
    BY <1>2, <1>3, PositionIs
  <2>2. Law!Worth(p, lo, hi) = f
    BY <1>2, <1>4, HeldAre
  <2> QED
    BY <2>1, <2>2
<1>6. /\ g \in Nat \ {0} /\ g \in Int /\ v \in Int /\ k \in Int /\ h \in Int
      /\ g = h * h + lo * w
  <2>1. g = h * h + lo * w
    BY <1>3
  <2>2. h * h \in Nat /\ lo * w \in Nat \ {0}
    BY <1>2, <1>5
  <2> QED
    BY <1>5, <2>1, <2>2
<1>7. n \in Int /\ n = (2 * h) * v - 2 * (g * (2 * k))
  <2>1. n = 2 * h * v - 4 * (g * k)
    BY <1>3
  <2>2. 2 * h * v = (2 * h) * v /\ 4 * (g * k) = 2 * (g * (2 * k))
    BY <1>5, <1>6
  <2>3. (2 * h) * v \in Int /\ 2 * (g * (2 * k)) \in Int
    BY <1>5, <1>6
  <2> QED
    BY <2>1, <2>2, <2>3
<1>8. Clock(p, lo, hi, w, v, g, n)
  <2>1. ClockOf(p, lo, hi, w, v, g, n)
    BY <1>2, <1>3 DEF ClockOf
  <2> QED
    BY <1>2, <1>6, <1>7, <2>1, ClockIs
<1>9. PICK ff, b1, wg, fall : /\ ff = Law!Times(f, f) /\ b1 = Law!Times(Law!Whole(hi), ff)
                              /\ wg = Law!Whole(g) /\ fall = Law!Over(wg, b1)
  OBVIOUS
<1>10. PICK x : x = v * v
  OBVIOUS
<1>11. x \in Nat \ {0} /\ x \in Int /\ hi * hi \in Nat \ {0}
  BY <1>2, <1>5, <1>10
<1>12. ff \in Rat /\ Is(ff, x, hi * hi)
  BY <1>2, <1>5, <1>6, <1>9, <1>10, TimesValue
<1>13. /\ Law!Whole(hi) \in Rat /\ Is(Law!Whole(hi), hi, 1)
       /\ wg \in Rat /\ Is(wg, g, 1)
  BY <1>2, <1>6, <1>9, WholeIs
<1>14. b1 \in Rat /\ Is(b1, x, hi)
  <2>1. PICK y : y = hi * hi
    OBVIOUS
  <2>2. y \in Nat \ {0} /\ Is(ff, x, y)
    BY <1>11, <1>12, <2>1
  <2>3. b1 \in Rat /\ Is(b1, hi * x, 1 * y)
    BY <1>2, <1>9, <1>11, <1>12, <1>13, <2>2, TimesValue
  <2>4. PICK i, D : i = hi * x /\ D = 1 * y
    OBVIOUS
  <2>5. i \in Int /\ D \in Nat \ {0} /\ i * hi = x * D
    BY <1>2, <1>11, <2>1, <2>2, <2>4
  <2> QED
    BY <1>2, <1>11, <2>3, <2>4, <2>5, OneValue
<1>15. PICK z : z = g * hi
  OBVIOUS
<1>16. z \in Int /\ fall = Law!Frac(z, x) /\ fall \in Rat /\ Is(fall, z, x)
  <2>1. fall = Law!Frac(g * hi, 1 * x)
    BY <1>2, <1>6, <1>9, <1>11, <1>13, <1>14, OverValue
  <2>2. 1 * x = x /\ z \in Int
    BY <1>2, <1>6, <1>11, <1>15
  <2>3. fall = Law!Frac(z, x)
    BY <1>15, <2>1, <2>2
  <2> QED
    BY <1>11, <2>2, <2>3, FracValue
\* a unit of liquidity is worth at most the width
<1>17. Law!Leq(f, Law!Whole(w))
  <2>1. Law!Whole(w) \in Rat /\ Is(Law!Whole(w), w, 1)
    BY <1>2, WholeIs
  <2>2. Law!Leq(f, Law!Whole(w)) <=> v * 1 <= w * hi
    BY <1>2, <1>5, <1>6, <2>1, LeqValue
  <2>3. v * 1 = v
    BY <1>6
  <2> QED
    BY <1>8, <2>2, <2>3 DEF Clock
\* its share, and how it falls
<1>18. PICK om, pk : om = Law!Over(Law!Frac(p * (hi - p), hi), f) /\ pk = p * k
  OBVIOUS
<1>19. pk \in Int
  BY <1>2, <1>5, <1>18
<1>20. om = Law!Frac(pk, v) /\ om \in Rat /\ Is(om, pk, v)
  <2>1. Law!Frac(pk, hi) \in Rat /\ Is(Law!Frac(pk, hi), pk, hi)
    BY <1>2, <1>19, FracValue
  <2>2. om = Law!Over(Law!Frac(pk, hi), f)
    BY <1>3, <1>18
  <2>3. om = Law!Frac(pk * hi, hi * v)
    BY <1>2, <1>5, <1>19, <2>1, <2>2, OverValue
  <2>4. PICK i, D : i = pk * hi /\ D = hi * v
    OBVIOUS
  <2>5. i \in Int /\ D \in Nat \ {0} /\ i * v = pk * D
    BY <1>2, <1>5, <1>19, <2>4
  <2>6. om = Law!Frac(pk, v)
    BY <1>5, <1>19, <2>3, <2>4, <2>5, FracSame
  <2> QED
    BY <1>5, <1>19, <2>6, FracValue
<1>21. PICK dv, l : l = 2 * k /\ dv = Law!Frac(2 * (hi - p), hi)
  OBVIOUS
<1>22. l \in Int /\ dv \in Rat /\ Is(dv, l, hi)
  <2>1. l \in Int /\ dv = Law!Frac(l, hi)
    BY <1>3, <1>5, <1>21
  <2> QED
    BY <1>2, <2>1, FracValue
<1>23. PICK od, r1, m1, rhs : /\ od = Law!Times(om, dv) /\ r1 = Law!Frac(hi - 2 * p, hi)
                              /\ m1 = Law!Minus(od, r1) /\ rhs = Law!Over(m1, f)
  OBVIOUS
<1>24. PICK i, j, D, e : /\ i = pk * l /\ e = hi - 2 * p /\ j = v * e /\ D = v * hi
  OBVIOUS
<1>25. i \in Int /\ j \in Int /\ e \in Int /\ D \in Nat \ {0}
  BY <1>2, <1>5, <1>19, <1>22, <1>24
<1>26. od \in Rat /\ Is(od, i, D)
  BY <1>2, <1>5, <1>19, <1>20, <1>22, <1>23, <1>24, TimesValue
<1>27. r1 \in Rat /\ Is(r1, j, D)
  <2>1. r1 \in Rat /\ Is(r1, e, hi)
    BY <1>2, <1>23, <1>24, <1>25, FracValue
  <2> QED
    BY <1>2, <1>5, <1>24, <1>25, <2>1, IsScaled
<1>28. m1 \in Rat /\ Is(m1, i - j, D) /\ i - j \in Int
  BY <1>23, <1>25, <1>26, <1>27, MinusValue
<1>29. i - j = hi * g
  <2>1. hi * g = 2 * p * (k * k) - (hi - 2 * p) * v
    BY <1>3, <1>8 DEF Clock
  <2>2. i = 2 * p * (k * k)
    BY <1>2, <1>5, <1>18, <1>21, <1>24
  <2>3. j = (hi - 2 * p) * v
    BY <1>2, <1>5, <1>24
  <2> QED
    BY <2>1, <2>2, <2>3
<1>30. rhs = fall
  <2>1. rhs = Law!Frac((i - j) * hi, D * v)
    BY <1>2, <1>5, <1>23, <1>25, <1>28, OverValue
  <2>2. PICK y, E : y = (i - j) * hi /\ E = D * v
    OBVIOUS
  <2>3. y \in Int /\ E \in Nat \ {0}
    BY <1>2, <1>5, <1>25, <1>28, <2>2
  <2>4. y * x = z * E
    <3>1. ((hi * g) * hi) * (v * v) = (g * hi) * ((v * hi) * v)
      BY <1>2, <1>5, <1>6
    <3> QED
      BY <1>10, <1>15, <1>24, <1>29, <2>2, <3>1
  <2> QED
    BY <1>11, <1>16, <2>1, <2>2, <2>3, <2>4, FracSame
<1>31. Law!Leq(Law!Frac(lo, hi * w), fall)
  <2>1. PICK y : y = hi * w
    OBVIOUS
  <2>2. y \in Nat \ {0}
    BY <1>2, <2>1
  <2>3. Law!Frac(lo, y) \in Rat /\ Is(Law!Frac(lo, y), lo, y)
    BY <1>2, <2>2, FracValue
  <2>4. Law!Leq(Law!Frac(lo, y), fall) <=> lo * x <= z * y
    BY <1>2, <1>11, <1>16, <2>2, <2>3, LeqValue
  <2>5. z * y = g * (hi * (hi * w))
    BY <1>2, <1>6, <1>15, <2>1
  <2>6. lo * (v * v) <= g * (hi * (hi * w))
    BY <1>8 DEF Clock
  <2> QED
    BY <1>10, <2>1, <2>4, <2>5, <2>6
\* ... and how it bends
<1>32. PICK wh, x1, gd, x2, m2 : /\ wh = Law!Whole(2 * (p - lo)) /\ x1 = Law!Times(wh, f)
                                 /\ gd = Law!Times(wg, dv)
                                 /\ x2 = Law!Times(Law!Whole(2), gd) /\ m2 = Law!Minus(x1, x2)
  OBVIOUS
<1>33. m2 \in Rat /\ Is(m2, n, hi)
  <2>1. PICK y, q : y = 2 * h /\ q = g * l
    OBVIOUS
  <2>2. y \in Int /\ q \in Int /\ wh = Law!Whole(y)
    BY <1>3, <1>5, <1>6, <1>22, <1>32, <2>1
  <2>3. wh \in Rat /\ Is(wh, y, 1) /\ Law!Whole(2) \in Rat /\ Is(Law!Whole(2), 2, 1)
    BY <1>2, <2>2, WholeIs
  <2>4. 1 * hi = hi
    BY <1>2
  <2>5. x1 \in Rat /\ Is(x1, y * v, 1 * hi)
    BY <1>2, <1>5, <1>6, <1>32, <2>2, <2>3, TimesValue
  <2>6. gd \in Rat /\ Is(gd, q, 1 * hi)
    BY <1>2, <1>6, <1>13, <1>22, <1>32, <2>1, TimesValue
  <2>7. gd \in Rat /\ Is(gd, q, hi)
    BY <2>4, <2>6
  <2>8. x2 \in Rat /\ Is(x2, 2 * q, 1 * hi)
    BY <1>2, <1>32, <2>2, <2>3, <2>7, TimesValue
  <2>9. PICK r, t : r = y * v /\ t = 2 * q
    OBVIOUS
  <2>10. r \in Int /\ t \in Int
    BY <1>6, <2>2, <2>9
  <2>11. m2 \in Rat /\ Is(m2, r - t, hi)
    BY <1>2, <1>32, <2>4, <2>5, <2>8, <2>9, <2>10, MinusValue
  <2>12. r - t = n
    BY <1>7, <1>21, <2>1, <2>9
  <2> QED
    BY <2>11, <2>12
<1>34. PICK fff, b2, bend : /\ fff = Law!Times(f, ff) /\ b2 = Law!Times(Law!Whole(hi), fff)
                            /\ bend = Law!Over(m2, b2)
  OBVIOUS
<1>35. PICK y, q : y = v * x /\ q = hi * hi
  OBVIOUS
<1>36. y \in Nat \ {0} /\ y \in Int /\ q \in Nat \ {0} /\ hi * q \in Nat \ {0}
  BY <1>2, <1>5, <1>11, <1>35
<1>37. fff \in Rat /\ Is(fff, y, hi * q)
  <2>1. Is(ff, x, q)
    BY <1>12, <1>35
  <2> QED
    BY <1>2, <1>5, <1>6, <1>11, <1>12, <1>34, <1>35, <1>36, <2>1, TimesValue
<1>38. b2 \in Rat /\ Is(b2, y, q)
  <2>1. PICK r : r = hi * q
    OBVIOUS
  <2>2. r \in Nat \ {0} /\ Is(fff, y, r)
    BY <1>36, <1>37, <2>1
  <2>3. b2 \in Rat /\ Is(b2, hi * y, 1 * r)
    BY <1>2, <1>13, <1>34, <1>36, <1>37, <2>2, TimesValue
  <2>4. PICK t, E : t = hi * y /\ E = 1 * r
    OBVIOUS
  <2>5. t \in Int /\ E \in Nat \ {0} /\ t * q = y * E
    BY <1>2, <1>36, <2>1, <2>2, <2>4
  <2> QED
    BY <1>36, <2>3, <2>4, <2>5, OneValue
<1>39. bend \in Rat /\ Is(bend, n * hi, y) /\ n * hi \in Int
  <2>1. bend \in Rat /\ Is(bend, n * q, hi * y)
    BY <1>2, <1>7, <1>33, <1>34, <1>36, <1>38, OverValue
  <2>2. PICK t, E, r : t = n * q /\ E = hi * y /\ r = n * hi
    OBVIOUS
  <2>3. n \in Int
    BY <1>7
  <2>4. t \in Int /\ E \in Nat \ {0} /\ r \in Int
    BY <1>2, <1>36, <2>2, <2>3
  <2>5. t * y = r * E
    <3>1. (n * (hi * hi)) * y = (n * hi) * (hi * y)
      BY <1>2, <1>36, <2>3
    <3> QED
      BY <1>35, <2>2, <3>1
  <2> QED
    BY <1>36, <2>4, <2>5, <2>1, <2>2, <2>3, OneValue
<1>40. Law!Leq(<<Law!Size(bend[1]), bend[2]>>, Law!Frac(12 * hi * hi, lo * lo * lo * w))
  <2>1. PICK r, t, E, m, o : /\ r = <<Law!Size(bend[1]), bend[2]>> /\ t = 12 * hi * hi
                             /\ E = lo * lo * lo * w /\ o = n * hi /\ m = Law!Size(o)
    OBVIOUS
  <2>2. o \in Int /\ Is(bend, o, y)
    BY <1>39, <2>1
  <2>3. m \in Nat /\ r \in Rat /\ Is(r, m, y)
    BY <1>36, <1>39, <2>1, <2>2, SizeIs
  <2>4. t \in Int /\ E \in Nat \ {0} /\ m \in Int
    BY <1>2, <2>1, <2>3
  <2>5. Law!Frac(t, E) \in Rat /\ Is(Law!Frac(t, E), t, E)
    BY <2>4, FracValue
  <2>6. Law!Leq(r, Law!Frac(t, E)) <=> m * E <= t * y
    BY <1>36, <2>3, <2>4, <2>5, LeqValue
  <2>7. lo * w <= v /\ n <= 4 * (w * w) * hi /\ -n <= 4 * (w * w) * hi /\ v \in Nat
    BY <1>5, <1>8 DEF Clock
  <2>8. m * E <= t * y
    BY <1>2, <1>7, <1>10, <1>35, <2>1, <2>7, BendIs
  <2> QED
    BY <2>1, <2>6, <2>8
<1>41. g = (p - lo) * (p - lo) + lo * w /\ Law!Share0(p, lo, hi) = om
  BY <1>3, <1>5, <1>18, <1>20
<1> QED
  BY <1>1, <1>4, <1>9, <1>17, <1>18, <1>21, <1>23, <1>30, <1>31, <1>32, <1>34, <1>40, <1>41
     DEF Law!Check8

\* The down branch on the grid: a step of it grows exactly while the upper bound
\* is far enough, and the last step is the one that counts.
Growth(y, u) == ((2 * y + 1 - 2 * u) * y) * (y + 1)

LEMMA StepGrows ==
  ASSUME NEW c \in Int, NEW u \in Nat \ {0}, u < c, NEW m \in 1..u
  PROVE  Law!Leq(Law!DownClosed(c, u, 1 - m), Law!DownClosed(c, u, -m))
           <=> ((c + u) * u) * c <= Growth(c + u - m, u)
<1>1. PICK y, k : y = c + u - m /\ k = c + u
  OBVIOUS
<1>2. /\ m \in Int /\ y \in Nat \ {0} /\ k \in Nat \ {0} /\ y + 1 \in Nat \ {0}
      /\ c \in Nat \ {0} /\ m = k - y /\ c = k - u
  BY <1>1
<1>3. PICK i, D, j, E : /\ i = (k - y - 1) * (y + 1 - u) * (y + 1 + c) /\ D = k * (y + 1)
                        /\ j = (k - y) * (y - u) * (y + c) /\ E = k * y
  OBVIOUS
<1>4. i \in Int /\ j \in Int /\ D \in Nat \ {0} /\ E \in Nat \ {0}
  BY <1>2, <1>3
<1>5. Law!DownClosed(c, u, 1 - m) = Law!Frac(i, D)
  <2>1. PICK d : d = 1 - m
    OBVIOUS
  <2>2. d \in Int /\ -d = k - y - 1 /\ c + d = y + 1 - u /\ 2 * c + u + d = y + 1 + c
        /\ c + u + d = y + 1
    BY <1>1, <1>2, <2>1
  <2>3. -d * (c + d) * (2 * c + u + d) = (-d) * (c + d) * (2 * c + u + d)
    BY <2>2
  <2> QED
    BY <1>1, <1>3, <2>1, <2>2, <2>3 DEF Law!DownClosed
<1>6. Law!DownClosed(c, u, -m) = Law!Frac(j, E)
  <2>1. PICK d : d = -m
    OBVIOUS
  <2>2. d \in Int /\ -d = k - y /\ c + d = y - u /\ 2 * c + u + d = y + c
        /\ c + u + d = y
    BY <1>1, <1>2, <2>1
  <2>3. -d * (c + d) * (2 * c + u + d) = (-d) * (c + d) * (2 * c + u + d)
    BY <2>2
  <2> QED
    BY <1>1, <1>3, <2>1, <2>2, <2>3 DEF Law!DownClosed
<1>7. PICK p, q : p = Law!Frac(i, D) /\ q = Law!Frac(j, E)
  OBVIOUS
<1>8. p \in Rat /\ Is(p, i, D) /\ q \in Rat /\ Is(q, j, E)
  BY <1>4, <1>7, FracValue
<1>9. Law!Leq(p, q) <=> i * E <= j * D
  BY <1>4, <1>8, LeqValue
<1>10. PICK x, z : x = Growth(y, u) /\ z = (k * u) * c
  OBVIOUS
<1>11. x \in Int /\ z \in Int
  BY <1>2, <1>10 DEF Growth
<1>12. j * D - i * E = k * (x - z)
  <2>1. ((k - y) * (y - u) * (y + (k - u))) * (k * (y + 1))
          - ((k - y - 1) * (y + 1 - u) * (y + 1 + (k - u))) * (k * y)
            = k * (((2 * y + 1 - 2 * u) * y) * (y + 1) - (k * u) * (k - u))
    BY <1>2
  <2> QED
    BY <1>2, <1>3, <1>10, <2>1 DEF Growth
<1>13. PICK f, g, h : f = i * E /\ g = j * D /\ h = x - z
  OBVIOUS
<1>14. f \in Int /\ g \in Int /\ h \in Int /\ g - f = k * h
  BY <1>4, <1>11, <1>12, <1>13
<1>15. k * h >= 0 <=> h >= 0
  BY <1>2, <1>14
<1>16. f <= g <=> z <= x
  BY <1>11, <1>13, <1>14, <1>15
<1> QED
  BY <1>1, <1>5, <1>6, <1>7, <1>9, <1>10, <1>13, <1>16

LEMMA GrowthGrows ==
  ASSUME NEW u \in Nat, NEW x \in Nat, NEW y \in Nat, u < x, x <= y
  PROVE  Growth(x, u) \in Int /\ Growth(y, u) \in Int /\ Growth(x, u) <= Growth(y, u)
<1>1. PICK i, j : i = 2 * x + 1 - 2 * u /\ j = 2 * y + 1 - 2 * u
  OBVIOUS
<1>2. i \in Nat /\ j \in Nat /\ i <= j
  BY <1>1
<1>3. PICK k, l : k = i * x /\ l = j * y
  OBVIOUS
<1>4. k \in Nat /\ l \in Nat /\ k <= l
  <2>1. i * x <= j * x /\ j * x <= j * y
    BY <1>2
  <2>2. i * x \in Nat /\ j * x \in Nat /\ j * y \in Nat
    BY <1>2
  <2> QED
    BY <1>3, <2>1, <2>2
<1>5. k * (x + 1) <= l * (x + 1) /\ l * (x + 1) <= l * (y + 1)
  BY <1>4
<1>6. k * (x + 1) \in Int /\ l * (x + 1) \in Int /\ l * (y + 1) \in Int
  BY <1>4
<1> QED
  BY <1>1, <1>3, <1>5, <1>6 DEF Growth

LEMMA ThresholdHolds ==
  ASSUME NEW c \in Int, NEW u \in Nat \ {0}, u < c
  PROVE  Law!Threshold(c, u)
<1>1. PICK z, x : z = ((c + u) * u) * c /\ x = Growth(c, u)
  OBVIOUS
<1>2. z \in Int /\ x \in Int
  BY <1>1 DEF Growth
<1>3. ASSUME Law!Monotone(c, u) PROVE z <= x
  <2>1. u \in 1..u
    OBVIOUS
  <2>2. Law!Leq(Law!DownClosed(c, u, 1 - u), Law!DownClosed(c, u, -u))
    BY <1>3, <2>1 DEF Law!Monotone
  <2>3. ((c + u) * u) * c <= Growth(c + u - u, u)
    BY <2>1, <2>2, StepGrows
  <2>4. c + u - u = c
    OBVIOUS
  <2> QED
    BY <1>1, <2>3, <2>4
<1>4. ASSUME z <= x PROVE Law!Monotone(c, u)
  <2>1. ASSUME NEW m \in 1..u
        PROVE  Law!Leq(Law!DownClosed(c, u, 1 - m), Law!DownClosed(c, u, -m))
    <3>1. PICK y : y = c + u - m
      OBVIOUS
    <3>2. y \in Nat /\ c \in Nat /\ u \in Nat /\ c <= y
      BY <3>1
    <3>3. Growth(y, u) \in Int /\ x <= Growth(y, u)
      BY <1>1, <3>2, GrowthGrows
    <3>4. z <= Growth(y, u)
      BY <1>2, <1>4, <3>3
    <3> QED
      BY <1>1, <3>1, <3>4, StepGrows
  <2> QED
    BY <2>1 DEF Law!Monotone
<1>5. PICK h : h = 2 * c * c + 3 * c - 2 * u + 1 - (u * u + 3 * c * u)
  OBVIOUS
<1>6. h \in Int /\ x - z = c * h
  <2>1. ((2 * c + 1 - 2 * u) * c) * (c + 1) - ((c + u) * u) * c
          = c * (2 * c * c + 3 * c - 2 * u + 1 - (u * u + 3 * c * u))
    OBVIOUS
  <2> QED
    BY <1>1, <1>5, <2>1 DEF Growth
<1>7. c * h >= 0 <=> h >= 0
  BY <1>6
<1>8. z <= x <=> h >= 0
  BY <1>2, <1>6, <1>7
<1>9. h >= 0 <=> u * u + 3 * c * u <= 2 * c * c + 3 * c - 2 * u + 1
  <2>1. PICK i, j : i = u * u + 3 * c * u /\ j = 2 * c * c + 3 * c - 2 * u + 1
    OBVIOUS
  <2>2. i \in Int /\ j \in Int /\ h = j - i
    BY <1>5, <2>1
  <2> QED
    BY <2>1, <2>2
<1>10. u * u + 3 * c * u <= 2 * c * c => u * u + 3 * c * u <= 2 * c * c + 3 * c - 2 * u + 1
  <2>1. PICK i, j : i = u * u + 3 * c * u /\ j = 2 * c * c
    OBVIOUS
  <2>2. i \in Int /\ j \in Int
    BY <2>1
  <2>3. 3 * c - 2 * u + 1 >= 0
    OBVIOUS
  <2>4. i <= j => i <= j + 3 * c - 2 * u + 1
    BY <2>2, <2>3
  <2> QED
    BY <2>1, <2>4
<1> QED
  BY <1>3, <1>4, <1>8, <1>9, <1>10 DEF Law!Threshold

LEMMA FormsHold ==
  ASSUME draw \in Draws
  PROVE  FormsExact
<1>1. PICK c, u, d, e, lo, hi : /\ c = draw.c /\ u = draw.u /\ d = draw.d
                                /\ e = draw.dp /\ lo = draw.lo /\ hi = draw.hi
  OBVIOUS
<1>2. /\ c \in Int /\ u \in Nat \ {0} /\ d \in Int /\ e \in Int /\ lo \in Int /\ hi \in Int
      /\ u < c /\ -u < d /\ d < u /\ -u < e /\ e < u /\ lo < c + d /\ c + d < hi
  <2>1. /\ c \in Int /\ u \in Int /\ d \in Int /\ e \in Int /\ lo \in Int /\ hi \in Int
    BY <1>1, DrawAssumption
  <2>2. /\ 0 < u /\ u < c /\ -u < d /\ d < u /\ -u < e /\ e < u
        /\ lo < c + d /\ c + d < hi
    BY <1>1, DrawAssumption
  <2> QED
    BY <2>1, <2>2
<1>3. 0 < c + d /\ -u <= d /\ d <= u
  BY <1>2
<1>4. Law!ClosedForms
  BY <1>1, <1>2, <1>3, ResidualIs, CornersAre, ThresholdHolds DEF Law!ClosedForms
<1>5. Law!ClockBounds
  BY <1>1, <1>2, ClockHolds DEF Law!ClockBounds
<1>6. Law!Check1(c, u, d, e)
  BY <1>2, <1>3, CostIsPotential
<1>7. Law!Times(Law!Minus(Law!Whole(1), Law!EventFraction(c, u, d, e)),
                Law!Potential(c, u, d, e)) = Law!Whole(1)
  BY <1>2, <1>3, FractionIsCost
<1>8. PICK p, a1, b1 : p = c + d /\ a1 = c - u /\ b1 = c + u
  OBVIOUS
<1>9. CostBySides(p, a1, b1, lo, hi)
  <2>1. /\ p \in Nat \ {0} /\ a1 \in Int /\ b1 \in Int /\ a1 < p /\ p < b1
        /\ lo < p /\ p < hi
    BY <1>2, <1>3, <1>8
  <2> QED
    BY <1>2, <2>1, SidesCost
<1>10. Law!Check2(c, u, d, lo, hi)
  BY <1>8, <1>9 DEF CostBySides, Law!Check2
<1>11. PICK k : k = Law!CostRatio(p, a1, b1, lo, hi)
  OBVIOUS
<1>12. /\ Law!Leq(Law!Whole(1), k)
       /\ k = Law!Whole(1) <=> Law!Share0(p, lo, hi) = Law!Share0(p, a1, b1)
  BY <1>9, <1>11 DEF CostBySides
<1>13. Law!PotentialForms
  BY <1>1, <1>6, <1>7, <1>8, <1>10, <1>11, <1>12 DEF Law!PotentialForms
<1> QED
  BY <1>4, <1>5, <1>13 DEF FormsExact

\* The account of a path is exact, and every closed form and bound of the two
\* harnesses holds: the residual, the cost by potentials and by shares, the
\* fraction of an event and the exact clock, for every geometry
\* (mc_harness.py of act 1, verify_floor.py and probe_bound.py of act 2).
THEOREM LawIsExact == Law!Spec => []LawExact
<1>1. Law!Init => draw \in Draws
  BY DEF Law!Init
<1>2. draw \in Draws /\ [Law!Next]_(Law!dvars) => (draw \in Draws)'
  BY DEF Law!Next, Law!Step, Law!dvars
<1>3. Law!Spec => [](draw \in Draws)
  BY <1>1, <1>2, PTL DEF Law!Spec
<1>4. draw \in Draws => FormsExact
  BY FormsHold
<1>5. PathExact /\ FormsExact <=> LawExact
  BY DEF LawExact
<1> QED
  BY <1>3, <1>4, <1>5, PathIsExact, PTL
=============================================================================

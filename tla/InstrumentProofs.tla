-------------------------- MODULE InstrumentProofs --------------------------
(***************************************************************************)
(* Theorems about the parts of the act 3 instrument that MCDetector runs   *)
(* beside the periodic detector: its Cox arm, from the theorems of         *)
(* DetectorProofs, and the two-sided detector of the discreteness sweep,   *)
(* for every grid, line distance, trade, path length and limit.            *)
(***************************************************************************)
EXTENDS MCDetector, OrderProofs

(***************************************************************************)
(* The Cox arm.  What DetectorProofs proves of the detector for all        *)
(* constants holds of this instance of it.                                 *)
(***************************************************************************)
CoxArm == INSTANCE DetectorProofs WITH B <- 6, PEN <- 2, DWELL <- 0, PERIOD <- 1,
            BERN <- TRUE, COX <- 1, path <- cpath, b <- cb, crossed <- ccrossed,
            consec <- cconsec, events <- cevents

\* The theorems' copy of the detector is the one that runs.
LEMMA SameDetector ==
  /\ CoxArm!DetectorAssumption
  /\ Cox!Init => CoxArm!Init
  /\ Cox!Next => CoxArm!Next
  /\ Cox!vars = CoxArm!vars
  /\ CoxArm!SureAfterJump => Cox!SureAfterJump
  /\ CoxArm!FilterRespected => Cox!FilterRespected
<1>1. CoxArm!DetectorAssumption
  BY DetectorAssumption DEF CoxArm!DetectorAssumption
<1>2. /\ Cox!None = CoxArm!None
      /\ Cox!Now = CoxArm!Now
      /\ Cox!vars = CoxArm!vars
      /\ Cox!Blocks = CoxArm!Blocks
  BY DEF Cox!vars, CoxArm!vars, Cox!None, CoxArm!None, Cox!Now, CoxArm!Now,
     Cox!Blocks, CoxArm!Blocks, Cox!Price, CoxArm!Price
<1>3. Cox!Init => CoxArm!Init
  BY DEF Cox!Init, CoxArm!Init, Cox!None, CoxArm!None
<1>4. ASSUME NEW p
      PROVE  /\ Cox!Crossing(p) = CoxArm!Crossing(p)
             /\ Cox!Outside(p) = CoxArm!Outside(p)
             /\ Cox!Qualifies(p) = CoxArm!Qualifies(p)
             /\ Cox!Checks(p) = CoxArm!Checks(p)
             /\ \A c : Cox!JumpLabel(c, p) = CoxArm!JumpLabel(c, p)
  BY <1>2 DEF Cox!Crossing, CoxArm!Crossing, Cox!Outside, CoxArm!Outside,
     Cox!Qualifies, CoxArm!Qualifies, Cox!Patient, CoxArm!Patient,
     Cox!Checks, CoxArm!Checks, Cox!LastJump, CoxArm!LastJump, Cox!At, CoxArm!At,
     Cox!JumpLabel, CoxArm!JumpLabel
<1>5. ASSUME NEW p, Cox!Pass(p) PROVE CoxArm!Pass(p)
  BY <1>4, <1>5 DEF Cox!Pass, CoxArm!Pass
<1>6. ASSUME NEW p, Cox!Fire(p) PROVE CoxArm!Fire(p)
  BY <1>2, <1>4, <1>6 DEF Cox!Fire, CoxArm!Fire, Cox!Anchor, CoxArm!Anchor
<1>7. Cox!Next => CoxArm!Next
  BY <1>2, <1>5, <1>6 DEF Cox!Next, CoxArm!Next
<1>8. /\ CoxArm!SureAfterJump => Cox!SureAfterJump
      /\ CoxArm!FilterRespected => Cox!FilterRespected
  BY DEF Cox!SureAfterJump, CoxArm!SureAfterJump, Cox!FilterRespected,
     CoxArm!FilterRespected, Cox!Line, CoxArm!Line, Cox!xs, CoxArm!xs
<1> QED
  BY <1>1, <1>2, <1>3, <1>7, <1>8

\* With Cox checks every jump that crosses and penetrates fires in its block,
\* and every event has penetrated.
THEOREM CoxFiresOnJumps == MCSpec => []CoxSure
<1>1. MCInit => CoxArm!Init
  BY SameDetector DEF MCInit
<1>2. [MCNext]_all => [CoxArm!Next]_(CoxArm!vars)
  BY SameDetector DEF MCNext, all, CoxArm!vars, coxVars
<1>3. CoxArm!SureAfterJump /\ CoxArm!FilterRespected => CoxSure
  BY SameDetector DEF CoxSure
<1>4. CoxArm!Spec => []CoxArm!SureAfterJump /\ []CoxArm!FilterRespected
  BY SameDetector, CoxArm!JumpsFireAtOnce, CoxArm!EventsPassFilter
     DEF CoxArm!DetectorAssumption
<1> QED
  BY <1>1, <1>2, <1>3, <1>4, PTL DEF MCSpec, CoxArm!Spec
-----------------------------------------------------------------------------
(***************************************************************************)
(* The two-sided detector of the sweep.                                    *)
(***************************************************************************)
Rates == Nat \X Nat

SweepTypes ==
  /\ g \in 1..(Len(Grid) + 1)
  /\ xr \in Seq(Int) /\ Len(xr) <= BD
  /\ xr # <<>> => g <= Len(Grid)
  /\ anchor \in Int
  /\ side \in {-1, 0, 1}
  /\ exceed \in Seq(Int \X Int)
  /\ rates \in Seq(Rates) /\ Len(rates) = g - 1

\* No crossing survives its block; every event is of delay one and beyond the
\* line.
SweepEvents ==
  /\ beyond = 0
  /\ \A n \in DOMAIN exceed : exceed[n][1] = 1 /\ exceed[n][2] > 0

\* A rate is of events there are, and not above one.
SweepRates ==
  \A n \in DOMAIN rates : /\ rates[n][1] <= rates[n][2]
                          /\ rates[n] # <<0, 0>> => rates[n][2] > 0

SweepInv == SweepTypes /\ SweepEvents /\ SweepRates /\ Sweep!LinesFollow
-----------------------------------------------------------------------------
\* What one more element does to a sequence.
LEMMA OneMore ==
  ASSUME NEW T, NEW s \in Seq(T), NEW e \in T
  PROVE  /\ Append(s, e) \in Seq(T)
         /\ Append(s, e) # <<>>
         /\ Len(s) \in Nat
         /\ Len(Append(s, e)) = Len(s) + 1
         /\ Append(s, e)[Len(s) + 1] = e
         /\ DOMAIN s = 1..Len(s)
         /\ DOMAIN Append(s, e) = 1..(Len(s) + 1)
         /\ \A n \in 1..Len(s) : Append(s, e)[n] = s[n] /\ s[n] \in T
OBVIOUS

LEMMA SweepStart == Sweep!Init => SweepInv
<1> SUFFICES ASSUME Sweep!Init PROVE SweepInv
  OBVIOUS
<1>1. /\ g = 1 /\ xr = <<>> /\ anchor = 0 /\ beyond = 0 /\ side = 0
      /\ exceed = <<>> /\ rates = <<>>
  BY DEF Sweep!Init, Sweep!None
<1>2. SweepTypes
  BY <1>1, SweepAssumption DEF SweepTypes
<1> QED
  BY <1>1, <1>2 DEF SweepInv, SweepEvents, SweepRates, Sweep!LinesFollow

\* A block that lies between the lines is let pass, one outside fires at once.
LEMMA SweepBlock ==
  ASSUME SweepInv, NEW t \in Trades, Sweep!Block(t)
  PROVE  SweepInv'
<1> DEFINE x == Sweep!From + Sweep!Two * t
           h == Half[g]
           a == Sweep!Anchor(x)
<1>1. /\ g \in 1..Len(Grid) /\ Len(xr) < BD /\ Len(xr) \in Nat /\ h \in Nat
      /\ g' = g /\ rates' = rates /\ beyond = 0
  BY SweepAssumption
     DEF SweepInv, SweepTypes, SweepEvents, Sweep!Block, Sweep!Scanning
<1>2. x \in Int /\ a \in Int
  <2>1. Sweep!From \in Int
    BY DEF SweepInv, SweepTypes, Sweep!From
  <2>2. x \in Int
    BY <2>1, SweepAssumption DEF Sweep!Two
  <2> HIDE DEF x
  <2> QED
    BY <2>2 DEF SweepInv, SweepTypes, Sweep!Anchor
<1>3. /\ xr' = Append(xr, x)
      /\ side' = Sweep!SideOf(x)
      /\ \/ /\ Sweep!SideOf(x) # 0
            /\ exceed' = Append(exceed, <<Sweep!Now - Sweep!Now + 1, Sweep!Over(x, Sweep!SideOf(x))>>)
            /\ anchor' = x
            /\ beyond' = 0
         \/ /\ Sweep!SideOf(x) = 0
            /\ anchor' = a
            /\ beyond' = 0
            /\ exceed' = exceed
  BY <1>1 DEF Sweep!Block, Sweep!Fires, Sweep!Back, Sweep!Reset, Sweep!None
<1> HIDE DEF x
<1>4. Sweep!SideOf(x) = IF x > a + h THEN 1 ELSE IF x < a - h THEN -1 ELSE 0
  BY DEF Sweep!SideOf
<1>5. Sweep!Over(x, Sweep!SideOf(x)) =
        IF Sweep!SideOf(x) > 0 THEN x - (a + h) ELSE (a - h) - x
  BY DEF Sweep!Over
<1>6. xr = <<>> => a = x
  BY DEF Sweep!Anchor
<1>7. xr # <<>> => a = anchor
  BY DEF Sweep!Anchor
<1> HIDE DEF a, h
<1>8. /\ xr' \in Seq(Int) /\ xr' # <<>> /\ Len(xr') = Len(xr) + 1
      /\ DOMAIN xr = 1..Len(xr) /\ DOMAIN xr' = 1..(Len(xr) + 1)
      /\ xr'[Len(xr) + 1] = x
      /\ \A n \in 1..Len(xr) : xr'[n] = xr[n] /\ xr[n] \in Int
  <2>1. xr \in Seq(Int)
    BY DEF SweepInv, SweepTypes
  <2> QED
    BY <1>2, <1>3, <2>1, OneMore
<1>9. Sweep!SideOf(x) \in {-1, 0, 1}
  BY <1>4
<1>10. beyond' = 0 /\ anchor' \in Int
  BY <1>2, <1>3
<1>11. /\ exceed' \in Seq(Int \X Int)
       /\ \A n \in DOMAIN exceed' : exceed'[n][1] = 1 /\ exceed'[n][2] > 0
  <2>1. CASE Sweep!SideOf(x) = 0
    BY <1>3, <2>1 DEF SweepInv, SweepTypes, SweepEvents
  <2>2. CASE Sweep!SideOf(x) # 0
    <3> DEFINE o == Sweep!Over(x, Sweep!SideOf(x))
               e == <<Sweep!Now - Sweep!Now + 1, o>>
    <3>1. o \in Int /\ o > 0
      BY <1>1, <1>2, <1>4, <1>5, <2>2 DEF h
    <3>2. Sweep!Now - Sweep!Now + 1 = 1
      BY <1>1 DEF Sweep!Now
    <3>3. exceed' = Append(exceed, e)
      BY <1>3, <2>2
    <3> HIDE DEF o
    <3>4. e = <<1, o>>
      BY <3>2
    <3>5. e \in Int \X Int /\ e[1] = 1 /\ e[2] > 0
      BY <3>1, <3>4
    <3> HIDE DEF e
    <3>6. exceed \in Seq(Int \X Int)
      BY DEF SweepInv, SweepTypes
    <3>7. /\ exceed' \in Seq(Int \X Int)
          /\ Len(exceed) \in Nat
          /\ exceed'[Len(exceed) + 1] = e
          /\ DOMAIN exceed = 1..Len(exceed)
          /\ DOMAIN exceed' = 1..(Len(exceed) + 1)
          /\ \A n \in 1..Len(exceed) : exceed'[n] = exceed[n]
      BY <3>3, <3>5, <3>6, OneMore
    <3>8. ASSUME NEW n \in DOMAIN exceed'
          PROVE  exceed'[n][1] = 1 /\ exceed'[n][2] > 0
      <4>1. CASE n = Len(exceed) + 1
        BY <3>5, <3>7, <4>1
      <4>2. CASE n # Len(exceed) + 1
        <5>1. n \in 1..Len(exceed)
          BY <3>7, <4>2
        <5> QED
          BY <3>7, <5>1 DEF SweepInv, SweepEvents
      <4> QED
        BY <4>1, <4>2
    <3> QED
      BY <3>7, <3>8
  <2> QED
    BY <2>1, <2>2
<1>12. SweepTypes'
  BY <1>1, <1>3, <1>8, <1>9, <1>10, <1>11, SweepAssumption DEF SweepInv, SweepTypes
<1>13. SweepEvents' /\ SweepRates'
  BY <1>1, <1>10, <1>11 DEF SweepInv, SweepEvents, SweepRates
<1>14. \E k \in DOMAIN xr' :
         /\ xr'[k] = anchor'
         /\ \A m \in k..Len(xr') : xr'[m] \in (anchor' - h)..(anchor' + h)
  <2>0. h \in Nat
    BY <1>1 DEF h
  <2>1. CASE anchor' = x
    <3>1. Len(xr) + 1 \in DOMAIN xr' /\ xr'[Len(xr) + 1] = anchor'
      BY <1>1, <1>8, <2>1
    <3>2. ASSUME NEW m \in (Len(xr) + 1)..Len(xr')
          PROVE  xr'[m] \in (anchor' - h)..(anchor' + h)
      <4>1. m = Len(xr) + 1
        BY <1>1, <1>8
      <4> QED
        BY <1>2, <1>8, <2>0, <2>1, <4>1
    <3> QED
      BY <3>1, <3>2
  <2>2. CASE anchor' # x
    <3>1. Sweep!SideOf(x) = 0 /\ anchor' = a /\ xr # <<>> /\ anchor' = anchor
      BY <1>3, <1>6, <1>7, <2>2
    <3>2. x \in (anchor - h)..(anchor + h)
      BY <1>2, <1>4, <2>0, <3>1
    <3>3. PICK k \in DOMAIN xr :
             /\ xr[k] = anchor
             /\ \A m \in k..Len(xr) : xr[m] \in (anchor - h)..(anchor + h)
      BY <3>1 DEF SweepInv, Sweep!LinesFollow, h
    <3>4. k \in DOMAIN xr' /\ xr'[k] = anchor'
      BY <1>1, <1>8, <3>1, <3>3
    <3>5. ASSUME NEW m \in k..Len(xr')
          PROVE  xr'[m] \in (anchor' - h)..(anchor' + h)
      <4>1. CASE m = Len(xr) + 1
        BY <1>8, <3>1, <3>2, <4>1
      <4>2. CASE m # Len(xr) + 1
        <5>1. m \in k..Len(xr) /\ m \in 1..Len(xr)
          BY <1>1, <1>8, <3>3, <4>2
        <5> QED
          BY <1>8, <3>1, <3>3, <5>1
      <4> QED
        BY <4>1, <4>2
    <3> QED
      BY <3>4, <3>5
  <2> QED
    BY <2>1, <2>2
<1>15. Sweep!LinesFollow'
  <2>1. h' = h
    BY <1>1 DEF h
  <2> QED
    BY <1>14, <2>1, <1>1 DEF Sweep!LinesFollow, h
<1> QED
  BY <1>12, <1>13, <1>15 DEF SweepInv

LEMMA SameCardinality == \A T : Sweep!Cardinality(T) = Cardinality(T)
BY DEF Sweep!Cardinality, Cardinality, Sweep!IsFiniteSet, IsFiniteSet

\* A path that is over leaves a rate that is not above one.
LEMMA SweepEndPath ==
  ASSUME SweepInv, Sweep!EndPath
  PROVE  SweepInv'
<1>1. /\ g \in 1..Len(Grid) /\ g' = g + 1
      /\ rates' = Append(rates, Sweep!Rate)
      /\ xr' = <<>> /\ anchor' = 0 /\ beyond' = 0 /\ side' = 0 /\ exceed' = <<>>
  BY SweepAssumption DEF SweepInv, SweepTypes, Sweep!EndPath, Sweep!None
<1> DEFINE near == {n \in DOMAIN exceed : exceed[n][1] <= ABAR}
           far  == {n \in near : Sweep!Spurious(exceed[n])}
<1>2. /\ Cardinality(near) \in Nat /\ Cardinality(far) \in Nat
      /\ Cardinality(far) <= Cardinality(near)
  <2>1. DOMAIN exceed = 1..Len(exceed) /\ Len(exceed) \in Nat
    BY DEF SweepInv, SweepTypes
  <2>2. IsFiniteSet(DOMAIN exceed)
    BY <2>1, FS_Interval
  <2>3. IsFiniteSet(near)
    BY <2>2, FS_Subset
  <2>4. far \in SUBSET near
    OBVIOUS
  <2> HIDE DEF near, far
  <2>5. IsFiniteSet(far) /\ Cardinality(far) <= Cardinality(near)
    BY <2>3, <2>4, FS_Subset
  <2>6. Cardinality(near) \in Nat
    BY <2>3, FS_CardinalityType
  <2>7. Cardinality(far) \in Nat
    BY <2>5, FS_CardinalityType
  <2> QED
    BY <2>5, <2>6, <2>7
<1>3. Sweep!Rate = IF Cardinality(near) < MIN_N THEN <<0, 0>>
                   ELSE <<Cardinality(far), Cardinality(near)>>
  BY SameCardinality DEF Sweep!Rate, Sweep!Near, Sweep!NoRate
<1> HIDE DEF near, far
<1>4. /\ Sweep!Rate \in Rates
      /\ Sweep!Rate[1] <= Sweep!Rate[2]
      /\ Sweep!Rate # <<0, 0>> => Sweep!Rate[2] > 0
  <2>1. MIN_N \in Nat \ {0}
    BY SweepAssumption
  <2>2. CASE Cardinality(near) < MIN_N
    BY <1>3, <2>2 DEF Rates
  <2>3. CASE ~(Cardinality(near) < MIN_N)
    BY <1>2, <1>3, <2>1, <2>3 DEF Rates
  <2> QED
    BY <2>2, <2>3
<1>5. /\ rates' \in Seq(Rates) /\ Len(rates) \in Nat /\ Len(rates') = Len(rates) + 1
      /\ DOMAIN rates = 1..Len(rates) /\ DOMAIN rates' = 1..(Len(rates) + 1)
      /\ rates'[Len(rates) + 1] = Sweep!Rate
      /\ \A n \in 1..Len(rates) : rates'[n] = rates[n]
  <2>1. rates \in Seq(Rates)
    BY DEF SweepInv, SweepTypes
  <2> QED
    BY <1>1, <1>4, <2>1, OneMore
<1>6. SweepTypes'
  <2>1. Len(rates) = g - 1 /\ Len(Grid) \in Nat
    BY SweepAssumption DEF SweepInv, SweepTypes
  <2>2. g + 1 \in 1..(Len(Grid) + 1) /\ Len(rates') = (g + 1) - 1
    BY <1>1, <1>5, <2>1
  <2> QED
    BY <1>1, <1>5, <2>2, SweepAssumption DEF SweepTypes
<1>7. SweepEvents'
  BY <1>1 DEF SweepEvents
<1>8. SweepRates'
  <2> SUFFICES ASSUME NEW n \in DOMAIN rates'
               PROVE  /\ rates'[n][1] <= rates'[n][2]
                      /\ rates'[n] # <<0, 0>> => rates'[n][2] > 0
    BY DEF SweepRates
  <2>1. CASE n = Len(rates) + 1
    BY <1>4, <1>5, <2>1
  <2>2. CASE n # Len(rates) + 1
    <3>1. n \in 1..Len(rates)
      BY <1>5, <2>2
    <3> QED
      BY <1>5, <3>1 DEF SweepInv, SweepRates
  <2> QED
    BY <2>1, <2>2
<1>9. Sweep!LinesFollow'
  BY <1>1 DEF Sweep!LinesFollow
<1> QED
  BY <1>6, <1>7, <1>8, <1>9 DEF SweepInv

LEMMA SweepInductive == SweepInv /\ [Sweep!Next]_(Sweep!vars) => SweepInv'
<1>1. ASSUME SweepInv, NEW t \in Trades, Sweep!Block(t) PROVE SweepInv'
  BY <1>1, SweepBlock
<1>2. ASSUME SweepInv, Sweep!EndPath PROVE SweepInv'
  BY <1>2, SweepEndPath
<1>3. ASSUME SweepInv, UNCHANGED Sweep!vars PROVE SweepInv'
  BY <1>3 DEF Sweep!vars, SweepInv, SweepTypes, SweepEvents, SweepRates, Sweep!LinesFollow
<1> QED
  BY <1>1, <1>2, <1>3 DEF Sweep!Next
-----------------------------------------------------------------------------
\* What is multiplied by the same number keeps its order, and the other way.
LEMMA TimesKeepsOrder ==
  ASSUME NEW i \in Int, NEW k \in Int, NEW m \in Nat
  PROVE  i <= k => i * m <= k * m
OBVIOUS

LEMMA OrderUnderTimes ==
  ASSUME NEW i \in Int, NEW k \in Int, NEW m \in Nat, m > 0, i * m <= k * m
  PROVE  i <= k
OBVIOUS

\* A rate r1/r2 of at most w/(l * z), a fall of rates from r1/r2 to t1/t2 but for
\* the slack d/z, and what the limit u/l and k slacks add up to.
Below(r1, r2, w, l, z)     == r1 * l * z <= w * r2
Falls(r1, r2, t1, t2, d, z) == t1 * r2 * z <= (r1 * z + d * r2) * t2
Allowance(u, l, d, z, k)   == u * z + k * d * l

LEMMA NoSlackYet ==
  ASSUME NEW u \in Nat, NEW l \in Nat, NEW d \in Nat, NEW z \in Nat
  PROVE  Allowance(u, l, d, z, 0) = u * z
BY DEF Allowance

LEMMA SlacksAddUp ==
  ASSUME NEW u \in Nat, NEW l \in Nat, NEW d \in Nat, NEW z \in Nat, NEW k \in Nat
  PROVE  /\ Allowance(u, l, d, z, k) \in Nat
         /\ Allowance(u, l, d, z, k + 1) = Allowance(u, l, d, z, k) + d * l
BY DEF Allowance

LEMMA AtTheLimit ==
  ASSUME NEW r1 \in Nat, NEW r2 \in Nat, NEW u \in Nat, NEW l \in Nat, NEW z \in Nat,
         r1 * l <= u * r2
  PROVE  Below(r1, r2, u * z, l, z)
<1>1. r1 * l \in Int /\ u * r2 \in Int
  OBVIOUS
<1>2. (r1 * l) * z <= (u * r2) * z
  BY <1>1, TimesKeepsOrder
<1>3. (u * r2) * z = (u * z) * r2
  OBVIOUS
<1> QED
  BY <1>2, <1>3 DEF Below

\* One step of the grid adds the slack to what bounds a rate.
LEMMA OneSlackMore ==
  ASSUME NEW r1 \in Nat, NEW r2 \in Nat, NEW t1 \in Nat, NEW t2 \in Nat,
         NEW l \in Nat, NEW z \in Nat, NEW d \in Nat, NEW w \in Nat,
         r2 > 0, Below(r1, r2, w, l, z), Falls(r1, r2, t1, t2, d, z)
  PROVE  Below(t1, t2, w + d * l, l, z)
<1>1. (r1 * l * z) * t2 <= (w * r2) * t2
  <2>1. r1 * l * z \in Int /\ w * r2 \in Int
    OBVIOUS
  <2> QED
    BY <2>1, TimesKeepsOrder DEF Below
<1>2. (t1 * r2 * z) * l <= ((r1 * z + d * r2) * t2) * l
  <2>1. t1 * r2 * z \in Int /\ (r1 * z + d * r2) * t2 \in Int
    OBVIOUS
  <2> QED
    BY <2>1, TimesKeepsOrder DEF Falls
<1>3. ((r1 * z + d * r2) * t2) * l = (r1 * l * z) * t2 + (d * l * t2) * r2
  OBVIOUS
<1>4. (w * r2) * t2 + (d * l * t2) * r2 = ((w + d * l) * t2) * r2
  OBVIOUS
<1>5. (t1 * r2 * z) * l = (t1 * l * z) * r2
  OBVIOUS
<1>6. /\ (t1 * l * z) * r2 \in Int /\ ((w + d * l) * t2) * r2 \in Int
      /\ (r1 * l * z) * t2 \in Int /\ (w * r2) * t2 \in Int
      /\ (d * l * t2) * r2 \in Int
      /\ t1 * l * z \in Int /\ (w + d * l) * t2 \in Int
  OBVIOUS
<1>7. (t1 * l * z) * r2 <= ((w + d * l) * t2) * r2
  BY <1>1, <1>2, <1>3, <1>4, <1>5, <1>6
<1>8. t1 * l * z <= (w + d * l) * t2
  BY <1>6, <1>7, OrderUnderTimes
<1> QED
  BY <1>8 DEF Below

LEMMA OneStepMore ==
  ASSUME NEW r1 \in Nat, NEW r2 \in Nat, NEW t1 \in Nat, NEW t2 \in Nat,
         NEW u \in Nat, NEW l \in Nat, NEW d \in Nat, NEW z \in Nat, NEW k \in Nat,
         r2 > 0, Below(r1, r2, Allowance(u, l, d, z, k), l, z),
         Falls(r1, r2, t1, t2, d, z)
  PROVE  Below(t1, t2, Allowance(u, l, d, z, k + 1), l, z)
<1> DEFINE w == Allowance(u, l, d, z, k)
<1>1. w \in Nat /\ Allowance(u, l, d, z, k + 1) = w + d * l
  BY SlacksAddUp
<1> HIDE DEF w
<1>2. Below(t1, t2, w + d * l, l, z)
  BY <1>1, OneSlackMore DEF w
<1> QED
  BY <1>1, <1>2

\* The limit and k steps' slack bound the rate of value n.
Bounded(k, n) ==
  Below(rates[n][1], rates[n][2],
        Allowance(LIMIT[1], LIMIT[2], SLACK[1], SLACK[2], k), LIMIT[2], SLACK[2])

LEMMA LimitHoldsOn ==
  ASSUME SweepTypes, SweepRates, Sweep!Passes, NEW c \in DOMAIN rates, Sweep!CTick(c)
  PROVE  \A k \in Nat : c + k <= Len(rates) => Bounded(k, c + k)
<1>1. /\ LIMIT[1] \in Nat /\ LIMIT[2] \in Nat
      /\ SLACK[1] \in Nat /\ SLACK[2] \in Nat
  BY SweepAssumption
<1>2. DOMAIN rates = 1..Len(rates) /\ Len(rates) \in Nat /\ c \in Nat /\ c >= 1
  BY DEF SweepTypes
<1>3. ASSUME NEW n \in DOMAIN rates
      PROVE  rates[n][1] \in Nat /\ rates[n][2] \in Nat /\ rates[n][2] > 0
  <2>1. rates[n] \in Nat \X Nat
    BY <1>2 DEF SweepTypes, Rates
  <2>2. rates[n] # <<0, 0>>
    BY DEF Sweep!Passes, Sweep!Mono, Sweep!NoRate
  <2> QED
    BY <2>1, <2>2 DEF SweepRates
<1> DEFINE T == {k \in Nat : c + k <= Len(rates) => Bounded(k, c + k)}
<1>4. 0 \in T
  <2>1. rates[c][1] * LIMIT[2] <= LIMIT[1] * rates[c][2]
    BY DEF Sweep!CTick, Sweep!Low, Sweep!AtMost
  <2>2. rates[c][1] \in Nat /\ rates[c][2] \in Nat
    BY <1>3
  <2>3. Below(rates[c][1], rates[c][2], LIMIT[1] * SLACK[2], LIMIT[2], SLACK[2])
    BY <1>1, <2>1, <2>2, AtTheLimit
  <2>4. Bounded(0, c)
    <3>1. Allowance(LIMIT[1], LIMIT[2], SLACK[1], SLACK[2], 0) = LIMIT[1] * SLACK[2]
      BY <1>1, NoSlackYet
    <3> QED
      BY <2>3, <3>1 DEF Bounded
  <2>5. c + 0 = c
    BY <1>2
  <2> QED
    BY <2>4, <2>5
<1>5. ASSUME NEW k \in Nat, k \in T
      PROVE  k + 1 \in T
  <2> SUFFICES ASSUME c + (k + 1) <= Len(rates) PROVE Bounded(k + 1, c + (k + 1))
    OBVIOUS
  <2> DEFINE n == c + k
  <2>1. n \in DOMAIN rates /\ n + 1 \in DOMAIN rates /\ n \in 1..(Len(rates) - 1)
        /\ n + 1 = c + (k + 1)
    BY <1>2
  <2>2. Bounded(k, n)
    BY <1>5, <1>2
  <2> HIDE DEF n
  <2>3. Falls(rates[n][1], rates[n][2], rates[n + 1][1], rates[n + 1][2], SLACK[1], SLACK[2])
    <3>1. Sweep!FallsBy(rates[n], rates[n + 1])
      BY <2>1 DEF Sweep!Passes, Sweep!Mono
    <3> QED
      BY <3>1 DEF Sweep!FallsBy, Falls
  <2>4. /\ rates[n][1] \in Nat /\ rates[n][2] \in Nat /\ rates[n][2] > 0
        /\ rates[n + 1][1] \in Nat /\ rates[n + 1][2] \in Nat
    BY <1>3, <2>1
  <2>5. Bounded(k + 1, n + 1)
    BY <1>1, <2>2, <2>3, <2>4, OneStepMore DEF Bounded
  <2> QED
    BY <2>1, <2>5
<1> HIDE DEF T
<1>6. Nat \subseteq T
  BY <1>4, <1>5, NatInd
<1> QED
  BY <1>6 DEF T

\* A sweep that passes bounds the rate of every value from c_tick on.
LEMMA SweepAdmitsBeyond == SweepTypes /\ SweepRates => Sweep!AdmissionHolds
<1> SUFFICES ASSUME SweepTypes, SweepRates, Sweep!Passes, NEW c \in DOMAIN rates,
                    Sweep!CTick(c), NEW n \in c..Len(rates)
             PROVE  Bounded(n - c, n)
  BY DEF Sweep!AdmissionHolds, Bounded, Below, Allowance
<1>1. /\ c \in Nat /\ n \in Nat /\ n - c \in Nat /\ c + (n - c) = n
      /\ n <= Len(rates)
  BY DEF SweepTypes
<1> QED
  BY <1>1, LimitHoldsOn

\* The two-sided detector follows the price and fires at once, and c_tick is an
\* admission constant for the rest of the grid.
THEOREM SweepIsSound == MCSpec => []SweepAdmits
<1>1. MCInit => SweepInv
  BY SweepStart DEF MCInit
<1>2. SweepInv /\ [MCNext]_all => SweepInv'
  <2>1. [MCNext]_all => [Sweep!Next]_(Sweep!vars)
    BY DEF MCNext, all, sweepVars, Sweep!vars
  <2> QED
    BY <2>1, SweepInductive
<1>3. SweepInv => SweepAdmits
  <2> SUFFICES ASSUME SweepInv PROVE SweepAdmits
    OBVIOUS
  <2>1. Sweep!TypeOK
    BY DEF SweepInv, SweepTypes, SweepEvents, SweepRates, Sweep!TypeOK
  <2>2. Sweep!LinesFollow /\ Sweep!AlwaysAtOnce
    BY DEF SweepInv, SweepEvents, Sweep!AlwaysAtOnce, Sweep!None
  <2> QED
    BY <2>1, <2>2, SweepAdmitsBeyond DEF SweepInv, SweepAdmits
<1> QED
  BY <1>1, <1>2, <1>3, PTL DEF MCSpec
-----------------------------------------------------------------------------
(***************************************************************************)
(* The population probes.  A delay is read off one window of a sorted      *)
(* stream; what it says of the whole stream follows from where searchsorted *)
(* cuts it.                                                                *)
(***************************************************************************)
Stream(s) == /\ s \in Seq(Sample)
             /\ \A i, j \in DOMAIN s : i < j => s[i].block <= s[j].block

LEMMA WalkLibrary == \A T : Walk!Cardinality(T) = Cardinality(T)
BY DEF Walk!Cardinality, Cardinality, Walk!IsFiniteSet, IsFiniteSet

LEMMA GreatestOf ==
  ASSUME NEW n \in Nat, NEW T, T \subseteq 0..n, T # {}
  PROVE  Walk!Max(T) \in T /\ \A y \in T : y <= Walk!Max(T)
<1>1. PICK x \in T : \A y \in T : x >= y
  BY GreatestNat
<1>2. \E x_1 \in T : \A y \in T : x_1 >= y
  BY <1>1
<1>3. Walk!Max(T) \in T /\ \A y \in T : Walk!Max(T) >= y
  BY <1>2 DEF Walk!Max
<1>4. \A y \in T : y \in Nat
  OBVIOUS
<1> DEFINE m == Walk!Max(T)
<1>5. m \in T /\ m \in Nat /\ \A y \in T : m >= y
  BY <1>3, <1>4
<1> HIDE DEF m
<1>6. \A y \in T : y <= m
  BY <1>4, <1>5
<1> QED
  BY <1>5, <1>6 DEF m

LEMMA LeastOf ==
  ASSUME NEW T, T \subseteq Nat, T # {}
  PROVE  Walk!Min(T) \in T /\ \A y \in T : Walk!Min(T) <= y
<1>1. \E x \in T : \A y \in T : x <= y
  BY LeastNat
<1> QED
  BY <1>1 DEF Walk!Min

LEMMA StreamFacts ==
  ASSUME NEW s, Stream(s)
  PROVE  /\ Len(s) \in Nat /\ DOMAIN s = 1..Len(s)
         /\ \A i \in 1..Len(s) : s[i] \in Sample /\ s[i].block \in Nat
         /\ \A i, j \in 1..Len(s) : i <= j => s[i].block <= s[j].block
<1>1. /\ Len(s) \in Nat /\ DOMAIN s = 1..Len(s)
      /\ \A i \in 1..Len(s) : s[i] \in Sample
  BY DEF Stream
<1>2. \A i \in 1..Len(s) : s[i].block \in Nat
  BY <1>1 DEF Sample
<1>3. \A i, j \in 1..Len(s) : i < j \/ i = j \/ j < i
  OBVIOUS
<1>4. \A i, j \in 1..Len(s) : i <= j => s[i].block <= s[j].block
  BY <1>1, <1>2, <1>3 DEF Stream
<1> QED
  BY <1>1, <1>2, <1>4

\* np.searchsorted: the samples before a block are the first ones.
LEMMA FirstOnes ==
  ASSUME NEW s, Stream(s), NEW at \in Int
  PROVE  /\ Walk!Before(s, at) \in 0..Len(s)
         /\ \A i \in 1..Len(s) : i <= Walk!Before(s, at) <=> s[i].block < at
<1> DEFINE T == {i \in DOMAIN s : s[i].block < at}
<1>1. /\ Len(s) \in Nat /\ DOMAIN s = 1..Len(s)
      /\ \A i \in 1..Len(s) : s[i].block \in Nat
      /\ \A i, j \in 1..Len(s) : i <= j => s[i].block <= s[j].block
  BY StreamFacts
<1>2. Walk!Before(s, at) = Cardinality(T)
  BY WalkLibrary DEF Walk!Before
<1>3. CASE T = {}
  <2>1. Walk!Before(s, at) = 0
    BY <1>2, <1>3, FS_EmptySet
  <2> QED
    BY <1>1, <1>3, <2>1
<1>4. CASE T # {}
  <2>0. T \subseteq 0..Len(s)
    BY <1>1
  <2>a. \E m \in T : \A y \in T : m >= y
    <3> HIDE DEF T
    <3> QED
      BY <1>1, <1>4, <2>0, GreatestNat
  <2>1. PICK m \in T : \A y \in T : m >= y
    BY <2>a
  <2>2. m \in 1..Len(s) /\ s[m].block < at
    BY <1>1, <2>1
  <2>3. \A i \in 1..Len(s) : i <= m <=> s[i].block < at
    <3> TAKE i \in 1..Len(s)
    <3>1. ASSUME i <= m PROVE s[i].block < at
      BY <1>1, <2>2, <3>1
    <3>2. ASSUME s[i].block < at PROVE i <= m
      BY <1>1, <2>1, <2>2, <3>2
    <3> QED
      BY <3>1, <3>2
  <2>4. T = 1..m
    BY <1>1, <2>2, <2>3
  <2>5. Cardinality(1..m) = m
    BY <2>2, FS_Interval
  <2>6. Walk!Before(s, at) = m
    BY <1>2, <2>4, <2>5
  <2>7. m \in 0..Len(s)
    BY <1>1, <2>2
  <2> QED
    BY <2>3, <2>6, <2>7
<1> QED
  BY <1>3, <1>4

OutsideOf(s, hi, line, dir) == {i \in 1..hi : \A j \in i..hi :
                                 ~Walk!InsideOf(s[j].tick, line, dir)}
InWindow(s, blk, line, dir) == {i \in DOMAIN s :
                                 /\ s[i].block \in (blk - LOOKBACK)..(blk - 1)
                                 /\ Walk!InsideOf(s[i].tick, line, dir)}

\* crossing_delay(): the last sample inside is sample k; what follows it before
\* the block is the excursion, and the delay goes back to where that begins.
LEMMA MeasuredExcursion ==
  ASSUME NEW s, Stream(s), NEW blk \in Nat, NEW line, NEW dir
  PROVE  LET delay == Walk!CrossingDelay(s, blk, line, dir)
             hi    == Walk!Before(s, blk)
         IN  \/ delay = -1 /\ InWindow(s, blk, line, dir) = {}
             \/ \E k \in InWindow(s, blk, line, dir) :
                  /\ k \in 1..hi /\ delay \in 1..LOOKBACK
                  /\ OutsideOf(s, hi, line, dir) = (k + 1)..hi
                  /\ delay = blk - s[IF k = hi THEN k ELSE k + 1].block
<1> DEFINE lo  == Walk!Before(s, blk - LOOKBACK)
           hi  == Walk!Before(s, blk)
           ins == {i \in (lo + 1)..hi : Walk!InsideOf(s[i].tick, line, dir)}
           delay == Walk!CrossingDelay(s, blk, line, dir)
<1>1. /\ Len(s) \in Nat /\ DOMAIN s = 1..Len(s) /\ LOOKBACK \in Nat
      /\ \A i \in 1..Len(s) : s[i].block \in Nat
  BY StreamFacts, WalkAssumption
<1>2. /\ lo \in 0..Len(s) /\ hi \in 0..Len(s)
      /\ \A i \in 1..Len(s) : i <= hi <=> s[i].block < blk
      /\ \A i \in 1..Len(s) : i <= lo <=> s[i].block < blk - LOOKBACK
  <2>1. blk \in Int /\ blk - LOOKBACK \in Int
    BY <1>1
  <2> QED
    BY <2>1, FirstOnes
<1>3. delay = IF ins = {} THEN -1
              ELSE IF Walk!Max(ins) = hi THEN blk - s[Walk!Max(ins)].block
              ELSE blk - s[Walk!Max(ins) + 1].block
  BY DEF Walk!CrossingDelay, Walk!LastOf, Walk!None
<1> HIDE DEF lo, hi, delay
<1>4. \A i \in 1..Len(s) : i \in (lo + 1)..hi
                            <=> s[i].block \in (blk - LOOKBACK)..(blk - 1)
  BY <1>1, <1>2
<1>5. ins = InWindow(s, blk, line, dir)
  BY <1>1, <1>2, <1>4 DEF InWindow
<1>6. CASE ins = {}
  BY <1>3, <1>5, <1>6 DEF delay
<1>7. CASE ins # {}
  <2> DEFINE k == Walk!Max(ins)
  <2>1. ins \subseteq 0..Len(s)
    BY <1>1, <1>2
  <2>2. k \in ins /\ \A y \in ins : y <= k
    BY <1>1, <1>7, <2>1, GreatestOf
  <2> HIDE DEF k
  <2>3. k \in (lo + 1)..hi /\ Walk!InsideOf(s[k].tick, line, dir)
    BY <2>2
  <2>4. OutsideOf(s, hi, line, dir) = (k + 1)..hi
    <3>1. ASSUME NEW i \in 1..hi, i <= k PROVE i \notin OutsideOf(s, hi, line, dir)
      <4>1. k \in i..hi
        BY <1>2, <2>3, <3>1
      <4> QED
        BY <2>3, <4>1 DEF OutsideOf
    <3>2. ASSUME NEW i \in (k + 1)..hi, NEW j \in i..hi
          PROVE  ~Walk!InsideOf(s[j].tick, line, dir)
      <4>1. j \in (lo + 1)..hi /\ ~(j <= k)
        BY <1>2, <2>3
      <4> QED
        BY <2>2, <4>1
    <3>3. (k + 1)..hi \subseteq 1..hi /\ \A i \in 1..hi : i <= k \/ i \in (k + 1)..hi
      BY <1>2, <2>3
    <3> QED
      BY <3>1, <3>2, <3>3 DEF OutsideOf
  <2> DEFINE n == IF k = hi THEN k ELSE k + 1
  <2>5. n \in (lo + 1)..hi /\ n \in 1..Len(s)
    BY <1>2, <2>3
  <2>6. delay = blk - s[n].block
    BY <1>3, <1>7 DEF k
  <2>7. s[n].block \in (blk - LOOKBACK)..(blk - 1)
    BY <1>4, <2>5
  <2>8. delay \in 1..LOOKBACK
    BY <1>1, <2>6, <2>7
  <2>9. k \in 1..hi
    BY <1>2, <2>3
  <2> QED
    BY <1>5, <2>2, <2>4, <2>6, <2>8, <2>9 DEF hi, delay
<1> QED
  BY <1>6, <1>7
-----------------------------------------------------------------------------
\* A prefix that has what a window reaches gives the same scale.
LEMMA SamePrefix ==
  ASSUME NEW s, Stream(s), NEW m \in 0..Len(s), NEW at \in Int, Walk!Before(s, at) <= m
  PROVE  LET p == SubSeq(s, 1, m)
         IN  /\ \A i \in 1..m : p[i] = s[i]
             /\ Walk!Before(p, at) = Walk!Before(s, at)
<1> DEFINE p == SubSeq(s, 1, m)
<1>1. Len(s) \in Nat /\ DOMAIN s = 1..Len(s) /\ s \in Seq(Sample)
  BY StreamFacts DEF Stream
<1>2. DOMAIN p = 1..m /\ \A i \in 1..m : p[i] = s[i]
  BY <1>1
<1> HIDE DEF p
<1>3. /\ Walk!Before(s, at) \in 0..Len(s)
      /\ \A i \in 1..Len(s) : i <= Walk!Before(s, at) <=> s[i].block < at
  BY FirstOnes
<1>4. \A i \in 1..Len(s) : s[i].block < at => i \in 1..m
  BY <1>1, <1>3
<1>5. {i \in DOMAIN p : p[i].block < at} = {i \in DOMAIN s : s[i].block < at}
  <2>1. \A i \in 1..m : i \in 1..Len(s)
    BY <1>1
  <2> QED
    BY <1>1, <1>2, <1>4, <2>1
<1>6. Walk!Before(p, at) = Walk!Before(s, at)
  BY <1>5 DEF Walk!Before
<1> QED
  BY <1>2, <1>6 DEF p

LEMMA WalkSums ==
  /\ \A h : Walk!CumSum(h) = CumSum(h) /\ Walk!Summed(h) = Summed(h)
  /\ \A h, keep : Walk!Compressed(h, keep) = Compressed(h, keep)
<1>1. \A h : Walk!CumSum(h) = CumSum(h)
  BY DEF Walk!CumSum, CumSum
<1>2. \A h : Walk!Summed(h) = Summed(h)
  BY <1>1 DEF Walk!Summed, Summed
<1>3. \A h, keep : Walk!Compressed(h, keep) = Compressed(h, keep)
  BY DEF Walk!Compressed, Compressed, Walk!Cardinality, Cardinality, Walk!IsFiniteSet, IsFiniteSet
<1> QED
  BY <1>1, <1>2, <1>3

LEMMA SizesAreNat ==
  ASSUME NEW s, Stream(s), NEW i \in 2..Len(s)
  PROVE  /\ Walk!Move(s, i) \in Int /\ Walk!Size(s, i) \in Nat
         /\ Walk!Size(s, i) * Walk!Size(s, i) = Walk!Move(s, i) * Walk!Move(s, i)
<1>1. Len(s) \in Nat /\ i \in 1..Len(s) /\ i - 1 \in 1..Len(s)
  BY StreamFacts
<1>2. s[i].tick \in Int /\ s[i - 1].tick \in Int
  BY <1>1, StreamFacts DEF Sample
<1> DEFINE m == Walk!Move(s, i)
<1>3. m \in Int
  BY <1>2 DEF Walk!Move
<1>4. Walk!Size(s, i) = IF m < 0 THEN -m ELSE m
  BY DEF Walk!Size
<1> HIDE DEF m
<1>5. (-m) * (-m) = m * m /\ (m < 0 => -m \in Nat) /\ (~(m < 0) => m \in Nat)
  BY <1>3
<1> QED
  BY <1>3, <1>4, <1>5 DEF m

\* A scale by the places of its first and last sample, lo + 1 and hi.
Products(s, lo, hi, lag) == [n \in 1..((hi - lo) - 1 - lag) |->
                               Walk!Size(s, lo + 1 + n + lag) * Walk!Size(s, lo + 1 + n)]

LEMMA ScaleIs ==
  ASSUME NEW s, Stream(s), NEW end \in Int, NEW trail \in Nat, NEW lag \in Nat
  PROVE  LET lo == Walk!Before(s, end - trail)
             hi == Walk!Before(s, end)
         IN  /\ lo \in 0..hi /\ hi \in 0..Len(s)
             /\ Walk!Scale(s, end, trail, lag) =
                  IF hi - lo >= MIN_SAMPLES /\ 2 * (s[hi].block - s[lo + 1].block) >= trail
                  THEN [ss |-> Summed(Products(s, lo, hi, lag)),
                        span |-> s[hi].block - s[lo + 1].block]
                  ELSE Walk!NoScale
<1> DEFINE lo == Walk!Before(s, end - trail)
           hi == Walk!Before(s, end)
           w  == Walk!Window(s, end, trail)
<1>1. /\ Len(s) \in Nat /\ \A i \in 1..Len(s) : s[i].block \in Nat
  BY StreamFacts
<1>2. /\ lo \in 0..Len(s) /\ hi \in 0..Len(s)
      /\ \A i \in 1..Len(s) : i <= hi <=> s[i].block < end
      /\ \A i \in 1..Len(s) : i <= lo <=> s[i].block < end - trail
  <2>1. end - trail \in Int
    OBVIOUS
  <2> QED
    BY <2>1, FirstOnes
<1>3. w = (lo + 1)..hi
  BY DEF Walk!Window
<1> HIDE DEF w, lo, hi
<1>4. lo <= hi
  <2>1. CASE lo = 0
    BY <1>2, <2>1
  <2>2. CASE lo # 0
    <3>1. lo \in 1..Len(s) /\ s[lo].block < end - trail
      BY <1>2, <2>2
    <3>2. s[lo].block < end
      BY <1>1, <3>1
    <3> QED
      BY <1>2, <3>1, <3>2
  <2> QED
    BY <2>1, <2>2
<1>5. lo \in Nat /\ hi \in Nat /\ MIN_SAMPLES \in Nat \ {0}
  BY <1>2, WalkAssumption
<1>6. Walk!Cardinality(w) = hi - lo
  <2>1. Cardinality((lo + 1)..hi) = IF lo + 1 > hi THEN 0 ELSE hi - (lo + 1) + 1
    <3>1. lo + 1 \in Int /\ hi \in Int
      BY <1>5
    <3> QED
      BY <3>1, FS_Interval
  <2>2. Cardinality((lo + 1)..hi) = hi - lo
    BY <1>4, <1>5, <2>1
  <2> QED
    BY <1>3, <2>2, WalkLibrary
<1>7. Walk!Scale(s, end, trail, lag) =
        IF ~Walk!Enough(s, w, trail) THEN Walk!NoScale
        ELSE [ss |-> Walk!Summed([n \in 1..(Walk!Cardinality(w) - 1 - lag) |->
                 Walk!Size(s, Walk!Min(w) + n + lag) * Walk!Size(s, Walk!Min(w) + n)]),
              span |-> s[Walk!Max(w)].block - s[Walk!Min(w)].block]
  BY DEF Walk!Scale, w
<1>8. CASE hi - lo >= MIN_SAMPLES
  <2>1. hi \in w /\ lo + 1 \in w /\ w \subseteq 0..hi /\ w \subseteq Nat /\ w # {}
    BY <1>3, <1>4, <1>5, <1>8
  <2>2. Walk!Max(w) \in w /\ Walk!Min(w) \in w /\ hi <= Walk!Max(w) /\ Walk!Min(w) <= lo + 1
    BY <1>5, <2>1, GreatestOf, LeastOf
  <2>3. Walk!Max(w) = hi /\ Walk!Min(w) = lo + 1
    <3> DEFINE x == Walk!Max(w)
               n == Walk!Min(w)
    <3>1. x \in (lo + 1)..hi /\ n \in (lo + 1)..hi /\ hi <= x /\ n <= lo + 1
      BY <1>3, <2>2
    <3> HIDE DEF x, n
    <3>2. x = hi /\ n = lo + 1
      BY <1>5, <3>1
    <3> QED
      BY <3>2 DEF x, n
  <2>4. Walk!Enough(s, w, trail) <=> 2 * (s[hi].block - s[lo + 1].block) >= trail
    BY <1>6, <1>8, <2>3 DEF Walk!Enough
  <2>5. [n \in 1..(Walk!Cardinality(w) - 1 - lag) |->
          Walk!Size(s, Walk!Min(w) + n + lag) * Walk!Size(s, Walk!Min(w) + n)]
          = Products(s, lo, hi, lag)
    BY <1>6, <2>3 DEF Products
  <2> QED
    BY <1>2, <1>4, <1>5, <1>7, <1>8, <2>3, <2>4, <2>5, WalkSums DEF lo, hi
<1>9. CASE ~(hi - lo >= MIN_SAMPLES)
  <2>1. ~Walk!Enough(s, w, trail)
    BY <1>6, <1>9 DEF Walk!Enough
  <2> QED
    BY <1>2, <1>4, <1>5, <1>7, <1>9, <2>1 DEF lo, hi
<1> QED
  BY <1>8, <1>9

LEMMA SameScale ==
  ASSUME NEW s, Stream(s), NEW m \in 0..Len(s), NEW end \in Int, NEW trail \in Nat,
         NEW lag \in Nat, Walk!Before(s, end) <= m
  PROVE  Walk!Scale(SubSeq(s, 1, m), end, trail, lag) = Walk!Scale(s, end, trail, lag)
<1> DEFINE lo == Walk!Before(s, end - trail)
           hi == Walk!Before(s, end)
<1>1. PICK p : p = SubSeq(s, 1, m)
  OBVIOUS
<1>2. Len(s) \in Nat /\ s \in Seq(Sample) /\ DOMAIN s = 1..Len(s)
  BY StreamFacts DEF Stream
<1>3. /\ p \in Seq(Sample) /\ DOMAIN p = 1..m
      /\ \A i \in 1..m : p[i] = s[i] /\ i \in 1..Len(s)
  BY <1>1, <1>2
<1>4. Stream(p)
  BY <1>2, <1>3 DEF Stream
<1>5. lo \in 0..hi /\ hi \in 0..Len(s)
  BY ScaleIs
<1>6. Walk!Before(p, end) = hi /\ Walk!Before(p, end - trail) = lo
  <2>1. lo <= m /\ hi <= m /\ end - trail \in Int
    BY <1>2, <1>5
  <2> QED
    BY <1>1, <1>5, <2>1, SamePrefix
<1> DEFINE OfPart(q) == IF hi - lo >= MIN_SAMPLES /\ 2 * (q[hi].block - q[lo + 1].block) >= trail
                   THEN [ss |-> Summed(Products(q, lo, hi, lag)),
                         span |-> q[hi].block - q[lo + 1].block]
                   ELSE Walk!NoScale
<1>7. Walk!Scale(s, end, trail, lag) = OfPart(s) /\ Walk!Scale(p, end, trail, lag) = OfPart(p)
  BY <1>4, <1>6, ScaleIs
<1> HIDE DEF lo, hi
<1>8. CASE hi - lo >= MIN_SAMPLES
  <2>1. MIN_SAMPLES \in Nat \ {0} /\ lo \in Nat /\ hi \in Nat /\ hi <= m
    BY <1>5, WalkAssumption DEF hi
  <2>2. hi \in 1..m /\ lo + 1 \in 1..m
    BY <1>8, <2>1
  <2>3. Products(p, lo, hi, lag) = Products(s, lo, hi, lag)
    <3>1. ASSUME NEW n \in 1..((hi - lo) - 1 - lag)
          PROVE  /\ Walk!Size(p, lo + 1 + n + lag) = Walk!Size(s, lo + 1 + n + lag)
                 /\ Walk!Size(p, lo + 1 + n) = Walk!Size(s, lo + 1 + n)
      <4>1. /\ lo + 1 + n + lag \in 1..m /\ (lo + 1 + n + lag) - 1 \in 1..m
            /\ lo + 1 + n \in 1..m /\ (lo + 1 + n) - 1 \in 1..m
        BY <2>1
      <4> QED
        BY <1>3, <4>1 DEF Walk!Size, Walk!Move
    <3> QED
      BY <3>1 DEF Products
  <2>4. p[hi] = s[hi] /\ p[lo + 1] = s[lo + 1]
    BY <1>3, <2>2
  <2>5. OfPart(p) = OfPart(s)
    BY <2>3, <2>4
  <2> QED
    BY <1>1, <1>7, <2>5
<1>9. CASE ~(hi - lo >= MIN_SAMPLES)
  BY <1>1, <1>7, <1>9
<1> QED
  BY <1>8, <1>9
-----------------------------------------------------------------------------
\* What the walk keeps: the streams are among those that may come, and each
\* event has the delay its own pool's stream gives.
CellSenders == {Cells[n].sender : n \in DOMAIN Cells}
WalkEvents  == [sender : CellSenders, pool : Walk!Range(Pools), block : Nat, dir : {"dn", "up"},
             line : Int, over : Nat, delay : Int]
Measured(e) == e.delay = Walk!CrossingDelay(cache[e.pool], e.block, e.line, e.dir)

WalkInv ==
  /\ cache \in [Walk!Range(Pools) -> Streams]
  /\ cell \in 1..(Len(Cells) + 1) /\ pool \in 1..(Len(Pools) + 1)
  /\ nRows \in 0..MAX_ROWS /\ nTotal \in 0..nRows /\ interior \in 0..nTotal
  /\ fired \in Seq(WalkEvents) /\ Len(fired) = nTotal - interior
  /\ \A n \in 1..Len(fired) : Measured(fired[n])

LEMMA CachesAreStreams ==
  ASSUME cache \in [Walk!Range(Pools) -> Streams], NEW p \in Walk!Range(Pools)
  PROVE  Stream(cache[p])
<1>1. cache[p] \in Streams
  OBVIOUS
<1> QED
  BY <1>1, WalkAssumption DEF Stream

LEMMA WalkLengths == Len(Cells) \in Nat /\ Len(Pools) \in Nat
<1>1. Pools \in Seq(Walk!Range(Pools))
  BY WalkAssumption
<1>2. Cells \in Seq([sender : {Cells[n].sender : n \in DOMAIN Cells},
                     pool : Walk!Range(Pools), phi : Nat])
  BY WalkAssumption
<1> QED
  BY <1>1, <1>2

LEMMA WalkBegins == Walk!Init => WalkInv
<1> SUFFICES ASSUME Walk!Init PROVE WalkInv
  OBVIOUS
<1>1. fired \in Seq(WalkEvents) /\ Len(fired) = 0
  BY DEF Walk!Init
<1> QED
  BY <1>1, WalkLengths, WalkAssumption DEF Walk!Init, WalkInv

\* The event of a row that is not between the lines.
LEMMA FiredIsTyped ==
  ASSUME WalkInv, cell <= Len(Cells), NEW r \in Rows, ~Walk!Interior(Walk!Here, r)
  PROVE  Walk!Fired(Walk!Here, r) \in WalkEvents /\ Measured(Walk!Fired(Walk!Here, r))
<1> DEFINE c == Walk!Here
           e == Walk!Fired(c, r)
           dn == Walk!LineDn(c, r)
           up == Walk!LineUp(c, r)
<1>1. c \in [sender : CellSenders, pool : Walk!Range(Pools), phi : Nat]
  <2>1. Cells \in Seq([sender : CellSenders, pool : Walk!Range(Pools), phi : Nat])
    BY WalkAssumption DEF CellSenders
  <2>2. cell \in 1..Len(Cells)
    BY <2>1 DEF WalkInv
  <2> DEFINE K == [sender : CellSenders, pool : Walk!Range(Pools), phi : Nat]
  <2>3. Cells \in Seq(K)
    BY <2>1
  <2> HIDE DEF K
  <2>4. Cells[cell] \in K
    BY <2>2, <2>3
  <2> QED
    BY <2>4 DEF Walk!Here, K
<1>2. r.block \in Nat /\ r.lower \in Int /\ r.upper \in Int /\ r.tick \in Int
  BY WalkAssumption
<1>3. dn \in Int /\ up \in Int
  <2>1. c.phi \in Nat /\ PHI_UNIT \in Nat \ {0}
    BY <1>1, WalkAssumption
  <2>2. c.phi * (r.upper - r.lower) \in Int
    BY <1>2, <2>1
  <2>3. (c.phi * (r.upper - r.lower)) \div PHI_UNIT \in Int
    BY <2>1, <2>2
  <2> QED
    BY <1>2, <2>3 DEF Walk!LineDn, Walk!LineUp
<1>4. ~(dn < r.tick /\ r.tick < up)
  BY DEF Walk!Interior
<1> HIDE DEF c, dn, up
<1>5. LET k == Walk!Classified(c, r)
      IN  k.dir \in {"dn", "up"} /\ k.line \in Int /\ k.over \in Nat
  <2>1. CASE r.tick <= dn
    <3>1. Walk!Classified(c, r) = [dir |-> "dn", line |-> dn, over |-> dn - r.tick]
      BY <2>1 DEF Walk!Classified, dn
    <3> QED
      BY <1>2, <1>3, <2>1, <3>1
  <2>2. CASE ~(r.tick <= dn)
    <3>1. Walk!Classified(c, r) = [dir |-> "up", line |-> up, over |-> r.tick - up]
      BY <2>2 DEF Walk!Classified, dn, up
    <3> QED
      BY <1>2, <1>3, <1>4, <2>2, <3>1
  <2> QED
    BY <2>1, <2>2
<1>6. Stream(cache[c.pool])
  BY <1>1, CachesAreStreams DEF WalkInv
<1>7. /\ e.sender = c.sender /\ e.pool = c.pool /\ e.block = r.block
      /\ e.dir = Walk!Classified(c, r).dir /\ e.line = Walk!Classified(c, r).line
      /\ e.over = Walk!Classified(c, r).over
      /\ e.delay = Walk!CrossingDelay(cache[c.pool], r.block, Walk!Classified(c, r).line,
                                      Walk!Classified(c, r).dir)
      /\ e = [sender |-> e.sender, pool |-> e.pool, block |-> e.block, dir |-> e.dir,
              line |-> e.line, over |-> e.over, delay |-> e.delay]
  BY DEF Walk!Fired
<1> HIDE DEF e
<1>8. e.delay \in Int
  <2>1. LOOKBACK \in Nat
    BY WalkAssumption
  <2>2. e.delay = -1 \/ e.delay \in 1..LOOKBACK
    BY <1>2, <1>6, <1>7, MeasuredExcursion
  <2> QED
    BY <2>1, <2>2
<1>9. e \in WalkEvents
  BY <1>1, <1>2, <1>5, <1>7, <1>8 DEF WalkEvents
<1>10. Measured(e)
  BY <1>7 DEF Measured
<1> QED
  BY <1>9, <1>10 DEF e, c

LEMMA WalkGoesOn == WalkInv /\ [Walk!Next]_(Walk!vars) => WalkInv'
<1> SUFFICES ASSUME WalkInv, [Walk!Next]_(Walk!vars) PROVE WalkInv'
  OBVIOUS
<1>1. CASE UNCHANGED Walk!vars
  BY <1>1 DEF Walk!vars, Walk!walk, WalkInv, Measured
<1>2. ASSUME NEW r \in Rows, Walk!ReadRow(r) PROVE WalkInv'
  <2>1. /\ cell <= Len(Cells) /\ nRows < MAX_ROWS /\ nRows' = nRows + 1
        /\ UNCHANGED <<cache, cell, pool>>
    BY <1>2 DEF Walk!ReadRow, Walk!Walking
  <2>2. nRows \in Nat /\ nTotal \in Nat /\ interior \in Nat /\ MAX_ROWS \in Nat
    BY WalkAssumption DEF WalkInv
  <2>3. CASE UNCHANGED <<nTotal, interior, fired>>
    BY <2>1, <2>2, <2>3 DEF WalkInv, Measured
  <2>4. CASE nTotal' = nTotal + 1 /\ interior' = interior + 1 /\ UNCHANGED fired
    BY <2>1, <2>2, <2>4 DEF WalkInv, Measured
  <2>5. CASE /\ ~Walk!Interior(Walk!Here, r) /\ nTotal' = nTotal + 1 /\ interior' = interior
             /\ fired' = Append(fired, Walk!Fired(Walk!Here, r))
    <3> DEFINE e == Walk!Fired(Walk!Here, r)
    <3>1. e \in WalkEvents /\ Measured(e)
      BY <2>1, <2>5, FiredIsTyped
    <3>2. fired \in Seq(WalkEvents)
      BY DEF WalkInv
    <3> HIDE DEF e
    <3>3. /\ Append(fired, e) \in Seq(WalkEvents) /\ Len(fired) \in Nat
          /\ Len(Append(fired, e)) = Len(fired) + 1
          /\ Append(fired, e)[Len(fired) + 1] = e
          /\ \A n \in 1..Len(fired) : Append(fired, e)[n] = fired[n]
      BY <3>1, <3>2, OneMore
    <3>4. fired' = Append(fired, e)
      BY <2>5 DEF e
    <3>5. \A n \in 1..Len(fired') : Measured(fired'[n])
      BY <3>1, <3>3, <3>4 DEF WalkInv
    <3>6. \A n \in 1..Len(fired') : Measured(fired[n])'
      BY <2>1, <3>5 DEF Measured
    <3> QED
      BY <2>1, <2>2, <2>5, <3>3, <3>4, <3>6 DEF WalkInv
  <2> QED
    BY <1>2, <2>3, <2>4, <2>5 DEF Walk!ReadRow
<1>3. CASE Walk!NextCell
  BY <1>3, WalkLengths DEF Walk!NextCell, Walk!Walking, WalkInv, Measured
<1>4. CASE Walk!Report
  BY <1>4, WalkLengths DEF Walk!Report, Walk!walk, WalkInv, Measured
<1> QED
  BY <1>1, <1>2, <1>3, <1>4 DEF Walk!Next

LEMMA WalkInvariance == MCSpec => []WalkInv
<1>1. MCInit => WalkInv
  BY WalkBegins DEF MCInit
<1>2. WalkInv /\ [MCNext]_all => WalkInv'
  <2>1. [MCNext]_all => [Walk!Next]_(Walk!vars)
    BY DEF MCNext, all, probeVars, Walk!vars, Walk!walk
  <2> QED
    BY <2>1, WalkGoesOn
<1> QED
  BY <1>1, <1>2, PTL DEF MCSpec

\* An event's delay, in the terms of the properties.
LEMMA OfItsExcursion ==
  ASSUME WalkInv, NEW n \in DOMAIN fired
  PROVE  LET e  == fired[n]
             s  == cache[e.pool]
             hi == Walk!Before(s, e.block)
         IN  /\ e \in WalkEvents /\ Stream(s)
             /\ \/ e.delay = -1 /\ Walk!InsideIn(e) = {}
                \/ \E k \in Walk!InsideIn(e) :
                     /\ k \in 1..hi /\ e.delay \in 1..LOOKBACK
                     /\ Walk!Excursion(e) = (k + 1)..hi
                     /\ e.delay = e.block - s[IF k = hi THEN k ELSE k + 1].block
<1> DEFINE e == fired[n]
           s == cache[e.pool]
<1>1. e \in WalkEvents /\ Measured(e)
  BY DEF WalkInv
<1> HIDE DEF e
<1>2. e.block \in Nat /\ e.pool \in Walk!Range(Pools)
  BY <1>1 DEF WalkEvents
<1>3. Stream(s)
  BY <1>2, CachesAreStreams DEF WalkInv
<1>4. /\ Walk!InsideIn(e) = InWindow(s, e.block, e.line, e.dir)
      /\ Walk!Excursion(e) = OutsideOf(s, Walk!Before(s, e.block), e.line, e.dir)
  BY DEF Walk!InsideIn, Walk!Excursion, InWindow, OutsideOf
<1>5. e.delay = Walk!CrossingDelay(s, e.block, e.line, e.dir)
  BY <1>1 DEF Measured
<1> HIDE DEF s
<1>6. LET hi == Walk!Before(s, e.block)
      IN  \/ e.delay = -1 /\ Walk!InsideIn(e) = {}
          \/ \E k \in Walk!InsideIn(e) :
               /\ k \in 1..hi /\ e.delay \in 1..LOOKBACK
               /\ Walk!Excursion(e) = (k + 1)..hi
               /\ e.delay = e.block - s[IF k = hi THEN k ELSE k + 1].block
  BY <1>2, <1>3, <1>4, <1>5, MeasuredExcursion
<1> QED
  BY <1>1, <1>3, <1>6 DEF e, s

\* crossing_delay() goes back to the beginning of the unbroken excursion the
\* mint ended, whatever the stream holds before it, and gives none exactly when
\* the lookback has nothing inside; every event has the types of the walk.
THEOREM DelayIsMeasured == MCSpec => []DelayMeasured
<1>1. ASSUME WalkInv, NEW n \in DOMAIN fired
      PROVE  LET e == fired[n]  s == cache[e.pool]  x == Walk!Excursion(e)
             IN  /\ e.over >= 0 /\ e.delay \in Nat \cup {Walk!None}
                 /\ e.delay = Walk!None <=> Walk!InsideIn(e) = {}
                 /\ e.delay # Walk!None =>
                      /\ 0 < e.delay /\ e.delay <= LOOKBACK
                      /\ IF x = {} THEN s[Walk!Before(s, e.block)].block = e.block - e.delay
                         ELSE s[Walk!Min(x)].block = e.block - e.delay
  <2> DEFINE e  == fired[n]
             s  == cache[e.pool]
             x  == Walk!Excursion(e)
             hi == Walk!Before(s, e.block)
  <2>1. /\ e \in WalkEvents /\ Stream(s)
        /\ \/ e.delay = -1 /\ Walk!InsideIn(e) = {}
           \/ \E k \in Walk!InsideIn(e) :
                /\ k \in 1..hi /\ e.delay \in 1..LOOKBACK
                /\ x = (k + 1)..hi
                /\ e.delay = e.block - s[IF k = hi THEN k ELSE k + 1].block
    BY <1>1, OfItsExcursion
  <2> HIDE DEF e
  <2>2. e.block \in Nat /\ e.over \in Nat /\ Walk!None = -1 /\ LOOKBACK \in Nat
    BY <2>1, WalkAssumption DEF WalkEvents, Walk!None
  <2>3. Walk!Before(s, e.block) \in 0..Len(s) /\ Len(s) \in Nat
        /\ \A i \in 1..Len(s) : s[i].block \in Nat
    <3>1. Stream(s) /\ e.block \in Int
      BY <2>1, <2>2
    <3> HIDE DEF s
    <3> QED
      BY <3>1, FirstOnes, StreamFacts
  <2> HIDE DEF s, x, hi
  <2>4. CASE e.delay = -1 /\ Walk!InsideIn(e) = {}
    BY <2>2, <2>4 DEF e, s, x, hi
  <2>5. ASSUME NEW k \in Walk!InsideIn(e),
               k \in 1..hi, e.delay \in 1..LOOKBACK, x = (k + 1)..hi,
               e.delay = e.block - s[IF k = hi THEN k ELSE k + 1].block
        PROVE  /\ e.delay \in Nat /\ e.delay # -1 /\ 0 < e.delay /\ e.delay <= LOOKBACK
               /\ IF x = {} THEN s[hi].block = e.block - e.delay
                  ELSE s[Walk!Min(x)].block = e.block - e.delay
    <3>1. hi \in 0..Len(s)
      BY <2>3 DEF hi
    <3>2. CASE k = hi
      <4>1. x = {}
        BY <2>5, <3>1, <3>2
      <4>2. s[hi].block \in Nat
        BY <2>3, <2>5, <3>1, <3>2
      <4> QED
        BY <2>2, <2>5, <3>2, <4>1, <4>2
    <3>3. CASE k # hi
      <4>1. k + 1 \in x /\ x \subseteq Nat /\ \A y \in x : k + 1 <= y
        BY <2>5, <3>1, <3>3
      <4>2. Walk!Min(x) = k + 1
        <5>1. Walk!Min(x) \in x /\ Walk!Min(x) <= k + 1
          BY <4>1, LeastOf
        <5>2. k + 1 \in Nat /\ Walk!Min(x) \in Nat /\ k + 1 <= Walk!Min(x)
          BY <4>1, <5>1
        <5> HIDE DEF x
        <5> QED
          BY <5>1, <5>2
      <4>3. s[k + 1].block \in Nat
        BY <2>3, <2>5, <3>1, <3>3
      <4> QED
        BY <2>2, <2>5, <3>3, <4>1, <4>2, <4>3
    <3> QED
      BY <3>2, <3>3
  <2> QED
    BY <2>1, <2>2, <2>4, <2>5 DEF e, s, x, hi
<1>2. WalkInv => DelayMeasured
  <2> SUFFICES ASSUME WalkInv PROVE DelayMeasured
    OBVIOUS
  <2>1. Walk!TypeOK
    BY <1>1 DEF WalkInv, Walk!TypeOK
  <2>2. Walk!DelayOfExcursion
    BY <1>1 DEF Walk!DelayOfExcursion
  <2> QED
    BY <2>1, <2>2 DEF DelayMeasured
<1> QED
  BY <1>2, WalkInvariance, PTL

\* local_sigma() of a near-zero delay, and the bipower one, see nothing of the
\* excursion the event ended: cutting it out of the stream leaves them as they
\* are, for every window.
LEMMA CandidateIsExcluded == WalkInv => Walk!CandidateExcluded
<1>1. ASSUME WalkInv, NEW n \in DOMAIN fired, NEW t \in Nat, Walk!NearZero(fired[n].delay)
      PROVE  LET e == fired[n]
             IN  /\ Walk!ScaleOf(e, t)
                      = Walk!LocalSigma(Walk!BeforeExcursion(e), Walk!WindowEnd(e), t)
                 /\ Walk!BipowerSigma(cache[e.pool], Walk!WindowEnd(e), t)
                      = Walk!BipowerSigma(Walk!BeforeExcursion(e), Walk!WindowEnd(e), t)
  <2> DEFINE e  == fired[n]
             s  == cache[e.pool]
             hi == Walk!Before(s, e.block)
             end == Walk!WindowEnd(e)
  <2>1. /\ e \in WalkEvents /\ Stream(s)
        /\ \/ e.delay = -1 /\ Walk!InsideIn(e) = {}
           \/ \E k \in Walk!InsideIn(e) :
                /\ k \in 1..hi /\ e.delay \in 1..LOOKBACK
                /\ Walk!Excursion(e) = (k + 1)..hi
                /\ e.delay = e.block - s[IF k = hi THEN k ELSE k + 1].block
    BY <1>1, OfItsExcursion
  <2>2. ~(e.delay = -1)
    BY <1>1 DEF Walk!NearZero
  <2> HIDE DEF e
  <2>3. e.block \in Nat /\ e.delay \in Int /\ end = e.block - e.delay
    BY <2>1, WalkAssumption DEF WalkEvents, Walk!WindowEnd
  <2> HIDE DEF s, hi, end
  <2>4. PICK k \in 1..hi :
          /\ Walk!Excursion(e) = (k + 1)..hi
          /\ e.delay = e.block - s[IF k = hi THEN k ELSE k + 1].block
    BY <2>1, <2>2
  <2>5. /\ hi \in 0..Len(s) /\ Len(s) \in Nat
        /\ \A i \in 1..Len(s) : i <= hi <=> s[i].block < e.block
        /\ \A i \in 1..Len(s) : s[i].block \in Nat
        /\ \A i, j \in 1..Len(s) : i <= j => s[i].block <= s[j].block
    <3>1. Stream(s) /\ e.block \in Int
      BY <2>1, <2>3
    <3> QED
      BY <3>1, FirstOnes, StreamFacts DEF hi
  <2>6. k \in 1..Len(s) /\ k <= hi
    BY <2>4, <2>5
  <2>7. Walk!BeforeExcursion(e) = SubSeq(s, 1, k)
    <3>1. Cardinality((k + 1)..hi) = hi - k
      BY <2>5, <2>6, FS_Interval
    <3>2. hi - Walk!Cardinality(Walk!Excursion(e)) = k
      BY <2>4, <2>5, <2>6, <3>1, WalkLibrary
    <3> QED
      BY <3>2 DEF Walk!BeforeExcursion, s, hi
  <2> DEFINE m == Walk!Before(s, end)
  <2>8. end \in Int /\ m \in 0..Len(s)
        /\ \A i \in 1..Len(s) : i <= m <=> s[i].block < end
    <3>1. Stream(s) /\ end \in Int
      BY <2>1, <2>3
    <3> QED
      BY <3>1, FirstOnes
  <2> HIDE DEF m
  <2>9. m <= k
    <3>1. CASE k = hi
      <4>1. end < e.block
        <5>1. s[k].block < e.block /\ s[k].block \in Nat
          BY <2>5, <2>6
        <5> QED
          BY <2>3, <2>4, <3>1, <5>1
      <4>2. ASSUME m \in 1..Len(s) PROVE m <= hi
        <5>1. s[m].block < end /\ s[m].block \in Nat
          BY <2>5, <2>8, <4>2
        <5> QED
          BY <2>3, <2>5, <2>8, <4>1, <4>2, <5>1
      <4> QED
        BY <2>5, <2>6, <2>8, <3>1, <4>2
    <3>2. CASE k # hi
      <4>1. k + 1 \in 1..Len(s)
        BY <2>5, <2>6, <3>2
      <4>2. end = s[k + 1].block
        BY <2>3, <2>4, <2>5, <3>2, <4>1
      <4>3. ASSUME k < m PROVE FALSE
        <5>1. m \in 1..Len(s) /\ k + 1 <= m
          BY <2>6, <2>8, <4>3
        <5>2. s[m].block < end /\ s[k + 1].block <= s[m].block
          BY <2>5, <2>8, <4>1, <5>1
        <5> QED
          BY <2>5, <4>1, <4>2, <5>1, <5>2
      <4> QED
        BY <2>6, <2>8, <4>3
    <3> QED
      BY <3>1, <3>2
  <2>10. \A lag \in {0, 1} :
           Walk!Scale(SubSeq(s, 1, k), end, t, lag) = Walk!Scale(s, end, t, lag)
    <3>1. k \in 0..Len(s) /\ Walk!Before(s, end) <= k
      BY <2>6, <2>9 DEF m
    <3>2. \A lag \in {0, 1} : lag \in Nat
      OBVIOUS
    <3> QED
      BY <2>1, <2>3, <2>8, <3>1, <3>2, SameScale
  <2>11. /\ Walk!ScaleOf(e, t) = Walk!LocalSigma(Walk!BeforeExcursion(e), end, t)
         /\ Walk!BipowerSigma(s, end, t) = Walk!BipowerSigma(Walk!BeforeExcursion(e), end, t)
    BY <2>7, <2>10 DEF Walk!ScaleOf, Walk!LocalSigma, Walk!BipowerSigma, s, end
  <2> QED
    BY <2>11 DEF e, s, end
<1>2. \A k \in DOMAIN Trails : Trails[k] \in Nat
  BY WalkAssumption
<1> QED
  BY <1>1, <1>2 DEF Walk!CandidateExcluded
-----------------------------------------------------------------------------
\* per_block(): one sample of each block, in the order of the blocks.
LEMMA CollapsedIs ==
  ASSUME NEW s, Stream(s)
  PROVE  LET c == Walk!Collapsed(s)
         IN  Stream(c) /\ \A i, j \in DOMAIN c : i < j => c[i].block < c[j].block
<1> DEFINE keep == Walk!Lasts(s)
<1>1. /\ Len(s) \in Nat /\ DOMAIN s = 1..Len(s)
      /\ \A i \in 1..Len(s) : s[i] \in Sample /\ s[i].block \in Nat
      /\ \A i, j \in 1..Len(s) : i <= j => s[i].block <= s[j].block
  BY StreamFacts
<1>2. /\ keep \subseteq 1..Len(s) /\ keep \subseteq Nat
      /\ \A i \in keep : i = Len(s) \/ s[i].block # s[i + 1].block
  BY <1>1 DEF Walk!Lasts
<1>3. IsFiniteSet(keep) /\ Cardinality(keep) \in Nat
  <2>1. IsFiniteSet(1..Len(s)) /\ keep \in SUBSET (1..Len(s))
    BY <1>1, <1>2, FS_Interval
  <2> HIDE DEF keep
  <2> QED
    BY <2>1, FS_Subset, FS_CardinalityType
<1>4. Walk!Collapsed(s) = Compressed(s, keep)
  BY WalkSums DEF Walk!Collapsed
<1> HIDE DEF keep
<1>5. PICK f : /\ DOMAIN f = 1..Cardinality(keep)
               /\ Compressed(s, keep) = [n \in 1..Cardinality(keep) |-> s[f[n]]]
               /\ \A n \in DOMAIN f : f[n] \in keep
               /\ \A m, n \in DOMAIN f : m < n => f[m] < f[n]
  <2>1. keep \subseteq Nat /\ IsFiniteSet(keep)
    BY <1>2, <1>3
  <2> QED
    BY <2>1, CompressedIs
<1>6. PICK c : c = Walk!Collapsed(s)
  OBVIOUS
<1>7. /\ DOMAIN c = 1..Cardinality(keep)
      /\ \A n \in DOMAIN c : c[n] = s[f[n]] /\ f[n] \in keep
      /\ c = [n \in 1..Cardinality(keep) |-> c[n]]
  BY <1>4, <1>5, <1>6
<1>8. c \in Seq(Sample)
  <2>1. \A n \in 1..Cardinality(keep) : c[n] \in Sample
    BY <1>1, <1>2, <1>7
  <2> QED
    BY <1>3, <1>7, <2>1
<1>9. \A i, j \in DOMAIN c : i < j => c[i].block < c[j].block
  <2> SUFFICES ASSUME NEW i \in DOMAIN c, NEW j \in DOMAIN c, i < j
               PROVE  c[i].block < c[j].block
    OBVIOUS
  <2>1. PICK a \in keep : a = f[i] /\ c[i] = s[a]
    BY <1>7
  <2>2. PICK z \in keep : z = f[j] /\ c[j] = s[z]
    BY <1>7
  <2>3. a < z
    BY <1>5, <1>7, <2>1, <2>2
  <2>4. /\ a \in 1..Len(s) /\ z \in 1..Len(s) /\ a + 1 \in 1..Len(s) /\ a + 1 <= z
        /\ a <= a + 1 /\ a # Len(s)
    <3>1. Len(s) \in Nat /\ a \in 1..Len(s) /\ z \in 1..Len(s)
      BY <1>1, <1>2
    <3>2. a \in Nat /\ z \in Nat
      BY <3>1
    <3> QED
      BY <2>3, <3>1, <3>2
  <2>5. s[a].block # s[a + 1].block
    BY <1>2, <2>1, <2>4
  <2>6. /\ s[a].block <= s[a + 1].block /\ s[a + 1].block <= s[z].block
        /\ s[a].block \in Nat /\ s[a + 1].block \in Nat /\ s[z].block \in Nat
    BY <1>1, <2>4
  <2> QED
    BY <2>1, <2>2, <2>5, <2>6
<1>10. Stream(c)
  <2>1. \A n \in DOMAIN c : c[n].block \in Nat
    BY <1>1, <1>2, <1>7
  <2> QED
    BY <1>8, <1>9, <2>1 DEF Stream
<1> QED
  BY <1>6, <1>9, <1>10

\* rolling_scales(): the difference of two prefix sums is the sum local_sigma()
\* takes, and the square of the displacement into the window's first sample.
LEMMA RollingIsNear ==
  ASSUME NEW s, Stream(s), \A i, j \in DOMAIN s : i < j => s[i].block < s[j].block,
         NEW j \in DOMAIN s
  PROVE  LET r == Walk!RollingSigma(s, j)
             l == Walk!LocalSigma(s, s[j].block, TRAIL_1D)
         IN  /\ r.span = l.span
             /\ r.ss = l.ss
                \/ \E i \in 2..j : /\ s[i - 1].block < s[j].block - TRAIL_1D
                                   /\ s[i].block >= s[j].block - TRAIL_1D
                                   /\ r.ss = l.ss + Walk!Move(s, i) * Walk!Move(s, i)
<1> DEFINE end == s[j].block
           lo  == Walk!Before(s, end - TRAIL_1D)
           hi  == Walk!Before(s, end)
           sq   == Walk!Squares(s)
           h   == Products(s, lo, hi, 0)
           r   == Walk!RollingSigma(s, j)
           l   == Walk!LocalSigma(s, end, TRAIL_1D)
<1>1. /\ Len(s) \in Nat /\ DOMAIN s = 1..Len(s)
      /\ \A i \in 1..Len(s) : s[i].block \in Nat
  BY StreamFacts
<1>2. TRAIL_1D \in Nat /\ MIN_SAMPLES \in Nat \ {0}
  BY WalkAssumption
<1>3. end \in Int /\ end - TRAIL_1D \in Int /\ j \in 1..Len(s)
  BY <1>1, <1>2
<1>4. /\ lo \in 0..hi /\ hi \in 0..Len(s)
      /\ l = IF hi - lo >= MIN_SAMPLES /\ 2 * (s[hi].block - s[lo + 1].block) >= TRAIL_1D
             THEN [ss |-> Summed(h), span |-> s[hi].block - s[lo + 1].block]
             ELSE Walk!NoScale
  <2>1. 0 \in Nat
    OBVIOUS
  <2> QED
    BY <1>2, <1>3, <2>1, ScaleIs DEF Walk!LocalSigma
<1>5. /\ \A i \in 1..Len(s) : i <= hi <=> s[i].block < end
      /\ \A i \in 1..Len(s) : i <= lo <=> s[i].block < end - TRAIL_1D
  BY <1>3, FirstOnes
<1>6. r = IF j - (lo + 1) >= MIN_SAMPLES
             /\ 2 * (s[Walk!Max({j - 1, 1})].block - s[lo + 1].block) >= TRAIL_1D
          THEN [ss |-> CumSum(sq)[j - 1] - CumSum(sq)[(lo + 1) - 1],
                span |-> s[Walk!Max({j - 1, 1})].block - s[lo + 1].block]
          ELSE Walk!NoScale
  BY WalkSums DEF Walk!RollingSigma
<1> HIDE DEF end, lo, hi, sq, h, r, l
<1>7. hi = j - 1
  <2>1. hi \in Nat /\ ~(j <= hi)
    BY <1>1, <1>3, <1>4, <1>5 DEF end
  <2>2. ASSUME j # 1 PROVE j - 1 <= hi
    <3>1. j - 1 \in DOMAIN s /\ j - 1 < j /\ j - 1 \in 1..Len(s)
      BY <1>1, <1>3, <2>2
    <3>2. s[j - 1].block < s[j].block
      BY <3>1
    <3> QED
      BY <1>5, <3>1, <3>2 DEF end
  <2> QED
    BY <1>3, <2>1, <2>2
<1>8. CASE hi - lo >= MIN_SAMPLES
  <2>1. lo \in Nat /\ hi \in Nat /\ hi >= 1 /\ lo + 1 <= hi /\ hi <= Len(s) /\ j - 1 = hi
        /\ hi = j - 1 /\ j - (lo + 1) = hi - lo /\ (lo + 1) - 1 = lo
    BY <1>1, <1>2, <1>3, <1>4, <1>7, <1>8
  <2>2. Walk!Max({j - 1, 1}) = hi
    <3>1. {j - 1, 1} \subseteq 0..hi /\ {j - 1, 1} # {}
      BY <2>1
    <3>2. Walk!Max({j - 1, 1}) \in {j - 1, 1} /\ \A y \in {j - 1, 1} : y <= Walk!Max({j - 1, 1})
      BY <2>1, <3>1, GreatestOf
    <3> DEFINE x == Walk!Max({j - 1, 1})
    <3>3. (x = hi \/ x = 1) /\ hi <= x
      BY <2>1, <3>2
    <3> HIDE DEF x
    <3>4. x = hi
      BY <2>1, <3>3
    <3> QED
      BY <3>4 DEF x
  <2>3. CASE ~(2 * (s[hi].block - s[lo + 1].block) >= TRAIL_1D)
    <3>1. r = Walk!NoScale /\ l = Walk!NoScale
      BY <1>4, <1>6, <2>2, <2>3
    <3> QED
      BY <3>1 DEF r, l, end
  <2>4. CASE 2 * (s[hi].block - s[lo + 1].block) >= TRAIL_1D
    <3>1. /\ r = [ss |-> CumSum(sq)[hi] - CumSum(sq)[lo], span |-> s[hi].block - s[lo + 1].block]
          /\ l = [ss |-> Summed(h), span |-> s[hi].block - s[lo + 1].block]
      BY <1>4, <1>6, <1>8, <2>1, <2>2, <2>4
    <3>2. /\ sq \in Seq(Int) /\ Len(sq) = Len(s)
          /\ \A i \in 1..Len(s) : sq[i] = IF i = 1 THEN 0
                                         ELSE Walk!Move(s, i) * Walk!Move(s, i)
      <4>1. sq = [i \in 1..Len(s) |-> IF i = 1 THEN 0 ELSE Walk!Move(s, i) * Walk!Move(s, i)]
        BY <1>1 DEF sq, Walk!Squares
      <4>2. ASSUME NEW i \in 1..Len(s), i # 1
            PROVE  Walk!Move(s, i) * Walk!Move(s, i) \in Int
        <5>1. i \in 2..Len(s)
          BY <1>1, <4>2
        <5>2. Walk!Move(s, i) \in Int
          BY <5>1, SizesAreNat
        <5> QED
          BY <5>2
      <4> QED
        BY <1>1, <4>1, <4>2
    <3>3. /\ h \in Seq(Int) /\ Len(h) = (hi - lo) - 1
          /\ \A n \in 1..Len(h) : h[n] = sq[(lo + 1) + n]
      <4>1. h = [n \in 1..((hi - lo) - 1) |->
                   Walk!Size(s, lo + 1 + n) * Walk!Size(s, lo + 1 + n)]
        <5>1. \A n \in 1..((hi - lo) - 1) : lo + 1 + n + 0 = lo + 1 + n
          BY <2>1
        <5>2. (hi - lo) - 1 - 0 = (hi - lo) - 1
          BY <2>1
        <5> QED
          BY <5>1, <5>2 DEF h, Products
      <4>2. ASSUME NEW n \in 1..((hi - lo) - 1)
            PROVE  /\ Walk!Size(s, lo + 1 + n) * Walk!Size(s, lo + 1 + n) \in Int
                   /\ Walk!Size(s, lo + 1 + n) * Walk!Size(s, lo + 1 + n) = sq[(lo + 1) + n]
        <5>1. PICK i \in 2..Len(s) : i = lo + 1 + n
          BY <1>1, <2>1
        <5>2. /\ Walk!Size(s, i) \in Nat
              /\ Walk!Size(s, i) * Walk!Size(s, i) = Walk!Move(s, i) * Walk!Move(s, i)
          BY SizesAreNat
        <5>3. sq[i] = Walk!Move(s, i) * Walk!Move(s, i) /\ (lo + 1) + n = i
          BY <1>1, <2>1, <3>2, <5>1
        <5>4. Walk!Size(s, i) * Walk!Size(s, i) \in Int
          BY <5>2
        <5> QED
          BY <5>1, <5>2, <5>3, <5>4
      <4>3. (hi - lo) - 1 \in Nat
        BY <2>1
      <4> QED
        BY <4>1, <4>2, <4>3
    <3>4. Summed(h) = CumSum(sq)[hi] - CumSum(sq)[lo + 1]
      <4>1. /\ lo + 1 \in Nat /\ (lo + 1) + Len(h) <= Len(sq) /\ Len(h) \in 0..Len(h)
            /\ (lo + 1) + Len(h) = hi
        BY <1>1, <2>1, <3>2, <3>3
      <4>2. CumSum(h)[Len(h)] = CumSum(sq)[(lo + 1) + Len(h)] - CumSum(sq)[lo + 1]
        BY <3>2, <3>3, <4>1, SumOfPart
      <4> QED
        BY <4>1, <4>2 DEF Summed
    <3>5. /\ CumSum(sq)[lo + 1] = CumSum(sq)[lo] + sq[lo + 1]
          /\ CumSum(sq)[lo] \in Int /\ CumSum(sq)[hi] \in Int /\ sq[lo + 1] \in Int
      <4>1. lo + 1 \in 1..Len(sq) /\ lo \in 0..Len(sq) /\ hi \in 0..Len(sq) /\ (lo + 1) - 1 = lo
        BY <1>1, <2>1, <3>2
      <4> QED
        BY <3>2, <4>1, CumSumIs
    <3>6. r.ss = l.ss + sq[lo + 1] /\ r.span = l.span /\ l.ss \in Int
      <4>1. /\ r.ss = CumSum(sq)[hi] - CumSum(sq)[lo]
            /\ l.ss = CumSum(sq)[hi] - CumSum(sq)[lo + 1] /\ r.span = l.span
        BY <3>1, <3>4
      <4> QED
        BY <3>5, <4>1
    <3>7. CASE lo = 0
      <4>1. sq[lo + 1] = 0
        BY <1>1, <2>1, <3>2, <3>7
      <4> QED
        BY <3>6, <4>1 DEF r, l, end
    <3>8. CASE lo # 0
      <4>1. PICK i \in 2..j : i = lo + 1
        BY <2>1, <1>3, <3>8
      <4>2. i \in 1..Len(s) /\ i - 1 \in 1..Len(s) /\ i # 1 /\ i - 1 <= lo /\ ~(i <= lo)
        BY <1>1, <1>3, <2>1, <4>1
      <4>3. s[i - 1].block < end - TRAIL_1D /\ ~(s[i].block < end - TRAIL_1D)
        BY <1>5, <4>2
      <4>4. s[i].block >= end - TRAIL_1D
        BY <1>1, <1>3, <4>2, <4>3
      <4>5. r.ss = l.ss + Walk!Move(s, i) * Walk!Move(s, i)
        BY <3>2, <3>6, <4>1, <4>2
      <4> QED
        BY <3>6, <4>3, <4>4, <4>5 DEF r, l, end
    <3> QED
      BY <3>7, <3>8
  <2> QED
    BY <2>3, <2>4
<1>9. CASE ~(hi - lo >= MIN_SAMPLES)
  <2>1. j - (lo + 1) = hi - lo
    BY <1>1, <1>3, <1>4, <1>7
  <2>2. r = Walk!NoScale /\ l = Walk!NoScale
    BY <1>4, <1>6, <1>9, <2>1
  <2> QED
    BY <2>2 DEF r, l, end
<1> QED
  BY <1>8, <1>9

\* No scale an event is scored with knows the move it is scored for, and the
\* rolling scale cut out of prefix sums is the local one but for the square of
\* one displacement: for every stream, census, window and trail.
THEOREM ScalesArePrior == MCSpec => []ScaleIsPrior
<1>1. ASSUME WalkInv PROVE Walk!RollingNearLocal
  <2> SUFFICES ASSUME NEW p \in DOMAIN cache, NEW j \in DOMAIN Walk!Collapsed(cache[p])
               PROVE  LET s == Walk!Collapsed(cache[p])
                          r == Walk!RollingSigma(s, j)
                          l == Walk!LocalSigma(s, s[j].block, TRAIL_1D)
                      IN  /\ r.span = l.span
                          /\ r.ss = l.ss
                             \/ \E i \in 2..j : /\ s[i - 1].block < s[j].block - TRAIL_1D
                                                /\ s[i].block >= s[j].block - TRAIL_1D
                                                /\ r.ss = l.ss + Walk!Move(s, i) * Walk!Move(s, i)
    BY DEF Walk!RollingNearLocal
  <2>1. Stream(cache[p])
    BY <1>1, CachesAreStreams DEF WalkInv
  <2>2. PICK s : s = Walk!Collapsed(cache[p])
    OBVIOUS
  <2>3. Stream(s) /\ \A i, k \in DOMAIN s : i < k => s[i].block < s[k].block
    BY <2>1, <2>2, CollapsedIs
  <2> QED
    BY <2>2, <2>3, RollingIsNear
<1>2. WalkInv => ScaleIsPrior
  BY <1>1, CandidateIsExcluded DEF ScaleIsPrior
<1> QED
  BY <1>2, WalkInvariance, PTL
-----------------------------------------------------------------------------
(***************************************************************************)
(* One sample, walked twice.  Probe 3 counts on the way, the others pool   *)
(* by pool from the events: both counts are sizes of sets of events, and   *)
(* the reports' grow by the scored events of one pool after the other.     *)
(***************************************************************************)
Sampled  == {n \in DOMAIN fired : Walk!Scored(fired[n], TRAIL_1D)}
Trues(rs) == {i \in DOMAIN rs : rs[i]}
Lengths(r) == [k \in DOMAIN Trails |-> Len(r[k])]
LocalType == [n : Nat, miss : Nat, ratios : [DOMAIN Trails -> Seq(BOOLEAN)]]

LocalInv ==
  /\ local \in LocalType
  /\ Len(Trails) * local.n = local.miss + Summed(Lengths(local.ratios))
  /\ Len(local.ratios[1]) = Cardinality(Sampled)
  /\ Cardinality(Trues(local.ratios[1])) = Cardinality(Walk!Beyond(Sampled))

LEMMA ScaleOfIs ==
  ASSUME WalkInv, NEW e \in WalkEvents, NEW t \in Nat
  PROVE  /\ Walk!ScaleOf(e, t).ss \in Nat
         /\ cache[e.pool] = <<>> => Walk!ScaleOf(e, t).ss = 0
<1> DEFINE s == cache[e.pool]
           end == Walk!WindowEnd(e)
           lo == Walk!Before(s, end - t)
           hi == Walk!Before(s, end)
<1>1. Stream(s)
  <2>1. e.pool \in Walk!Range(Pools)
    BY DEF WalkEvents
  <2> QED
    BY <2>1, CachesAreStreams DEF WalkInv
<1>2. end \in Int
  BY DEF WalkEvents, Walk!WindowEnd
<1> HIDE DEF s, end
<1>3. /\ lo \in 0..hi /\ hi \in 0..Len(s)
      /\ Walk!Scale(s, end, t, 0) =
           IF hi - lo >= MIN_SAMPLES /\ 2 * (s[hi].block - s[lo + 1].block) >= t
           THEN [ss |-> Summed(Products(s, lo, hi, 0)), span |-> s[hi].block - s[lo + 1].block]
           ELSE Walk!NoScale
  <2>1. 0 \in Nat
    OBVIOUS
  <2> QED
    BY <1>1, <1>2, <2>1, ScaleIs
<1>4. Walk!ScaleOf(e, t) = Walk!Scale(s, end, t, 0)
  BY DEF Walk!ScaleOf, Walk!LocalSigma, s, end
<1> HIDE DEF lo, hi
<1>5. Len(s) \in Nat /\ MIN_SAMPLES \in Nat \ {0} /\ lo \in Nat /\ hi \in Nat /\ hi <= Len(s)
  BY <1>1, <1>3, StreamFacts, WalkAssumption
<1>6. CASE hi - lo >= MIN_SAMPLES
  <2>1. \A n \in 1..((hi - lo) - 1 - 0) :
          Walk!Size(s, lo + 1 + n + 0) * Walk!Size(s, lo + 1 + n) \in Nat
    <3> TAKE n \in 1..((hi - lo) - 1 - 0)
    <3>1. lo + 1 + n \in 2..Len(s) /\ lo + 1 + n + 0 \in 2..Len(s)
      BY <1>5
    <3>2. Walk!Size(s, lo + 1 + n + 0) \in Nat /\ Walk!Size(s, lo + 1 + n) \in Nat
      BY <1>1, <3>1, SizesAreNat
    <3> QED
      BY <3>2
  <2>2. (hi - lo) - 1 - 0 \in Nat
    BY <1>5, <1>6
  <2>3. Products(s, lo, hi, 0) \in Seq(Nat)
    BY <2>1, <2>2 DEF Products
  <2>4. Summed(Products(s, lo, hi, 0)) \in Nat
    BY <2>3, SumIsNat
  <2>5. s # <<>>
    BY <1>5, <1>6
  <2> QED
    BY <1>3, <1>4, <2>4, <2>5 DEF Walk!NoScale, s
<1>7. CASE ~(hi - lo >= MIN_SAMPLES)
  BY <1>3, <1>4, <1>7 DEF Walk!NoScale
<1> QED
  BY <1>6, <1>7

\* Probe 3's longest bin is the others' greatest delay.
LEMMA BinsAreNear == \A d \in Int : Walk!InBins(d) <=> Walk!NearZero(d)
<1>1. /\ DelayBins \subseteq Nat /\ DELAY_MAX \in DelayBins
      /\ \A d \in DelayBins : d <= DELAY_MAX
  BY WalkAssumption
<1>2. DelayBins \subseteq 0..DELAY_MAX /\ DELAY_MAX \in Nat /\ DelayBins # {}
  BY <1>1
<1>3. Walk!Max(DelayBins) \in DelayBins /\ DELAY_MAX <= Walk!Max(DelayBins)
  BY <1>1, <1>2, GreatestOf
<1> DEFINE m == Walk!Max(DelayBins)
<1>4. m \in Nat /\ m <= DELAY_MAX /\ DELAY_MAX <= m
  BY <1>1, <1>3
<1> HIDE DEF m
<1>5. m = DELAY_MAX
  BY <1>2, <1>4
<1>6. Walk!Max(DelayBins) = DELAY_MAX
  BY <1>5 DEF m
<1> QED
  BY <1>6 DEF Walk!InBins, Walk!NearZero

\* Marking places in a list, and counting the marks.
LEMMA MarksAreCounted ==
  ASSUME NEW N \in Nat, NEW A, A \subseteq 1..N
  PROVE  /\ [k \in 1..N |-> IF k \in A THEN 1 ELSE 0] \in Seq(Int)
         /\ Summed([k \in 1..N |-> IF k \in A THEN 1 ELSE 0]) = Cardinality(A)
<1>1. PICK G : G = [k \in 1..N |-> IF k \in A THEN {k} ELSE {}]
  OBVIOUS
<1>2. PICK h : h = [k \in 1..N |-> IF k \in A THEN 1 ELSE 0]
  OBVIOUS
<1>3. /\ IsFiniteSet(1..N)
      /\ \A i \in 1..N : G[i] \subseteq 1..N
      /\ \A i, j \in 1..N : i # j => G[i] \cap G[j] = {}
  BY <1>1, FS_Interval
<1>4. DOMAIN h = 1..N /\ h \in Seq(Int)
  BY <1>2
<1>5. \A i \in 1..N : h[i] = Cardinality(G[i])
  <2> TAKE i \in 1..N
  <2>1. CASE i \in A
    <3>1. G[i] = {i} /\ h[i] = 1 /\ Cardinality({i}) = 1
      BY <1>1, <1>2, <2>1, FS_Singleton
    <3> QED
      BY <3>1
  <2>2. CASE i \notin A
    <3>1. G[i] = {} /\ h[i] = 0 /\ Cardinality({}) = 0
      BY <1>1, <1>2, <2>2, FS_EmptySet
    <3> QED
      BY <3>1
  <2> QED
    BY <2>1, <2>2
<1>6. Summed(h) = Cardinality(PartsTo(1..N, G, N))
  BY <1>3, <1>4, <1>5, SumOfParts
<1>7. PartsTo(1..N, G, N) = A
  BY <1>1 DEF PartsTo
<1> QED
  BY <1>2, <1>4, <1>6, <1>7

\* One ratio more.
LEMMA TruesOfMore ==
  ASSUME NEW rs \in Seq(BOOLEAN), NEW x \in BOOLEAN
  PROVE  /\ Append(rs, x) \in Seq(BOOLEAN)
         /\ Len(rs) \in Nat /\ Len(Append(rs, x)) = Len(rs) + 1
         /\ Cardinality(Trues(rs)) \in Nat
         /\ Cardinality(Trues(Append(rs, x)))
              = Cardinality(Trues(rs)) + (IF x THEN 1 ELSE 0)
<1> DEFINE N == Len(rs)
           T == Trues(rs)
           U == Trues(Append(rs, x))
<1>1. /\ Append(rs, x) \in Seq(BOOLEAN) /\ N \in Nat /\ Len(Append(rs, x)) = N + 1
      /\ Append(rs, x)[N + 1] = x
      /\ \A i \in 1..N : Append(rs, x)[i] = rs[i]
      /\ DOMAIN rs = 1..N /\ DOMAIN Append(rs, x) = 1..(N + 1)
  OBVIOUS
<1>2. T \subseteq 1..N /\ N + 1 \notin T /\ IsFiniteSet(T) /\ Cardinality(T) \in Nat
  <2>1. T \in SUBSET (1..N) /\ IsFiniteSet(1..N)
    BY <1>1, FS_Interval DEF Trues
  <2>2. N + 1 \notin 1..N
    BY <1>1
  <2> HIDE DEF T
  <2> QED
    BY <2>1, <2>2, FS_Subset, FS_CardinalityType
<1>3. U = IF x THEN T \cup {N + 1} ELSE T
  <2>1. \A i : i \in 1..(N + 1) <=> i \in 1..N \/ i = N + 1
    BY <1>1
  <2> QED
    BY <1>1, <2>1 DEF Trues
<1> HIDE DEF T, U
<1>4. CASE x
  <2>1. U = T \cup {N + 1}
    BY <1>3, <1>4
  <2>2. Cardinality(T \cup {N + 1}) = Cardinality(T) + 1
    BY <1>2, FS_AddElement
  <2>3. Cardinality(U) = Cardinality(T) + 1
    BY <2>1, <2>2
  <2> QED
    BY <1>1, <1>2, <1>4, <2>3 DEF T, U
<1>5. CASE ~x
  <2>1. U = T
    BY <1>3, <1>5
  <2> QED
    BY <1>1, <1>2, <1>5, <2>1 DEF T, U
<1> QED
  BY <1>4, <1>5

\* The events of the sample once one event more is there.
LEMMA SampledMore ==
  ASSUME WalkInv, NEW e \in WalkEvents, UNCHANGED cache, fired' = Append(fired, e)
  PROVE  LET in == Walk!Scored(e, TRAIL_1D)
             N  == Len(fired) + 1
             over == Walk!Exceeds(e, Walk!ScaleOf(e, TRAIL_1D))
         IN  /\ N \in Nat /\ Sampled \subseteq 1..(N - 1)
             /\ \A n \in 1..(N - 1) : fired'[n] = fired[n]
             /\ Sampled' = IF in THEN Sampled \cup {N} ELSE Sampled
             /\ Walk!Beyond(Sampled)' = IF in /\ over THEN Walk!Beyond(Sampled) \cup {N}
                                        ELSE Walk!Beyond(Sampled)
             /\ Cardinality(Sampled') = Cardinality(Sampled) + (IF in THEN 1 ELSE 0)
             /\ Cardinality(Walk!Beyond(Sampled)')
                  = Cardinality(Walk!Beyond(Sampled)) + (IF in /\ over THEN 1 ELSE 0)
<1> DEFINE in == Walk!Scored(e, TRAIL_1D)
           N  == Len(fired) + 1
           over == Walk!Exceeds(e, Walk!ScaleOf(e, TRAIL_1D))
           A == Sampled
           X == Walk!Beyond(Sampled)
<1>1. /\ N \in Nat /\ Len(fired) \in Nat /\ DOMAIN fired = 1..(N - 1) /\ DOMAIN fired' = 1..N
      /\ fired'[N] = e
      /\ \A n \in 1..(N - 1) : fired'[n] = fired[n]
      /\ \A n : n \in 1..N <=> n \in 1..(N - 1) \/ n = N
  <2>1. fired \in Seq(WalkEvents)
    BY DEF WalkInv
  <2>2. /\ Len(fired) \in Nat /\ DOMAIN fired = 1..Len(fired)
        /\ DOMAIN fired' = 1..(Len(fired) + 1) /\ fired'[Len(fired) + 1] = e
        /\ \A n \in 1..Len(fired) : fired'[n] = fired[n]
    BY <2>1
  <2>3. N - 1 = Len(fired) /\ N \in Nat
    BY <2>2
  <2> QED
    BY <2>2, <2>3
<1>2. \A f : /\ Walk!Scored(f, TRAIL_1D)' <=> Walk!Scored(f, TRAIL_1D)
             /\ Walk!Exceeds(f, Walk!ScaleOf(f, TRAIL_1D))'
                  <=> Walk!Exceeds(f, Walk!ScaleOf(f, TRAIL_1D))
  BY DEF Walk!Scored, Walk!ScaleOf, Walk!Exceeds
<1>3. A = {n \in 1..(N - 1) : Walk!Scored(fired[n], TRAIL_1D)}
  BY <1>1 DEF Sampled
<1>4. A' = {n \in 1..N : Walk!Scored(fired'[n], TRAIL_1D)}
  BY <1>1, <1>2 DEF Sampled
<1>5. X = {n \in A : Walk!Exceeds(fired[n], Walk!ScaleOf(fired[n], TRAIL_1D))}
  BY DEF Walk!Beyond
<1>6. X' = {n \in A' : Walk!Exceeds(fired'[n], Walk!ScaleOf(fired'[n], TRAIL_1D))}
  BY <1>2 DEF Walk!Beyond
<1>7. PICK S2 : S2 = A'
  OBVIOUS
<1>8. PICK Y : Y = X'
  OBVIOUS
<1>9. PICK F : F = fired'
  OBVIOUS
<1> HIDE DEF in, over, A, X, N
<1>10. /\ S2 = {n \in 1..N : Walk!Scored(F[n], TRAIL_1D)}
       /\ Y = {n \in S2 : Walk!Exceeds(F[n], Walk!ScaleOf(F[n], TRAIL_1D))}
       /\ F[N] = e /\ \A n \in 1..(N - 1) : F[n] = fired[n]
  BY <1>1, <1>4, <1>6, <1>7, <1>8, <1>9
<1>11. S2 = IF in THEN A \cup {N} ELSE A
  BY <1>1, <1>3, <1>10 DEF in
<1>12. N \notin A /\ N \notin X /\ A \subseteq 1..(N - 1) /\ X \subseteq 1..(N - 1)
  <2>1. N \notin 1..(N - 1)
    BY <1>1
  <2> QED
    BY <1>3, <1>5, <2>1
<1>13. Y = IF in /\ over THEN X \cup {N} ELSE X
  <2>1. \A n \in A : F[n] = fired[n]
    BY <1>10, <1>12
  <2> QED
    BY <1>5, <1>10, <1>11, <1>12, <2>1 DEF over
<1>14. /\ IsFiniteSet(A) /\ IsFiniteSet(X) /\ Cardinality(A) \in Nat /\ Cardinality(X) \in Nat
       /\ Cardinality(A \cup {N}) = Cardinality(A) + 1
       /\ Cardinality(X \cup {N}) = Cardinality(X) + 1
  <2>0. 1 \in Int /\ N - 1 \in Int
    BY <1>1
  <2>1. A \in SUBSET (1..(N - 1)) /\ X \in SUBSET (1..(N - 1)) /\ IsFiniteSet(1..(N - 1))
    BY <1>12, <2>0, FS_Interval
  <2>2. IsFiniteSet(A) /\ IsFiniteSet(X) /\ Cardinality(A) \in Nat /\ Cardinality(X) \in Nat
    BY <2>1, FS_Subset, FS_CardinalityType
  <2> QED
    BY <1>12, <2>2, FS_AddElement
<1>15. Cardinality(S2) = Cardinality(A) + (IF in THEN 1 ELSE 0)
  <2>1. CASE in
    <3>1. S2 = A \cup {N}
      BY <1>11, <2>1
    <3>2. Cardinality(S2) = Cardinality(A \cup {N})
      BY <3>1
    <3> QED
      BY <1>14, <2>1, <3>2
  <2>2. CASE ~in
    <3>1. S2 = A
      BY <1>11, <2>2
    <3> QED
      BY <1>14, <2>2, <3>1
  <2> QED
    BY <2>1, <2>2
<1>16. Cardinality(Y) = Cardinality(X) + (IF in /\ over THEN 1 ELSE 0)
  <2>1. CASE in /\ over
    <3>1. Y = X \cup {N}
      BY <1>13, <2>1
    <3>2. Cardinality(Y) = Cardinality(X \cup {N})
      BY <3>1
    <3> QED
      BY <1>14, <2>1, <3>2
  <2>2. CASE ~(in /\ over)
    <3>1. Y = X
      BY <1>13, <2>2
    <3> QED
      BY <1>14, <2>2, <3>1
  <2> QED
    BY <2>1, <2>2
<1> QED
  BY <1>1, <1>7, <1>8, <1>11, <1>12, <1>13, <1>15, <1>16 DEF in, over, A, X, N

\* Probe 3's loop body counts each window once, and scores what is scored.
LEMMA LocalGoes ==
  ASSUME WalkInv, LocalInv, NEW e \in WalkEvents, UNCHANGED cache,
         fired' = Append(fired, e), local' = Walk!Localised(e)
  PROVE  LocalInv'
<1> DEFINE K == DOMAIN Trails
           M == Len(Trails)
           K0 == {k \in K : Walk!ScaleOf(e, Trails[k]).ss = 0}
           K1 == {k \in K : Walk!ScaleOf(e, Trails[k]).ss # 0}
           in == Walk!Scored(e, TRAIL_1D)
           over == Walk!Exceeds(e, Walk!ScaleOf(e, TRAIL_1D))
           rs == local.ratios
           T(r) == Cardinality(Trues(r))
<1>1. /\ M \in Nat /\ K = 1..M /\ 1 \in K /\ Trails[1] = TRAIL_1D
      /\ \A k \in K : Trails[k] \in Nat
  <2>1. Trails \in Seq(Nat) /\ Trails # <<>> /\ Trails[1] = TRAIL_1D
    BY WalkAssumption
  <2>2. Len(Trails) \in Nat /\ DOMAIN Trails = 1..Len(Trails) /\ Len(Trails) # 0
    BY <2>1
  <2> QED
    BY <2>1, <2>2
<1>2. \A k \in K : /\ Walk!ScaleOf(e, Trails[k]).ss \in Nat
                   /\ cache[e.pool] = <<>> => Walk!ScaleOf(e, Trails[k]).ss = 0
  BY <1>1, ScaleOfIs
<1>3. /\ local \in LocalType /\ local.n \in Nat /\ local.miss \in Nat
      /\ rs \in [K -> Seq(BOOLEAN)]
      /\ M * local.n = local.miss + Summed(Lengths(rs))
      /\ Len(rs[1]) = Cardinality(Sampled)
      /\ T(rs[1]) = Cardinality(Walk!Beyond(Sampled))
  BY DEF LocalInv, LocalType
<1>4. /\ Cardinality(Sampled') = Cardinality(Sampled) + (IF in THEN 1 ELSE 0)
      /\ Cardinality(Walk!Beyond(Sampled)')
           = Cardinality(Walk!Beyond(Sampled)) + (IF in /\ over THEN 1 ELSE 0)
  BY SampledMore
<1>5. e.delay \in Int
  BY DEF WalkEvents
<1>6. Walk!InBins(e.delay) <=> Walk!NearZero(e.delay)
  BY <1>5, BinsAreNear
<1>7. CASE cache[e.pool] = <<>> \/ ~Walk!InBins(e.delay)
  <2>1. ~in
    BY <1>1, <1>2, <1>6, <1>7 DEF Walk!Scored
  <2>2. local' = local
    BY <1>7 DEF Walk!Localised
  <2>3. Cardinality(Sampled') = Cardinality(Sampled)
        /\ Cardinality(Walk!Beyond(Sampled)') = Cardinality(Walk!Beyond(Sampled))
    <3>1. Cardinality(Sampled) \in Nat /\ Cardinality(Walk!Beyond(Sampled)) \in Nat
      <4>1. rs[1] \in Seq(BOOLEAN)
        BY <1>1, <1>3
      <4>2. Len(rs[1]) \in Nat /\ T(rs[1]) \in Nat
        BY <4>1, TruesOfMore
      <4> QED
        BY <1>3, <4>2
    <3> QED
      BY <1>4, <2>1, <3>1
  <2> QED
    BY <1>3, <2>2, <2>3 DEF LocalInv, Lengths, Trues
<1>8. CASE ~(cache[e.pool] = <<>> \/ ~Walk!InBins(e.delay))
  <2> DEFINE x(k) == Walk!Exceeds(e, Walk!ScaleOf(e, Trails[k]))
  <2>1. PICK r : r = [k \in K |-> IF Walk!ScaleOf(e, Trails[k]).ss = 0 THEN rs[k]
                                  ELSE Append(rs[k], x(k))]
    OBVIOUS
  <2>2. local' = [n |-> local.n + 1, miss |-> local.miss + Cardinality(K0), ratios |-> r]
    BY <1>8, <2>1, WalkLibrary DEF Walk!Localised
  <2>3. \A k \in K : x(k) \in BOOLEAN
    BY DEF Walk!Exceeds
  <2>4. in <=> 1 \in K1
    BY <1>1, <1>2, <1>6, <1>8 DEF Walk!Scored
  <2>5. x(1) = over
    BY <1>1
  <2> HIDE DEF x, over, in
  <2>15. \A k \in K : r[k] = IF k \in K1 THEN Append(rs[k], x(k)) ELSE rs[k]
    BY <2>1
  <2>8. /\ K0 \cap K1 = {} /\ K0 \cup K1 = K /\ K0 \subseteq 1..M /\ K1 \subseteq 1..M
    BY <1>1
  <2> HIDE DEF K0, K1
  <2>6. \A k \in K : rs[k] \in Seq(BOOLEAN)
    BY <1>3
  <2>7. ASSUME NEW k \in K
        PROVE  /\ r[k] \in Seq(BOOLEAN)
               /\ Len(rs[k]) \in Nat /\ T(rs[k]) \in Nat
               /\ Len(r[k]) = Len(rs[k]) + (IF k \in K1 THEN 1 ELSE 0)
               /\ T(r[k]) = T(rs[k]) + (IF k \in K1 /\ x(k) THEN 1 ELSE 0)
    <3>1. /\ Append(rs[k], x(k)) \in Seq(BOOLEAN)
          /\ Len(rs[k]) \in Nat /\ Len(Append(rs[k], x(k))) = Len(rs[k]) + 1
          /\ T(rs[k]) \in Nat
          /\ T(Append(rs[k], x(k))) = T(rs[k]) + (IF x(k) THEN 1 ELSE 0)
      BY <2>3, <2>6, TruesOfMore
    <3> HIDE DEF T
    <3>2. CASE k \in K1
      <4>1. r[k] = Append(rs[k], x(k))
        BY <2>15, <3>2
      <4> QED
        BY <3>1, <3>2, <4>1
    <3>3. CASE k \notin K1
      <4>1. r[k] = rs[k]
        BY <2>15, <3>3
      <4> QED
        BY <2>6, <3>1, <3>3, <4>1
    <3> QED
      BY <3>2, <3>3
  <2>9. /\ Cardinality(K0) \in Nat /\ Cardinality(K1) \in Nat
        /\ Cardinality(K0) + Cardinality(K1) = M
    <3>1. IsFiniteSet(1..M) /\ Cardinality(1..M) = M /\ K0 \in SUBSET (1..M) /\ K1 \in SUBSET (1..M)
      <4>1. 1 \in Int /\ M \in Int /\ ~(1 > M) /\ M - 1 + 1 = M
        BY <1>1
      <4>2. IsFiniteSet(1..M) /\ Cardinality(1..M) = M - 1 + 1
        BY <4>1, FS_Interval
      <4> QED
        BY <2>8, <4>1, <4>2
    <3>2. IsFiniteSet(K0) /\ IsFiniteSet(K1)
      BY <3>1, FS_Subset
    <3>3. /\ Cardinality(K0 \cup K1) = Cardinality(K0) + Cardinality(K1) - Cardinality(K0 \cap K1)
          /\ Cardinality(K0) \in Nat /\ Cardinality(K1) \in Nat
      BY <3>2, FS_Union, FS_CardinalityType
    <3>4. Cardinality(K0 \cap K1) = 0
      BY <2>8, FS_EmptySet
    <3>5. Cardinality(K0 \cup K1) = M
      BY <1>1, <2>8, <3>1
    <3> QED
      BY <3>3, <3>4, <3>5
  <2>10. Summed(Lengths(r)) = Summed(Lengths(rs)) + Cardinality(K1)
         /\ Summed(Lengths(rs)) \in Nat
    <3>1. PICK lens : lens = Lengths(rs)
      OBVIOUS
    <3>2. PICK h : h = Lengths(r)
      OBVIOUS
    <3>3. PICK d : d = [k \in 1..M |-> IF k \in K1 THEN 1 ELSE 0]
      OBVIOUS
    <3>4. d \in Seq(Int) /\ Summed(d) = Cardinality(K1)
      BY <1>1, <2>8, <3>3, MarksAreCounted
    <3>5. lens = [k \in 1..M |-> Len(rs[k])] /\ h = [k \in 1..M |-> Len(r[k])]
      BY <1>1, <3>1, <3>2 DEF Lengths
    <3>6. \A k \in 1..M : /\ Len(rs[k]) \in Nat /\ Len(r[k]) \in Nat
                          /\ Len(r[k]) = Len(rs[k]) + (IF k \in K1 THEN 1 ELSE 0)
      <4> TAKE k \in 1..M
      <4>1. Len(rs[k]) \in Nat /\ Len(r[k]) = Len(rs[k]) + (IF k \in K1 THEN 1 ELSE 0)
        BY <1>1, <2>7
      <4>2. PICK u, v : u = Len(rs[k]) /\ v = Len(r[k])
        OBVIOUS
      <4>3. u \in Nat /\ v = u + (IF k \in K1 THEN 1 ELSE 0)
        BY <4>1, <4>2
      <4>4. v \in Nat
        BY <4>3
      <4> QED
        BY <4>1, <4>2, <4>4
    <3>7. /\ lens \in Seq(Nat) /\ lens \in Seq(Int) /\ h \in Seq(Int)
          /\ Len(lens) = M /\ Len(h) = M /\ Len(d) = M
      <4>1. lens \in Seq(Nat) /\ Len(lens) = M
        BY <1>1, <3>5, <3>6
      <4>2. h \in Seq(Nat) /\ Len(h) = M
        BY <1>1, <3>5, <3>6
      <4>3. Len(d) = M
        BY <1>1, <3>3
      <4> QED
        BY <4>1, <4>2, <4>3
    <3>8. \A k \in 1..Len(lens) : h[k] = lens[k] + d[k]
      BY <3>3, <3>5, <3>6, <3>7
    <3>9. Summed(h) = Summed(lens) + Summed(d)
      BY <3>4, <3>7, <3>8, SumTogether
    <3>10. Summed(lens) \in Nat
      BY <3>7, SumIsNat
    <3> QED
      BY <3>1, <3>2, <3>4, <3>9, <3>10
  <2>11. M * (local.n + 1) = local.miss + Cardinality(K0) + Summed(Lengths(r))
    <3> DEFINE a == local.n
               m == local.miss
               u == Cardinality(K0)
               v == Cardinality(K1)
               z == Summed(Lengths(rs))
    <3>1. M * a = m + z /\ u + v = M /\ a \in Nat /\ m \in Nat /\ u \in Nat /\ v \in Nat
          /\ z \in Nat
      BY <1>3, <2>9, <2>10
    <3> HIDE DEF a, m, u, v, z
    <3>2. M * (a + 1) = M * a + M
      BY <1>1, <3>1
    <3>3. M * (a + 1) = (m + u) + (z + v)
      BY <1>1, <3>1, <3>2
    <3> QED
      BY <2>10, <3>3 DEF a, m, u, v, z
  <2>12. /\ Len(r[1]) = Cardinality(Sampled')
         /\ T(r[1]) = Cardinality(Walk!Beyond(Sampled)')
    <3>1. /\ Len(r[1]) = Len(rs[1]) + (IF 1 \in K1 THEN 1 ELSE 0)
          /\ T(r[1]) = T(rs[1]) + (IF 1 \in K1 /\ x(1) THEN 1 ELSE 0)
      BY <1>1, <2>7
    <3> HIDE DEF T
    <3> QED
      BY <1>3, <1>4, <2>4, <2>5, <3>1
  <2>13. [n |-> local.n + 1, miss |-> local.miss + Cardinality(K0), ratios |-> r] \in LocalType
    <3>1. r \in [K -> Seq(BOOLEAN)]
      BY <2>1, <2>7
    <3>2. local.n + 1 \in Nat /\ local.miss + Cardinality(K0) \in Nat
      BY <1>3, <2>9
    <3> QED
      BY <3>1, <3>2 DEF LocalType
  <2>14. local'.n = local.n + 1 /\ local'.miss = local.miss + Cardinality(K0) /\ local'.ratios = r
    BY <2>2
  <2> QED
    BY <2>2, <2>11, <2>12, <2>13, <2>14 DEF LocalInv, Lengths, Trues, LocalType
<1> QED
  BY <1>7, <1>8
\* What the reports have divided so far: the sampled events of the pools they
\* are past.
PastPools == {Pools[i] : i \in 1..(pool - 1)}
Done      == {n \in Sampled : fired[n].pool \in PastPools}
SizesOf(ts) == [i \in DOMAIN ts |-> ts[i].n]
HitsOf(ts)  == [i \in DOMAIN ts |-> ts[i].k]
TailType == [pool : Walk!Range(Pools), n : Nat, k : Nat]
HalfType == [pool : Walk!Range(Pools), n1 : Nat, n2 : Nat]
Contrasts == {"agreed", "paired", "shaped"}
OutType == [tails : Seq(TailType), small : [n : Nat, k : Nat], halves : Seq(HalfType),
            h1 : Nat, h2 : Nat, agreed : SUBSET Walk!Range(Pools),
            paired : SUBSET Walk!Range(Pools), shaped : SUBSET Walk!Range(Pools)]
OfCensus(e) == \E c \in DOMAIN Cells : Cells[c].sender = e.sender /\ Cells[c].pool = e.pool

ReportInv ==
  /\ out \in OutType
  /\ cell <= Len(Cells) => pool = 1
  /\ pool = 1 => out.agreed \cup out.paired \cup out.shaped = {}
  /\ out.h1 + out.h2 = Cardinality(Done)
  /\ out.small.n + Summed(SizesOf(out.tails)) = Cardinality(Done)
  /\ out.small.k + Summed(HitsOf(out.tails)) = Cardinality(Walk!Beyond(Done))
  /\ \A n \in DOMAIN fired : OfCensus(fired[n])
  /\ Walk!ContrastsHostBoth

\* Probe 5's columns with one entry more.
LEMMA ColumnsOfMore ==
  ASSUME NEW ts \in Seq(TailType), NEW x \in TailType
  PROVE  /\ Append(ts, x) \in Seq(TailType)
         /\ Summed(SizesOf(ts)) \in Int /\ Summed(HitsOf(ts)) \in Int
         /\ Summed(SizesOf(Append(ts, x))) = Summed(SizesOf(ts)) + x.n
         /\ Summed(HitsOf(Append(ts, x))) = Summed(HitsOf(ts)) + x.k
<1> DEFINE N == Len(ts)
           us == Append(ts, x)
<1>1. /\ us \in Seq(TailType) /\ N \in Nat /\ DOMAIN ts = 1..N /\ DOMAIN us = 1..(N + 1)
      /\ us[N + 1] = x /\ \A i \in 1..N : us[i] = ts[i]
      /\ \A i \in 1..N : ts[i] \in TailType
  <2> DEFINE K == TailType
  <2>1. ts \in Seq(K) /\ x \in K
    OBVIOUS
  <2> HIDE DEF K
  <2>2. /\ us \in Seq(K) /\ N \in Nat /\ DOMAIN ts = 1..N /\ DOMAIN us = 1..(N + 1)
        /\ us[N + 1] = x /\ \A i \in 1..N : us[i] = ts[i]
        /\ \A i \in 1..N : ts[i] \in K
    BY <2>1
  <2> QED
    BY <2>2 DEF K
<1> HIDE DEF N, us
<1>2. x.n \in Int /\ x.k \in Int /\ \A i \in 1..N : ts[i].n \in Int /\ ts[i].k \in Int
  BY <1>1 DEF TailType
<1>3. PICK h1 : h1 = SizesOf(ts)
  OBVIOUS
<1>4. PICK h2 : h2 = HitsOf(ts)
  OBVIOUS
<1>5. /\ h1 = [i \in 1..N |-> ts[i].n] /\ h1 \in Seq(Int) /\ Len(h1) = N
      /\ h2 = [i \in 1..N |-> ts[i].k] /\ h2 \in Seq(Int) /\ Len(h2) = N
  BY <1>1, <1>2, <1>3, <1>4 DEF SizesOf, HitsOf
<1>6. SizesOf(us) = Append(h1, x.n) /\ HitsOf(us) = Append(h2, x.k)
  <2>1. SizesOf(us) = [i \in 1..(N + 1) |-> us[i].n] /\ HitsOf(us) = [i \in 1..(N + 1) |-> us[i].k]
    BY <1>1 DEF SizesOf, HitsOf
  <2>2. \A i \in 1..(N + 1) : i \in 1..N \/ i = N + 1
    BY <1>1
  <2>3. PICK a1 : a1 = Append(h1, x.n)
    OBVIOUS
  <2>4. PICK a2 : a2 = Append(h2, x.k)
    OBVIOUS
  <2>5. /\ a1 = [i \in 1..(N + 1) |-> IF i = N + 1 THEN x.n ELSE h1[i]]
        /\ a2 = [i \in 1..(N + 1) |-> IF i = N + 1 THEN x.k ELSE h2[i]]
    BY <1>1, <1>2, <1>5, <2>3, <2>4
  <2>6. \A i \in 1..(N + 1) : us[i].n = a1[i] /\ us[i].k = a2[i]
    BY <1>1, <1>5, <2>2, <2>5
  <2> QED
    BY <2>1, <2>3, <2>4, <2>5, <2>6
<1>7. /\ Summed(h1) \in Int /\ Summed(Append(h1, x.n)) = Summed(h1) + x.n
      /\ Summed(h2) \in Int /\ Summed(Append(h2, x.k)) = Summed(h2) + x.k
  BY <1>2, <1>5, SumOfMore
<1> QED
  BY <1>1, <1>3, <1>4, <1>6, <1>7 DEF us

\* Probe 5 counts a pool once: on its own, or among the small ones.
LEMMA TailsGrow ==
  ASSUME out \in OutType, NEW p \in Walk!Range(Pools), NEW rs,
         Cardinality(rs) \in Nat, Cardinality(Walk!Beyond(rs)) \in Nat
  PROVE  LET t == Walk!Tails(p, rs)
         IN  /\ t \in OutType
             /\ t.agreed = out.agreed /\ t.paired = out.paired /\ t.shaped = out.shaped
             /\ t.h1 = out.h1 /\ t.h2 = out.h2 /\ t.halves = out.halves
             /\ t.small.n + Summed(SizesOf(t.tails))
                  = out.small.n + Summed(SizesOf(out.tails)) + Cardinality(rs)
             /\ t.small.k + Summed(HitsOf(t.tails))
                  = out.small.k + Summed(HitsOf(out.tails)) + Cardinality(Walk!Beyond(rs))
<1> DEFINE n == Cardinality(rs)
           k == Cardinality(Walk!Beyond(rs))
           x == [pool |-> p, n |-> n, k |-> k]
           ts == out.tails
<1>1. PICK t : t = Walk!Tails(p, rs)
  OBVIOUS
<1>2. t = IF ~Walk!Many(rs, MIN_POOL_N)
          THEN [out EXCEPT !.small = [n |-> out.small.n + n, k |-> out.small.k + k]]
          ELSE [out EXCEPT !.tails = Append(ts, x)]
  BY <1>1, WalkLibrary DEF Walk!Tails
<1>3. /\ ts \in Seq(TailType) /\ x \in TailType /\ n \in Nat /\ k \in Nat
      /\ x.n = n /\ x.k = k /\ out.small.n \in Nat /\ out.small.k \in Nat
      /\ out.small \in [n : Nat, k : Nat]
  BY DEF OutType, TailType
<1>4. /\ Append(ts, x) \in Seq(TailType)
      /\ Summed(SizesOf(ts)) \in Int /\ Summed(HitsOf(ts)) \in Int
      /\ Summed(SizesOf(Append(ts, x))) = Summed(SizesOf(ts)) + n
      /\ Summed(HitsOf(Append(ts, x))) = Summed(HitsOf(ts)) + k
  BY <1>3, ColumnsOfMore
<1> HIDE DEF n, k, x
<1>5. CASE ~Walk!Many(rs, MIN_POOL_N)
  <2>1. t = [out EXCEPT !.small = [n |-> out.small.n + n, k |-> out.small.k + k]]
    BY <1>2, <1>5
  <2>3. PICK sm : sm = [n |-> out.small.n + n, k |-> out.small.k + k]
    OBVIOUS
  <2>4. sm \in [n : Nat, k : Nat] /\ sm.n = out.small.n + n /\ sm.k = out.small.k + k
    BY <1>3, <2>3
  <2>5. t = [out EXCEPT !.small = sm]
    BY <2>1, <2>3
  <2>6. /\ t \in OutType /\ t.agreed = out.agreed /\ t.paired = out.paired
        /\ t.shaped = out.shaped /\ t.h1 = out.h1 /\ t.h2 = out.h2 /\ t.halves = out.halves
        /\ t.tails = ts /\ t.small = sm
    BY <2>4, <2>5 DEF OutType
  <2>2. /\ t \in OutType /\ t.agreed = out.agreed /\ t.paired = out.paired
        /\ t.shaped = out.shaped /\ t.h1 = out.h1 /\ t.h2 = out.h2 /\ t.halves = out.halves
        /\ t.tails = ts /\ t.small.n = out.small.n + n /\ t.small.k = out.small.k + k
    BY <2>4, <2>6
  <2> QED
    BY <1>1, <1>3, <1>4, <2>2 DEF n, k
<1>6. CASE Walk!Many(rs, MIN_POOL_N)
  <2>1. t = [out EXCEPT !.tails = Append(ts, x)]
    BY <1>2, <1>6
  <2>2. /\ t \in OutType /\ t.agreed = out.agreed /\ t.paired = out.paired
        /\ t.shaped = out.shaped /\ t.h1 = out.h1 /\ t.h2 = out.h2 /\ t.halves = out.halves
        /\ t.tails = Append(ts, x) /\ t.small = out.small
    BY <1>3, <1>4, <2>1 DEF OutType
  <2> QED
    BY <1>1, <1>3, <1>4, <2>2 DEF n, k
<1> QED
  BY <1>5, <1>6
\* Places that fall into two parts.
LEMMA TwoParts ==
  ASSUME NEW N \in Nat, NEW x, NEW y, x \subseteq 1..N, y \subseteq 1..N, x \cap y = {}
  PROVE  /\ Cardinality(x) \in Nat /\ Cardinality(y) \in Nat
         /\ Cardinality(x \cup y) = Cardinality(x) + Cardinality(y)
<1>1. 1 \in Int /\ N \in Int
  OBVIOUS
<1>2. IsFiniteSet(1..N) /\ x \in SUBSET (1..N) /\ y \in SUBSET (1..N)
  BY <1>1, FS_Interval
<1>3. IsFiniteSet(x) /\ IsFiniteSet(y)
  BY <1>2, FS_Subset
<1>4. /\ Cardinality(x \cup y) = Cardinality(x) + Cardinality(y) - Cardinality(x \cap y)
      /\ Cardinality(x) \in Nat /\ Cardinality(y) \in Nat
  BY <1>3, FS_Union, FS_CardinalityType
<1>5. Cardinality(x \cap y) = 0
  BY FS_EmptySet
<1> QED
  BY <1>4, <1>5

\* The report on a pool divides its scored events, and no other.
LEMMA DoneGrows ==
  ASSUME WalkInv, pool <= Len(Pools), UNCHANGED <<cache, fired>>, pool' = pool + 1
  PROVE  LET rs == Walk!ScoredOf(Pools[pool])
         IN  /\ Pools[pool] \in Walk!Range(Pools) /\ rs \subseteq DOMAIN fired
             /\ Cardinality(rs) \in Nat /\ Cardinality(Walk!Beyond(rs)) \in Nat
             /\ Cardinality(Walk!FirstHalf(rs)) \in Nat
             /\ Cardinality(Walk!SecondHalf(rs)) \in Nat
             /\ Cardinality(Walk!FirstHalf(rs)) + Cardinality(Walk!SecondHalf(rs))
                  = Cardinality(rs)
             /\ Cardinality(Done) \in Nat /\ Cardinality(Walk!Beyond(Done)) \in Nat
             /\ Cardinality(Done') = Cardinality(Done) + Cardinality(rs)
             /\ Cardinality(Walk!Beyond(Done)')
                  = Cardinality(Walk!Beyond(Done)) + Cardinality(Walk!Beyond(rs))
<1> DEFINE rs == Walk!ScoredOf(Pools[pool])
           N  == Len(fired)
           F1 == Walk!FirstHalf(rs)
           F2 == Walk!SecondHalf(rs)
           br == Walk!Beyond(rs)
           D  == Done
           bd == Walk!Beyond(Done)
<1>1. /\ N \in Nat /\ DOMAIN fired = 1..N /\ \A n \in 1..N : fired[n].block \in Nat
  <2>1. fired \in Seq(WalkEvents)
    BY DEF WalkInv
  <2>2. N \in Nat /\ DOMAIN fired = 1..N /\ \A n \in 1..N : fired[n] \in WalkEvents
    BY <2>1
  <2> QED
    BY <2>2 DEF WalkEvents
<1>2. /\ pool \in DOMAIN Pools /\ Pools[pool] \in Walk!Range(Pools)
      /\ \A i \in 1..(pool - 1) : i \in DOMAIN Pools /\ Pools[i] # Pools[pool]
      /\ \A i : i \in 1..((pool + 1) - 1) <=> i \in 1..(pool - 1) \/ i = pool
  <2>1. Pools \in Seq(Walk!Range(Pools)) /\ pool \in 1..(Len(Pools) + 1)
    BY WalkAssumption DEF WalkInv
  <2>2. Len(Pools) \in Nat /\ DOMAIN Pools = 1..Len(Pools)
    BY <2>1
  <2>3. pool \in 1..Len(Pools)
    BY <2>1, <2>2
  <2>4. \A i \in 1..(pool - 1) : i \in 1..Len(Pools) /\ i # pool
    BY <2>2, <2>3
  <2>5. \A i \in 1..(pool - 1) : Pools[i] # Pools[pool]
    BY <2>2, <2>3, <2>4, WalkAssumption
  <2>6. Pools[pool] \in Walk!Range(Pools)
    BY <2>2, <2>3 DEF Walk!Range
  <2>7. \A i : i \in 1..((pool + 1) - 1) <=> i \in 1..(pool - 1) \/ i = pool
    BY <2>3
  <2> QED
    BY <2>2, <2>3, <2>4, <2>5, <2>6, <2>7
<1>3. /\ D = {n \in Sampled : \E i \in 1..(pool - 1) : fired[n].pool = Pools[i]}
      /\ rs = {n \in Sampled : fired[n].pool = Pools[pool]}
      /\ Sampled \subseteq 1..N
  BY <1>1 DEF Done, PastPools, Walk!ScoredOf, Sampled
<1>4. D \subseteq 1..N /\ rs \subseteq 1..N /\ D \cap rs = {}
  BY <1>2, <1>3
<1>5. Done' = D \cup rs
  <2>1. Sampled' = Sampled
    BY DEF Sampled, Walk!Scored, Walk!ScaleOf
  <2>2. Done' = {n \in Sampled : \E i \in 1..((pool + 1) - 1) : fired[n].pool = Pools[i]}
    BY <2>1 DEF Done, PastPools
  <2> QED
    BY <1>2, <1>3, <2>2
<1>6. Walk!Beyond(Done)' = bd \cup br
  <2>1. Walk!Beyond(Done)' = {n \in Done' : Walk!Exceeds(fired[n], Walk!ScaleOf(fired[n], TRAIL_1D))}
    BY DEF Walk!Beyond, Walk!ScaleOf
  <2> HIDE DEF D, rs
  <2>2. /\ bd = {n \in D : Walk!Exceeds(fired[n], Walk!ScaleOf(fired[n], TRAIL_1D))}
        /\ br = {n \in rs : Walk!Exceeds(fired[n], Walk!ScaleOf(fired[n], TRAIL_1D))}
    BY DEF Walk!Beyond, D
  <2> QED
    BY <1>5, <2>1, <2>2
<1>7. bd \subseteq 1..N /\ br \subseteq 1..N /\ bd \cap br = {}
  <2>1. bd \subseteq D /\ br \subseteq rs
    BY DEF Walk!Beyond
  <2> QED
    BY <1>4, <2>1
<1>8. /\ F1 \cup F2 = rs /\ F1 \cap F2 = {} /\ F1 \subseteq 1..N /\ F2 \subseteq 1..N
  <2>1. MID \in Nat
    BY WalkAssumption
  <2>2. F1 = {n \in rs : fired[n].block < MID} /\ F2 = {n \in rs : fired[n].block >= MID}
    BY DEF Walk!FirstHalf, Walk!SecondHalf
  <2> HIDE DEF rs, F1, F2
  <2>3. \A n \in rs : (fired[n].block < MID <=> ~(fired[n].block >= MID))
    BY <1>1, <1>4, <2>1
  <2> QED
    BY <1>4, <2>2, <2>3
<1> HIDE DEF D, rs, F1, F2, bd, br, N
<1>9. /\ Cardinality(D) \in Nat /\ Cardinality(rs) \in Nat
      /\ Cardinality(D \cup rs) = Cardinality(D) + Cardinality(rs)
  BY <1>1, <1>4, TwoParts
<1>10. /\ Cardinality(bd) \in Nat /\ Cardinality(br) \in Nat
       /\ Cardinality(bd \cup br) = Cardinality(bd) + Cardinality(br)
  BY <1>1, <1>7, TwoParts
<1>11. /\ Cardinality(F1) \in Nat /\ Cardinality(F2) \in Nat
       /\ Cardinality(F1 \cup F2) = Cardinality(F1) + Cardinality(F2)
  BY <1>1, <1>8, TwoParts
<1>12. Cardinality(Done') = Cardinality(D) + Cardinality(rs)
  BY <1>5, <1>9
<1>13. Cardinality(Walk!Beyond(Done)') = Cardinality(bd) + Cardinality(br)
  BY <1>6, <1>10
<1>14. Cardinality(F1) + Cardinality(F2) = Cardinality(rs)
  BY <1>8, <1>11
<1>15. rs \subseteq DOMAIN fired
  BY <1>1, <1>4
<1> QED
  BY <1>2, <1>9, <1>10, <1>11, <1>12, <1>13, <1>14, <1>15 DEF D, rs, F1, F2, bd, br

\* Whoever contrasts the strata of a pool's events has both among its cells.
LEMMA BothFromCells ==
  ASSUME \A n \in DOMAIN fired : OfCensus(fired[n]),
         NEW p, NEW rs, rs \subseteq DOMAIN fired, \A n \in rs : fired[n].pool = p,
         Walk!InStratum(rs, "fast") # {}, Walk!InStratum(rs, "slow") # {}
  PROVE  Walk!Hosts(p) = Walk!BothStrata
<1>1. \A n \in rs : fired[n].sender \in Walk!Senders(p)
  BY DEF OfCensus, Walk!Senders
<1>2. PICK n1 \in rs : Walk!Stratum(fired[n1].sender) = "fast"
  BY DEF Walk!InStratum
<1>3. PICK n2 \in rs : Walk!Stratum(fired[n2].sender) = "slow"
  BY DEF Walk!InStratum
<1> QED
  BY <1>1, <1>2, <1>3 DEF Walk!Hosts, Walk!BothStrata
\* The strata are read off the events.
LEMMA HostsStay ==
  ASSUME UNCHANGED fired
  PROVE  \A p : (Walk!Hosts(p) = Walk!BothStrata)' <=> Walk!Hosts(p) = Walk!BothStrata
<1>1. \A s, m : /\ Walk!Firings(s)' = Walk!Firings(s)
                /\ Walk!NthDelay(s, m)' = Walk!NthDelay(s, m)
  BY DEF Walk!Firings, Walk!NthDelay
<1>2. \A s : Walk!Stratum(s)' = Walk!Stratum(s)
  BY <1>1 DEF Walk!Stratum, Walk!TwiceMedian
<1> QED
  BY <1>2 DEF Walk!Hosts, Walk!Senders, Walk!BothStrata

\* The report on a pool adds its scored events to every count, and the pool to
\* a contrast only if its events are of both strata.
LEMMA ReportKeeps ==
  ASSUME WalkInv, ReportInv, Walk!Report
  PROVE  ReportInv'
<1> DEFINE p  == Pools[pool]
           rs == Walk!ScoredOf(p)
           n1 == Cardinality(Walk!FirstHalf(rs))
           n2 == Cardinality(Walk!SecondHalf(rs))
           ag == Walk!Member(p, Walk!Many(rs, MIN_POOL_N) /\ Walk!Pooled(rs))
           pa == Walk!Member(p, Walk!Hosts(p) = Walk!BothStrata /\ Walk!Paired(rs))
           sh == Walk!Member(p, Walk!Shaped(rs))
<1>1. /\ cell > Len(Cells) /\ ~(cell <= Len(Cells)) /\ pool <= Len(Pools) /\ pool' = pool + 1
      /\ UNCHANGED <<cache, fired, cell>>
  <2>1. /\ ~(cell <= Len(Cells)) /\ pool <= Len(Pools) /\ pool' = pool + 1
        /\ UNCHANGED <<cache, fired, cell>>
    BY DEF Walk!Report, Walk!Walking, Walk!walk
  <2>2. cell \in Int /\ Len(Cells) \in Int
    BY WalkLengths DEF WalkInv
  <2> QED
    BY <2>1, <2>2
<1>2. /\ p \in Walk!Range(Pools) /\ rs \subseteq DOMAIN fired
      /\ Cardinality(rs) \in Nat /\ Cardinality(Walk!Beyond(rs)) \in Nat
      /\ n1 \in Nat /\ n2 \in Nat /\ n1 + n2 = Cardinality(rs)
      /\ Cardinality(Done) \in Nat /\ Cardinality(Walk!Beyond(Done)) \in Nat
      /\ Cardinality(Done') = Cardinality(Done) + Cardinality(rs)
      /\ Cardinality(Walk!Beyond(Done)')
           = Cardinality(Walk!Beyond(Done)) + Cardinality(Walk!Beyond(rs))
  BY <1>1, DoneGrows
<1>3. \A n \in rs : fired[n].pool = p
  BY DEF Walk!ScoredOf
<1>4. PICK t : t = Walk!Tails(p, rs)
  OBVIOUS
<1>5. /\ t \in OutType
      /\ t.agreed = out.agreed /\ t.paired = out.paired /\ t.shaped = out.shaped
      /\ t.h1 = out.h1 /\ t.h2 = out.h2
      /\ t.small.n + Summed(SizesOf(t.tails))
           = out.small.n + Summed(SizesOf(out.tails)) + Cardinality(rs)
      /\ t.small.k + Summed(HitsOf(t.tails))
           = out.small.k + Summed(HitsOf(out.tails)) + Cardinality(Walk!Beyond(rs))
  BY <1>2, <1>4, TailsGrow DEF ReportInv
<1>6. PICK hv : hv = IF Walk!Halved(rs) THEN Append(t.halves, [pool |-> p, n1 |-> n1, n2 |-> n2])
                     ELSE t.halves
  OBVIOUS
<1>7. out' = [t EXCEPT !.agreed = t.agreed \cup ag, !.paired = t.paired \cup pa,
                       !.shaped = t.shaped \cup sh, !.h1 = t.h1 + n1, !.h2 = t.h2 + n2,
                       !.halves = hv]
  BY <1>4, <1>6, WalkLibrary DEF Walk!Report
<1>8. ag \subseteq {p} /\ pa \subseteq {p} /\ sh \subseteq {p}
  BY DEF Walk!Member
<1>9. ag \cup pa \cup sh # {} => Walk!Hosts(p) = Walk!BothStrata
  <2>1. \A st : Walk!InStratum(rs, st) \subseteq rs
    BY DEF Walk!InStratum
  <2>2. CASE ag # {}
    <3>1. /\ Walk!Many(Walk!InStratum(rs, "fast"), MIN_STRATUM_N)
          /\ Walk!Many(Walk!InStratum(rs, "slow"), MIN_STRATUM_N)
      BY <2>2 DEF Walk!Member, Walk!Pooled
    <3>2. ASSUME NEW T, Walk!Many(T, MIN_STRATUM_N) PROVE T # {}
      <4>1. Cardinality(T) >= MIN_STRATUM_N /\ MIN_STRATUM_N \in Nat \ {0}
        BY <3>2, WalkLibrary, WalkAssumption DEF Walk!Many
      <4>2. Cardinality(T) # 0
        BY <4>1
      <4> QED
        BY <4>2, FS_EmptySet, Zenon
    <3> QED
      BY <1>2, <1>3, <3>1, <3>2, BothFromCells DEF ReportInv
  <2>3. CASE pa # {}
    BY <2>3 DEF Walk!Member
  <2>4. CASE sh # {}
    <3>1. /\ Walk!Beyond(Walk!InStratum(rs, "fast")) # {}
          /\ Walk!Beyond(Walk!InStratum(rs, "slow")) # {}
      BY <2>4 DEF Walk!Member, Walk!Shaped
    <3>2. Walk!InStratum(rs, "fast") # {} /\ Walk!InStratum(rs, "slow") # {}
      BY <3>1 DEF Walk!Beyond
    <3> QED
      BY <1>2, <1>3, <3>2, BothFromCells DEF ReportInv
  <2> QED
    BY <2>2, <2>3, <2>4
<1> HIDE DEF p, rs, n1, n2, ag, pa, sh
<1>10. hv \in Seq(HalfType)
  <2> DEFINE K == HalfType
  <2>1. t.halves \in Seq(K)
    BY <1>5 DEF OutType
  <2>2. [pool |-> p, n1 |-> n1, n2 |-> n2] \in K
    BY <1>2 DEF HalfType
  <2> HIDE DEF K
  <2>3. hv \in Seq(K)
    BY <1>6, <2>1, <2>2
  <2> QED
    BY <2>3 DEF K
<1>11. /\ out' \in OutType /\ out'.tails = t.tails /\ out'.small = t.small
       /\ out'.h1 = t.h1 + n1 /\ out'.h2 = t.h2 + n2
       /\ out'.agreed = t.agreed \cup ag /\ out'.paired = t.paired \cup pa
       /\ out'.shaped = t.shaped \cup sh
  <2>1. PICK a1, a2, a3, u1, u2 : /\ a1 = t.agreed \cup ag /\ a2 = t.paired \cup pa
                                  /\ a3 = t.shaped \cup sh /\ u1 = t.h1 + n1 /\ u2 = t.h2 + n2
    OBVIOUS
  <2>2. out' = [t EXCEPT !.agreed = a1, !.paired = a2, !.shaped = a3, !.h1 = u1, !.h2 = u2,
                         !.halves = hv]
    BY <1>7, <2>1
  <2>3. /\ a1 \in SUBSET Walk!Range(Pools) /\ a2 \in SUBSET Walk!Range(Pools)
        /\ a3 \in SUBSET Walk!Range(Pools) /\ u1 \in Nat /\ u2 \in Nat
    <3>1. /\ t.agreed \in SUBSET Walk!Range(Pools) /\ t.paired \in SUBSET Walk!Range(Pools)
          /\ t.shaped \in SUBSET Walk!Range(Pools) /\ t.h1 \in Nat /\ t.h2 \in Nat
      BY <1>5 DEF OutType
    <3> QED
      BY <1>2, <1>8, <2>1, <3>1
  <2>4. PICK o : o = out'
    OBVIOUS
  <2>5. o = [t EXCEPT !.agreed = a1, !.paired = a2, !.shaped = a3, !.h1 = u1, !.h2 = u2,
                      !.halves = hv]
    BY <2>2, <2>4
  <2>6. /\ o \in OutType /\ o.tails = t.tails /\ o.small = t.small /\ o.h1 = u1 /\ o.h2 = u2
        /\ o.agreed = a1 /\ o.paired = a2 /\ o.shaped = a3
    <3> DEFINE A1 == Seq(TailType)
               A2 == [n : Nat, k : Nat]
               A3 == Seq(HalfType)
               A6 == SUBSET Walk!Range(Pools)
    <3>1. OutType = [tails : A1, small : A2, halves : A3, h1 : Nat, h2 : Nat, agreed : A6,
                     paired : A6, shaped : A6]
      BY DEF OutType
    <3>2. a1 \in A6 /\ a2 \in A6 /\ a3 \in A6 /\ hv \in A3
      BY <1>10, <2>3
    <3> HIDE DEF A1, A2, A3, A6
    <3>3. t \in [tails : A1, small : A2, halves : A3, h1 : Nat, h2 : Nat, agreed : A6,
                 paired : A6, shaped : A6]
      BY <1>5, <3>1
    <3>4. /\ o \in [tails : A1, small : A2, halves : A3, h1 : Nat, h2 : Nat, agreed : A6,
                    paired : A6, shaped : A6]
          /\ o.tails = t.tails /\ o.small = t.small /\ o.h1 = u1 /\ o.h2 = u2
          /\ o.agreed = a1 /\ o.paired = a2 /\ o.shaped = a3
      BY <2>3, <2>5, <3>2, <3>3
    <3> QED
      BY <3>1, <3>4
  <2> QED
    BY <2>1, <2>4, <2>6
<1>12. /\ (out.h1 + out.h2 = Cardinality(Done))'
       /\ (out.small.n + Summed(SizesOf(out.tails)) = Cardinality(Done))'
       /\ (out.small.k + Summed(HitsOf(out.tails)) = Cardinality(Walk!Beyond(Done)))'
  <2>1. /\ out.h1 \in Nat /\ out.h2 \in Nat
        /\ out.h1 + out.h2 = Cardinality(Done)
        /\ out.small.n + Summed(SizesOf(out.tails)) = Cardinality(Done)
        /\ out.small.k + Summed(HitsOf(out.tails)) = Cardinality(Walk!Beyond(Done))
    BY DEF ReportInv, OutType
  <2>2. out'.h1 + out'.h2 = Cardinality(Done')
    BY <1>2, <1>5, <1>11, <2>1
  <2>3. out'.small.n + Summed(SizesOf(out'.tails)) = Cardinality(Done')
    BY <1>2, <1>5, <1>11, <2>1
  <2>4. out'.small.k + Summed(HitsOf(out'.tails)) = Cardinality(Walk!Beyond(Done)')
    BY <1>2, <1>5, <1>11, <2>1
  <2> QED
    BY <2>2, <2>3, <2>4 DEF SizesOf, HitsOf
<1>13. (pool = 1 => out.agreed \cup out.paired \cup out.shaped = {})'
  <2>1. pool \in Nat /\ pool # 0
    BY DEF WalkInv
  <2>2. pool' # 1
    BY <1>1, <2>1
  <2> QED
    BY <2>2
<1>14. Walk!ContrastsHostBoth'
  <2>1. \A q \in out.agreed \cup out.paired \cup out.shaped : Walk!Hosts(q) = Walk!BothStrata
    BY DEF ReportInv, Walk!ContrastsHostBoth
  <2>2. \A q \in out'.agreed \cup out'.paired \cup out'.shaped : Walk!Hosts(q) = Walk!BothStrata
    BY <1>5, <1>8, <1>9, <1>11, <2>1
  <2>3. \A q : (Walk!Hosts(q) = Walk!BothStrata)' <=> Walk!Hosts(q) = Walk!BothStrata
    BY <1>1, HostsStay
  <2> QED
    BY <2>2, <2>3 DEF Walk!ContrastsHostBoth
<1>15. (\A n \in DOMAIN fired : OfCensus(fired[n]))'
  BY <1>1 DEF ReportInv, OfCensus
<1>16. (cell <= Len(Cells) => pool = 1)'
  BY <1>1
<1> QED
  BY <1>11, <1>12, <1>13, <1>14, <1>15, <1>16 DEF ReportInv
\* Before the first report nothing is divided, whatever is read.
LEMMA NothingDone ==
  ASSUME ReportInv, pool = 1, UNCHANGED <<pool, out>>,
         (\A n \in DOMAIN fired : OfCensus(fired[n]))'
  PROVE  ReportInv'
<1>1. PastPools = {} /\ PastPools' = {}
  BY DEF PastPools
<1>2. Done = {} /\ Done' = {}
  BY <1>1 DEF Done
<1>3. Walk!Beyond(Done) = {} /\ Walk!Beyond(Done)' = {}
  BY <1>2 DEF Walk!Beyond
<1>4. Walk!ContrastsHostBoth'
  BY DEF ReportInv, Walk!ContrastsHostBoth
<1>5. PICK z : z = Cardinality({})
  OBVIOUS
<1>6. /\ Cardinality(Done) = z /\ Cardinality(Done') = z
      /\ Cardinality(Walk!Beyond(Done)) = z /\ Cardinality(Walk!Beyond(Done)') = z
  BY <1>2, <1>3, <1>5, Zenon
<1>7. /\ (out.h1 + out.h2 = Cardinality(Done))'
      /\ (out.small.n + Summed(SizesOf(out.tails)) = Cardinality(Done))'
      /\ (out.small.k + Summed(HitsOf(out.tails)) = Cardinality(Walk!Beyond(Done)))'
  BY <1>6 DEF ReportInv, SizesOf, HitsOf
<1>8. (out \in OutType)' /\ (cell <= Len(Cells) => pool = 1)'
      /\ (pool = 1 => out.agreed \cup out.paired \cup out.shaped = {})'
  BY DEF ReportInv, OutType, TailType, HalfType
<1> QED
  BY <1>4, <1>7, <1>8 DEF ReportInv

LEMMA LocalStays ==
  ASSUME LocalInv, UNCHANGED <<cache, fired, local>>
  PROVE  LocalInv'
<1>1. Sampled' = Sampled
  BY DEF Sampled, Walk!Scored, Walk!ScaleOf
<1>2. Walk!Beyond(Sampled)' = Walk!Beyond(Sampled)
  BY <1>1 DEF Walk!Beyond, Walk!ScaleOf
<1> QED
  BY <1>1, <1>2 DEF LocalInv, LocalType, Lengths, Trues

LEMMA SampleBegins == Walk!Init => LocalInv /\ ReportInv
<1> SUFFICES ASSUME Walk!Init PROVE LocalInv /\ ReportInv
  OBVIOUS
<1>1. /\ fired = <<>> /\ pool = 1 /\ DOMAIN fired = {}
      /\ local = [n |-> 0, miss |-> 0, ratios |-> [k \in DOMAIN Trails |-> <<>>]]
      /\ out = [tails |-> <<>>, small |-> [n |-> 0, k |-> 0], halves |-> <<>>, h1 |-> 0,
                h2 |-> 0, agreed |-> {}, paired |-> {}, shaped |-> {}]
  BY DEF Walk!Init
<1>2. Sampled = {} /\ Done = {}
  BY <1>1 DEF Sampled, Done
<1>3. Walk!Beyond(Sampled) = {} /\ Walk!Beyond(Done) = {}
  BY <1>2 DEF Walk!Beyond
<1>4. /\ Cardinality(Sampled) = 0 /\ Cardinality(Done) = 0
      /\ Cardinality(Walk!Beyond(Sampled)) = 0 /\ Cardinality(Walk!Beyond(Done)) = 0
  <2>1. Cardinality({}) = 0
    BY FS_EmptySet
  <2> QED
    BY <1>2, <1>3, <2>1, Zenon
<1>5. LocalInv
  <2>1. Trails \in Seq(Nat) /\ Trails # <<>>
    BY WalkAssumption
  <2>2. Len(Trails) \in Nat /\ DOMAIN Trails = 1..Len(Trails) /\ 1 \in DOMAIN Trails
    BY <2>1
  <2>3. PICK r : r = [k \in DOMAIN Trails |-> <<>>]
    OBVIOUS
  <2>4. local = [n |-> 0, miss |-> 0, ratios |-> r] /\ r[1] = <<>>
        /\ r \in [DOMAIN Trails -> Seq(BOOLEAN)]
    BY <1>1, <2>2, <2>3
  <2>5. local \in LocalType
    BY <2>4 DEF LocalType
  <2>6. Len(r[1]) = 0 /\ Trues(r[1]) = {}
    BY <2>4 DEF Trues
  <2>7. Cardinality(Trues(r[1])) = 0
    BY <2>6, FS_EmptySet
  <2>8. Summed(Lengths(r)) = 0
    <3>1. PICK h : h = [k \in 1..Len(Trails) |-> IF k \in {} THEN 1 ELSE 0]
      OBVIOUS
    <3>2. Lengths(r) = h
      <4>1. \A k \in 1..Len(Trails) : Len(r[k]) = 0
        BY <2>2, <2>3
      <4> QED
        BY <2>2, <3>1, <4>1 DEF Lengths
    <3>3. {} \subseteq 1..Len(Trails)
      OBVIOUS
    <3>4. Summed(h) = Cardinality({})
      BY <2>2, <3>1, <3>3, MarksAreCounted
    <3> QED
      BY <3>2, <3>4, FS_EmptySet
  <2>9. local.n = 0 /\ local.miss = 0 /\ local.ratios = r
    BY <2>4
  <2>10. Len(Trails) * 0 = 0 + Summed(Lengths(r))
    BY <2>2, <2>8
  <2> QED
    BY <1>4, <2>5, <2>6, <2>7, <2>9, <2>10 DEF LocalInv
<1>6. Summed(SizesOf(<<>>)) = 0 /\ Summed(HitsOf(<<>>)) = 0
  <2>1. SizesOf(<<>>) = <<>> /\ HitsOf(<<>>) = <<>>
    BY DEF SizesOf, HitsOf
  <2>2. <<>> \in Seq(Int) /\ Len(<<>>) = 0
    OBVIOUS
  <2>3. CumSum(<<>>)[0] = 0
    BY <2>2, CumSumIs
  <2> QED
    BY <2>1, <2>2, <2>3 DEF Summed
<1>7. out \in OutType
  <2> DEFINE A1 == Seq(TailType)
             A2 == [n : Nat, k : Nat]
             A3 == Seq(HalfType)
             A6 == SUBSET Walk!Range(Pools)
  <2>1. <<>> \in A1 /\ [n |-> 0, k |-> 0] \in A2 /\ <<>> \in A3 /\ {} \in A6
    OBVIOUS
  <2>2. OutType = [tails : A1, small : A2, halves : A3, h1 : Nat, h2 : Nat, agreed : A6,
                   paired : A6, shaped : A6]
    BY DEF OutType
  <2>3. PICK sm : sm = [n |-> 0, k |-> 0]
    OBVIOUS
  <2> HIDE DEF A1, A2, A3, A6
  <2> QED
    BY <1>1, <2>1, <2>2, <2>3
<1> QED
  BY <1>1, <1>4, <1>5, <1>6, <1>7 DEF ReportInv, Walk!ContrastsHostBoth

LEMMA SampleGoesOn ==
  WalkInv /\ LocalInv /\ ReportInv /\ [Walk!Next]_(Walk!vars) => LocalInv' /\ ReportInv'
<1> SUFFICES ASSUME WalkInv, LocalInv, ReportInv, [Walk!Next]_(Walk!vars)
             PROVE  LocalInv' /\ ReportInv'
  OBVIOUS
<1>1. CASE UNCHANGED Walk!vars
  <2>1. UNCHANGED <<cache, cell, fired, local, pool, out>>
    BY <1>1 DEF Walk!vars, Walk!walk
  <2>2. PastPools' = PastPools /\ Sampled' = Sampled
    BY <2>1 DEF PastPools, Sampled, Walk!Scored, Walk!ScaleOf
  <2>3. Done' = Done
    BY <2>1, <2>2 DEF Done
  <2>4. Walk!Beyond(Done)' = Walk!Beyond(Done)
    BY <2>1, <2>3 DEF Walk!Beyond, Walk!ScaleOf
  <2>5. Walk!ContrastsHostBoth'
    BY <2>1, HostsStay DEF ReportInv, Walk!ContrastsHostBoth
  <2>6. LocalInv'
    BY <2>1, LocalStays
  <2> QED
    BY <2>1, <2>3, <2>4, <2>5, <2>6
       DEF ReportInv, OutType, TailType, HalfType, SizesOf, HitsOf, OfCensus
<1>2. ASSUME NEW r \in Rows, Walk!ReadRow(r) PROVE LocalInv' /\ ReportInv'
  <2>1. cell <= Len(Cells) /\ pool = 1 /\ UNCHANGED <<cache, cell, pool, out>>
    BY <1>2 DEF Walk!ReadRow, Walk!Walking, ReportInv
  <2>2. CASE UNCHANGED <<fired, local>>
    <3>1. (\A n \in DOMAIN fired : OfCensus(fired[n]))'
      BY <2>2 DEF ReportInv, OfCensus
    <3> QED
      BY <2>1, <2>2, <3>1, LocalStays, NothingDone
  <2>3. CASE /\ ~Walk!Interior(Walk!Here, r)
             /\ fired' = Append(fired, Walk!Fired(Walk!Here, r))
             /\ local' = Walk!Localised(Walk!Fired(Walk!Here, r))
    <3>1. PICK e : e = Walk!Fired(Walk!Here, r)
      OBVIOUS
    <3>2. e \in WalkEvents
      BY <2>1, <2>3, <3>1, FiredIsTyped
    <3>3. fired' = Append(fired, e) /\ local' = Walk!Localised(e)
      BY <2>3, <3>1
    <3>4. LocalInv'
      BY <2>1, <3>2, <3>3, LocalGoes
    <3>5. OfCensus(e)
      <4>1. e.sender = Cells[cell].sender /\ e.pool = Cells[cell].pool
        BY <3>1 DEF Walk!Fired, Walk!Here
      <4>2. cell \in DOMAIN Cells
        <5>1. Cells \in Seq([sender : {Cells[n].sender : n \in DOMAIN Cells},
                             pool : Walk!Range(Pools), phi : Nat])
          BY WalkAssumption
        <5>2. DOMAIN Cells = 1..Len(Cells) /\ Len(Cells) \in Nat
          BY <5>1
        <5> QED
          BY <2>1, <5>2 DEF WalkInv
      <4> QED
        BY <4>1, <4>2 DEF OfCensus
    <3>6. \A n \in DOMAIN fired' : OfCensus(fired'[n])
      <4>1. fired \in Seq(WalkEvents)
        BY DEF WalkInv
      <4>2. PICK F : F = fired'
        OBVIOUS
      <4>3. /\ DOMAIN fired = 1..Len(fired) /\ Len(fired) \in Nat
            /\ DOMAIN F = 1..(Len(fired) + 1) /\ F[Len(fired) + 1] = e
            /\ \A n \in 1..Len(fired) : F[n] = fired[n]
        BY <3>2, <3>3, <4>1, <4>2
      <4>4. \A n \in 1..(Len(fired) + 1) : n \in 1..Len(fired) \/ n = Len(fired) + 1
        BY <4>3
      <4>5. \A n \in DOMAIN fired : OfCensus(fired[n])
        BY DEF ReportInv
      <4> QED
        BY <3>5, <4>2, <4>3, <4>4, <4>5
    <3>7. (\A n \in DOMAIN fired : OfCensus(fired[n]))'
      BY <3>6 DEF OfCensus
    <3> QED
      BY <2>1, <3>4, <3>7, NothingDone
  <2> QED
    BY <1>2, <2>2, <2>3 DEF Walk!ReadRow
<1>3. CASE Walk!NextCell
  <2>1. cell <= Len(Cells) /\ pool = 1 /\ UNCHANGED <<cache, fired, local, pool, out>>
    BY <1>3 DEF Walk!NextCell, Walk!Walking, ReportInv
  <2>2. (\A n \in DOMAIN fired : OfCensus(fired[n]))'
    BY <2>1 DEF ReportInv, OfCensus
  <2> QED
    BY <2>1, <2>2, LocalStays, NothingDone
<1>4. CASE Walk!Report
  <2>1. UNCHANGED <<cache, fired, local>>
    BY <1>4 DEF Walk!Report, Walk!walk
  <2> QED
    BY <1>4, <2>1, LocalStays, ReportKeeps
<1> QED
  BY <1>1, <1>2, <1>3, <1>4 DEF Walk!Next

\* Once the last pool is reported, every scored firing is divided.
LEMMA AllIsDone == WalkInv /\ Walk!Reported => Done = Sampled
<1> SUFFICES ASSUME WalkInv, Walk!Reported PROVE Done = Sampled
  OBVIOUS
<1>1. Pools \in Seq(Walk!Range(Pools)) /\ pool \in 1..(Len(Pools) + 1) /\ pool > Len(Pools)
  BY WalkAssumption DEF WalkInv, Walk!Reported
<1>2. DOMAIN Pools = 1..(pool - 1)
  <2>1. DOMAIN Pools = 1..Len(Pools) /\ Len(Pools) \in Nat
    BY <1>1
  <2>2. pool - 1 = Len(Pools)
    BY <1>1, <2>1
  <2> QED
    BY <2>1, <2>2
<1>3. fired \in Seq(WalkEvents)
  BY DEF WalkInv
<1>4. \A n \in DOMAIN fired : fired[n].pool \in Walk!Range(Pools)
  <2>1. \A n \in DOMAIN fired : fired[n] \in WalkEvents
    BY <1>3
  <2> QED
    BY <2>1 DEF WalkEvents
<1> QED
  BY <1>2, <1>4 DEF Done, Sampled, PastPools, Walk!Range

\* The walks of probes 3 and 5 score the same firings, probes 5 and 7 divide
\* them without loss, by pool and by half of the era, and only pools that host
\* both strata are contrasted: for every census, stream, cut and threshold.
THEOREM SampleIsKept == MCSpec => []SampleKept
<1>1. MCInit => WalkInv /\ LocalInv /\ ReportInv
  BY WalkBegins, SampleBegins DEF MCInit
<1>2. WalkInv /\ LocalInv /\ ReportInv /\ [MCNext]_all => LocalInv' /\ ReportInv'
  <2>1. [MCNext]_all => [Walk!Next]_(Walk!vars)
    BY DEF MCNext, all, probeVars, Walk!vars, Walk!walk
  <2> QED
    BY <2>1, SampleGoesOn
<1>3. ASSUME WalkInv, LocalInv, ReportInv PROVE SampleKept
  <2>1. SUFFICES ASSUME Walk!Reported PROVE Walk!SameSample
    BY <1>3 DEF SampleKept, ReportInv, Walk!SameSample
  <2>2. Done = Sampled
    BY <1>3, <2>1, AllIsDone
  <2>3. /\ Len(Trails) * local.n = local.miss + Summed(Lengths(local.ratios))
        /\ Len(local.ratios[1]) = Cardinality(Done)
        /\ Cardinality(Trues(local.ratios[1])) = Cardinality(Walk!Beyond(Done))
    BY <1>3, <2>2 DEF LocalInv
  <2>4. /\ out.h1 + out.h2 = Cardinality(Done)
        /\ out.small.n + Summed(SizesOf(out.tails)) = Cardinality(Done)
        /\ out.small.k + Summed(HitsOf(out.tails)) = Cardinality(Walk!Beyond(Done))
    BY <1>3 DEF ReportInv
  <2>5. /\ Len(local.ratios[1]) = out.h1 + out.h2
        /\ Len(local.ratios[1]) = out.small.n + Walk!Summed(SizesOf(out.tails))
        /\ Walk!Cardinality(Trues(local.ratios[1]))
             = out.small.k + Walk!Summed(HitsOf(out.tails))
        /\ Len(Trails) * local.n = local.miss + Walk!Summed(Lengths(local.ratios))
    BY <2>3, <2>4, WalkSums, WalkLibrary
  <2> QED
    BY <2>5 DEF Walk!SameSample, SizesOf, HitsOf, Trues, Lengths
<1> QED
  BY <1>1, <1>2, <1>3, WalkInvariance, PTL DEF MCSpec
=============================================================================

------------------------ MODULE LiquidityBookProofs ------------------------
(***************************************************************************)
(* Theorems about the Liquidity Book validation.  The pair's parameter     *)
(* word: for every width of its fields and every static setting that       *)
(* setStaticFeeParameters accepts.  The pairing of window_candidates():    *)
(* for every number of transactions, every block and every window.         *)
(***************************************************************************)
EXTENDS MCLiquidityBook, OrderProofs

\* Setting a field keeps a value its mask can hold.
LEMMA Masked ==
  ASSUME NEW m \in Nat, NEW v \in 0..m
  PROVE  v % (m + 1) = v
OBVIOUS

\* A reduction by at most BASIS_POINT_MAX basis points reduces.
LEMMA Reduced ==
  ASSUME NEW a \in Nat, NEW r \in Nat, NEW n \in Nat \ {0}, r <= n
  PROVE  (a * r) \div n \in 0..a
<1>1. a * r \in Nat /\ a * r <= a * n
  OBVIOUS
<1> QED
  BY <1>1
-----------------------------------------------------------------------------
\* The fields of a word, and of its static part.
LEMMA Fields ==
  ASSUME NEW p \in Word
  PROVE  /\ p.static \in Static /\ ValidStatic(p.static)
         /\ p.static.filterPeriod \in Nat /\ p.static.decayPeriod \in Nat
         /\ p.static.reductionFactor \in Nat
         /\ p.static.reductionFactor <= BASIS_POINT_MAX
         /\ p.static.maxVolatilityAccumulator \in 0..MASK_UINT20
         /\ p.volAcc \in 0..MASK_UINT20 /\ p.volRef \in 0..MASK_UINT20
         /\ p.idRef \in 0..MASK_UINT24 /\ p.activeId \in 0..MASK_UINT24
         /\ p.tLast \in 0..MASK_UINT40
<1>1. p.static \in Static /\ ValidStatic(p.static)
  BY DEF Word
<1>2. /\ p.static.filterPeriod \in Nat /\ p.static.decayPeriod \in Nat
      /\ p.static.reductionFactor \in Nat
      /\ p.static.maxVolatilityAccumulator \in 0..MASK_UINT24
  BY <1>1 DEF Static
<1> QED
  BY <1>1, <1>2, PairAssumption DEF Word, ValidStatic

\* The decayed reference fits its field: updateVolatilityReference neither
\* reverts nor loses bits.
LEMMA RefInField ==
  ASSUME NEW p \in Word
  PROVE  /\ NewRef(p) \in 0..MASK_UINT20
         /\ NewRef(p) = (p.volAcc * p.static.reductionFactor) \div BASIS_POINT_MAX
         /\ RefFits(p)
<1> DEFINE v == (p.volAcc * p.static.reductionFactor) \div BASIS_POINT_MAX
<1>1. v \in 0..p.volAcc
  BY Fields, Reduced, PairAssumption
<1> HIDE DEF v
<1>2. v \in 0..MASK_UINT20 /\ v \in 0..MASK_UINT24
  BY <1>1, Fields, PairAssumption
<1>3. v % (MASK_UINT24 + 1) = v
  BY <1>2, Masked, PairAssumption
<1> QED
  BY <1>2, <1>3, PairAssumption DEF NewRef, RefFits, v

\* The accumulator fits its field for every bin, as the cap does.
LEMMA AccInField ==
  ASSUME NEW p \in Word, NEW id \in 0..MASK_UINT24
  PROVE  NewAcc(p, id) \in 0..MASK_UINT20 /\ AccFits(p, id)
<1>1. Distance(id, p.idRef) \in Nat
  BY Fields, PairAssumption DEF Distance
<1>2. Distance(id, p.idRef) * BASIS_POINT_MAX \in Nat
  BY <1>1, PairAssumption
<1> QED
  BY <1>2, Fields, PairAssumption DEF NewAcc, AccFits, Least

\* The setters, on values that fit.
LEMMA Setters ==
  ASSUME NEW p \in Word
  PROVE  /\ \A v \in 0..MASK_UINT20 :
              /\ SetVolRef(p, v) = [p EXCEPT !.volRef = v]
              /\ SetVolAcc(p, v) = [p EXCEPT !.volAcc = v]
              /\ SetVolRef(p, v) \in Word /\ SetVolAcc(p, v) \in Word
         /\ \A ts \in 0..MASK_UINT40 :
              SetTime(p, ts) = [p EXCEPT !.tLast = ts] /\ SetTime(p, ts) \in Word
         /\ \A i \in 0..MASK_UINT24 :
              SetActiveId(p, i) = [p EXCEPT !.activeId = i] /\ SetActiveId(p, i) \in Word
         /\ UpdateIdReference(p) \in Word
<1>1. /\ \A v \in 0..MASK_UINT20 : v % (MASK_UINT20 + 1) = v
      /\ \A v \in 0..MASK_UINT24 : v % (MASK_UINT24 + 1) = v
      /\ \A v \in 0..MASK_UINT40 : v % (MASK_UINT40 + 1) = v
  BY Masked, PairAssumption
<1>2. \A v \in 0..MASK_UINT20 : /\ SetVolRef(p, v) = [p EXCEPT !.volRef = v]
                                /\ SetVolAcc(p, v) = [p EXCEPT !.volAcc = v]
  BY <1>1 DEF SetVolRef, SetVolAcc
<1>3. \A ts \in 0..MASK_UINT40 : SetTime(p, ts) = [p EXCEPT !.tLast = ts]
  BY <1>1 DEF SetTime
<1>4. \A i \in 0..MASK_UINT24 : SetActiveId(p, i) = [p EXCEPT !.activeId = i]
  BY <1>1 DEF SetActiveId
<1>5. UpdateIdReference(p) \in Word
  BY DEF UpdateIdReference, Word
<1>6. \A v \in 0..MASK_UINT20 : SetVolRef(p, v) \in Word /\ SetVolAcc(p, v) \in Word
  BY <1>2 DEF Word
<1>7. \A ts \in 0..MASK_UINT40 : SetTime(p, ts) \in Word
  BY <1>3 DEF Word
<1>8. \A i \in 0..MASK_UINT24 : SetActiveId(p, i) \in Word
  BY <1>4 DEF Word
<1> QED
  BY <1>2, <1>3, <1>4, <1>5, <1>6, <1>7, <1>8

\* What updateReferences leaves: a word with the old static part, accumulator
\* and active bin, whose references are the old ones, or the active bin with a
\* reduced or forgotten volatility.
LEMMA References ==
  ASSUME NEW p \in Word, NEW ts \in 0..MASK_UINT40
  PROVE  LET q == UpdateReferences(p, ts)
         IN  /\ q \in Word
             /\ q.static = p.static /\ q.volAcc = p.volAcc
             /\ q.activeId = p.activeId /\ q.tLast = ts
             /\ q.idRef = IF Due(p, ts) THEN p.activeId ELSE p.idRef
             /\ q.volRef = IF ~Due(p, ts) THEN p.volRef
                           ELSE IF Decays(p, ts) THEN NewRef(p) ELSE 0
<1> DEFINE u == UpdateIdReference(p)
<1>1. u \in Word /\ u = [p EXCEPT !.idRef = p.activeId]
  BY Setters DEF UpdateIdReference
<1>2. NewRef(u) = NewRef(p) /\ NewRef(p) \in 0..MASK_UINT20 /\ 0 \in 0..MASK_UINT20
  <2>1. u.volAcc = p.volAcc /\ u.static = p.static
    BY <1>1 DEF Word
  <2> QED
    BY <2>1, RefInField, PairAssumption DEF NewRef
<1> HIDE DEF u
<1>3. /\ SetVolRef(u, NewRef(p)) = [u EXCEPT !.volRef = NewRef(p)]
      /\ SetVolRef(u, NewRef(p)) \in Word
      /\ SetVolRef(u, 0) = [u EXCEPT !.volRef = 0]
      /\ SetVolRef(u, 0) \in Word
  BY <1>1, <1>2, Setters
<1> DEFINE r == IF ~Due(p, ts) THEN p
                ELSE IF Decays(p, ts) THEN SetVolRef(u, NewRef(p)) ELSE SetVolRef(u, 0)
<1>4. /\ r \in Word
      /\ r.static = p.static /\ r.volAcc = p.volAcc /\ r.activeId = p.activeId
      /\ r.idRef = IF Due(p, ts) THEN p.activeId ELSE p.idRef
      /\ r.volRef = IF ~Due(p, ts) THEN p.volRef
                    ELSE IF Decays(p, ts) THEN NewRef(p) ELSE 0
  BY <1>1, <1>3 DEF Word
<1>5. UpdateReferences(p, ts) = SetTime(r, ts)
  BY <1>2 DEF UpdateReferences, UpdateVolatilityReference, u
<1> HIDE DEF r
<1>6. SetTime(r, ts) \in Word /\ SetTime(r, ts) = [r EXCEPT !.tLast = ts]
  BY <1>4, Setters
<1> QED
  BY <1>4, <1>5, <1>6 DEF Word
-----------------------------------------------------------------------------
\* No update of a word reverts.
LEMMA Fits ==
  ASSUME NEW p \in Word, NEW id \in 0..MASK_UINT24, NEW ts \in 0..MASK_UINT40
  PROVE  UpdateFits(p, id, ts)
<1>1. RefFits(UpdateIdReference(p))
  BY Setters, RefInField
<1>2. AccFits(UpdateReferences(p, ts), id)
  BY References, AccInField
<1> QED
  BY <1>1, <1>2 DEF UpdateFits

\* What a trade that ends in bin id leaves.
LEMMA Updated ==
  ASSUME NEW p \in Word, NEW id \in 0..MASK_UINT24, NEW ts \in 0..MASK_UINT40
  PROVE  LET q == UpdateReferences(p, ts)
             w == UpdateVolatilityParameters(p, id, ts)
         IN  /\ w \in Word
             /\ w = [q EXCEPT !.volAcc = NewAcc(q, id)]
             /\ SetActiveId(w, id) \in Word
             /\ SetActiveId(w, id) = [w EXCEPT !.activeId = id]
<1> DEFINE q == UpdateReferences(p, ts)
<1>1. q \in Word
  BY References
<1>2. NewAcc(q, id) \in 0..MASK_UINT20
  BY <1>1, AccInField
<1> HIDE DEF q
<1>3. SetVolAcc(q, NewAcc(q, id)) = [q EXCEPT !.volAcc = NewAcc(q, id)]
      /\ SetVolAcc(q, NewAcc(q, id)) \in Word
  BY <1>1, <1>2, Setters
<1>4. UpdateVolatilityParameters(p, id, ts) = SetVolAcc(q, NewAcc(q, id))
  BY DEF UpdateVolatilityParameters, UpdateVolatilityAccumulator, q
<1>5. SetActiveId(SetVolAcc(q, NewAcc(q, id)), id) \in Word
      /\ SetActiveId(SetVolAcc(q, NewAcc(q, id)), id)
           = [SetVolAcc(q, NewAcc(q, id)) EXCEPT !.activeId = id]
  BY <1>3, Setters
<1> QED
  BY <1>3, <1>4, <1>5 DEF q

\* The inductive invariant: the accumulator is recomputable from the rest.
IInv == TypeOK /\ Recomputable

LEMMA InitInv == Init => IInv
<1> SUFFICES ASSUME Init PROVE IInv
  OBVIOUS
<1>1. PICK s \in Statics, i \in Ids :
        ValidStatic(s) /\ params = UpdateIdReference(SetActiveId(Empty(s), i))
  BY DEF Init
<1>2. s \in Static /\ i \in 0..MASK_UINT24
  BY PairAssumption
<1>3. Empty(s) \in Word
  BY <1>1, <1>2, PairAssumption DEF Empty, Word
<1>4. SetActiveId(Empty(s), i) = [Empty(s) EXCEPT !.activeId = i]
      /\ SetActiveId(Empty(s), i) \in Word
  BY <1>2, <1>3, Setters
<1>5. params = [static |-> s, volAcc |-> 0, volRef |-> 0, idRef |-> i, tLast |-> 0,
                activeId |-> i]
  BY <1>1, <1>4 DEF UpdateIdReference, Empty
<1>6. params \in Word
  BY <1>1, <1>4, Setters
<1>7. TypeOK
  <2>1. params.tLast = 0 /\ params.activeId = i /\ params.idRef = i
    BY <1>5
  <2>2. now = 0 /\ now \in 0..MASK_UINT40 /\ stale = FALSE
    BY PairAssumption DEF Init
  <2>3. params.tLast <= now
    BY <2>1, <2>2
  <2>4. params.activeId \in Ids /\ params.idRef \in Ids
    BY <1>1, <2>1
  <2>5. stale \in BOOLEAN
    BY <2>2
  <2> QED
    BY <1>6, <2>2, <2>3, <2>4, <2>5 DEF TypeOK
<1>8. NewAcc(params, params.activeId) = 0
  <2>1. Distance(i, i) = 0
    BY <1>2 DEF Distance
  <2>2. 0 * BASIS_POINT_MAX = 0 /\ s.maxVolatilityAccumulator \in Nat
    BY <1>2, PairAssumption DEF Static
  <2> QED
    BY <1>5, <2>1, <2>2 DEF NewAcc, Least
<1> QED
  BY <1>5, <1>7, <1>8 DEF IInv, Recomputable

LEMMA UpdateKeeps ==
  ASSUME IInv, NEW id \in Ids, Update(id)
  PROVE  IInv'
<1> DEFINE q == UpdateReferences(params, now)
           w == UpdateVolatilityParameters(params, id, now)
<1>1. params \in Word /\ now \in 0..MASK_UINT40 /\ id \in 0..MASK_UINT24
  BY PairAssumption DEF IInv, TypeOK
<1>2. /\ w = [q EXCEPT !.volAcc = NewAcc(q, id)] /\ w \in Word
      /\ SetActiveId(w, id) \in Word
      /\ SetActiveId(w, id) = [w EXCEPT !.activeId = id]
  BY <1>1, Updated
<1>3. /\ q \in Word /\ q.tLast = now
      /\ q.idRef = IF Due(params, now) THEN params.activeId ELSE params.idRef
  BY <1>1, References
<1>4. params' = SetActiveId(w, id) /\ stale' = FALSE /\ now' = now
  BY DEF Update
<1> HIDE DEF q, w
<1>5. params' = [q EXCEPT !.volAcc = NewAcc(q, id), !.activeId = id]
  BY <1>2, <1>3, <1>4 DEF Word
<1>6. TypeOK'
  <2>1. params'.tLast = now /\ params'.activeId = id /\ params'.idRef = q.idRef
    BY <1>3, <1>5 DEF Word
  <2>2. q.idRef \in Ids
    BY <1>3 DEF IInv, TypeOK
  <2>3. params'.tLast <= now' /\ now' \in 0..MASK_UINT40
    BY <1>1, <1>4, <2>1
  <2> QED
    BY <1>2, <1>4, <2>1, <2>2, <2>3 DEF TypeOK
<1>7. Recomputable'
  <2>1. /\ params'.activeId = id /\ params'.volAcc = NewAcc(q, id)
        /\ params'.volRef = q.volRef /\ params'.idRef = q.idRef
        /\ params'.static = q.static
    BY <1>3, <1>5 DEF Word
  <2> QED
    BY <2>1 DEF Recomputable, NewAcc
<1> QED
  BY <1>6, <1>7 DEF IInv

LEMMA StepInv == IInv /\ [Next]_vars => IInv'
<1> SUFFICES ASSUME IInv, [Next]_vars PROVE IInv'
  OBVIOUS
<1>1. CASE Tick
  BY <1>1, PairAssumption DEF Tick, IInv, TypeOK, Recomputable, Word
<1>2. CASE Swap
  BY <1>2, UpdateKeeps DEF Swap
<1>3. CASE AddLiquidity
  BY <1>3, UpdateKeeps DEF AddLiquidity, IInv, TypeOK
<1>4. CASE SetParameters
  <2>1. PICK s \in Statics : ValidStatic(s) /\ params' = [params EXCEPT !.static = s]
    BY <1>4 DEF SetParameters, SetStatic
  <2>2. s \in Static /\ params \in Word
    BY PairAssumption DEF IInv, TypeOK
  <2>3. /\ params' \in Word /\ params'.tLast = params.tLast
        /\ params'.idRef = params.idRef /\ params'.activeId = params.activeId
    BY <2>1, <2>2 DEF Word
  <2> QED
    BY <1>4, <2>3 DEF SetParameters, IInv, TypeOK, Recomputable
<1>5. CASE UNCHANGED vars
  BY <1>5 DEF vars, IInv, TypeOK, Recomputable
<1> QED
  BY <1>1, <1>2, <1>3, <1>4, <1>5 DEF Next

LEMMA Invariance == Spec => []IInv
BY InitInv, StepInv, PTL DEF Spec

\* The word and the time are of their types, and the word's time is not ahead.
THEOREM TypeCorrect == Spec => []TypeOK
<1>1. IInv => TypeOK
  BY DEF IInv
<1> QED
  BY <1>1, Invariance, PTL

\* updateVolatilityParameters never reverts with InvalidParameter, whatever
\* trades and settings came before: the reverts in the setters are unreachable.
THEOREM UpdatesNeverRevert == Spec => []NeverReverts
<1>1. IInv => NeverReverts
  BY Fits, PairAssumption DEF IInv, TypeOK, NeverReverts
<1> QED
  BY <1>1, Invariance, PTL

\* The stored accumulator is a function of the references and the active bin.
THEOREM AccumulatorRecomputable == Spec => []Recomputable
<1>1. IInv => Recomputable
  BY DEF IInv
<1> QED
  BY <1>1, Invariance, PTL

\* Packing the getters gives the word they were read from.
LEMMA PackedWord ==
  ASSUME NEW p \in Word
  PROVE  Packed(p) = p
<1> DEFINE e == Empty(p.static)
           a == SetActiveId(e, p.idRef)
           b == UpdateIdReference(a)
           c == SetVolAcc(SetVolRef(b, p.volRef), p.volAcc)
           d == SetTime(c, p.tLast)
<1>1. e \in Word
  BY Fields, PairAssumption DEF Empty, Word
<1>2. a \in Word /\ a = [e EXCEPT !.activeId = p.idRef]
  BY <1>1, Fields, Setters
<1>3. b \in Word /\ b = [a EXCEPT !.idRef = p.idRef]
  BY <1>1, <1>2, Setters DEF UpdateIdReference, Word
<1> HIDE DEF b
<1>4. SetVolRef(b, p.volRef) \in Word
      /\ SetVolRef(b, p.volRef) = [b EXCEPT !.volRef = p.volRef]
  BY <1>3, Fields, Setters
<1>5. c \in Word /\ c = [SetVolRef(b, p.volRef) EXCEPT !.volAcc = p.volAcc]
  BY <1>4, Fields, Setters
<1> HIDE DEF c
<1>6. d \in Word /\ d = [c EXCEPT !.tLast = p.tLast]
  BY <1>5, Fields, Setters
<1> HIDE DEF d
<1>7. SetActiveId(d, p.activeId) = [d EXCEPT !.activeId = p.activeId]
  BY <1>6, Fields, Setters
<1>8. Packed(p) = SetActiveId(d, p.activeId)
  BY DEF Packed, a, b, c, d
<1>9. /\ a.static = p.static /\ b.static = p.static /\ b.idRef = p.idRef
      /\ c.static = p.static /\ c.idRef = p.idRef /\ c.volRef = p.volRef
      /\ c.volAcc = p.volAcc
  BY <1>1, <1>2, <1>3, <1>4, <1>5 DEF Empty, Word
<1>10. [d EXCEPT !.activeId = p.activeId] = p
  BY <1>5, <1>6, <1>9 DEF Word
<1> QED
  BY <1>7, <1>8, <1>10

\* The word the fork suite quotes from is the deployed pair's, in every state
\* the pair can be in, not only at the pinned block.
THEOREM PackedIsPairs == Spec => []PackedIsOwn
<1>1. IInv => PackedIsOwn
  BY PackedWord DEF IInv, TypeOK, PackedIsOwn
<1> QED
  BY <1>1, Invariance, PTL

\* total_fee() of lb_anchor.py is the fee of the contract's helpers.
THEOREM AnchorFeeAgrees == Spec => []AnchorAgrees
<1>1. ASSUME TypeOK PROVE AnchorAgrees
  <2> DEFINE q == UpdateReferences(params, now)
             w == UpdateVolatilityParameters(params, params.activeId, now)
  <2>1. params \in Word /\ now \in 0..MASK_UINT40 /\ params.activeId \in 0..MASK_UINT24
    BY <1>1, PairAssumption DEF TypeOK
  <2>2. w = [q EXCEPT !.volAcc = NewAcc(q, params.activeId)]
    BY <2>1, Updated
  <2>3. /\ q \in Word /\ q.static = params.static
        /\ q.idRef = IF Due(params, now) THEN params.activeId ELSE params.idRef
        /\ q.volRef = IF ~Due(params, now) THEN params.volRef
                      ELSE IF Decays(params, now) THEN NewRef(params) ELSE 0
    BY <2>1, References
  <2>4. NewRef(params)
          = (params.volAcc * params.static.reductionFactor) \div BASIS_POINT_MAX
    BY <2>1, RefInField
  <2> HIDE DEF q, w
  <2>5. w.static = params.static /\ w.volAcc = NewAcc(q, params.activeId)
    BY <2>2, <2>3 DEF Word
  <2>6. NewAcc(q, params.activeId) = AnchorAcc(params, now)
    BY <2>3, <2>4 DEF NewAcc, AnchorAcc, Due, Decays
  <2>7. AnchorFee(params, now) = TotalFee(w)
    BY <2>5, <2>6 DEF AnchorFee, TotalFee, BaseFee, VariableFee
  <2> QED
    BY <2>7 DEF AnchorAgrees, w
<1> QED
  BY <1>1, TypeCorrect, PTL

\* A quote at the active bin after the decay period is the base fee: the check
\* filterPeriod <= decayPeriod of setStaticFeeParameters makes it so.
THEOREM DecayIsComplete == Spec => []DecayForgets
<1>1. ASSUME TypeOK, ~Decays(params, now)
      PROVE  TotalFee(ViewPath(params, now)) = BaseFee(params)
  <2> DEFINE q == UpdateReferences(params, now)
             w == UpdateVolatilityParameters(params, params.activeId, now)
  <2>1. params \in Word /\ now \in 0..MASK_UINT40 /\ params.activeId \in 0..MASK_UINT24
    BY <1>1, PairAssumption DEF TypeOK
  <2>2. Due(params, now)
    <3>1. params.static.filterPeriod <= params.static.decayPeriod
      BY <2>1, Fields DEF ValidStatic
    <3> QED
      BY <1>1, <2>1, <3>1, Fields, PairAssumption DEF Due, Decays
  <2>3. w = [q EXCEPT !.volAcc = NewAcc(q, params.activeId)]
    BY <2>1, Updated
  <2>4. /\ q \in Word /\ q.static = params.static
        /\ q.idRef = params.activeId /\ q.volRef = 0
    BY <1>1, <2>1, <2>2, References
  <2> HIDE DEF q, w
  <2>5. NewAcc(q, params.activeId) = 0
    <3>1. Distance(params.activeId, params.activeId) = 0
      BY <2>1, PairAssumption DEF Distance
    <3>2. 0 * BASIS_POINT_MAX = 0 /\ q.static.maxVolatilityAccumulator \in Nat
      BY <2>4, Fields, PairAssumption
    <3> QED
      BY <2>4, <3>1, <3>2 DEF NewAcc, Least
  <2>6. w.static = params.static /\ w.volAcc = 0
    BY <2>3, <2>4, <2>5 DEF Word
  <2>7. VariableFee(w) = 0
    <3>1. params.static.variableFeeControl \in Int
      BY <2>1, Fields, PairAssumption DEF Static
    <3>2. 0 * BIN_STEP = 0 /\ 0 * 0 * params.static.variableFeeControl = 0
      BY <3>1, PairAssumption
    <3>3. (0 + 99) \div 100 = 0
      OBVIOUS
    <3> QED
      BY <2>6, <3>2, <3>3 DEF VariableFee
  <2>8. BaseFee(w) = BaseFee(params) /\ BaseFee(params) \in Int
    <3>1. params.static.baseFactor \in Int
      BY <2>1, Fields, PairAssumption DEF Static
    <3> QED
      BY <2>6, <3>1, PairAssumption DEF BaseFee
  <2>9. ViewPath(params, now) = w
    BY <2>1, PackedWord DEF ViewPath, w
  <2> QED
    BY <2>7, <2>8, <2>9 DEF TotalFee
<1>2. TypeOK => DecayForgets
  BY <1>1 DEF DecayForgets
<1> QED
  BY <1>2, TypeCorrect, PTL

\* A quote inside the filter period is the fee of the last trade: nothing is
\* due, and the stored accumulator is the one a quote computes again.
THEOREM QuietInFilter == Spec => []QuietQuote
<1>1. ASSUME IInv, ~stale, ~Due(params, now)
      PROVE  TotalFee(ViewPath(params, now)) = TotalFee(params)
  <2> DEFINE q == UpdateReferences(params, now)
             w == UpdateVolatilityParameters(params, params.activeId, now)
  <2>1. /\ params \in Word /\ now \in 0..MASK_UINT40 /\ params.activeId \in 0..MASK_UINT24
        /\ params.volAcc = NewAcc(params, params.activeId)
    BY <1>1, PairAssumption DEF IInv, TypeOK, Recomputable
  <2>2. w = [q EXCEPT !.volAcc = NewAcc(q, params.activeId)]
    BY <2>1, Updated
  <2>3. /\ q \in Word /\ q.static = params.static
        /\ q.idRef = params.idRef /\ q.volRef = params.volRef
    BY <1>1, <2>1, References
  <2> HIDE DEF q, w
  <2>4. NewAcc(q, params.activeId) = params.volAcc
    BY <2>1, <2>3 DEF NewAcc
  <2>5. w.static = params.static /\ w.volAcc = params.volAcc
    BY <2>2, <2>3, <2>4 DEF Word
  <2>6. ViewPath(params, now) = w
    BY <2>1, PackedWord DEF ViewPath, w
  <2> QED
    BY <2>5, <2>6 DEF TotalFee, BaseFee, VariableFee
<1>2. IInv => QuietQuote
  BY <1>1 DEF QuietQuote
<1> QED
  BY <1>2, Invariance, PTL
-----------------------------------------------------------------------------
(* The streams of a pair.                                                   *)
PairEvents == [block : Blocks, kind : {"W", "D"}, tx : 1..NTX]

\* The stream is sorted: the blocks ascend, and in a block the deposits are
\* before the withdraws.
SortedAt(at, s) ==
  /\ s \in Seq(PairEvents)
  /\ \A j \in DOMAIN s : s[j].block = at[s[j].tx]
  /\ \A j, k \in DOMAIN s : j < k =>
       \/ s[j].block < s[k].block
       \/ /\ s[j].block = s[k].block
          /\ s[j].kind = "W" => s[k].kind = "W"
Sorted == blockOf \in [1..NTX -> Blocks] /\ SortedAt(blockOf, evs)

LEMMA SizesAgree == \A T : Pairing!Cardinality(T) = Cardinality(T)
BY DEF Pairing!Cardinality, Cardinality, Pairing!IsFiniteSet, IsFiniteSet

\* The tuples' order is strict and total.
LEMMA TupleOrder ==
  /\ \A a \in PairEvents : ~Pairing!Before(a, a)
  /\ \A a, b, c \in PairEvents :
       Pairing!Before(a, b) /\ Pairing!Before(b, c) => Pairing!Before(a, c)
  /\ \A a, b \in PairEvents : a = b \/ Pairing!Before(a, b) \/ Pairing!Before(b, a)
<1>1. \A a \in PairEvents : /\ a.block \in Nat /\ a.tx \in Nat
                            /\ a.kind \in {"W", "D"}
  <2> TAKE a \in PairEvents
  <2>1. a.block \in Blocks /\ a.kind \in {"W", "D"} /\ a.tx \in 1..NTX
    BY DEF PairEvents
  <2>2. a.block \in Nat
    BY <2>1, PairingAssumption
  <2>3. a.tx \in Nat
    BY <2>1
  <2> QED
    BY <2>1, <2>2, <2>3
<1>2. \A a, b \in PairEvents :
        a.block = b.block /\ a.kind = b.kind /\ a.tx = b.tx => a = b
  BY DEF PairEvents
<1>3. ASSUME NEW a \in PairEvents PROVE ~Pairing!Before(a, a)
  <2>1. a.block \in Nat /\ a.tx \in Nat
    BY <1>1
  <2> QED
    BY <2>1 DEF Pairing!Before
<1>4. ASSUME NEW a \in PairEvents, NEW b \in PairEvents, NEW c \in PairEvents,
             Pairing!Before(a, b), Pairing!Before(b, c)
      PROVE  Pairing!Before(a, c)
  <2>1. /\ a.block \in Nat /\ b.block \in Nat /\ c.block \in Nat
        /\ a.tx \in Nat /\ b.tx \in Nat /\ c.tx \in Nat
    BY <1>1
  <2> QED
    BY <1>4, <2>1 DEF Pairing!Before
<1>5. ASSUME NEW a \in PairEvents, NEW b \in PairEvents,
             a # b, ~Pairing!Before(a, b)
      PROVE  Pairing!Before(b, a)
  <2>1. /\ a.block \in Nat /\ b.block \in Nat /\ a.tx \in Nat /\ b.tx \in Nat
        /\ a.kind \in {"W", "D"} /\ b.kind \in {"W", "D"}
    BY <1>1
  <2>2. a.block # b.block \/ a.kind # b.kind \/ a.tx # b.tx
    BY <1>2, <1>5
  <2> QED
    BY <1>5, <2>1, <2>2 DEF Pairing!Before
<1> QED
  BY <1>3, <1>4, <1>5

\* sorted() sorts.
LEMMA StreamIsSorted ==
  ASSUME NEW at \in [1..NTX -> Blocks], NEW has,
         NEW again \in Pairing!Copies(Pairing!Once(at, has))
  PROVE  SortedAt(at, Pairing!Stream((Pairing!Once(at, has) \X {1}) \cup again))
<1> USE PairingAssumption
<1> DEFINE E == Pairing!Once(at, has)
           S == (E \X {1}) \cup again
           O == {p \in S \X S : Pairing!Lower(p[1], p[2])}
           ranked == Pairing!Ranked(S, Pairing!Lower)
           s == Pairing!Stream(S)
<1>1. /\ E \subseteq PairEvents /\ \A e \in E : e.block = at[e.tx]
      /\ S \subseteq E \X {1, 2}
  BY DEF Pairing!Once, Pairing!Copies, Pairing!Txs, Pairing!Kinds, PairEvents
<1>2. IsFiniteSet(E)
  <2> DEFINE f == [e \in E |-> <<e.tx, e.kind>>]
             T == (1..NTX) \X {"W", "D"}
  <2>1. f \in [E -> T]
    BY <1>1 DEF PairEvents
  <2>2. \A a, b \in E : f[a] = f[b] => a = b
    BY <1>1 DEF PairEvents
  <2>3. f \in Injection(E, T)
    BY <2>1, <2>2 DEF Injection, IsInjective
  <2>4. IsFiniteSet(1..NTX) /\ IsFiniteSet({"W", "D"})
    <3>1. {"W", "D"} = {"W"} \cup {"D"}
      OBVIOUS
    <3>2. IsFiniteSet({"W"} \cup {"D"})
      BY FS_Singleton, FS_AddElement
    <3>3. 1 \in Int /\ NTX \in Int
      OBVIOUS
    <3>4. IsFiniteSet(1..NTX)
      BY <3>3, FS_Interval
    <3> QED
      BY <3>1, <3>2, <3>4
  <2>5. IsFiniteSet(T)
    BY <2>4, FS_Product
  <2> QED
    BY <2>3, <2>5, FS_Injection
<1>3. IsFiniteSet(S)
  <2>1. IsFiniteSet({1, 2})
    <3>1. {1, 2} = {1} \cup {2}
      OBVIOUS
    <3>2. IsFiniteSet({1} \cup {2})
      BY FS_Singleton, FS_AddElement
    <3> QED
      BY <3>1, <3>2
  <2>2. IsFiniteSet(E \X {1, 2})
    BY <1>2, <2>1, FS_Product
  <2> QED
    BY <1>1, <2>2, FS_Subset
<1>4. ASSUME NEW a \in S
      PROVE  /\ a[1] \in PairEvents /\ a[1].block \in Nat /\ a[1].tx \in Nat
             /\ a[1].kind \in {"W", "D"} /\ a[1].block = at[a[1].tx]
             /\ a[2] \in {1, 2} /\ a = <<a[1], a[2]>>
             /\ a[1] = [block |-> a[1].block, kind |-> a[1].kind, tx |-> a[1].tx]
  BY <1>1 DEF PairEvents
<1>5. ASSUME NEW a \in S, NEW b \in S
      PROVE  <<a, b>> \in O <=> Pairing!Lower(a, b)
  OBVIOUS
<1> HIDE DEF S, E, O
<1>6. OrdersStrictly(O, S)
  <2>1. ASSUME NEW a \in S PROVE <<a, a>> \notin O
    <3>1. a[1] \in PairEvents /\ a[2] \in {1, 2}
      BY <1>4
    <3>2. ~(a[2] < a[2])
      BY <3>1
    <3>3. ~Pairing!Lower(a, a)
      BY <3>1, <3>2, TupleOrder DEF Pairing!Lower
    <3> QED
      BY <1>5, <3>3
  <2>2. ASSUME NEW a \in S, NEW b \in S, NEW c \in S, <<a, b>> \in O, <<b, c>> \in O
        PROVE  <<a, c>> \in O
    <3>1. Pairing!Lower(a, b) /\ Pairing!Lower(b, c)
      BY <1>5, <2>2
    <3>2. /\ a[1] \in PairEvents /\ b[1] \in PairEvents /\ c[1] \in PairEvents
          /\ a[2] \in {1, 2} /\ b[2] \in {1, 2} /\ c[2] \in {1, 2}
      BY <1>4
    <3>3. Pairing!Before(a[1], b[1]) /\ Pairing!Before(b[1], c[1])
            => Pairing!Before(a[1], c[1])
      BY <3>2, TupleOrder
    <3>4. Pairing!Lower(a, c)
      BY <3>1, <3>2, <3>3 DEF Pairing!Lower
    <3> QED
      BY <1>5, <3>4
  <2>3. ASSUME NEW a \in S, NEW b \in S, a # b, <<a, b>> \notin O
        PROVE  <<b, a>> \in O
    <3>1. ~Pairing!Lower(a, b)
      BY <1>5, <2>3
    <3>2. /\ a[1] \in PairEvents /\ b[1] \in PairEvents
          /\ a[2] \in {1, 2} /\ b[2] \in {1, 2}
          /\ a = <<a[1], a[2]>> /\ b = <<b[1], b[2]>>
      BY <1>4
    <3>3. Pairing!Lower(b, a)
      <4>1. CASE a[1] = b[1]
        <5>1. a[2] # b[2]
          BY <2>3, <3>2, <4>1
        <5>2. ~(a[2] < b[2])
          BY <3>1, <4>1 DEF Pairing!Lower
        <5>3. b[2] < a[2]
          BY <3>2, <5>1, <5>2
        <5> QED
          BY <4>1, <5>3 DEF Pairing!Lower
      <4>2. CASE a[1] # b[1]
        BY <3>1, <3>2, <4>2, TupleOrder DEF Pairing!Lower
      <4> QED
        BY <4>1, <4>2
    <3> QED
      BY <1>5, <3>3
  <2> QED
    BY <2>1, <2>2, <2>3 DEF OrdersStrictly
<1>7. /\ DOMAIN ranked = 1..Cardinality(S)
      /\ \A k \in DOMAIN ranked : ranked[k] = AtRank(k, O, S)
  <2>1. \A r \in S : {q \in S : Pairing!Lower(q, r)} = Preceding(r, O, S)
    BY <1>5 DEF Preceding
  <2>2. \A k : (CHOOSE r \in S : Cardinality({q \in S : Pairing!Lower(q, r)}) = k - 1)
              = CHOOSE r \in S : Cardinality(Preceding(r, O, S)) = k - 1
    BY <2>1
  <2> QED
    BY <2>2, SizesAgree DEF Pairing!Ranked, AtRank
<1> HIDE DEF ranked, s
<1>8. /\ \A k \in DOMAIN ranked : ranked[k] \in S
      /\ \A j, k \in DOMAIN ranked : j < k => <<ranked[j], ranked[k]>> \in O
  BY <1>3, <1>6, <1>7, RankedInOrder
<1>9. Cardinality(S) \in Nat
  BY <1>3, FS_CardinalityType
<1>10. s = [k \in DOMAIN ranked |-> ranked[k][1]]
  BY DEF Pairing!Stream, s, ranked
<1>11. s \in Seq(PairEvents) /\ DOMAIN s = DOMAIN ranked
  <2>1. s \in [1..Cardinality(S) -> PairEvents]
    <3>1. \A k \in DOMAIN ranked : ranked[k][1] \in PairEvents
      BY <1>4, <1>8
    <3> QED
      BY <1>7, <1>10, <3>1
  <2>2. \A n \in Nat : \A f \in [1..n -> PairEvents] : f \in Seq(PairEvents)
    OBVIOUS
  <2> QED
    BY <1>7, <1>9, <1>10, <2>1, <2>2
<1>12. \A j \in DOMAIN s : s[j].block = at[s[j].tx]
  BY <1>4, <1>8, <1>10
<1>13. ASSUME NEW j \in DOMAIN s, NEW k \in DOMAIN s, j < k
       PROVE  \/ s[j].block < s[k].block
              \/ /\ s[j].block = s[k].block
                 /\ s[j].kind = "W" => s[k].kind = "W"
  <2>1. ranked[j] \in S /\ ranked[k] \in S /\ <<ranked[j], ranked[k]>> \in O
    BY <1>8, <1>11, <1>13
  <2>2. Pairing!Lower(ranked[j], ranked[k])
    BY <1>5, <2>1
  <2>3. s[j] = ranked[j][1] /\ s[k] = ranked[k][1]
    BY <1>10, <1>11
  <2> QED
    BY <1>4, <2>1, <2>2, <2>3 DEF Pairing!Lower, Pairing!Before
<1> QED
  BY <1>11, <1>12, <1>13 DEF SortedAt, s, S, E
-----------------------------------------------------------------------------
(* The pairing.                                                             *)
Edge(w, d) == /\ Pairing!Has(w, "W") /\ Pairing!Has(d, "D")
              /\ blockOf[w] < blockOf[d] /\ blockOf[d] <= blockOf[w] + WINDOW

LEMMA StreamFacts ==
  ASSUME Sorted
  PROVE  /\ Len(evs) \in Nat /\ DOMAIN evs = 1..Len(evs)
         /\ \A j \in 1..Len(evs) :
              /\ evs[j].tx \in 1..NTX /\ evs[j].kind \in {"W", "D"}
              /\ evs[j].block = blockOf[evs[j].tx] /\ evs[j].block \in Nat
         /\ \A t \in 1..NTX : blockOf[t] \in Nat
         /\ \A j, k \in 1..Len(evs) : j < k => evs[j].block <= evs[k].block
         /\ \A j, k \in 1..Len(evs) :
              j < k /\ evs[j].kind = "W" /\ evs[k].kind = "D"
                => evs[j].block < evs[k].block
<1>1. Len(evs) \in Nat /\ DOMAIN evs = 1..Len(evs)
  BY DEF Sorted, SortedAt
<1>2. \A t \in 1..NTX : blockOf[t] \in Nat
  BY PairingAssumption DEF Sorted, SortedAt
<1>3. ASSUME NEW j \in 1..Len(evs)
      PROVE  /\ evs[j].tx \in 1..NTX /\ evs[j].kind \in {"W", "D"}
             /\ evs[j].block = blockOf[evs[j].tx] /\ evs[j].block \in Nat
  <2>1. evs[j] \in PairEvents
    BY <1>1 DEF Sorted, SortedAt
  <2>2. evs[j].tx \in 1..NTX /\ evs[j].kind \in {"W", "D"}
    BY <2>1 DEF PairEvents
  <2>3. evs[j].block = blockOf[evs[j].tx]
    BY <1>1 DEF Sorted, SortedAt
  <2> QED
    BY <1>2, <2>2, <2>3
<1>4. ASSUME NEW j \in 1..Len(evs), NEW k \in 1..Len(evs), j < k
      PROVE  /\ evs[j].block <= evs[k].block
             /\ evs[j].kind = "W" /\ evs[k].kind = "D" => evs[j].block < evs[k].block
  <2>1. \/ evs[j].block < evs[k].block
        \/ /\ evs[j].block = evs[k].block
           /\ evs[j].kind = "W" => evs[k].kind = "W"
    BY <1>1, <1>4 DEF Sorted, SortedAt
  <2>2. evs[j].block \in Nat /\ evs[k].block \in Nat
    BY <1>3
  <2> QED
    BY <2>1, <2>2
<1> QED
  BY <1>1, <1>2, <1>3, <1>4

\* A deposit that follows a withdraw is in a later block.
LEMMA FollowsIsEdge ==
  ASSUME Sorted, NEW w \in 1..NTX, NEW d \in 1..NTX
  PROVE  Pairing!Follows(w, d) <=> Edge(w, d)
<1>1. ASSUME NEW j \in 1..Len(evs), NEW k \in 1..Len(evs),
             evs[j].tx = w, evs[j].kind = "W", evs[k].tx = d, evs[k].kind = "D"
      PROVE  j < k <=> blockOf[w] < blockOf[d]
  <2>1. /\ evs[j].block = blockOf[w] /\ evs[k].block = blockOf[d]
        /\ blockOf[w] \in Nat /\ blockOf[d] \in Nat
    BY <1>1, StreamFacts
  <2>2. j < k => evs[j].block < evs[k].block
    BY <1>1, StreamFacts
  <2>3. k < j => evs[k].block <= evs[j].block
    BY <1>1, StreamFacts
  <2>4. j # k
    BY <1>1
  <2>5. j < k \/ k < j
    BY <2>4, StreamFacts
  <2> QED
    BY <2>1, <2>2, <2>3, <2>5
<1>2. blockOf[w] \in Nat /\ blockOf[d] \in Nat /\ DOMAIN evs = 1..Len(evs)
  BY StreamFacts
<1>3. Pairing!Follows(w, d) => Edge(w, d)
  BY <1>1, <1>2 DEF Pairing!Follows, Edge
<1>4. ASSUME Edge(w, d) PROVE Pairing!Follows(w, d)
  <2>1. PICK j \in DOMAIN evs : evs[j].tx = w /\ evs[j].kind = "W"
    BY <1>4 DEF Edge, Pairing!Has
  <2>2. PICK k \in DOMAIN evs : evs[k].tx = d /\ evs[k].kind = "D"
    BY <1>4 DEF Edge, Pairing!Has
  <2>3. j < k
    BY <1>1, <1>2, <1>4, <2>1, <2>2 DEF Edge
  <2>4. w # d
    BY <1>2, <1>4 DEF Edge
  <2> QED
    BY <1>4, <2>1, <2>2, <2>3, <2>4 DEF Pairing!Follows, Edge
<1> QED
  BY <1>3, <1>4

\* What an assignment is.
LEMMA AssignmentFacts ==
  ASSUME Sorted
  PROVE  /\ \A f \in Pairing!Assignments :
              /\ IsFiniteSet(f) /\ Cardinality(f) \in Nat
              /\ f \subseteq (1..NTX) \X (1..NTX)
              /\ \A p \in f : Edge(p[1], p[2])
              /\ \A p, q \in f : p # q => p[1] # q[1] /\ p[2] # q[2]
         /\ \A f \in SUBSET ((1..NTX) \X (1..NTX)) :
              /\ \A p \in f : Edge(p[1], p[2])
              /\ \A p, q \in f : p # q => p[1] # q[1] /\ p[2] # q[2]
              => f \in Pairing!Assignments
<1>1. ASSUME NEW p \in (1..NTX) \X (1..NTX)
      PROVE  Pairing!Follows(p[1], p[2]) <=> Edge(p[1], p[2])
  BY FollowsIsEdge
<1>2. IsFiniteSet((1..NTX) \X (1..NTX))
  <2>1. 1 \in Int /\ NTX \in Int
    BY PairingAssumption
  <2>2. IsFiniteSet(1..NTX)
    BY <2>1, FS_Interval
  <2> QED
    BY <2>2, FS_Product
<1>3. Pairing!Assignments =
        {f \in SUBSET {p \in (1..NTX) \X (1..NTX) : Pairing!Follows(p[1], p[2])} :
           \A p, q \in f : p # q => p[1] # q[1] /\ p[2] # q[2]}
  BY DEF Pairing!Assignments, Pairing!Txs
<1>4. ASSUME NEW f \in Pairing!Assignments
      PROVE  /\ IsFiniteSet(f) /\ Cardinality(f) \in Nat
             /\ f \subseteq (1..NTX) \X (1..NTX)
             /\ \A p \in f : Edge(p[1], p[2])
             /\ \A p, q \in f : p # q => p[1] # q[1] /\ p[2] # q[2]
  <2>1. f \in SUBSET ((1..NTX) \X (1..NTX))
    BY <1>3
  <2>2. IsFiniteSet(f)
    BY <1>2, <2>1, FS_Subset
  <2>3. Cardinality(f) \in Nat
    BY <2>2, FS_CardinalityType
  <2>4. \A p \in f : Edge(p[1], p[2])
    BY <1>1, <1>3
  <2>5. \A p, q \in f : p # q => p[1] # q[1] /\ p[2] # q[2]
    BY <1>3
  <2> QED
    BY <2>1, <2>2, <2>3, <2>4, <2>5
<1>5. ASSUME NEW f \in SUBSET ((1..NTX) \X (1..NTX)),
             \A p \in f : Edge(p[1], p[2]),
             \A p, q \in f : p # q => p[1] # q[1] /\ p[2] # q[2]
      PROVE  f \in Pairing!Assignments
  <2>1. \A p \in f : Pairing!Follows(p[1], p[2])
    BY <1>1, <1>5
  <2> QED
    BY <1>3, <1>5, <2>1
<1> QED
  BY <1>4, <1>5

Candidates == {matched[c] : c \in DOMAIN matched}

\* Every assignment of deposits to withdraws can be exchanged, candidate by
\* candidate, for one that has the candidates and is no smaller.
Extensible == \A f \in Pairing!Assignments :
                \E g \in Pairing!Assignments :
                  Candidates \subseteq g /\ Cardinality(f) <= Cardinality(g)

\* A withdraw the loop has passed has its nearest deposit, or an earlier
\* withdraw has it.
Served == \A w \in wSeen, d \in 1..NTX : Edge(w, d) =>
            \E c \in DOMAIN matched :
              \/ matched[c][1] = w /\ blockOf[matched[c][2]] <= blockOf[d]
              \/ matched[c][2] = d /\ blockOf[matched[c][1]] <= blockOf[w]

PairingInv ==
  /\ Sorted
  /\ pos \in 1..(Len(evs) + 1)
  /\ wSeen \subseteq 1..NTX /\ dSeen \subseteq 1..NTX
  /\ \A j \in 1..Len(evs) : j < pos /\ evs[j].kind = "W" => evs[j].tx \in wSeen
  /\ \A w \in wSeen : \E j \in 1..Len(evs) : j < pos /\ evs[j].kind = "W" /\ evs[j].tx = w
  /\ matched \in Seq((1..NTX) \X (1..NTX))
  /\ \A c \in DOMAIN matched : /\ matched[c][1] \in wSeen /\ matched[c][2] \in dSeen
                               /\ Edge(matched[c][1], matched[c][2])
  /\ \A d \in dSeen : \E c \in DOMAIN matched : matched[c][2] = d
  /\ Pairing!NoneTwice
  /\ Served
  /\ Extensible

LEMMA PairingBegins == Pairing!Init => PairingInv
<1> SUFFICES ASSUME Pairing!Init PROVE PairingInv
  OBVIOUS
<1>1. /\ blockOf \in [1..NTX -> Blocks] /\ evs \in Pairing!Streams(blockOf)
      /\ pos = 1 /\ wSeen = {} /\ dSeen = {} /\ matched = <<>>
  BY DEF Pairing!Init, Pairing!Txs
<1>2. PICK E \in {Pairing!Once(blockOf, has) :
                    has \in [Pairing!Txs -> SUBSET Pairing!Kinds]} :
        evs \in {Pairing!Stream((E \X {1}) \cup again) : again \in Pairing!Copies(E)}
  BY <1>1 DEF Pairing!Streams
<1>3. PICK has \in [Pairing!Txs -> SUBSET Pairing!Kinds] : E = Pairing!Once(blockOf, has)
  BY <1>2
<1>7. PICK again \in Pairing!Copies(E) : evs = Pairing!Stream((E \X {1}) \cup again)
  BY <1>2
<1>8. Sorted
  <2>1. /\ blockOf \in [1..NTX -> Blocks]
        /\ again \in Pairing!Copies(Pairing!Once(blockOf, has))
        /\ evs = Pairing!Stream((Pairing!Once(blockOf, has) \X {1}) \cup again)
    BY <1>1, <1>3, <1>7
  <2>2. SortedAt(blockOf, evs)
    BY <2>1, StreamIsSorted
  <2> QED
    BY <2>1, <2>2 DEF Sorted
<1>4. DOMAIN matched = {} /\ Candidates = {}
  BY <1>1 DEF Candidates
<1>5. Extensible
  <2> SUFFICES ASSUME NEW f \in Pairing!Assignments
               PROVE  \E g \in Pairing!Assignments :
                        Candidates \subseteq g /\ Cardinality(f) <= Cardinality(g)
    BY DEF Extensible
  <2>1. Cardinality(f) <= Cardinality(f)
    BY <1>8, AssignmentFacts
  <2> QED
    BY <1>4, <2>1
<1>6. Len(evs) \in Nat
  BY <1>8, StreamFacts
<1> QED
  BY <1>1, <1>8, <1>4, <1>5, <1>6 DEF PairingInv, Served, Pairing!NoneTwice

\* The withdraw at the loop's place: it is of the latest block so far, the
\* withdraws to come are not earlier, and the partners the loop finds are the
\* deposits that follow and are free.
LEMMA AtPlace ==
  ASSUME PairingInv, pos <= Len(evs), evs[pos].kind = "W", evs[pos].tx \notin wSeen
  PROVE  LET w == evs[pos].tx
         IN /\ w \in 1..NTX /\ pos \in 1..Len(evs) /\ evs[pos].block = blockOf[w]
            /\ \A v \in wSeen : blockOf[v] <= blockOf[w]
            /\ \A v \in 1..NTX : v \notin wSeen /\ Pairing!Has(v, "W") => blockOf[w] <= blockOf[v]
            /\ \A j \in Pairing!Partners(evs[pos]) :
                 /\ j \in 1..Len(evs) /\ evs[j].tx \in 1..NTX /\ evs[j].tx \notin dSeen
                 /\ Edge(w, evs[j].tx)
            /\ \A d \in 1..NTX : Edge(w, d) /\ d \notin dSeen =>
                 \E j \in Pairing!Partners(evs[pos]) : evs[j].tx = d
<1> DEFINE w == evs[pos].tx
<1>1. Sorted /\ Len(evs) \in Nat /\ DOMAIN evs = 1..Len(evs)
  BY StreamFacts DEF PairingInv
<1>2. pos \in 1..Len(evs)
  BY <1>1 DEF PairingInv
<1>3. w \in 1..NTX /\ evs[pos].block = blockOf[w] /\ blockOf[w] \in Nat
  BY <1>1, <1>2, StreamFacts
<1>4. ASSUME NEW v \in wSeen PROVE blockOf[v] <= blockOf[w]
  <2>1. PICK j \in 1..Len(evs) : j < pos /\ evs[j].kind = "W" /\ evs[j].tx = v
    BY DEF PairingInv
  <2>2. evs[j].block <= evs[pos].block /\ evs[j].block = blockOf[v]
    BY <1>1, <1>2, <2>1, StreamFacts
  <2> QED
    BY <1>3, <2>2
<1>5. ASSUME NEW v \in 1..NTX, v \notin wSeen, Pairing!Has(v, "W")
      PROVE  blockOf[w] <= blockOf[v]
  <2>1. PICK j \in 1..Len(evs) : evs[j].tx = v /\ evs[j].kind = "W"
    BY <1>1, <1>5 DEF Pairing!Has
  <2>2. ~(j < pos)
    BY <1>5, <2>1 DEF PairingInv
  <2>3. j = pos \/ pos < j
    BY <1>2, <2>2
  <2>4. CASE j = pos
    BY <1>3, <2>1, <2>4
  <2>5. CASE pos < j
    <3>1. evs[pos].block <= evs[j].block /\ evs[j].block = blockOf[v]
      BY <1>1, <1>2, <2>1, <2>5, StreamFacts
    <3> QED
      BY <1>3, <3>1
  <2> QED
    BY <2>3, <2>4, <2>5
<1>6. Pairing!Partners(evs[pos]) =
        {j \in pos..Len(evs) : /\ evs[j].block <= evs[pos].block + WINDOW
                               /\ evs[j].kind = "D" /\ evs[j].tx # w /\ evs[j].tx \notin dSeen}
  BY DEF Pairing!Partners, Pairing!Reach
<1>7. ASSUME NEW j \in Pairing!Partners(evs[pos])
      PROVE  /\ j \in 1..Len(evs) /\ evs[j].tx \in 1..NTX /\ evs[j].tx \notin dSeen
             /\ Edge(w, evs[j].tx)
  <2>1. /\ j \in 1..Len(evs) /\ pos <= j /\ evs[j].kind = "D" /\ evs[j].tx \notin dSeen
        /\ evs[j].block <= evs[pos].block + WINDOW
    BY <1>1, <1>2, <1>6
  <2>2. pos < j
    <3>1. pos # j
      BY <2>1
    <3> QED
      BY <1>2, <2>1, <3>1
  <2>3. evs[pos].block < evs[j].block /\ evs[j].tx \in 1..NTX
        /\ evs[j].block = blockOf[evs[j].tx]
    BY <1>1, <1>2, <2>1, <2>2, StreamFacts
  <2>4. Pairing!Has(w, "W") /\ Pairing!Has(evs[j].tx, "D")
    BY <1>1, <1>2, <2>1 DEF Pairing!Has
  <2> QED
    BY <1>3, <2>1, <2>3, <2>4 DEF Edge
<1>8. ASSUME NEW d \in 1..NTX, Edge(w, d), d \notin dSeen
      PROVE  \E j \in Pairing!Partners(evs[pos]) : evs[j].tx = d
  <2>1. PICK j \in 1..Len(evs) : evs[j].tx = d /\ evs[j].kind = "D"
    BY <1>1, <1>8 DEF Edge, Pairing!Has
  <2>2. /\ evs[j].block = blockOf[d] /\ blockOf[d] \in Nat
        /\ blockOf[w] < blockOf[d] /\ blockOf[d] <= blockOf[w] + WINDOW
    BY <1>1, <1>8, <2>1, StreamFacts DEF Edge
  <2>3. ~(j < pos)
    <3>1. j < pos => evs[j].block <= evs[pos].block
      BY <1>1, <1>2, StreamFacts
    <3> QED
      BY <1>3, <2>2, <3>1
  <2>4. d # w
    BY <1>3, <2>2
  <2>5. j \in pos..Len(evs)
    BY <1>1, <1>2, <2>3
  <2> QED
    BY <1>3, <1>6, <1>8, <2>1, <2>2, <2>4, <2>5
<1> QED
  BY <1>2, <1>3, <1>4, <1>5, <1>7, <1>8

\* Replacing members by as many others keeps the size.
LEMMA Exchanged ==
  ASSUME NEW g, IsFiniteSet(g), NEW x, x \notin g
  PROVE  /\ Cardinality(g \cup {x}) >= Cardinality(g)
         /\ \A p \in g : Cardinality((g \ {p}) \cup {x}) = Cardinality(g)
<1>1. Cardinality(g) \in Nat /\ Cardinality(g \cup {x}) = Cardinality(g) + 1
  BY FS_CardinalityType, FS_AddElement
<1>2. ASSUME NEW p \in g
      PROVE  Cardinality((g \ {p}) \cup {x}) = Cardinality(g)
  <2>1. IsFiniteSet(g \ {p}) /\ Cardinality(g \ {p}) = Cardinality(g) - 1
    BY FS_RemoveElement
  <2>2. Cardinality((g \ {p}) \cup {x}) = Cardinality(g \ {p}) + 1
    BY <2>1, FS_AddElement
  <2> QED
    BY <1>1, <2>1, <2>2
<1> QED
  BY <1>1, <1>2

LEMMA Between ==
  ASSUME NEW a \in Nat, NEW b \in Nat, NEW c \in Nat, NEW e \in Nat, NEW n \in Nat,
         a < b, b <= c, c <= e + n, e <= a
  PROVE  a < c /\ c <= a + n
OBVIOUS

\* The exchange: an assignment that has the candidates so far becomes one that
\* has the next candidate, too.
LEMMA Exchange ==
  ASSUME PairingInv, pos <= Len(evs), evs[pos].kind = "W", evs[pos].tx \notin wSeen,
         NEW m \in Pairing!Partners(evs[pos]),
         \A j \in Pairing!Partners(evs[pos]) : m <= j,
         NEW g \in Pairing!Assignments, Candidates \subseteq g
  PROVE  \E h \in Pairing!Assignments :
           /\ Candidates \cup {<<evs[pos].tx, evs[m].tx>>} \subseteq h
           /\ Cardinality(g) <= Cardinality(h)
<1> DEFINE w == evs[pos].tx
           d == evs[m].tx
           x == <<w, d>>
           Pairs == (1..NTX) \X (1..NTX)
<1>1. Sorted /\ Len(evs) \in Nat
  BY StreamFacts DEF PairingInv
<1>2. /\ w \in 1..NTX /\ d \in 1..NTX /\ w \notin wSeen /\ d \notin dSeen /\ Edge(w, d)
      /\ m \in 1..Len(evs) /\ x \in Pairs /\ x[1] = w /\ x[2] = d
  BY AtPlace
<1>3. \A c \in Candidates : c \in Pairs /\ c[1] \in wSeen /\ c[2] \in dSeen
  BY DEF PairingInv, Candidates
<1>4. ASSUME NEW e \in 1..NTX, Edge(w, e), e \notin dSeen
      PROVE  blockOf[d] <= blockOf[e]
  <2>1. PICK j \in Pairing!Partners(evs[pos]) : evs[j].tx = e
    BY <1>4, AtPlace
  <2>2. m <= j /\ j \in 1..Len(evs)
    BY <2>1, AtPlace
  <2>3. m < j \/ m = j
    BY <1>1, <1>2, <2>2
  <2>4. /\ evs[m].block = blockOf[d] /\ evs[j].block = blockOf[e]
        /\ m < j => evs[m].block <= evs[j].block
        /\ blockOf[d] \in Nat
    BY <1>1, <1>2, <2>1, <2>2, StreamFacts
  <2>5. CASE m = j
    BY <2>1, <2>4, <2>5
  <2> QED
    BY <2>3, <2>4, <2>5
<1>5. /\ IsFiniteSet(g) /\ Cardinality(g) \in Nat /\ g \subseteq Pairs
      /\ \A p \in g : Edge(p[1], p[2])
      /\ \A p, q \in g : p # q => p[1] # q[1] /\ p[2] # q[2]
  BY <1>1, AssignmentFacts
<1> HIDE DEF w, d, x
<1>6. CASE x \in g
  BY <1>5, <1>6 DEF w, d, x
<1>7. CASE x \notin g
  <2>1. CASE \A p \in g : p[1] # w /\ p[2] # d
    <3> DEFINE h == g \cup {x}
    <3>1. h \in Pairing!Assignments
      <4>1. h \in SUBSET Pairs /\ \A p \in h : Edge(p[1], p[2])
        BY <1>2, <1>5
      <4>2. \A p, q \in h : p # q => p[1] # q[1] /\ p[2] # q[2]
        BY <1>2, <1>5, <2>1
      <4> QED
        BY <1>1, <4>1, <4>2, AssignmentFacts
    <3>2. Cardinality(g) <= Cardinality(h)
      BY <1>1, <1>5, <1>7, <3>1, Exchanged, AssignmentFacts
    <3>3. Candidates \cup {<<evs[pos].tx, evs[m].tx>>} \subseteq h
      BY DEF x, w, d
    <3> QED
      BY <3>1, <3>2, <3>3
  <2>2. ASSUME NEW p \in g, p[1] = w \/ p[2] = d, \A q \in g \ {p} : q[1] # w /\ q[2] # d
        PROVE  \E h \in Pairing!Assignments :
                 /\ Candidates \cup {<<evs[pos].tx, evs[m].tx>>} \subseteq h
                 /\ Cardinality(g) <= Cardinality(h)
    <3> DEFINE h == (g \ {p}) \cup {x}
    <3>1. h \in Pairing!Assignments
      <4>1. h \in SUBSET Pairs /\ \A q \in h : Edge(q[1], q[2])
        BY <1>2, <1>5
      <4>2. \A q, r \in h : q # r => q[1] # r[1] /\ q[2] # r[2]
        BY <1>2, <1>5, <2>2
      <4> QED
        BY <1>1, <4>1, <4>2, AssignmentFacts
    <3>2. Cardinality(h) = Cardinality(g)
      BY <1>5, <1>7, Exchanged
    <3>3. p \notin Candidates
      BY <1>2, <1>3, <2>2
    <3>4. Candidates \cup {<<evs[pos].tx, evs[m].tx>>} \subseteq h
      BY <3>3 DEF x, w, d
    <3> QED
      BY <1>5, <3>1, <3>2, <3>4
  <2>3. ASSUME NEW p \in g, NEW q \in g, p # q, p[1] = w, q[2] = d
        PROVE  \E h \in Pairing!Assignments :
                 /\ Candidates \cup {<<evs[pos].tx, evs[m].tx>>} \subseteq h
                 /\ Cardinality(g) <= Cardinality(h)
    <3> DEFINE y == <<q[1], p[2]>>
               h == (((g \ {p}) \cup {x}) \ {q}) \cup {y}
    <3>0. /\ q[1] \in 1..NTX /\ p[2] \in 1..NTX /\ y \in Pairs
          /\ y[1] = q[1] /\ y[2] = p[2]
          /\ Edge(w, p[2]) /\ Edge(q[1], d) /\ q[1] # w /\ p[2] # d
          /\ p = <<w, p[2]>> /\ q = <<q[1], d>>
      BY <1>5, <2>3
    <3>1. p[2] \notin dSeen
      <4> SUFFICES ASSUME p[2] \in dSeen PROVE FALSE
        OBVIOUS
      <4>1. PICK c \in Candidates : c[2] = p[2]
        BY DEF PairingInv, Candidates
      <4>2. c[1] # w
        BY <1>2, <1>3
      <4> QED
        BY <1>5, <2>3, <4>1, <4>2
    <3>2. q[1] \notin wSeen
      <4> SUFFICES ASSUME q[1] \in wSeen PROVE FALSE
        OBVIOUS
      <4>1. PICK c \in DOMAIN matched : matched[c][1] = q[1] \/ matched[c][2] = d
        BY <1>2, <3>0 DEF PairingInv, Served
      <4>2. matched[c] \in Candidates
        BY DEF Candidates
      <4>3. matched[c][2] # d /\ matched[c] \in g
        BY <1>2, <1>3, <4>2
      <4> QED
        BY <1>5, <2>3, <4>1, <4>3
    <3>3. Edge(q[1], p[2])
      <4>1. blockOf[d] <= blockOf[p[2]]
        BY <1>4, <3>0, <3>1
      <4>2. blockOf[w] <= blockOf[q[1]]
        <5>1. Pairing!Has(q[1], "W")
          BY <3>0 DEF Edge
        <5> QED
          BY <3>0, <3>2, <5>1, AtPlace DEF w
      <4>3. /\ blockOf[q[1]] < blockOf[d] /\ blockOf[p[2]] <= blockOf[w] + WINDOW
            /\ Pairing!Has(q[1], "W") /\ Pairing!Has(p[2], "D")
        BY <3>0 DEF Edge
      <4>4. /\ blockOf[q[1]] \in Nat /\ blockOf[d] \in Nat
            /\ blockOf[p[2]] \in Nat /\ blockOf[w] \in Nat /\ WINDOW \in Nat
        BY <1>1, <1>2, <3>0, StreamFacts, PairingAssumption
      <4>5. blockOf[q[1]] < blockOf[p[2]] /\ blockOf[p[2]] <= blockOf[q[1]] + WINDOW
        BY <4>1, <4>2, <4>3, <4>4, Between
      <4> QED
        BY <4>3, <4>5 DEF Edge
    <3>4. y \notin g /\ y # x
      BY <1>2, <1>5, <2>3, <3>0
    <3> HIDE DEF y
    <3>5. h \in Pairing!Assignments
      <4>1. h \in SUBSET Pairs /\ \A r \in h : Edge(r[1], r[2])
        BY <1>2, <1>5, <3>0, <3>3
      <4>2. \A r \in (g \ {p}) \ {q} : /\ r[1] # w /\ r[1] # q[1]
                                      /\ r[2] # d /\ r[2] # p[2]
        BY <1>5, <2>3
      <4>3. \A r, s \in h : r # s => r[1] # s[1] /\ r[2] # s[2]
        BY <1>2, <1>5, <3>0, <4>2
      <4> QED
        BY <1>1, <4>1, <4>3, AssignmentFacts
    <3>6. Cardinality(h) = Cardinality(g)
      <4> DEFINE e == (g \ {p}) \cup {x}
      <4>1. Cardinality(e) = Cardinality(g)
        BY <1>5, <1>7, Exchanged
      <4>2. IsFiniteSet(e)
        <5>1. IsFiniteSet(g \ {p})
          BY <1>5, FS_RemoveElement
        <5> QED
          BY <5>1, FS_AddElement
      <4>3. q \in e /\ y \notin e
        BY <2>3, <3>4
      <4>4. Cardinality((e \ {q}) \cup {y}) = Cardinality(e)
        BY <4>2, <4>3, Exchanged
      <4> QED
        BY <4>1, <4>4
    <3>7. p \notin Candidates /\ q \notin Candidates
      BY <1>2, <1>3, <2>3
    <3>8. x # q
      BY <1>7
    <3>9. Candidates \cup {<<evs[pos].tx, evs[m].tx>>} \subseteq h
      BY <3>7, <3>8 DEF x, w, d
    <3> QED
      BY <1>5, <3>5, <3>6, <3>9
  <2>4. CASE \E p \in g : p[1] = w \/ p[2] = d
    <3>1. PICK p \in g : p[1] = w \/ p[2] = d
      BY <2>4
    <3>2. CASE \A q \in g \ {p} : q[1] # w /\ q[2] # d
      BY <2>2, <3>1, <3>2
    <3>3. CASE \E q \in g \ {p} : q[1] = w \/ q[2] = d
      <4>1. PICK q \in g \ {p} : q[1] = w \/ q[2] = d
        BY <3>3
      <4>2. \/ p[1] = w /\ q[2] = d
            \/ q[1] = w /\ p[2] = d
        BY <1>5, <3>1, <4>1
      <4> QED
        BY <2>3, <4>1, <4>2
    <3> QED
      BY <3>2, <3>3
  <2> QED
    BY <2>1, <2>4
<1> QED
  BY <1>6, <1>7

\* What only the stream decides stays while the stream does.
LEMMA StaticParts ==
  ASSUME Sorted, blockOf' = blockOf, evs' = evs
  PROVE  /\ Sorted' /\ Pairing!Assignments' = Pairing!Assignments
         /\ \A v, e : Edge(v, e)' <=> Edge(v, e)
<1>1. Sorted'
  BY DEF Sorted, SortedAt
<1>2. \A v, e : Edge(v, e)' <=> Edge(v, e)
  BY DEF Edge, Pairing!Has
<1>3. Pairing!Assignments' = Pairing!Assignments
  BY DEF Pairing!Assignments, Pairing!Follows, Pairing!Has, Pairing!Txs
<1> QED
  BY <1>1, <1>2, <1>3

\* The exchanges stay possible while no candidate is added, and the withdraws
\* stay served while none is passed.
LEMMA Standing ==
  ASSUME Sorted, blockOf' = blockOf, evs' = evs, matched' = matched
  PROVE  /\ Extensible => Extensible'
         /\ Served /\ wSeen' = wSeen => Served'
<1>1. /\ Pairing!Assignments' = Pairing!Assignments /\ Candidates' = Candidates
      /\ \A v, e : Edge(v, e)' <=> Edge(v, e)
  BY StaticParts DEF Candidates
<1>2. Extensible => Extensible'
  BY <1>1 DEF Extensible
<1>3. ASSUME Served, wSeen' = wSeen PROVE Served'
  <2>1. \A w \in wSeen, d \in 1..NTX : Edge(w, d) =>
          \E c \in DOMAIN matched :
            \/ matched[c][1] = w /\ blockOf[matched[c][2]] <= blockOf[d]
            \/ matched[c][2] = d /\ blockOf[matched[c][1]] <= blockOf[w]
    BY <1>3 DEF Served
  <2> QED
    BY <1>1, <1>3, <2>1 DEF Served
<1> QED
  BY <1>2, <1>3

\* A step of the loop.
LEMMA PairingGoesOn == PairingInv /\ Pairing!Next => PairingInv'
<1> SUFFICES ASSUME PairingInv, Pairing!Next PROVE PairingInv'
  OBVIOUS
<1> DEFINE w == evs[pos].tx
<1>1. /\ pos <= Len(evs) /\ pos' = pos + 1 /\ blockOf' = blockOf /\ evs' = evs
      /\ Sorted /\ Len(evs) \in Nat /\ DOMAIN evs = 1..Len(evs) /\ pos \in 1..Len(evs)
  BY StreamFacts DEF Pairing!Next, PairingInv
<1>2. /\ Sorted' /\ Pairing!Assignments' = Pairing!Assignments
      /\ pos' \in 1..(Len(evs') + 1)
      /\ \A v, e : Edge(v, e)' <=> Edge(v, e)
  BY <1>1, StaticParts
<1>3. \A j \in 1..Len(evs) : j < pos' <=> j < pos \/ j = pos
  BY <1>1
<1>4. w \in 1..NTX
  BY <1>1, StreamFacts
<1>5. CASE Pairing!Skip
  <2>1. wSeen' = wSeen /\ dSeen' = dSeen /\ matched' = matched
    BY <1>5 DEF Pairing!Skip
  <2>2. \A j \in 1..Len(evs) : j < pos' /\ evs[j].kind = "W" => evs[j].tx \in wSeen
    BY <1>3, <1>5 DEF Pairing!Skip, PairingInv
  <2>3. \A v \in wSeen : \E j \in 1..Len(evs) : j < pos' /\ evs[j].kind = "W" /\ evs[j].tx = v
    BY <1>3 DEF PairingInv
  <2>4. Served' /\ Extensible'
    BY <1>1, <1>2, <2>1, Standing DEF PairingInv
  <2>6. Pairing!NoneTwice'
    BY <2>1 DEF PairingInv, Pairing!NoneTwice
  <2> QED
    BY <1>1, <1>2, <2>1, <2>2, <2>3, <2>4, <2>6 DEF PairingInv
<1>6. ASSUME evs[pos].kind = "W", w \notin wSeen, wSeen' = wSeen \cup {w}
      PROVE  /\ wSeen' \subseteq 1..NTX
             /\ \A j \in 1..Len(evs') : j < pos' /\ evs'[j].kind = "W" => evs'[j].tx \in wSeen'
             /\ \A v \in wSeen' : \E j \in 1..Len(evs') :
                  j < pos' /\ evs'[j].kind = "W" /\ evs'[j].tx = v
  <2>1. \A j \in 1..Len(evs) : j < pos' /\ evs[j].kind = "W" => evs[j].tx \in wSeen'
    BY <1>3, <1>6 DEF PairingInv
  <2>2. ASSUME NEW v \in wSeen'
        PROVE  \E j \in 1..Len(evs) : j < pos' /\ evs[j].kind = "W" /\ evs[j].tx = v
    <3>1. CASE v \in wSeen
      BY <1>3, <3>1 DEF PairingInv
    <3>2. CASE v = w
      BY <1>1, <1>3, <1>6, <3>2
    <3> QED
      BY <1>6, <2>2, <3>1, <3>2
  <2>3. wSeen' \subseteq 1..NTX
    BY <1>4, <1>6 DEF PairingInv
  <2> QED
    BY <1>1, <2>1, <2>2, <2>3
<1>7. CASE Pairing!Leave
  <2>1. /\ evs[pos].kind = "W" /\ w \notin wSeen /\ wSeen' = wSeen \cup {w}
        /\ Pairing!Partners(evs[pos]) = {} /\ dSeen' = dSeen /\ matched' = matched
    BY <1>7 DEF Pairing!Leave
  <2>2. ASSUME NEW v \in wSeen', NEW e \in 1..NTX, Edge(v, e)
        PROVE  \E c \in DOMAIN matched :
                 \/ matched[c][1] = v /\ blockOf[matched[c][2]] <= blockOf[e]
                 \/ matched[c][2] = e /\ blockOf[matched[c][1]] <= blockOf[v]
    <3>1. CASE v \in wSeen
      BY <2>2, <3>1 DEF PairingInv, Served
    <3>2. CASE v = w
      <4>1. e \in dSeen
        BY <1>1, <2>1, <2>2, <3>2, AtPlace
      <4>2. PICK c \in DOMAIN matched : matched[c][2] = e
        BY <4>1 DEF PairingInv
      <4>3. matched[c][1] \in wSeen
        BY DEF PairingInv
      <4>4. blockOf[matched[c][1]] <= blockOf[w]
        BY <1>1, <2>1, <4>3, AtPlace
      <4> QED
        BY <3>2, <4>2, <4>4
    <3> QED
      BY <2>1, <2>2, <3>1, <3>2
  <2>3. Served'
    BY <1>1, <1>2, <2>1, <2>2 DEF Served
  <2>4. Extensible'
    BY <1>1, <1>2, <2>1, Standing DEF PairingInv
  <2>5. Pairing!NoneTwice'
    BY <2>1 DEF PairingInv, Pairing!NoneTwice
  <2>6. \A c \in DOMAIN matched' : /\ matched'[c][1] \in wSeen' /\ matched'[c][2] \in dSeen'
                                   /\ Edge(matched[c][1], matched[c][2])'
    BY <1>2, <2>1 DEF PairingInv
  <2> QED
    BY <1>1, <1>2, <1>6, <2>1, <2>3, <2>4, <2>5, <2>6 DEF PairingInv
<1>8. CASE Pairing!Match
  <2> DEFINE P == Pairing!Partners(evs[pos])
             m == Pairing!Nearest(P)
             d == evs[m].tx
  <2>1. /\ evs[pos].kind = "W" /\ w \notin wSeen /\ wSeen' = wSeen \cup {w} /\ P # {}
        /\ dSeen' = dSeen \cup {d} /\ matched' = Append(matched, <<w, d>>)
    BY <1>8 DEF Pairing!Match, Pairing!Deposit
  <2>2. m \in P /\ \A j \in P : m <= j
    <3>1. P \subseteq Nat
      BY <1>1, <2>1, AtPlace
    <3>2. \E l \in P : \A j \in P : l <= j
      BY <2>1, <3>1, LeastNat
    <3> QED
      BY <3>2 DEF Pairing!Nearest, Pairing!Min
  <2>3. /\ m \in 1..Len(evs) /\ d \in 1..NTX /\ d \notin dSeen /\ Edge(w, d)
    BY <1>1, <2>1, <2>2, AtPlace
  <2> HIDE DEF m, P
  <2>4. /\ matched \in Seq((1..NTX) \X (1..NTX))
        /\ matched' \in Seq((1..NTX) \X (1..NTX))
        /\ Len(matched) \in Nat /\ DOMAIN matched = 1..Len(matched)
        /\ DOMAIN matched' = 1..(Len(matched) + 1)
        /\ \A c \in 1..Len(matched) : matched'[c] = matched[c]
        /\ matched'[Len(matched) + 1] = <<w, d>>
    <3>1. matched \in Seq((1..NTX) \X (1..NTX)) /\ <<w, d>> \in (1..NTX) \X (1..NTX)
      BY <1>4, <2>3 DEF PairingInv
    <3> QED
      BY <2>1, <3>1
  <2>5. /\ \A c \in DOMAIN matched' : c \in 1..Len(matched) \/ c = Len(matched) + 1
        /\ \A c \in DOMAIN matched : c \in DOMAIN matched' /\ matched'[c] = matched[c]
        /\ Len(matched) + 1 \in DOMAIN matched'
    BY <2>4
  <2>6. \A c \in DOMAIN matched' :
          /\ matched'[c][1] \in wSeen' /\ matched'[c][2] \in dSeen'
          /\ Edge(matched'[c][1], matched'[c][2])
    <3> TAKE c \in DOMAIN matched'
    <3>1. CASE c \in 1..Len(matched)
      <4>1. /\ matched[c][1] \in wSeen /\ matched[c][2] \in dSeen
            /\ Edge(matched[c][1], matched[c][2])
        BY <2>4, <3>1 DEF PairingInv
      <4> QED
        BY <2>1, <2>4, <3>1, <4>1
    <3>2. CASE c = Len(matched) + 1
      BY <2>1, <2>3, <2>4, <3>2
    <3> QED
      BY <2>5, <3>1, <3>2
  <2>7. Pairing!NoneTwice'
    <3>1. \A c \in 1..Len(matched) : matched[c][1] # w /\ matched[c][2] # d
      BY <2>1, <2>3, <2>4 DEF PairingInv
    <3>2. \A c, e \in 1..Len(matched) :
            c # e => matched[c][1] # matched[e][1] /\ matched[c][2] # matched[e][2]
      BY <2>4 DEF PairingInv, Pairing!NoneTwice
    <3>3. ASSUME NEW c \in DOMAIN matched', NEW e \in DOMAIN matched', c # e
          PROVE  matched'[c][1] # matched'[e][1] /\ matched'[c][2] # matched'[e][2]
      <4>1. CASE c \in 1..Len(matched) /\ e \in 1..Len(matched)
        BY <2>4, <3>2, <3>3, <4>1
      <4>2. CASE c \in 1..Len(matched) /\ e = Len(matched) + 1
        BY <2>4, <3>1, <4>2
      <4>3. CASE c = Len(matched) + 1 /\ e \in 1..Len(matched)
        BY <2>4, <3>1, <4>3
      <4> QED
        BY <2>5, <3>3, <4>1, <4>2, <4>3
    <3> QED
      BY <3>3 DEF Pairing!NoneTwice
  <2>8. \A e \in dSeen' : \E c \in DOMAIN matched' : matched'[c][2] = e
    <3> TAKE e \in dSeen'
    <3>1. CASE e \in dSeen
      <4>1. PICK c \in DOMAIN matched : matched[c][2] = e
        BY <3>1 DEF PairingInv
      <4> QED
        BY <2>5, <4>1
    <3>2. CASE e = d
      <4>1. matched'[Len(matched) + 1][2] = e
        BY <2>4, <3>2
      <4> QED
        BY <2>5, <4>1
    <3> QED
      BY <2>1, <3>1, <3>2
  <2>9. ASSUME NEW v \in wSeen', NEW e \in 1..NTX, Edge(v, e)
        PROVE  \E c \in DOMAIN matched' :
                 \/ matched'[c][1] = v /\ blockOf[matched'[c][2]] <= blockOf[e]
                 \/ matched'[c][2] = e /\ blockOf[matched'[c][1]] <= blockOf[v]
    <3>1. CASE v \in wSeen
      <4>1. PICK c \in DOMAIN matched :
                 \/ matched[c][1] = v /\ blockOf[matched[c][2]] <= blockOf[e]
                 \/ matched[c][2] = e /\ blockOf[matched[c][1]] <= blockOf[v]
        BY <2>9, <3>1 DEF PairingInv, Served
      <4> QED
        BY <2>5, <4>1
    <3>2. CASE v = w /\ e \in dSeen
      <4>1. PICK c \in DOMAIN matched : matched[c][2] = e
        BY <3>2 DEF PairingInv
      <4>2. matched[c][1] \in wSeen
        BY DEF PairingInv
      <4>3. blockOf[matched[c][1]] <= blockOf[w]
        BY <1>1, <2>1, <4>2, AtPlace
      <4> QED
        BY <2>5, <3>2, <4>1, <4>3
    <3>3. CASE v = w /\ e \notin dSeen
      <4>1. PICK j \in P : evs[j].tx = e
        BY <1>1, <2>1, <2>9, <3>3, AtPlace DEF P
      <4>2. m <= j /\ j \in 1..Len(evs)
        BY <1>1, <2>1, <2>2, AtPlace DEF P
      <4>3. m = j \/ m < j
        BY <2>3, <4>2
      <4>4. /\ evs[m].block = blockOf[d] /\ evs[j].block = blockOf[e]
            /\ m < j => evs[m].block <= evs[j].block
            /\ blockOf[d] \in Nat
        BY <1>1, <2>3, <4>1, <4>2, StreamFacts
      <4>5. m = j => blockOf[d] <= blockOf[e]
        BY <4>1, <4>4
      <4>6. blockOf[d] <= blockOf[e]
        BY <4>3, <4>4, <4>5
      <4>7. matched'[Len(matched) + 1][1] = v /\ matched'[Len(matched) + 1][2] = d
        BY <2>4, <3>3
      <4> QED
        BY <2>5, <4>6, <4>7
    <3> QED
      BY <2>1, <2>9, <3>1, <3>2, <3>3
  <2>10. Served'
    BY <1>1, <1>2, <2>9 DEF Served
  <2>11. Candidates' = Candidates \cup {<<w, d>>}
    <3>1. ASSUME NEW c \in DOMAIN matched'
          PROVE  matched'[c] \in Candidates \cup {<<w, d>>}
      BY <2>4, <2>5 DEF Candidates
    <3>2. \A c \in DOMAIN matched : matched[c] \in Candidates'
      BY <2>5 DEF Candidates
    <3>3. <<w, d>> \in Candidates'
      BY <2>4, <2>5 DEF Candidates
    <3> QED
      BY <3>1, <3>2, <3>3 DEF Candidates
  <2>12. ASSUME NEW f \in Pairing!Assignments
         PROVE  \E h \in Pairing!Assignments :
                  Candidates' \subseteq h /\ Cardinality(f) <= Cardinality(h)
    <3>1. PICK g \in Pairing!Assignments :
            Candidates \subseteq g /\ Cardinality(f) <= Cardinality(g)
      BY DEF PairingInv, Extensible
    <3>2. PICK h \in Pairing!Assignments :
            /\ Candidates \cup {<<w, d>>} \subseteq h
            /\ Cardinality(g) <= Cardinality(h)
      BY <1>1, <2>1, <2>2, <3>1, Exchange DEF P
    <3>3. /\ Cardinality(f) \in Nat /\ Cardinality(g) \in Nat /\ Cardinality(h) \in Nat
      BY <1>1, AssignmentFacts
    <3>4. Cardinality(f) <= Cardinality(h)
      BY <3>1, <3>2, <3>3
    <3> QED
      BY <2>11, <3>2, <3>4
  <2>13. Extensible'
    BY <1>2, <2>12 DEF Extensible
  <2>14. dSeen' \subseteq 1..NTX
    BY <2>1, <2>3 DEF PairingInv
  <2> QED
    BY <1>1, <1>2, <1>6, <2>1, <2>4, <2>6, <2>7, <2>8, <2>10, <2>13, <2>14 DEF PairingInv
<1> QED
  BY <1>5, <1>7, <1>8 DEF Pairing!Next

\* At the end nothing can be added.
LEMMA PairingIsGood ==
  PairingInv => Pairing!TypeOK /\ Pairing!NoneTwice /\ Pairing!Stable /\ Pairing!Maximum
<1> SUFFICES ASSUME PairingInv
             PROVE  Pairing!TypeOK /\ Pairing!NoneTwice /\ Pairing!Stable /\ Pairing!Maximum
  OBVIOUS
<1>1. /\ Sorted /\ Len(evs) \in Nat /\ DOMAIN evs = 1..Len(evs)
      /\ pos \in 1..(Len(evs) + 1) /\ matched \in Seq((1..NTX) \X (1..NTX))
  BY StreamFacts DEF PairingInv
<1>2. Pairing!TypeOK /\ Pairing!NoneTwice
  <2>1. \A c \in DOMAIN matched : matched[c] \in (1..NTX) \X (1..NTX)
    BY <1>1
  <2> QED
    BY <2>1 DEF PairingInv, Pairing!TypeOK, Pairing!Txs
<1>3. ASSUME Pairing!Finished, NEW w \in 1..NTX, NEW d \in 1..NTX, Edge(w, d)
      PROVE  w \in wSeen
  <2>1. PICK j \in 1..Len(evs) : evs[j].tx = w /\ evs[j].kind = "W"
    BY <1>1, <1>3 DEF Edge, Pairing!Has
  <2>2. j < pos
    BY <1>1, <1>3 DEF Pairing!Finished
  <2> QED
    BY <2>1, <2>2 DEF PairingInv
<1>4. Pairing!Stable
  <2> SUFFICES ASSUME Pairing!Finished, NEW w \in 1..NTX, NEW d \in 1..NTX,
                      Pairing!Follows(w, d)
               PROVE  \E c \in DOMAIN matched :
                        \/ matched[c][1] = w /\ blockOf[matched[c][2]] <= blockOf[d]
                        \/ matched[c][2] = d /\ blockOf[matched[c][1]] <= blockOf[w]
    BY DEF Pairing!Stable, Pairing!Txs
  <2>1. Edge(w, d)
    BY <1>1, FollowsIsEdge
  <2> QED
    BY <1>3, <2>1 DEF PairingInv, Served
<1>5. Pairing!Maximum
  <2> SUFFICES ASSUME Pairing!Finished, NEW f \in Pairing!Assignments
               PROVE  Cardinality(f) <= Len(matched)
    BY SizesAgree DEF Pairing!Maximum
  <2>1. PICK g \in Pairing!Assignments :
          Candidates \subseteq g /\ Cardinality(f) <= Cardinality(g)
    BY DEF PairingInv, Extensible
  <2>2. /\ \A p \in g : /\ p[1] \in 1..NTX /\ p[2] \in 1..NTX /\ Edge(p[1], p[2])
        /\ \A p, q \in g : p # q => p[1] # q[1] /\ p[2] # q[2]
        /\ Cardinality(f) \in Nat /\ Cardinality(g) \in Nat
    BY <1>1, AssignmentFacts
  <2>3. ASSUME NEW p \in g PROVE p \in Candidates
    <3>0. p[1] \in 1..NTX /\ p[2] \in 1..NTX /\ Edge(p[1], p[2])
      BY <2>2
    <3>3. p[1] \in wSeen /\ Served
      BY <1>3, <3>0 DEF PairingInv
    <3>1. PICK c \in DOMAIN matched : matched[c][1] = p[1] \/ matched[c][2] = p[2]
      BY <3>0, <3>3 DEF Served
    <3>2. matched[c] \in Candidates /\ matched[c] \in g
      BY <2>1 DEF Candidates
    <3> QED
      BY <2>2, <3>1, <3>2
  <2>4. Candidates = g
    BY <2>1, <2>3
  <2>5. Len(matched) \in Nat /\ DOMAIN matched = 1..Len(matched)
    BY <1>1
  <2> DEFINE at == [c \in 1..Len(matched) |-> matched[c]]
  <2>6. at \in Surjection(1..Len(matched), Candidates)
    BY <2>5 DEF Surjection, Candidates
  <2>7. IsFiniteSet(1..Len(matched)) /\ Cardinality(1..Len(matched)) = Len(matched)
    <3>1. 1 \in Int /\ Len(matched) \in Int
      BY <2>5
    <3>2. Cardinality(1..Len(matched)) =
            IF 1 > Len(matched) THEN 0 ELSE Len(matched) - 1 + 1
      BY <3>1, FS_Interval
    <3> QED
      BY <2>5, <3>1, <3>2, FS_Interval
  <2>8. Cardinality(Candidates) <= Len(matched)
    BY <2>6, <2>7, FS_Surjection
  <2> QED
    BY <2>1, <2>2, <2>4, <2>5, <2>8
<1> QED
  BY <1>2, <1>4, <1>5

\* window_candidates() pairs each withdraw with at most one deposit and each
\* deposit with at most one withdraw; the pairing is stable, and no assignment
\* within the window has more pairs, whatever the blocks, the number of
\* transactions, the window and the rows the scan has twice.
THEOREM PairingIsStable == MCSpec => []PairingStable
<1> DEFINE Inv == script = "pairing" => PairingInv
<1>1. MCInit => Inv
  BY PairingBegins DEF MCInit
<1>2. Inv /\ [MCNext]_all => Inv'
  <2> SUFFICES ASSUME Inv, [MCNext]_all, script' = "pairing" PROVE PairingInv'
    OBVIOUS
  <2>1. CASE MCNext
    <3>1. Pairing!Next /\ script = "pairing"
      BY <2>1 DEF MCNext
    <3> QED
      BY <3>1, PairingGoesOn
  <2>2. CASE UNCHANGED all
    <3>1. /\ blockOf' = blockOf /\ evs' = evs /\ pos' = pos /\ wSeen' = wSeen
          /\ dSeen' = dSeen /\ matched' = matched /\ PairingInv /\ Sorted
      BY <2>2 DEF all, streamVars, PairingInv
    <3>2. /\ Sorted' /\ Pairing!Assignments' = Pairing!Assignments
          /\ \A v, e : Edge(v, e)' <=> Edge(v, e)
      BY <3>1, StaticParts
    <3>3. Served' /\ Extensible' /\ Pairing!NoneTwice'
      BY <3>1, <3>2, Standing DEF PairingInv, Pairing!NoneTwice
    <3>4. \A c \in DOMAIN matched' :
            /\ matched'[c][1] \in wSeen' /\ matched'[c][2] \in dSeen'
            /\ Edge(matched[c][1], matched[c][2])'
      BY <3>1, <3>2 DEF PairingInv
    <3> QED
      BY <3>1, <3>2, <3>3, <3>4 DEF PairingInv
  <2> QED
    BY <2>1, <2>2
<1>3. Inv => PairingStable
  BY PairingIsGood DEF PairingStable
<1> QED
  BY <1>1, <1>2, <1>3, PTL DEF MCSpec
=============================================================================

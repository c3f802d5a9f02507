---------------------------- MODULE PairParameter ----------------------------
(***************************************************************************)
(* foundry/src/joe-v2/PairParameterHelper.sol: the volatility parameters   *)
(* of a Liquidity Book pair, and the two places that quote a fee from them *)
(* without being the pair: the fork suite (LocalTimeLBForkAvalanche, which *)
(* packs the pair's getters into a word again and updates that) and        *)
(* verification/third-party/lb_anchor.py (total_fee()).                    *)
(*                                                                         *)
(* The word is a record of its fields: they do not overlap, and setting    *)
(* one keeps the bits of its mask.  What the pair itself does with the     *)
(* helpers (Swap, AddLiquidity, SetParameters) is not in the repository    *)
(* and is taken from the view path the fork suite replicates.              *)
(***************************************************************************)
EXTENDS Integers

CONSTANTS BASIS_POINT_MAX,   \* 10_000
          MASK_UINT12,       \* masks of the fields: 2^n - 1
          MASK_UINT14,
          MASK_UINT16,
          MASK_UINT20,
          MASK_UINT24,
          MASK_UINT40,
          MAX_PROTOCOL_SHARE,
          FEE_UNIT,          \* 1e10: base fee of one basis point squared
          BIN_STEP,
          Statics,           \* static parameters somebody tries to set
          Ids                \* the bins

Static == [baseFactor : 0..MASK_UINT16, filterPeriod : Nat, decayPeriod : Nat,
           reductionFactor : Nat, variableFeeControl : 0..MASK_UINT24,
           protocolShare : Nat, maxVolatilityAccumulator : 0..MASK_UINT24]

ASSUME PairAssumption ==
  /\ BASIS_POINT_MAX \in Nat \ {0}
  /\ MASK_UINT12 \in Nat /\ MASK_UINT14 \in Nat /\ MASK_UINT16 \in Nat
  /\ MASK_UINT20 \in Nat /\ MASK_UINT24 \in Nat /\ MASK_UINT40 \in Nat
  /\ BASIS_POINT_MAX <= MASK_UINT14 /\ MAX_PROTOCOL_SHARE <= MASK_UINT14
  /\ MAX_PROTOCOL_SHARE \in Nat /\ FEE_UNIT \in Nat /\ BIN_STEP \in Nat
  /\ MASK_UINT20 <= MASK_UINT24
  /\ Statics \subseteq Static
  /\ Ids \subseteq 0..MASK_UINT24

VARIABLES params,    \* the pair's parameter word
          now,       \* block.timestamp
          stale      \* static fields set since the accumulator was?
vars == <<params, now, stale>>

ValidStatic(s) == /\ s.filterPeriod <= s.decayPeriod
                  /\ s.decayPeriod <= MASK_UINT12
                  /\ s.reductionFactor <= BASIS_POINT_MAX
                  /\ s.protocolShare <= MAX_PROTOCOL_SHARE
                  /\ s.maxVolatilityAccumulator <= MASK_UINT20

\* The word: its static part, and the fields a trade changes.
Word == [static : {s \in Static : ValidStatic(s)},
         volAcc : 0..MASK_UINT20, volRef : 0..MASK_UINT20,
         idRef : 0..MASK_UINT24, tLast : 0..MASK_UINT40, activeId : 0..MASK_UINT24]

\* setStaticFeeParameters, on values that pass its check: every mask keeps all
\* of them, and the fields beyond the static part stay.
SetStatic(p, s)   == [p EXCEPT !.static = s]
SetActiveId(p, i) == [p EXCEPT !.activeId = i % (MASK_UINT24 + 1)]
SetVolRef(p, v)   == [p EXCEPT !.volRef = v % (MASK_UINT20 + 1)]
SetVolAcc(p, v)   == [p EXCEPT !.volAcc = v % (MASK_UINT20 + 1)]
SetTime(p, ts)    == [p EXCEPT !.tLast = ts % (MASK_UINT40 + 1)]
FromVolatility(p)    == [p EXCEPT !.idRef = p.volAcc]  \* mutant: wrong offset
UpdateIdReference(p) == [p EXCEPT !.idRef = p.activeId]

Empty(s) == [static |-> s, volAcc |-> 0, volRef |-> 0, idRef |-> 0, tLast |-> 0,
             activeId |-> 0]
-----------------------------------------------------------------------------
Least(a, b)   == IF a > b THEN b ELSE a
Distance(a, b) == IF a > b THEN a - b ELSE b - a

\* The value updateVolatilityReference computes, cut to a uint24.
NewRef(p) == ((p.volAcc * p.static.reductionFactor) \div BASIS_POINT_MAX)
               % (MASK_UINT24 + 1)

\* The value updateVolatilityAccumulator computes for bin id.
\* mutant: without the cap
Uncapped(p, id) == p.volRef + Distance(id, p.idRef) * BASIS_POINT_MAX
NewAcc(p, id) == Least(p.volRef + Distance(id, p.idRef) * BASIS_POINT_MAX,
                       p.static.maxVolatilityAccumulator)

\* What the two setters revert on.
RefFits(p)     == NewRef(p) <= MASK_UINT20
AccFits(p, id) == NewAcc(p, id) <= MASK_UINT20

UpdateVolatilityReference(p)       == SetVolRef(p, NewRef(p))
UpdateVolatilityAccumulator(p, id) == SetVolAcc(p, NewAcc(p, id))

\* Is the word due for new references at ts, and do they decay or reset?
Due(p, ts)    == ts - p.tLast >= p.static.filterPeriod
Decays(p, ts) == ts - p.tLast < p.static.decayPeriod

\* mutant: the reference of the distance stays
OldIdRef(p, ts) ==
  SetTime(IF ~Due(p, ts) THEN p
          ELSE IF Decays(p, ts) THEN UpdateVolatilityReference(p)
          ELSE SetVolRef(p, 0), ts)
UpdateReferences(p, ts) ==
  SetTime(IF ~Due(p, ts) THEN p
          ELSE IF Decays(p, ts) THEN UpdateVolatilityReference(UpdateIdReference(p))
          ELSE SetVolRef(UpdateIdReference(p), 0), ts)

\* mutant: the accumulator is taken from the references of the last trade
AccFirst(p, id, ts) == UpdateReferences(UpdateVolatilityAccumulator(p, id), ts)
UpdateVolatilityParameters(p, id, ts) ==
  UpdateVolatilityAccumulator(UpdateReferences(p, ts), id)

\* Does the whole update go through?  (Only the decay branch computes a value.)
UpdateFits(p, id, ts) ==
  /\ Due(p, ts) /\ Decays(p, ts) => RefFits(UpdateIdReference(p))
  /\ AccFits(UpdateReferences(p, ts), id)

BaseFee(p) == p.static.baseFactor * BIN_STEP * FEE_UNIT
VariableFee(p) ==
  LET prod == p.volAcc * BIN_STEP
  IN  IF p.static.variableFeeControl = 0 THEN 0
      ELSE (prod * prod * p.static.variableFeeControl + 99) \div 100
TotalFee(p) == BaseFee(p) + VariableFee(p)
-----------------------------------------------------------------------------
\* A pair as its factory leaves it: static parameters, and the first bin as
\* the active one and the reference.
Init == /\ \E s \in Statics, i \in Ids :
             /\ ValidStatic(s)
             /\ params = UpdateIdReference(SetActiveId(Empty(s), i))
        /\ now = 0
        /\ stale = FALSE

\* Blocks have rising timestamps; MASK_UINT40 is the last one safe40 takes.
Tick == /\ now < MASK_UINT40
        /\ now' = now + 1
        /\ UNCHANGED <<params, stale>>

\* A call that updates the word for bin id and then moves the active bin.  It
\* reverts, and changes nothing, on a value that does not fit its field.
Update(id) ==
  /\ UpdateFits(params, id, now)
  /\ params' = SetActiveId(UpdateVolatilityParameters(params, id, now), id)
  /\ stale' = FALSE
  /\ UNCHANGED now

\* A swap: references once, then the accumulator for every bin it trades in,
\* which depends on the references only; the last one stays.
Swap == \E id \in Ids : Update(id)

\* A deposit into the active bin, which is charged the composition fee.
AddLiquidity == Update(params.activeId)

\* The factory sets new static parameters; others revert.
SetParameters == \E s \in Statics :
                   /\ ValidStatic(s)
                   /\ params' = SetStatic(params, s)
                   /\ stale' = TRUE
                   /\ UNCHANGED now

Next == Tick \/ Swap \/ AddLiquidity \/ SetParameters

Spec == Init /\ [][Next]_vars
-----------------------------------------------------------------------------
\* mutant: the active bin is written before the reference is taken from it
PackedLate(p) ==
  LET a == SetActiveId(Empty(p.static), p.activeId)
      b == SetVolAcc(SetVolRef(UpdateIdReference(a), p.volRef), p.volAcc)
  IN  SetTime(b, p.tLast)
\* What the fork suite packs from the pair's getters.
Packed(p) ==
  LET a == SetActiveId(Empty(p.static), p.idRef)
      b == SetVolAcc(SetVolRef(UpdateIdReference(a), p.volRef), p.volAcc)
  IN  SetActiveId(SetTime(b, p.tLast), p.activeId)
\* The word both tests quote from: references, then the active bin.
ViewPath(p, ts) == UpdateVolatilityParameters(Packed(p), p.activeId, ts)

\* mutant: the reference decays from itself
AnchorRef(p, ts) ==
  LET due    == ts - p.tLast >= p.static.filterPeriod
      vol_ref == IF ~due THEN p.volRef
                 ELSE IF ts - p.tLast < p.static.decayPeriod
                 THEN (p.volRef * p.static.reductionFactor) \div BASIS_POINT_MAX
                 ELSE 0
  IN  Least(vol_ref + Distance(p.activeId, IF due THEN p.activeId ELSE p.idRef)
              * BASIS_POINT_MAX, p.static.maxVolatilityAccumulator)
\* total_fee() of lb_anchor.py, on the pair's getters.
AnchorAcc(p, ts) ==
  LET due    == ts - p.tLast >= p.static.filterPeriod
      id_ref == IF due THEN p.activeId ELSE p.idRef
      vol_ref == IF ~due THEN p.volRef
                 ELSE IF ts - p.tLast < p.static.decayPeriod
                 THEN (p.volAcc * p.static.reductionFactor) \div BASIS_POINT_MAX
                 ELSE 0
  IN  Least(vol_ref + Distance(p.activeId, id_ref) * BASIS_POINT_MAX,
            p.static.maxVolatilityAccumulator)
AnchorFee(p, ts) ==
  LET prod == AnchorAcc(p, ts) * BIN_STEP
  IN  p.static.baseFactor * BIN_STEP * FEE_UNIT
        + IF p.static.variableFeeControl = 0 THEN 0
          ELSE (prod * prod * p.static.variableFeeControl + 99) \div 100
-----------------------------------------------------------------------------
TypeOK == /\ params \in Word
          /\ now \in 0..MASK_UINT40
          /\ params.tLast <= now
          /\ stale \in BOOLEAN
          /\ params.activeId \in Ids /\ params.idRef \in Ids

\* No trade ever reverts on a parameter that does not fit its field, also
\* after static parameters were set below what is stored.
NeverReverts == \A id \in Ids : UpdateFits(params, id, now)

\* Unless static parameters were set since, the stored accumulator is a
\* function of the references and the active bin, whatever path of trades led
\* there: splitting a swap does not change the fee that follows it.
Recomputable == ~stale =>
  params.volAcc = NewAcc(params, params.activeId)

\* Inside the filter period a quote at the active bin has the stored fee.
QuietQuote == ~stale /\ ~Due(params, now) =>
  TotalFee(ViewPath(params, now)) = TotalFee(params)

\* Once the decay period is over a quote at the active bin is the base fee:
\* all volatility is forgotten.  It needs filterPeriod <= decayPeriod.
DecayForgets == ~Decays(params, now) =>
  TotalFee(ViewPath(params, now)) = BaseFee(params)

\* "with the reference-update semantics replicated from source" (fork suite,
\* l.60): the word packed from the getters is the pair's own, so the quote is
\* what the pair charges.
PackedIsOwn == Packed(params) = params

\* lb_anchor's total_fee "replicated from PairParameterHelper" (l.349) is the
\* fee the pair charges a deposit at this timestamp, in every state.
AnchorAgrees ==
  AnchorFee(params, now)
    = TotalFee(UpdateVolatilityParameters(params, params.activeId, now))
=============================================================================

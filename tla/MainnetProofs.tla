---------------------------- MODULE MainnetProofs ----------------------------
(***************************************************************************)
(* The measurements on recorded chains: what m2_stream.py accumulates and  *)
(* m3_analysis.py reads from it, for all groups, eras and operators; what  *)
(* anchor.py prices and counts, for all amounts, marks and tolerances; and *)
(* what mev_probe.py reads and counts, for all blocks and lookbacks.       *)
(***************************************************************************)
EXTENDS MCMainnet, OrderProofs

\* Multiplying by a mark keeps the order of amounts.
LEMMA ScaleMono ==
  ASSUME NEW a \in Int, NEW b \in Int, NEW p \in Nat, a >= b
  PROVE  a * p >= b * p
<1>1. (a - b) * p >= 0
  <2>1. a - b \in Nat
    OBVIOUS
  <2> QED
    BY <2>1
<1>2. (a - b) * p = a * p - b * p
  OBVIOUS
<1>3. a * p \in Int /\ b * p \in Int
  OBVIOUS
<1> QED
  BY <1>1, <1>2, <1>3

\* The amounts of a group are integers, and so are its values.
LEMMA Amounts ==
  ASSUME NEW g \in Group
  PROVE  /\ Fee(g.c0, g.b0) \in Nat /\ Fee(g.c1, g.b1) \in Nat
         /\ HeldOf(g.b0, g.c0, g.s0) \in Int /\ HeldOf(g.b1, g.c1, g.s1) \in Int
         /\ VBurn(g) \in Nat
         /\ VLand(g) \in Int
         /\ Priceable(g) => VLand(g) \in Nat
<1>1. /\ g.b0 \in Nat /\ g.b1 \in Nat /\ g.c0 \in Nat /\ g.c1 \in Nat
      /\ g.m0 \in Nat /\ g.m1 \in Nat /\ g.s0 \in Int /\ g.s1 \in Int
      /\ g.p \in Nat
  BY DEF Group
<1>2. Fee(g.c0, g.b0) \in Nat /\ Fee(g.c1, g.b1) \in Nat
  BY <1>1 DEF Fee, Most
<1>3. HeldOf(g.b0, g.c0, g.s0) \in Int /\ HeldOf(g.b1, g.c1, g.s1) \in Int
  BY <1>1, <1>2 DEF HeldOf
<1>4. VBurn(g) \in Nat
  <2>1. (g.b0 + Fee(g.c0, g.b0)) * g.p \in Nat
    BY <1>1, <1>2
  <2> QED
    BY <1>1, <1>2, <2>1 DEF VBurn, Value
<1>5. /\ Most(g.m0, HeldOf(g.b0, g.c0, g.s0)) \in Nat
      /\ Most(g.m1, HeldOf(g.b1, g.c1, g.s1)) \in Nat
  BY <1>1, <1>3 DEF Most
<1>6. VLand(g) \in Nat
  <2>1. Most(g.m0, HeldOf(g.b0, g.c0, g.s0)) * g.p \in Nat
    BY <1>1, <1>5
  <2> QED
    BY <1>5, <2>1 DEF VLand, Value
<1> QED
  BY <1>2, <1>3, <1>4, <1>6

\* The value chain of a group without swaps ends no lower than it began.
LEMMA NoSwapLands ==
  ASSUME NEW g \in Group, g.s0 = 0, g.s1 = 0
  PROVE  ~Costs(VBurn(g), VLand(g))
<1> DEFINE h0 == HeldOf(g.b0, g.c0, g.s0)
           h1 == HeldOf(g.b1, g.c1, g.s1)
<1>1. /\ g.b0 \in Nat /\ g.b1 \in Nat /\ g.m0 \in Nat /\ g.m1 \in Nat /\ g.p \in Nat
      /\ h0 \in Int /\ h1 \in Int
      /\ Fee(g.c0, g.b0) \in Nat /\ Fee(g.c1, g.b1) \in Nat
  BY Amounts DEF Group
<1>2. h0 = g.b0 + Fee(g.c0, g.b0) /\ h1 = g.b1 + Fee(g.c1, g.b1)
  BY <1>1 DEF HeldOf
<1>3. VBurn(g) = h0 * g.p + h1
  BY <1>2 DEF VBurn, Value
<1>4. /\ Most(g.m0, h0) \in Int /\ Most(g.m0, h0) >= h0
      /\ Most(g.m1, h1) \in Int /\ Most(g.m1, h1) >= h1
  BY <1>1 DEF Most
<1>5. Most(g.m0, h0) * g.p >= h0 * g.p
  BY <1>1, <1>4, ScaleMono
<1>6. VLand(g) = Most(g.m0, h0) * g.p + Most(g.m1, h1)
  BY DEF VLand, Value
<1>7. Most(g.m0, h0) * g.p \in Int /\ h0 * g.p \in Int
  BY <1>1, <1>4
<1> QED
  BY <1>1, <1>3, <1>4, <1>5, <1>6, <1>7 DEF Costs
-----------------------------------------------------------------------------
\* What an iteration appends to a cell.
LEMMA RecordTyped ==
  ASSUME NEW g \in Group, NEW n \in Nat, Priceable(g)
  PROVE  Record(g, n) \in Priced
<1>1. VBurn(g) \in Nat \ {0} /\ VLand(g) \in Nat \ {0}
  BY Amounts DEF Priceable
<1>2. g.u \in Nat /\ HasSwap(g) \in BOOLEAN
  BY DEF Group, HasSwap
<1> QED
  BY <1>1, <1>2 DEF Record, Priced

\* What a firing does to the tally.
LEMMA CountStep ==
  ASSUME TypeOK, NEW g, Count(g)
  PROVE  /\ tally' \in [firings : Nat, priced : Nat, unpriceable : Nat, with_swap : Nat,
                        clean : Nat, k_negative : Nat]
         /\ tally'.firings = tally.firings + 1
         /\ tally'.clean <= tally.clean + 1
         /\ tally'.priced + tally'.unpriceable = tally.priced + tally.unpriceable + 1
         /\ tally'.with_swap - tally.with_swap <= tally'.priced - tally.priced
         /\ tally'.k_negative - tally.k_negative <= tally'.priced - tally.priced
<1>1. /\ tally.firings \in Nat /\ tally.priced \in Nat /\ tally.unpriceable \in Nat
      /\ tally.with_swap \in Nat /\ tally.clean \in Nat /\ tally.k_negative \in Nat
  BY DEF TypeOK
<1> DEFINE P == Priceable(g)
<1>2. Bump(tally.firings, TRUE) = tally.firings + 1
  BY DEF Bump
<1>3. Bump(tally.clean, g.clean) \in {tally.clean, tally.clean + 1}
  BY Zenon DEF Bump
<1>4. /\ P => Bump(tally.priced, P) = tally.priced + 1
      /\ ~P => Bump(tally.priced, P) = tally.priced
      /\ P => Bump(tally.unpriceable, ~P) = tally.unpriceable
      /\ ~P => Bump(tally.unpriceable, ~P) = tally.unpriceable + 1
  BY Zenon DEF Bump
<1>5. /\ Bump(tally.with_swap, P /\ HasSwap(g)) \in {tally.with_swap, tally.with_swap + 1}
      /\ ~P => Bump(tally.with_swap, P /\ HasSwap(g)) = tally.with_swap
  BY Zenon DEF Bump
<1>6. /\ Bump(tally.k_negative, P /\ Gains(VBurn(g), VLand(g)))
           \in {tally.k_negative, tally.k_negative + 1}
      /\ ~P => Bump(tally.k_negative, P /\ Gains(VBurn(g), VLand(g))) = tally.k_negative
  BY Zenon DEF Bump
<1> HIDE DEF P
<1>7. /\ tally'.firings = Bump(tally.firings, TRUE)
      /\ tally'.clean = Bump(tally.clean, g.clean)
      /\ tally'.priced = Bump(tally.priced, P)
      /\ tally'.unpriceable = Bump(tally.unpriceable, ~P)
      /\ tally'.with_swap = Bump(tally.with_swap, P /\ HasSwap(g))
      /\ tally'.k_negative = Bump(tally.k_negative, P /\ Gains(VBurn(g), VLand(g)))
  BY Zenon DEF Count, P
<1>8. tally' = [firings |-> tally'.firings, clean |-> tally'.clean,
                unpriceable |-> tally'.unpriceable, priced |-> tally'.priced,
                with_swap |-> tally'.with_swap, k_negative |-> tally'.k_negative]
  BY Zenon, <1>7 DEF Count, P
<1>9. tally'.firings = tally.firings + 1
  BY Zenon, <1>2, <1>7
<1>10. tally'.clean = tally.clean \/ tally'.clean = tally.clean + 1
  BY Zenon, <1>3, <1>7
<1>11. \/ /\ tally'.priced = tally.priced + 1 /\ tally'.unpriceable = tally.unpriceable
          /\ tally'.with_swap = tally.with_swap \/ tally'.with_swap = tally.with_swap + 1
          /\ tally'.k_negative = tally.k_negative \/ tally'.k_negative = tally.k_negative + 1
       \/ /\ tally'.priced = tally.priced /\ tally'.unpriceable = tally.unpriceable + 1
          /\ tally'.with_swap = tally.with_swap /\ tally'.k_negative = tally.k_negative
  BY Zenon, <1>4, <1>5, <1>6, <1>7
<1>12. /\ tally'.firings \in Nat /\ tally'.priced \in Nat /\ tally'.unpriceable \in Nat
       /\ tally'.with_swap \in Nat /\ tally'.clean \in Nat /\ tally'.k_negative \in Nat
  BY <1>1, <1>9, <1>10, <1>11
<1>13. tally' \in [firings : Nat, priced : Nat, unpriceable : Nat, with_swap : Nat,
                 clean : Nat, k_negative : Nat]
  BY <1>8, <1>12
<1> QED
  BY <1>1, <1>9, <1>10, <1>11, <1>13

\* The types, for all groups and eras.
LEMMA TypeInit == Init => TypeOK
  BY M2CellsAssumption DEF Init, TypeOK

LEMMA TypeNext == TypeOK /\ [Next]_cvars => TypeOK'
<1> SUFFICES ASSUME TypeOK, [Next]_cvars PROVE TypeOK'
  OBVIOUS
<1>1. CASE UNCHANGED cvars
  BY <1>1 DEF TypeOK, cvars
<1>2. CASE Next
  <2>1. PICK g \in Groups, n \in at..(at + GAP) :
          /\ read < MAX_GROUPS /\ read' = read + 1 /\ at' = n
          /\ ticks' = IF HasSwap(g) THEN Append(ticks, <<n, g.swaps[Len(g.swaps)]>>)
                      ELSE ticks
          /\ Firing(g, n) \/ NoFiring(g)
    BY <1>2 DEF Next, ReadGroup
  <2>2. g \in Group /\ n \in Nat /\ GAP \in Nat /\ MAX_GROUPS \in Nat
    BY M2CellsAssumption DEF TypeOK
  <2>3. read' \in 0..MAX_GROUPS /\ at' \in Nat
    BY <2>1, <2>2 DEF TypeOK
  <2>4. ticks' \in Seq(Nat \X Int)
    <3>1. CASE ~HasSwap(g)
      BY <2>1, <3>1 DEF TypeOK
    <3>2. CASE HasSwap(g)
      <4>1. g.swaps \in Seq(Int) /\ g.swaps # <<>>
        BY <2>2, <3>2 DEF Group, HasSwap
      <4>2. g.swaps[Len(g.swaps)] \in Int
        BY <4>1
      <4>3. <<n, g.swaps[Len(g.swaps)]>> \in Nat \X Int
        BY <2>2, <4>2
      <4>4. ticks \in Seq(Nat \X Int)
        BY DEF TypeOK
      <4> QED
        BY <2>1, <3>2, <4>3, <4>4
    <3> QED
      BY <3>1, <3>2
  <2>5. tally' \in [firings : Nat, priced : Nat, unpriceable : Nat, with_swap : Nat,
                   clean : Nat, k_negative : Nat]
    <3>1. CASE Firing(g, n)
      BY <3>1, CountStep DEF Firing
    <3>2. CASE NoFiring(g)
      BY <3>2 DEF NoFiring, TypeOK
    <3> QED
      BY <2>1, <3>1, <3>2
  <2>6. cells' \in [Operators -> Seq(Priced)]
    <3>1. CASE cells' = cells
      BY <3>1 DEF TypeOK
    <3>2. CASE Firing(g, n) /\ Priceable(g)
      <4>1. g.op \in Operators
        BY <2>2, <3>2 DEF Firing, Group
      <4>2. Append(cells[g.op], Record(g, n)) \in Seq(Priced)
        BY <2>2, <3>2, <4>1, RecordTyped DEF TypeOK
      <4>3. cells' = [cells EXCEPT ![g.op] = Append(@, Record(g, n))]
        BY <3>2 DEF Firing
      <4> QED
        BY <4>1, <4>2, <4>3 DEF TypeOK
    <3> QED
      BY <2>1, <3>1, <3>2 DEF Firing, NoFiring
  <2> QED
    BY <2>3, <2>4, <2>5, <2>6 DEF TypeOK
<1> QED
  BY <1>1, <1>2

\* What NoSwapNoCost says of one firing.
Honest(e) == Costs(e.vBurn, e.vLand) => e.sw

\* A step adds to a cell at most the record of the group it read, which shows a
\* cost only if the group swapped.
LEMMA CellStep ==
  ASSUME TypeOK, Next, NEW o \in Operators
  PROVE  \/ cells'[o] = cells[o]
         \/ \E e \in Priced : cells'[o] = Append(cells[o], e) /\ Honest(e)
<1>1. PICK g \in Groups, n \in at..(at + GAP) : Firing(g, n) \/ NoFiring(g)
  BY DEF Next, ReadGroup
<1>2. g \in Group /\ n \in Nat
  BY M2CellsAssumption DEF TypeOK
<1>3. CASE cells' = cells
  BY <1>3
<1>4. CASE Firing(g, n) /\ Priceable(g)
  <2>1. cells' = [cells EXCEPT ![g.op] = Append(@, Record(g, n))]
    BY <1>4 DEF Firing
  <2>2. Record(g, n) \in Priced
    BY <1>2, <1>4, RecordTyped
  <2>3. Costs(Record(g, n).vBurn, Record(g, n).vLand) => Record(g, n).sw
    <3>1. ~HasSwap(g) => g.s0 = 0 /\ g.s1 = 0
      BY M2CellsAssumption DEF HasSwap
    <3>2. ~HasSwap(g) => ~Costs(VBurn(g), VLand(g))
      BY <1>2, <3>1, NoSwapLands
    <3> QED
      BY <3>2 DEF Record
  <2>4. Honest(Record(g, n))
    BY <2>3 DEF Honest
  <2>5. cells'[o] = IF o = g.op THEN Append(cells[o], Record(g, n)) ELSE cells[o]
    BY <2>1 DEF TypeOK
  <2> QED
    BY <2>2, <2>4, <2>5
<1> QED
  BY <1>1, <1>3, <1>4 DEF Firing, NoFiring

\* A firing without a swap in its pool never shows a cost, for all amounts, fees
\* and marks: the exclusion of m3_analysis.py (l.8-21) loses no cost.
THEOREM SwaplessFiringsAreFree == Spec => []NoSwapNoCost
<1> DEFINE IInv == TypeOK /\ NoSwapNoCost
<1>1. Init => IInv
  <2>1. Init => NoSwapNoCost
    BY DEF Init, NoSwapNoCost
  <2> QED
    BY <2>1, TypeInit
<1>2. IInv /\ [Next]_cvars => IInv'
  <2> SUFFICES ASSUME TypeOK, NoSwapNoCost, [Next]_cvars PROVE NoSwapNoCost'
    BY TypeNext
  <2>1. CASE UNCHANGED cvars
    BY <2>1 DEF NoSwapNoCost, cvars
  <2>2. CASE Next
    <3>0. \A q \in Operators : \A j \in DOMAIN cells[q] : Honest(cells[q][j])
      BY DEF NoSwapNoCost, Honest
    <3> SUFFICES ASSUME NEW o \in Operators, NEW i \in DOMAIN cells'[o]
                 PROVE  Honest(cells'[o][i])
      BY DEF NoSwapNoCost, Honest
    <3>1. CASE cells'[o] = cells[o]
      BY <3>0, <3>1
    <3>2. CASE \E e \in Priced : cells'[o] = Append(cells[o], e) /\ Honest(e)
      <4>1. PICK e \in Priced : cells'[o] = Append(cells[o], e) /\ Honest(e)
        BY <3>2
      <4>2. cells[o] \in Seq(Priced)
        BY DEF TypeOK
      <4>3. CASE i = Len(cells[o]) + 1
        BY <4>1, <4>2, <4>3
      <4>4. CASE i # Len(cells[o]) + 1
        <5>1. i \in DOMAIN cells[o] /\ cells'[o][i] = cells[o][i]
          BY <4>1, <4>2, <4>4
        <5> QED
          BY <3>0, <5>1
      <4> QED
        BY <4>3, <4>4
    <3> QED
      BY <2>2, <3>1, <3>2, CellStep
  <2> QED
    BY <2>1, <2>2
<1> QED
  BY <1>1, <1>2, PTL DEF Spec

\* The tally of an era is consistent, whatever its groups are.
THEOREM TallyIsConsistent == Spec => []TallyAddsUp
<1> DEFINE Consistent == TypeOK /\ TallyAddsUp
<1>1. Init => Consistent
  <2>1. Init => TallyAddsUp
    BY DEF Init, TallyAddsUp
  <2> QED
    BY <2>1, TypeInit
<1>2. Consistent /\ [Next]_cvars => Consistent'
  <2> SUFFICES ASSUME TypeOK, TallyAddsUp, [Next]_cvars PROVE TallyAddsUp'
    BY TypeNext
  <2>1. CASE UNCHANGED cvars
    BY <2>1 DEF TallyAddsUp, cvars
  <2>2. CASE Next
    <3>1. PICK g \in Groups, n \in at..(at + GAP) :
            read' = read + 1 /\ (Firing(g, n) \/ NoFiring(g))
      BY <2>2 DEF Next, ReadGroup
    <3>2. read \in Nat /\ MAX_GROUPS \in Nat
      BY M2CellsAssumption DEF TypeOK
    <3>3. CASE Firing(g, n)
      <4>1. Count(g)
        BY <3>3 DEF Firing
      <4> QED
        <5>1. /\ tally.firings \in Nat /\ tally.priced \in Nat
              /\ tally.unpriceable \in Nat /\ tally.with_swap \in Nat
              /\ tally.clean \in Nat /\ tally.k_negative \in Nat
          BY DEF TypeOK
        <5>2. /\ tally'.firings \in Nat /\ tally'.priced \in Nat
              /\ tally'.unpriceable \in Nat /\ tally'.with_swap \in Nat
              /\ tally'.clean \in Nat /\ tally'.k_negative \in Nat
          BY <4>1, CountStep
        <5>3. /\ tally'.firings = tally.firings + 1
              /\ tally'.clean <= tally.clean + 1
              /\ tally'.priced + tally'.unpriceable = tally.priced + tally.unpriceable + 1
              /\ tally'.with_swap - tally.with_swap <= tally'.priced - tally.priced
              /\ tally'.k_negative - tally.k_negative <= tally'.priced - tally.priced
          BY <4>1, CountStep
        <5> QED
          BY <3>1, <3>2, <5>1, <5>2, <5>3 DEF TallyAddsUp
    <3>4. CASE NoFiring(g)
      BY <3>1, <3>2, <3>4 DEF NoFiring, TypeOK, TallyAddsUp
    <3> QED
      BY <3>1, <3>3, <3>4
  <2> QED
    BY <2>1, <2>2
<1> QED
  BY <1>1, <1>2, PTL DEF Spec
-----------------------------------------------------------------------------
(***************************************************************************)
(* What m3_analysis.py makes of the cells and the ticks.  The cells and    *)
(* the ticks are in block order, none later than the last block read, and  *)
(* the swap-carrying firings of a cell have each their own tick, of their  *)
(* block.                                                                  *)
(***************************************************************************)
Entries == Nat \X Int

\* The firings of a cell c that carry a swap have each a tick of T.
Own(c) == {i \in DOMAIN c : c[i].sw}
HaveTicks(c, T) ==
  \E f \in [Own(c) -> DOMAIN T] :
    /\ \A i, j \in Own(c) : f[i] = f[j] => i = j
    /\ \A i \in Own(c) : T[f[i]][1] = c[i].blk

\* A cell or the ticks in block order, up to block n.
CellTimely(c, n) ==
  /\ \A i \in DOMAIN c : c[i].blk <= n
  /\ \A i, j \in DOMAIN c : i < j => c[i].blk <= c[j].blk
TicksTimely(T, n) ==
  /\ \A i \in DOMAIN T : T[i][1] <= n
  /\ \A i, j \in DOMAIN T : i < j => T[i][1] <= T[j][1]

FloorInv == /\ TypeOK
            /\ TicksTimely(ticks, at)
            /\ \A o \in Operators : CellTimely(cells[o], at) /\ HaveTicks(cells[o], ticks)

\* A step appends what it read, of its own block, to the ticks and to a cell.
LEMMA GroupStep ==
  ASSUME TypeOK, Next
  PROVE  \E n \in Nat :
           /\ at' = n /\ at <= n
           /\ \/ ticks' = ticks
              \/ \E x \in Entries : x[1] = n /\ ticks' = Append(ticks, x)
           /\ \A o \in Operators :
                \/ cells'[o] = cells[o]
                \/ \E e \in Priced :
                     /\ cells'[o] = Append(cells[o], e) /\ e.blk = n
                     /\ e.sw => \E x \in Entries : x[1] = n /\ ticks' = Append(ticks, x)
<1>1. PICK g \in Groups, n \in at..(at + GAP) :
        /\ at' = n
        /\ ticks' = IF HasSwap(g) THEN Append(ticks, <<n, g.swaps[Len(g.swaps)]>>)
                    ELSE ticks
        /\ Firing(g, n) \/ NoFiring(g)
  BY DEF Next, ReadGroup
<1>2. g \in Group /\ n \in Nat /\ at <= n
  BY M2CellsAssumption DEF TypeOK
<1>3. HasSwap(g) => \E x \in Entries : x[1] = n /\ ticks' = Append(ticks, x)
  <2> SUFFICES ASSUME HasSwap(g)
               PROVE  \E x \in Entries : x[1] = n /\ ticks' = Append(ticks, x)
    OBVIOUS
  <2>1. g.swaps \in Seq(Int) /\ g.swaps # <<>>
    BY <1>2 DEF Group, HasSwap
  <2>2. g.swaps[Len(g.swaps)] \in Int
    BY <2>1
  <2>3. <<n, g.swaps[Len(g.swaps)]>> \in Entries
    BY <1>2, <2>2 DEF Entries
  <2> QED
    BY <1>1, <2>3
<1>4. \/ ticks' = ticks
      \/ \E x \in Entries : x[1] = n /\ ticks' = Append(ticks, x)
  BY <1>1, <1>3
<1>5. ASSUME NEW o \in Operators, cells'[o] # cells[o]
      PROVE  \E e \in Priced :
               /\ cells'[o] = Append(cells[o], e) /\ e.blk = n
               /\ e.sw => \E x \in Entries : x[1] = n /\ ticks' = Append(ticks, x)
  <2>1. Firing(g, n) /\ Priceable(g)
    BY <1>1, <1>5 DEF Firing, NoFiring
  <2>2. cells' = [cells EXCEPT ![g.op] = Append(@, Record(g, n))]
    BY <2>1 DEF Firing
  <2>3. cells'[o] = Append(cells[o], Record(g, n))
    BY <1>5, <2>2 DEF TypeOK
  <2>4. Record(g, n) \in Priced
    BY <1>2, <2>1, RecordTyped
  <2>5. Record(g, n).blk = n /\ Record(g, n).sw = HasSwap(g)
    BY DEF Record
  <2> QED
    BY <1>3, <2>3, <2>4, <2>5
<1> QED
  BY <1>1, <1>2, <1>4, <1>5

\* More ticks take nothing from the firings that have theirs.
LEMMA MoreTicks ==
  ASSUME NEW c, NEW T \in Seq(Entries), NEW x \in Entries, HaveTicks(c, T)
  PROVE  HaveTicks(c, Append(T, x))
<1>1. PICK f \in [Own(c) -> DOMAIN T] :
        /\ \A i, j \in Own(c) : f[i] = f[j] => i = j
        /\ \A i \in Own(c) : T[f[i]][1] = c[i].blk
  BY DEF HaveTicks
<1>2. \A k \in DOMAIN T : k \in DOMAIN Append(T, x) /\ Append(T, x)[k] = T[k]
  OBVIOUS
<1>3. f \in [Own(c) -> DOMAIN Append(T, x)]
  BY <1>1, <1>2
<1>4. \A i \in Own(c) : Append(T, x)[f[i]][1] = c[i].blk
  BY <1>1, <1>2
<1> QED
  BY <1>1, <1>3, <1>4 DEF HaveTicks

\* A firing without a swap needs no tick.
LEMMA SwaplessFiring ==
  ASSUME NEW c \in Seq(Priced), NEW e \in Priced, ~e.sw, NEW T, HaveTicks(c, T)
  PROVE  HaveTicks(Append(c, e), T)
<1>1. Own(Append(c, e)) = Own(c)
  BY DEF Own
<1>2. \A i \in Own(c) : Append(c, e)[i] = c[i]
  BY DEF Own
<1>3. PICK f \in [Own(c) -> DOMAIN T] :
        /\ \A i, j \in Own(c) : f[i] = f[j] => i = j
        /\ \A i \in Own(c) : T[f[i]][1] = c[i].blk
  BY DEF HaveTicks
<1>4. \A i \in Own(c) : T[f[i]][1] = Append(c, e)[i].blk
  BY <1>2, <1>3
<1> QED
  BY <1>1, <1>3, <1>4 DEF HaveTicks

\* A firing with a swap comes with its tick.
LEMMA SwapFiring ==
  ASSUME NEW c \in Seq(Priced), NEW e \in Priced, NEW T \in Seq(Entries),
         NEW x \in Entries, x[1] = e.blk, HaveTicks(c, T)
  PROVE  HaveTicks(Append(c, e), Append(T, x))
<1>1. PICK f \in [Own(c) -> DOMAIN T] :
        /\ \A i, j \in Own(c) : f[i] = f[j] => i = j
        /\ \A i \in Own(c) : T[f[i]][1] = c[i].blk
  BY DEF HaveTicks
<1> DEFINE d == Append(c, e)
           U == Append(T, x)
           l == Len(c) + 1
           m == Len(T) + 1
           h == [i \in Own(d) |-> IF i = l THEN m ELSE f[i]]
<1>2. /\ \A k \in DOMAIN T : k \in DOMAIN U /\ U[k] = T[k] /\ k # m
      /\ m \in DOMAIN U /\ U[m] = x
  OBVIOUS
<1>3. /\ \A i \in Own(d) : i # l => i \in Own(c) /\ d[i] = c[i]
      /\ d[l] = e
  BY DEF Own
<1> HIDE DEF d, U, l, m
<1>4. h \in [Own(d) -> DOMAIN U]
  BY <1>1, <1>2, <1>3
<1>5. \A i \in Own(d) : h[i] = IF i = l THEN m ELSE f[i]
  OBVIOUS
<1> HIDE DEF h
<1>6. ASSUME NEW i \in Own(d), NEW j \in Own(d), h[i] = h[j]
      PROVE  i = j
  <2>1. i # l => f[i] \in DOMAIN T /\ i \in Own(c)
    BY <1>1, <1>3
  <2>2. j # l => f[j] \in DOMAIN T /\ j \in Own(c)
    BY <1>1, <1>3
  <2> QED
    BY <1>1, <1>2, <1>5, <1>6, <2>1, <2>2
<1>7. ASSUME NEW i \in Own(d)
      PROVE  U[h[i]][1] = d[i].blk
  <2>1. CASE i = l
    BY <1>2, <1>3, <1>5, <2>1
  <2>2. CASE i # l
    <3>1. i \in Own(c) /\ f[i] \in DOMAIN T
      BY <1>1, <1>3, <2>2
    <3> QED
      BY <1>1, <1>2, <1>3, <1>5, <2>2, <3>1
  <2> QED
    BY <2>1, <2>2
<1>8. HaveTicks(d, U)
  BY <1>4, <1>6, <1>7 DEF HaveTicks
<1> QED
  BY <1>8 DEF d, U

\* What is appended is of the last block.
LEMMA TimelyGrows ==
  ASSUME NEW n \in Nat, NEW k \in Nat, k <= n
  PROVE  /\ \A c \in Seq(Priced) : CellTimely(c, k) => CellTimely(c, n)
         /\ \A c \in Seq(Priced), e \in Priced :
              CellTimely(c, k) /\ e.blk = n => CellTimely(Append(c, e), n)
         /\ \A T \in Seq(Entries) : TicksTimely(T, k) => TicksTimely(T, n)
         /\ \A T \in Seq(Entries), x \in Entries :
              TicksTimely(T, k) /\ x[1] = n => TicksTimely(Append(T, x), n)
<1>1. ASSUME NEW c \in Seq(Priced), CellTimely(c, k)
      PROVE  CellTimely(c, n)
  <2>0. \A i \in DOMAIN c : c[i] \in Priced
    OBVIOUS
  <2>1. \A i \in DOMAIN c : c[i].blk \in Nat
    BY <2>0 DEF Priced
  <2> QED
    BY <1>1, <2>1 DEF CellTimely
<1>2. ASSUME NEW c \in Seq(Priced), NEW e \in Priced, CellTimely(c, k), e.blk = n
      PROVE  CellTimely(Append(c, e), n)
  <2>0. \A i \in DOMAIN c : c[i] \in Priced
    OBVIOUS
  <2>1. \A i \in DOMAIN c : c[i].blk \in Nat /\ c[i].blk <= n
    BY <1>2, <2>0 DEF Priced, CellTimely
  <2>2. \A i \in DOMAIN Append(c, e) :
          \/ i \in DOMAIN c /\ Append(c, e)[i] = c[i] /\ i < Len(c) + 1
          \/ i = Len(c) + 1 /\ Append(c, e)[i] = e
    OBVIOUS
  <2>3. Len(c) \in Nat
    OBVIOUS
  <2>4. \A i \in DOMAIN Append(c, e) : Append(c, e)[i].blk <= n
    BY <1>2, <2>1, <2>2
  <2>5. ASSUME NEW i \in DOMAIN Append(c, e), NEW j \in DOMAIN Append(c, e), i < j
        PROVE  Append(c, e)[i].blk <= Append(c, e)[j].blk
    <3>1. i \in DOMAIN c /\ Append(c, e)[i] = c[i]
      BY <2>2, <2>3, <2>5
    <3>2. CASE j = Len(c) + 1
      BY <1>2, <2>1, <2>2, <2>3, <3>1, <3>2
    <3>3. CASE j \in DOMAIN c /\ Append(c, e)[j] = c[j]
      BY <1>2, <2>5, <3>1, <3>3 DEF CellTimely
    <3> QED
      BY <2>2, <3>2, <3>3
  <2> QED
    BY <2>4, <2>5 DEF CellTimely
<1>3. ASSUME NEW T \in Seq(Entries), TicksTimely(T, k)
      PROVE  TicksTimely(T, n)
  <2>1. \A i \in DOMAIN T : T[i][1] \in Nat
    BY DEF Entries
  <2> QED
    BY <1>3, <2>1 DEF TicksTimely
<1>4. ASSUME NEW T \in Seq(Entries), NEW x \in Entries, TicksTimely(T, k), x[1] = n
      PROVE  TicksTimely(Append(T, x), n)
  <2>1. \A i \in DOMAIN T : T[i][1] \in Nat /\ T[i][1] <= n
    BY <1>4 DEF Entries, TicksTimely
  <2>2. \A i \in DOMAIN Append(T, x) :
          \/ i \in DOMAIN T /\ Append(T, x)[i] = T[i] /\ i < Len(T) + 1
          \/ i = Len(T) + 1 /\ Append(T, x)[i] = x
    OBVIOUS
  <2>3. Len(T) \in Nat
    OBVIOUS
  <2>4. \A i \in DOMAIN Append(T, x) : Append(T, x)[i][1] <= n
    BY <1>4, <2>1, <2>2
  <2>5. ASSUME NEW i \in DOMAIN Append(T, x), NEW j \in DOMAIN Append(T, x), i < j
        PROVE  Append(T, x)[i][1] <= Append(T, x)[j][1]
    <3>1. i \in DOMAIN T /\ Append(T, x)[i] = T[i]
      BY <2>2, <2>3, <2>5
    <3>2. CASE j = Len(T) + 1
      BY <1>4, <2>1, <2>2, <2>3, <3>1, <3>2
    <3>3. CASE j \in DOMAIN T /\ Append(T, x)[j] = T[j]
      BY <1>4, <2>5, <3>1, <3>3 DEF TicksTimely
    <3> QED
      BY <2>2, <3>2, <3>3
  <2> QED
    BY <2>4, <2>5 DEF TicksTimely
<1> QED
  BY <1>1, <1>2, <1>3, <1>4

LEMMA FloorInductive == Spec => []FloorInv
<1>1. Init => FloorInv
  <2> SUFFICES ASSUME Init PROVE FloorInv
    OBVIOUS
  <2>1. ticks = <<>> /\ at = 0 /\ \A o \in Operators : cells[o] = <<>>
    BY DEF Init
  <2>2. HaveTicks(<<>>, <<>>)
    <3>1. Own(<<>>) = {}
      BY DEF Own
    <3>2. [i \in {} |-> 0] \in [Own(<<>>) -> DOMAIN <<>>]
      BY <3>1
    <3> QED
      BY <3>1, <3>2 DEF HaveTicks
  <2>3. CellTimely(<<>>, 0) /\ TicksTimely(<<>>, 0)
    BY DEF CellTimely, TicksTimely
  <2> QED
    BY <2>1, <2>2, <2>3, TypeInit DEF FloorInv
<1>2. FloorInv /\ [Next]_cvars => FloorInv'
  <2> SUFFICES ASSUME FloorInv, [Next]_cvars PROVE FloorInv'
    OBVIOUS
  <2>0. TypeOK /\ TypeOK'
    BY TypeNext DEF FloorInv
  <2>1. CASE UNCHANGED cvars
    BY <2>0, <2>1 DEF FloorInv, cvars
  <2>2. CASE Next
    <3>1. PICK n \in Nat :
            /\ at' = n /\ at <= n
            /\ \/ ticks' = ticks
               \/ \E x \in Entries : x[1] = n /\ ticks' = Append(ticks, x)
            /\ \A o \in Operators :
                 \/ cells'[o] = cells[o]
                 \/ \E e \in Priced :
                      /\ cells'[o] = Append(cells[o], e) /\ e.blk = n
                      /\ e.sw => \E x \in Entries : x[1] = n /\ ticks' = Append(ticks, x)
      BY <2>0, <2>2, GroupStep
    <3>2. at \in Nat /\ ticks \in Seq(Entries) /\ \A o \in Operators : cells[o] \in Seq(Priced)
      BY <2>0 DEF TypeOK, Entries
    <3>3. TicksTimely(ticks', at')
      BY <3>1, <3>2, TimelyGrows DEF FloorInv
    <3>4. ASSUME NEW o \in Operators
          PROVE  CellTimely(cells'[o], at') /\ HaveTicks(cells'[o], ticks')
      <4>1. /\ CellTimely(cells[o], at) /\ HaveTicks(cells[o], ticks)
            /\ cells[o] \in Seq(Priced)
        BY <3>2 DEF FloorInv
      <4>2. HaveTicks(cells[o], ticks')
        BY <3>1, <3>2, <4>1, MoreTicks
      <4>3. CASE cells'[o] = cells[o]
        BY <3>1, <3>2, <4>1, <4>2, <4>3, TimelyGrows
      <4>4. CASE \E e \in Priced :
                   /\ cells'[o] = Append(cells[o], e) /\ e.blk = n
                   /\ e.sw => \E x \in Entries : x[1] = n /\ ticks' = Append(ticks, x)
        <5>1. PICK e \in Priced :
                /\ cells'[o] = Append(cells[o], e) /\ e.blk = n
                /\ e.sw => \E x \in Entries : x[1] = n /\ ticks' = Append(ticks, x)
          BY <4>4
        <5>2. CellTimely(cells'[o], at')
          BY <3>1, <3>2, <4>1, <5>1, TimelyGrows
        <5>3. CASE ~e.sw
          BY <4>1, <4>2, <5>1, <5>2, <5>3, SwaplessFiring
        <5>4. CASE e.sw
          <6>1. PICK x \in Entries : x[1] = n /\ ticks' = Append(ticks, x)
            BY <5>1, <5>4
          <6>2. HaveTicks(Append(cells[o], e), Append(ticks, x))
            BY <3>2, <4>1, <5>1, <6>1, SwapFiring
          <6> QED
            BY <5>1, <5>2, <6>1, <6>2
        <5> QED
          BY <5>3, <5>4
      <4> QED
        BY <3>1, <4>3, <4>4
    <3> QED
      BY <2>0, <3>3, <3>4 DEF FloorInv
  <2> QED
    BY <2>1, <2>2
<1> QED
  BY <1>1, <1>2, PTL DEF Spec

\* What a listing s of the ticks at the indices S is: those ticks, all of them, in
\* the order of their blocks.
Arranged(S, s) ==
  /\ s \in Seq(Entries) /\ Len(s) = Cardinality(S)
  /\ \A k \in DOMAIN s : \E i \in S : s[k] = ticks[i]
  /\ \A i \in S : \E k \in DOMAIN s : s[k] = ticks[i]
  /\ \A j, k \in DOMAIN s : j < k => s[j][1] <= s[k][1]

LEMMA EntriesOrdered ==
  ASSUME TypeOK, NEW S \in SUBSET DOMAIN ticks,
         NEW O, O = {p \in S \X S : EntryBefore(p[1], p[2])}
  PROVE  OrdersStrictly(O, S)
<1>1. \A i \in S : /\ i \in Nat /\ ticks[i] \in Entries
                   /\ ticks[i][1] \in Nat /\ ticks[i][2] \in Int
  BY DEF TypeOK, Entries
<1>2. \A i, j \in S : ticks[i] = ticks[j]
                        <=> ticks[i][1] = ticks[j][1] /\ ticks[i][2] = ticks[j][2]
  BY <1>1 DEF Entries
<1>3. \A i, j \in S : <<i, j>> \in O
         <=> \/ ticks[i][1] < ticks[j][1]
             \/ ticks[i][1] = ticks[j][1] /\ ticks[i][2] < ticks[j][2]
             \/ ticks[i][1] = ticks[j][1] /\ ticks[i][2] = ticks[j][2] /\ i < j
  BY <1>2 DEF EntryBefore
<1>4. \A a \in S : <<a, a>> \notin O
  BY <1>1, <1>3
<1>5. \A a, b, c \in S : <<a, b>> \in O /\ <<b, c>> \in O => <<a, c>> \in O
  BY <1>1, <1>3
<1>6. ASSUME NEW a \in S, NEW b \in S, a # b, <<a, b>> \notin O
      PROVE  <<b, a>> \in O
  <2>1. /\ a \in Nat /\ ticks[a][1] \in Nat /\ ticks[a][2] \in Int
        /\ b \in Nat /\ ticks[b][1] \in Nat /\ ticks[b][2] \in Int
    BY <1>1
  <2>2. ~(\/ ticks[a][1] < ticks[b][1]
          \/ ticks[a][1] = ticks[b][1] /\ ticks[a][2] < ticks[b][2]
          \/ ticks[a][1] = ticks[b][1] /\ ticks[a][2] = ticks[b][2] /\ a < b)
    BY <1>3, <1>6
  <2>3. \/ ticks[b][1] < ticks[a][1]
        \/ ticks[b][1] = ticks[a][1] /\ ticks[b][2] < ticks[a][2]
        \/ ticks[b][1] = ticks[a][1] /\ ticks[b][2] = ticks[a][2] /\ b < a
    BY <1>6, <2>1, <2>2
  <2> QED
    BY <1>3, <2>3
<1> QED
  BY <1>4, <1>5, <1>6 DEF OrdersStrictly

LEMMA ListingArranged ==
  ASSUME TypeOK, NEW S \in SUBSET DOMAIN ticks
  PROVE  /\ IsFiniteSet(S) /\ Cardinality(S) \in Nat
         /\ Arranged(S, Listing(S))
<1> DEFINE O == {p \in S \X S : EntryBefore(p[1], p[2])}
           n == Cardinality(S)
           places == Ranked(S, EntryBefore)
           s == Listing(S)
<1>1. IsFiniteSet(S) /\ n \in Nat
  <2>1. DOMAIN ticks = 1..Len(ticks) /\ Len(ticks) \in Nat
    BY DEF TypeOK
  <2>2. 1 \in Int /\ Len(ticks) \in Int
    BY <2>1
  <2>3. IsFiniteSet(1..Len(ticks))
    BY <2>2, FS_Interval
  <2> QED
    BY <2>1, <2>3, FS_Subset, FS_CardinalityType
<1>2. OrdersStrictly(O, S)
  BY EntriesOrdered
<1>3. DOMAIN places = 1..n /\ \A k \in DOMAIN places : places[k] = AtRank(k, O, S)
  <2>1. \A r \in S : {q \in S : EntryBefore(q, r)} = Preceding(r, O, S)
    BY DEF Preceding
  <2>2. \A k : (CHOOSE r \in S : Cardinality({q \in S : EntryBefore(q, r)}) = k - 1)
              = CHOOSE r \in S : Cardinality(Preceding(r, O, S)) = k - 1
    BY <2>1
  <2> QED
    BY <2>2 DEF Ranked, AtRank
<1>4. s = [k \in 1..n |-> ticks[places[k]]]
  BY DEF Listing
<1>5. \A i, j \in S : <<i, j>> \in O => ticks[i][1] <= ticks[j][1]
  <2>1. \A i \in S : ticks[i][1] \in Nat
    BY DEF TypeOK
  <2>2. \A i, j \in S : <<i, j>> \in O => EntryBefore(i, j)
    OBVIOUS
  <2> QED
    BY <2>1, <2>2 DEF EntryBefore
<1> HIDE DEF O, places, s
<1>6. /\ \A k \in DOMAIN places : places[k] \in S
      /\ \A j, k \in DOMAIN places : j < k => <<places[j], places[k]>> \in O
      /\ \A r \in S : \E k \in DOMAIN places : places[k] = r
  BY <1>1, <1>2, <1>3, RankedInOrder
<1>7. \A k \in 1..n : ticks[places[k]] \in Entries
  <2>1. \A i \in S : ticks[i] \in Entries
    BY DEF TypeOK, Entries
  <2> QED
    BY <1>3, <1>6, <2>1
<1>8. s \in Seq(Entries) /\ Len(s) = n /\ DOMAIN s = 1..n
  BY <1>1, <1>4, <1>7
<1>9. \A k \in DOMAIN s : s[k] = ticks[places[k]]
  BY <1>4, <1>8
<1>10. ASSUME NEW j \in DOMAIN s, NEW k \in DOMAIN s, j < k
       PROVE  s[j][1] <= s[k][1]
  <2>1. j \in DOMAIN places /\ k \in DOMAIN places
    BY <1>3, <1>8
  <2>2. /\ places[j] \in S /\ places[k] \in S /\ <<places[j], places[k]>> \in O
    BY <1>6, <1>10, <2>1
  <2>3. ticks[places[j]][1] <= ticks[places[k]][1]
    BY <1>5, <2>2
  <2> QED
    BY <1>9, <2>3
<1>11. Arranged(S, s)
  BY <1>3, <1>6, <1>8, <1>9, <1>10 DEF Arranged
<1> QED
  BY <1>1, <1>11 DEF s

\* The largest and the smallest number of a set that is not empty.
LEMMA Largest ==
  ASSUME NEW n \in Nat, NEW T, T \subseteq 0..n, T # {}
  PROVE  /\ Max(T) \in T /\ \A y \in T : y <= Max(T)
         /\ Min(T) \in T /\ \A y \in T : Min(T) <= y
<1>1. \E x \in T : \A y \in T : x >= y
  BY GreatestNat
<1>2. Max(T) \in T /\ \A y \in T : Max(T) >= y
  BY <1>1 DEF Max
<1>3. T \subseteq Nat
  OBVIOUS
<1>4. \E x \in T : \A y \in T : x <= y
  BY <1>3, LeastNat
<1>5. Min(T) \in T /\ \A y \in T : Min(T) <= y
  BY <1>4 DEF Min
<1> QED
  BY <1>2, <1>3, <1>5

\* The first and the last block of a cell's swap-carrying firings.
LEMMA CellSpan ==
  ASSUME FloorInv, NEW o \in Operators, LongEnough(o)
  PROVE  /\ FirstBlk(o) \in Nat /\ LastBlk(o) \in Nat
         /\ \E i \in Carrying(o) : cells[o][i].blk = FirstBlk(o)
         /\ \E i \in Carrying(o) : cells[o][i].blk = LastBlk(o)
         /\ \A i \in Carrying(o) : /\ cells[o][i].blk \in Nat
                                   /\ FirstBlk(o) <= cells[o][i].blk
                                   /\ cells[o][i].blk <= LastBlk(o)
<1> DEFINE B == {cells[o][i].blk : i \in Carrying(o)}
<1>1. cells[o] \in Seq(Priced) /\ CellTimely(cells[o], at) /\ at \in Nat
  BY DEF FloorInv, TypeOK
<1>2. \A i \in Carrying(o) : cells[o][i].blk \in 0..at
  <2>1. \A i \in Carrying(o) : i \in DOMAIN cells[o] /\ cells[o][i] \in Priced
    BY <1>1 DEF Carrying
  <2> QED
    BY <1>1, <2>1 DEF CellTimely, Priced
<1>3. Carrying(o) # {}
  <2>1. Cardinality(Carrying(o)) >= FIRING_BAR /\ FIRING_BAR \in Nat \ {0}
    BY M3Assumption DEF LongEnough
  <2>2. CASE Carrying(o) = {}
    <3>1. Cardinality(Carrying(o)) = 0
      BY <2>2, FS_EmptySet
    <3> QED
      BY <2>1, <3>1
  <2> QED
    BY <2>2
<1>4. B \subseteq 0..at /\ B # {}
  BY <1>2, <1>3
<1>5. /\ Max(B) \in B /\ \A y \in B : y <= Max(B)
      /\ Min(B) \in B /\ \A y \in B : Min(B) <= y
  BY <1>1, <1>4, Largest
<1>6. FirstBlk(o) = Min(B) /\ LastBlk(o) = Max(B)
  BY DEF FirstBlk, LastBlk
<1>7. \A i \in Carrying(o) : cells[o][i].blk \in B
  OBVIOUS
<1>8. /\ \E i \in Carrying(o) : cells[o][i].blk = Min(B)
      /\ \E i \in Carrying(o) : cells[o][i].blk = Max(B)
  BY <1>5
<1>9. Min(B) \in Nat /\ Max(B) \in Nat
  BY <1>2, <1>8
<1>10. \A i \in Carrying(o) : /\ cells[o][i].blk \in Nat
                               /\ Min(B) <= cells[o][i].blk
                               /\ cells[o][i].blk <= Max(B)
  BY <1>2, <1>5, <1>7
<1> HIDE DEF B
<1> QED
  BY <1>6, <1>8, <1>9, <1>10

\* The entries of a cell's window.
LEMMA WindowArranged ==
  ASSUME FloorInv, NEW o \in Operators
  PROVE  /\ IsFiniteSet(InWindow(FirstBlk(o), LastBlk(o)))
         /\ Arranged(InWindow(FirstBlk(o), LastBlk(o)), WindowOf(o))
<1>1. InWindow(FirstBlk(o), LastBlk(o)) \in SUBSET DOMAIN ticks
  BY DEF InWindow
<1> QED
  BY <1>1, ListingArranged DEF FloorInv, WindowOf, Window

\* Each of a cell's swap-carrying firings has its own entry in the window.
LEMMA FiringsInWindow ==
  ASSUME FloorInv, NEW o \in Operators, LongEnough(o)
  PROVE  /\ \A i \in Carrying(o) : \E k \in InWindow(FirstBlk(o), LastBlk(o)) :
               ticks[k][1] = cells[o][i].blk
         /\ Len(WindowOf(o)) >= Cardinality(Carrying(o))
<1> DEFINE W == InWindow(FirstBlk(o), LastBlk(o))
<1>1. Carrying(o) = Own(cells[o])
  BY DEF Carrying, Own
<1>2. PICK f \in [Carrying(o) -> DOMAIN ticks] :
        /\ \A i, j \in Carrying(o) : f[i] = f[j] => i = j
        /\ \A i \in Carrying(o) : ticks[f[i]][1] = cells[o][i].blk
  BY <1>1 DEF FloorInv, HaveTicks
<1>3. \A i \in Carrying(o) : f[i] \in W
  BY <1>2, CellSpan DEF InWindow
<1>4. f \in Injection(Carrying(o), W)
  <2>1. f \in [Carrying(o) -> W]
    BY <1>2, <1>3
  <2> QED
    BY <1>2, <2>1 DEF Injection, IsInjective
<1>5. Cardinality(Carrying(o)) <= Cardinality(W)
  BY <1>4, WindowArranged, FS_Injection
<1>6. Len(WindowOf(o)) = Cardinality(W)
  BY WindowArranged DEF Arranged
<1>7. \A i \in Carrying(o) : \E k \in W : ticks[k][1] = cells[o][i].blk
  BY <1>2, <1>3
<1>8. Cardinality(W) \in Nat /\ IsFiniteSet(Carrying(o)) /\ Cardinality(Carrying(o)) \in Nat
  <2>1. IsFiniteSet(W)
    BY WindowArranged
  <2>2. IsFiniteSet(Carrying(o))
    BY <1>4, <2>1, FS_Injection
  <2> QED
    BY <2>1, <2>2, FS_CardinalityType
<1> QED
  BY <1>5, <1>6, <1>7, <1>8

LEMMA WindowsAreActive == FloorInv => WindowIsActive
<1> SUFFICES ASSUME FloorInv, NEW o \in Operators, LongEnough(o)
             PROVE  /\ Len(WindowOf(o)) >= Cardinality(Carrying(o))
                    /\ WindowOf(o)[1][1] = FirstBlk(o)
                    /\ WindowOf(o)[Len(WindowOf(o))][1] = LastBlk(o)
  BY DEF WindowIsActive
<1> DEFINE s == WindowOf(o)
           W == InWindow(FirstBlk(o), LastBlk(o))
<1>1. Arranged(W, s)
  BY WindowArranged
<1>2. FirstBlk(o) \in Nat /\ LastBlk(o) \in Nat
  BY CellSpan
<1> HIDE DEF s
<1>3. \A k \in DOMAIN s : s[k][1] \in Nat /\ FirstBlk(o) <= s[k][1] /\ s[k][1] <= LastBlk(o)
  <2>1. \A k \in DOMAIN s : s[k] \in Entries
    BY <1>1 DEF Arranged
  <2>2. \A k \in DOMAIN s : \E i \in W : s[k] = ticks[i]
    BY <1>1 DEF Arranged
  <2> QED
    BY <2>1, <2>2 DEF Entries, InWindow
<1>4. \A i \in W : \E k \in DOMAIN s : s[k] = ticks[i]
  BY <1>1 DEF Arranged
<1>5. (\E k \in DOMAIN s : s[k][1] = FirstBlk(o)) /\ (\E k \in DOMAIN s : s[k][1] = LastBlk(o))
  <2>1. (\E i \in W : ticks[i][1] = FirstBlk(o)) /\ (\E i \in W : ticks[i][1] = LastBlk(o))
    BY CellSpan, FiringsInWindow
  <2> QED
    BY <1>4, <2>1
<1>6. /\ DOMAIN s = 1..Len(s) /\ Len(s) \in Nat
      /\ \A j, k \in DOMAIN s : j < k => s[j][1] <= s[k][1]
  BY <1>1 DEF Arranged
<1>7. 1 \in DOMAIN s /\ Len(s) \in DOMAIN s
  BY <1>5, <1>6
<1>8. s[1][1] = FirstBlk(o)
  <2>1. PICK k \in DOMAIN s : s[k][1] = FirstBlk(o)
    BY <1>5
  <2>2. s[1][1] <= s[k][1]
    <3>1. CASE k = 1
      BY <1>2, <2>1, <3>1
    <3>2. CASE k # 1
      BY <1>6, <1>7, <3>2
    <3> QED
      BY <3>1, <3>2
  <2> QED
    BY <1>2, <1>3, <1>7, <2>1, <2>2
<1>9. s[Len(s)][1] = LastBlk(o)
  <2>1. PICK k \in DOMAIN s : s[k][1] = LastBlk(o)
    BY <1>5
  <2>2. s[k][1] <= s[Len(s)][1]
    <3>1. CASE k = Len(s)
      BY <1>2, <2>1, <3>1
    <3>2. CASE k # Len(s)
      BY <1>6, <1>7, <3>2
    <3> QED
      BY <3>1, <3>2
  <2> QED
    BY <1>2, <1>3, <1>7, <2>1, <2>2
<1> QED
  BY <1>8, <1>9, FiringsInWindow DEF s

\* Buckets are stretches of blocks.
LEMMA BucketBounds ==
  ASSUME NEW a \in Nat, NEW d \in Nat \ {0}
  PROVE  /\ a \div d \in 0..a
         /\ d * (a \div d) <= a /\ a < d * (a \div d) + d
<1>1. a = d * (a \div d) + (a % d) /\ a % d \in 0..(d - 1) /\ a \div d \in Int
  OBVIOUS
<1> DEFINE q == a \div d
           r == a % d
<1> HIDE DEF q, r
<1>2. a = d * q + r /\ r \in 0..(d - 1) /\ q \in Int
  BY <1>1 DEF q, r
<1>3. q >= 0
  <2>1. CASE q < 0
    <3>1. (-q - 1) * d >= 0
      <4>1. -q - 1 \in Nat
        BY <1>2, <2>1
      <4> QED
        BY <4>1
    <3> QED
      BY <1>2, <3>1
  <2> QED
    BY <1>2, <2>1
<1>4. q <= d * q
  <2>1. (d - 1) * q >= 0
    BY <1>2, <1>3
  <2> QED
    BY <1>2, <2>1
<1>5. d * q \in Nat
  BY <1>2, <1>3
<1> QED
  BY <1>2, <1>3, <1>4, <1>5 DEF q, r

LEMMA LaterBucket ==
  ASSUME NEW a \in Nat, NEW c \in Nat, NEW d \in Nat \ {0}, a \div d > c \div d
  PROVE  a > c
<1> DEFINE p == a \div d
           q == c \div d
<1>1. p \in Nat /\ q \in Nat /\ d * p <= a /\ c < d * q + d
  BY BucketBounds
<1>2. p > q
  OBVIOUS
<1> HIDE DEF p, q
<1>3. d * p >= d * q + d
  <2>1. d * (p - q - 1) >= 0
    <3>1. p - q - 1 \in Nat
      BY <1>1, <1>2
    <3> QED
      BY <3>1
  <2>2. d * (p - q - 1) = d * p - d * q - d
    BY <1>1
  <2> QED
    BY <1>1, <2>1, <2>2
<1>4. d * p \in Nat /\ d * q \in Nat
  BY <1>1
<1> QED
  BY <1>1, <1>3, <1>4

\* A bucket ends with the last of its blocks.
LEMMA EndOfBucket ==
  ASSUME FloorInv, NEW S \in SUBSET DOMAIN ticks, NEW s, Arranged(S, s),
         NEW k \in BucketKeys(s)
  PROVE  \E m \in DOMAIN s : /\ BucketEnd(s, k) = s[m]
                             /\ s[m][1] \div BUCKET_BLOCKS = k
                             /\ \A j \in DOMAIN s : s[j][1] \div BUCKET_BLOCKS = k
                                                      => s[j][1] <= s[m][1]
<1> DEFINE T == {i \in DOMAIN s : s[i][1] \div BUCKET_BLOCKS = k}
<1>1. DOMAIN s = 1..Len(s) /\ Len(s) \in Nat /\ \A i \in DOMAIN s : s[i] \in Entries
  BY DEF Arranged
<1>2. T \subseteq 0..Len(s)
  BY <1>1
<1>3. T # {}
  BY DEF BucketKeys
<1>4. Max(T) \in T /\ \A i \in T : i <= Max(T)
  BY <1>1, <1>2, <1>3, Largest
<1>5. BucketEnd(s, k) = s[Max(T)]
  BY DEF BucketEnd
<1> DEFINE m == Max(T)
<1>6. m \in DOMAIN s /\ s[m][1] \div BUCKET_BLOCKS = k
  BY <1>4
<1>7. \A j \in DOMAIN s : s[j][1] \div BUCKET_BLOCKS = k => j <= m
  BY <1>4
<1> HIDE DEF m, T
<1>8. ASSUME NEW j \in DOMAIN s, s[j][1] \div BUCKET_BLOCKS = k
      PROVE  s[j][1] <= s[m][1]
  <2>1. s[j][1] \in Nat
    BY <1>1 DEF Entries
  <2>2. j = m \/ j < m
    BY <1>1, <1>6, <1>7, <1>8
  <2> QED
    BY <1>6, <2>1, <2>2 DEF Arranged
<1> QED
  BY <1>5, <1>6, <1>8 DEF m

\* The entries' blocks and buckets are no later than the last block.
LEMMA BlocksBounded ==
  ASSUME FloorInv, NEW S \in SUBSET DOMAIN ticks, NEW s, Arranged(S, s)
  PROVE  /\ at \in Nat /\ \A i \in DOMAIN s : s[i][1] \in 0..at
         /\ BucketKeys(s) \subseteq 0..at
<1>1. at \in Nat
  BY DEF FloorInv, TypeOK
<1>2. ASSUME NEW i \in DOMAIN s
      PROVE  s[i][1] \in 0..at /\ s[i][1] \div BUCKET_BLOCKS \in 0..at
  <2>1. PICK j \in S : s[i] = ticks[j]
    BY DEF Arranged
  <2>2. ticks[j] \in Entries /\ ticks[j][1] <= at
    BY DEF FloorInv, TypeOK, TicksTimely, Entries
  <2>3. s[i][1] \in Nat /\ s[i][1] <= at
    BY <2>1, <2>2 DEF Entries
  <2>4. s[i][1] \div BUCKET_BLOCKS \in 0..s[i][1]
    BY <2>3, M3Assumption, BucketBounds
  <2> QED
    BY <1>1, <2>3, <2>4
<1> QED
  BY <1>1, <1>2 DEF BucketKeys

\* The sorted ticks: their blocks are the blocks that traded.
LEMMA SortedArranged ==
  ASSUME FloorInv
  PROVE  /\ Arranged(DOMAIN ticks, Sorted)
         /\ Traded = {Sorted[i][1] : i \in DOMAIN Sorted}
<1>1. DOMAIN ticks \in SUBSET DOMAIN ticks
  OBVIOUS
<1>2. Arranged(DOMAIN ticks, Sorted)
  BY <1>1, ListingArranged DEF FloorInv, Sorted
<1>3. /\ \A k \in DOMAIN Sorted : \E i \in DOMAIN ticks : Sorted[k] = ticks[i]
      /\ \A i \in DOMAIN ticks : \E k \in DOMAIN Sorted : Sorted[k] = ticks[i]
  BY <1>2 DEF Arranged
<1> QED
  BY <1>2, <1>3 DEF Traded

LEMMA BucketsEndInTrades ==
  ASSUME FloorInv, NEW k \in BucketKeys(Sorted),
         NEW B, B = {b \in Traded : b \div BUCKET_BLOCKS = k}
  PROVE  /\ BucketEnd(Sorted, k)[1] = Max(B)
         /\ BucketEnd(Sorted, k)[2] \in TicksIn(Max(B))
<1>1. Arranged(DOMAIN ticks, Sorted)
  BY SortedArranged
<1>2. DOMAIN ticks \in SUBSET DOMAIN ticks
  OBVIOUS
<1>3. PICK m \in DOMAIN Sorted :
        /\ BucketEnd(Sorted, k) = Sorted[m]
        /\ Sorted[m][1] \div BUCKET_BLOCKS = k
        /\ \A j \in DOMAIN Sorted : Sorted[j][1] \div BUCKET_BLOCKS = k
                                      => Sorted[j][1] <= Sorted[m][1]
  BY <1>1, <1>2, EndOfBucket
<1>4. at \in Nat /\ \A i \in DOMAIN Sorted : Sorted[i][1] \in 0..at
  BY <1>1, <1>2, BlocksBounded
<1>5. Sorted[m][1] \in B /\ \A b \in B : b <= Sorted[m][1]
  BY <1>3, SortedArranged
<1>6. B \subseteq 0..at /\ B # {}
  BY <1>4, <1>5, SortedArranged
<1>7. Max(B) \in B /\ \A b \in B : b <= Max(B)
  BY <1>4, <1>6, Largest
<1>8. Max(B) = Sorted[m][1]
  <2>1. Max(B) <= Sorted[m][1] /\ Sorted[m][1] <= Max(B)
    BY <1>5, <1>7
  <2>2. Max(B) \in Int /\ Sorted[m][1] \in Int
    BY <1>4, <1>5, <1>6, <1>7
  <2> QED
    BY <2>1, <2>2
<1>9. PICK j \in DOMAIN ticks : Sorted[m] = ticks[j]
  BY <1>1 DEF Arranged
<1>10. ticks[j][2] \in TicksIn(ticks[j][1])
  BY DEF TicksIn
<1> QED
  BY <1>3, <1>8, <1>9, <1>10

\* Two entries that count as a move are of neighbouring blocks, and every two
\* neighbouring blocks close enough are a move.
LEMMA MovesAreNeighbours ==
  ASSUME FloorInv
  PROVE  {<<Sorted[i - 1][1], Sorted[i][1]>> : i \in Moves(Sorted)}
           = {m \in Traded \X Traded : /\ m[2] - m[1] \in 1..MAX_GAP
                                       /\ \A c \in Traded : c <= m[1] \/ c >= m[2]}
<1> DEFINE s == Sorted
<1>1. Arranged(DOMAIN ticks, s) /\ Traded = {s[i][1] : i \in DOMAIN s}
  BY SortedArranged
<1>2. DOMAIN ticks \in SUBSET DOMAIN ticks
  OBVIOUS
<1>3. at \in Nat /\ \A i \in DOMAIN s : s[i][1] \in 0..at
  BY <1>1, <1>2, BlocksBounded
<1>4. /\ DOMAIN s = 1..Len(s) /\ Len(s) \in Nat
      /\ \A j, k \in DOMAIN s : j < k => s[j][1] <= s[k][1]
  BY <1>1 DEF Arranged
<1>5. Moves(Sorted) = {i \in 2..Len(s) : s[i][1] - s[i - 1][1] \in 1..MAX_GAP}
  BY DEF Moves
<1> HIDE DEF s
<1>6. ASSUME NEW i \in 2..Len(s), s[i][1] - s[i - 1][1] \in 1..MAX_GAP
      PROVE  /\ s[i - 1][1] \in Traded /\ s[i][1] \in Traded
             /\ \A c \in Traded : c <= s[i - 1][1] \/ c >= s[i][1]
  <2>1. i \in DOMAIN s /\ i - 1 \in DOMAIN s
    BY <1>4
  <2>2. ASSUME NEW c \in Traded
        PROVE  c <= s[i - 1][1] \/ c >= s[i][1]
    <3>1. PICK l \in DOMAIN s : c = s[l][1]
      BY <1>1
    <3>2. l <= i - 1 \/ l >= i
      BY <1>4
    <3>3. CASE l <= i - 1
      <4>1. l = i - 1 \/ l < i - 1
        BY <1>4, <3>3
      <4> QED
        BY <1>3, <1>4, <2>1, <3>1, <4>1
    <3>4. CASE l >= i
      <4>1. l = i \/ i < l
        BY <1>4, <3>4
      <4> QED
        BY <1>3, <1>4, <2>1, <3>1, <4>1
    <3> QED
      BY <3>2, <3>3, <3>4
  <2> QED
    BY <1>1, <2>1, <2>2
<1>7. ASSUME NEW a \in Traded, NEW b \in Traded, b - a \in 1..MAX_GAP,
             \A c \in Traded : c <= a \/ c >= b
      PROVE  \E i \in 2..Len(s) : s[i - 1][1] = a /\ s[i][1] = b
  <2> DEFINE I == {l \in DOMAIN s : s[l][1] = b}
  <2>1. I \subseteq Nat /\ I # {}
    BY <1>1, <1>4
  <2>2. PICK i \in I : \A l \in I : i <= l
    BY <2>1, LeastNat
  <2>3. PICK l \in DOMAIN s : s[l][1] = a
    BY <1>1
  <2>4. a \in Nat /\ b \in Nat /\ a < b
    <3>1. a \in Nat /\ b \in Nat
      BY <1>1, <1>3
    <3> QED
      BY <1>7, <3>1
  <2>5. i \in DOMAIN s /\ s[i][1] = b
    BY <2>2
  <2>6. l < i
    <3>1. ~(i < l) /\ i # l
      BY <1>4, <2>3, <2>4, <2>5
    <3> QED
      BY <1>4, <2>5, <3>1
  <2>7. i \in 2..Len(s) /\ i - 1 \in DOMAIN s /\ l <= i - 1
    BY <1>4, <2>5, <2>6
  <2>8. s[i - 1][1] <= b /\ s[i - 1][1] # b /\ s[i - 1][1] \in Nat
    <3>1. i - 1 \notin I
      BY <2>2, <2>7
    <3>2. i - 1 < i
      BY <2>7
    <3> QED
      BY <1>3, <1>4, <2>5, <2>7, <3>1, <3>2
  <2>9. a <= s[i - 1][1]
    <3>1. l = i - 1 \/ l < i - 1
      BY <1>4, <2>7
    <3> QED
      BY <1>4, <2>3, <2>4, <2>7, <3>1
  <2>10. s[i - 1][1] <= a
    <3>1. s[i - 1][1] \in Traded
      BY <1>1, <2>7
    <3>2. s[i - 1][1] <= a \/ s[i - 1][1] >= b
      BY <1>7, <3>1
    <3> QED
      BY <2>4, <2>8, <3>2
  <2>11. s[i - 1][1] = a
    BY <2>4, <2>8, <2>9, <2>10
  <2> QED
    BY <2>5, <2>7, <2>11
<1> DEFINE L == {<<s[i - 1][1], s[i][1]>> : i \in Moves(Sorted)}
           R == {m \in Traded \X Traded : /\ m[2] - m[1] \in 1..MAX_GAP
                                          /\ \A c \in Traded : c <= m[1] \/ c >= m[2]}
<1>8. ASSUME NEW m \in L PROVE m \in R
  <2>1. PICK i \in Moves(Sorted) : m = <<s[i - 1][1], s[i][1]>>
    OBVIOUS
  <2>2. i \in 2..Len(s) /\ s[i][1] - s[i - 1][1] \in 1..MAX_GAP
    BY <1>5
  <2>3. m[1] = s[i - 1][1] /\ m[2] = s[i][1]
    BY <2>1
  <2> QED
    BY <1>6, <2>1, <2>2, <2>3
<1>9. ASSUME NEW m \in R PROVE m \in L
  <2>1. m[1] \in Traded /\ m[2] \in Traded /\ m = <<m[1], m[2]>>
    OBVIOUS
  <2>2. m[2] - m[1] \in 1..MAX_GAP /\ \A c \in Traded : c <= m[1] \/ c >= m[2]
    OBVIOUS
  <2>3. PICK i \in 2..Len(s) : s[i - 1][1] = m[1] /\ s[i][1] = m[2]
    BY <1>7, <2>1, <2>2
  <2>4. i \in Moves(Sorted)
    BY <1>5, <2>2, <2>3
  <2> QED
    BY <2>1, <2>3, <2>4
<1> QED
  BY <1>8, <1>9 DEF s

LEMMA BlocksAreToldApart == FloorInv => BlocksTellApart
<1> SUFFICES ASSUME FloorInv PROVE BlocksTellApart
  OBVIOUS
<1>1. ASSUME NEW k \in BucketKeys(Sorted)
      PROVE  LET in == {b \in Traded : b \div BUCKET_BLOCKS = k}
             IN /\ BucketEnd(Sorted, k)[1] = Max(in)
                /\ BucketEnd(Sorted, k)[2] \in TicksIn(Max(in))
  BY BucketsEndInTrades
<1>2. ASSUME NEW i \in Moves(Sorted), NEW j \in Moves(Sorted), i < j
      PROVE  Sorted[i][1] # Sorted[j][1]
  <2>1. Arranged(DOMAIN ticks, Sorted) /\ DOMAIN ticks \in SUBSET DOMAIN ticks
    BY SortedArranged
  <2>2. at \in Nat /\ \A n \in DOMAIN Sorted : Sorted[n][1] \in 0..at
    BY <2>1, BlocksBounded
  <2>3. /\ DOMAIN Sorted = 1..Len(Sorted) /\ Len(Sorted) \in Nat
        /\ \A n, m \in DOMAIN Sorted : n < m => Sorted[n][1] <= Sorted[m][1]
    BY <2>1 DEF Arranged
  <2>4. /\ i \in 2..Len(Sorted) /\ j \in 2..Len(Sorted)
        /\ Sorted[j][1] - Sorted[j - 1][1] \in 1..MAX_GAP /\ MAX_GAP \in Nat
    BY M3Assumption DEF Moves
  <2>5. i \in DOMAIN Sorted /\ j - 1 \in DOMAIN Sorted /\ j \in DOMAIN Sorted
    BY <2>3, <2>4
  <2>6. Sorted[i][1] <= Sorted[j - 1][1]
    <3>1. i = j - 1 \/ i < j - 1
      BY <1>2, <2>4
    <3> QED
      BY <2>2, <2>3, <2>5, <3>1
  <2> QED
    BY <2>2, <2>4, <2>5, <2>6
<1>3. \A i, j \in Moves(Sorted) : i # j => Sorted[i][1] # Sorted[j][1]
  <2>1. Moves(Sorted) \subseteq Int
    BY DEF Moves
  <2>2. \A i, j \in Moves(Sorted) : i # j => i < j \/ j < i
    BY <2>1
  <2> QED
    BY <1>2, <2>2
<1> QED
  BY <1>1, <1>3, MovesAreNeighbours DEF BlocksTellApart

\* Two buckets end at different blocks, both of the window.
LEMMA SpansDoAgree == FloorInv => SpansAgree
<1> SUFFICES ASSUME FloorInv, NEW o \in Operators, LongEnough(o),
                    Cardinality(BucketKeys(WindowOf(o))) >= 2
             PROVE  Span(WindowOf(o)) \in 1..(LastBlk(o) - FirstBlk(o))
  BY DEF SpansAgree
<1> DEFINE s == WindowOf(o)
           W == InWindow(FirstBlk(o), LastBlk(o))
           K == BucketKeys(s)
<1>1. Arranged(W, s) /\ W \in SUBSET DOMAIN ticks
  BY WindowArranged DEF InWindow
<1>2. K \subseteq 0..at /\ at \in Nat
  BY <1>1, BlocksBounded
<1>3. \A k \in DOMAIN s : s[k][1] \in Nat /\ FirstBlk(o) <= s[k][1] /\ s[k][1] <= LastBlk(o)
  <2>1. \A k \in DOMAIN s : s[k] \in Entries
    BY <1>1 DEF Arranged
  <2>2. \A k \in DOMAIN s : \E i \in W : s[k] = ticks[i]
    BY <1>1 DEF Arranged
  <2> QED
    BY <2>1, <2>2 DEF Entries, InWindow
<1>4. FirstBlk(o) \in Nat /\ LastBlk(o) \in Nat
  BY CellSpan
<1> HIDE DEF s, W
<1>5. PICK x \in K, y \in K : x # y
  <2>1. K # {}
    <3>1. CASE K = {}
      <4>1. Cardinality(K) = 0
        BY <3>1, FS_EmptySet
      <4> QED
        BY <4>1 DEF s
    <3> QED
      BY <3>1
  <2>2. PICK x \in K : TRUE
    BY <2>1
  <2>3. CASE K = {x}
    <3>1. Cardinality(K) = 1
      BY <2>3, FS_Singleton
    <3> QED
      BY <3>1 DEF s
  <2> QED
    BY <2>2, <2>3
<1>6. Max(K) \in K /\ Min(K) \in K /\ \A k \in K : k <= Max(K) /\ Min(K) <= k
  BY <1>2, <1>5, Largest
<1> DEFINE hi == Max(K)
           lo == Min(K)
<1>7. hi \in Nat /\ lo \in Nat /\ hi > lo
  <2>1. hi \in Nat /\ lo \in Nat /\ x \in Nat /\ y \in Nat
    BY <1>2, <1>5, <1>6
  <2>2. lo <= x /\ x <= hi /\ lo <= y /\ y <= hi
    BY <1>5, <1>6
  <2> HIDE DEF hi, lo, K
  <2> QED
    BY <1>5, <2>1, <2>2
<1>8. PICK m \in DOMAIN s : BucketEnd(s, hi) = s[m] /\ s[m][1] \div BUCKET_BLOCKS = hi
  BY <1>1, <1>6, EndOfBucket
<1>9. PICK n \in DOMAIN s : BucketEnd(s, lo) = s[n] /\ s[n][1] \div BUCKET_BLOCKS = lo
  BY <1>1, <1>6, EndOfBucket
<1>10. Span(s) = s[m][1] - s[n][1]
  BY <1>8, <1>9 DEF Span
<1>11. s[m][1] > s[n][1]
  <2>1. BUCKET_BLOCKS \in Nat \ {0} /\ s[m][1] \in Nat /\ s[n][1] \in Nat
    BY <1>3, M3Assumption
  <2>2. s[m][1] \div BUCKET_BLOCKS > s[n][1] \div BUCKET_BLOCKS
    BY <1>7, <1>8, <1>9
  <2> QED
    BY <2>1, <2>2, LaterBucket
<1>12. Span(s) \in 1..(LastBlk(o) - FirstBlk(o))
  BY <1>3, <1>4, <1>10, <1>11
<1> QED
  BY <1>12 DEF s

LEMMA CellsAreIdentified == FloorInv => AdmittedIsIdentified
<1> SUFFICES ASSUME FloorInv, NEW o \in Operators, Admitted(o)
             PROVE  /\ LastBlk(o) > FirstBlk(o)
                    /\ Len(WindowOf(o)) >= Cardinality(Carrying(o))
  BY DEF AdmittedIsIdentified
<1>1. /\ LongEnough(o) /\ LastBlk(o) - FirstBlk(o) >= MIN_SPAN
      /\ MIN_SPAN \in Nat \ {0}
  BY M3Assumption DEF Admitted
<1>2. FirstBlk(o) \in Nat /\ LastBlk(o) \in Nat
  BY <1>1, CellSpan
<1> QED
  BY <1>1, <1>2, FiringsInWindow

\* The cells beside the other measurements.
LEMMA CellsRun == MCSpec => Spec
<1>1. MCInit => Init
  BY DEF MCInit
<1>2. [MCNext]_all => [Next]_cvars
  BY DEF MCNext, all, cvars
<1> QED
  BY <1>1, <1>2, PTL DEF MCSpec, Spec

\* For every era and every setting of the analysis: a cell's window has an entry
\* for each of its swap-carrying firings and begins and ends with one, buckets
\* end with their last trading block, moves are of neighbouring trading blocks,
\* and the spans that rates are divided by are not empty.
THEOREM FloorIsRead == MCSpec => []FloorReadings
<1>1. FloorInv => FloorReadings
  <2> SUFFICES ASSUME FloorInv PROVE FloorReadings
    OBVIOUS
  <2>1. TypeOK
    BY DEF FloorInv
  <2>2. BlockOrder
    BY DEF FloorInv, CellTimely, TicksTimely, BlockOrder
  <2> QED
    BY <2>1, <2>2, WindowsAreActive, BlocksAreToldApart, SpansDoAgree, CellsAreIdentified
    DEF FloorReadings
<1> QED
  BY <1>1, CellsRun, FloorInductive, PTL
-----------------------------------------------------------------------------
(***************************************************************************)
(* The anchor, for all amounts, marks and tolerances.                      *)
(***************************************************************************)

\* Multiplying by a mark distributes over the difference of two amounts.
LEMMA ScaleSplit ==
  ASSUME NEW a \in Int, NEW b \in Int, NEW p \in Int
  PROVE  a * p - b * p = (a - b) * p
OBVIOUS

\* What a row holds, token by token.
RowOK(r) == /\ r.p \in Int
            /\ \A t \in Anchored!Tokens : r.b[t] \in Int /\ r.s[t] \in Int /\ r.m[t] \in Int

\* A draw raises what was burned by as much as what landed.
LEMMA DrawIsOnBothSides ==
  ASSUME NEW r, RowOK(r), NEW t \in Anchored!Tokens
  PROVE  /\ Anchored!Draw(r, t) \in Int
         /\ Anchored!Greater(r.m[t], Anchored!RowHeld(r)[t]) = r.b[t] - r.s[t] + Anchored!Draw(r, t)
<1>1. Anchored!RowHeld(r)[t] = r.b[t] - r.s[t]
  BY DEF Anchored!RowHeld, Anchored!Held
<1>2. Anchored!Short(r, t) = r.b[t] - r.s[t] - r.m[t]
  BY <1>1 DEF Anchored!Short
<1>3. r.b[t] \in Int /\ r.s[t] \in Int /\ r.m[t] \in Int
  BY DEF RowOK
<1> QED
  BY <1>1, <1>2, <1>3 DEF Anchored!Draw, Anchored!Greater

\* The difference of the two values of a row is the value of its swaps.
LEMMA RowCost ==
  ASSUME NEW r, RowOK(r)
  PROVE  Anchored!VBurn(r) - Anchored!VLand(r) = Anchored!Worth(r.s, r.p)
<1> DEFINE d1 == Anchored!Draw(r, 1)
           d2 == Anchored!Draw(r, 2)
<1>1. 1 \in Anchored!Tokens /\ 2 \in Anchored!Tokens
  BY DEF Anchored!Tokens
<1>2. /\ r.p \in Int
      /\ r.b[1] \in Int /\ r.s[1] \in Int /\ r.b[2] \in Int /\ r.s[2] \in Int
      /\ d1 \in Int /\ d2 \in Int
  BY <1>1, DrawIsOnBothSides DEF RowOK
<1>3. Anchored!VBurn(r) = (r.b[1] + d1) * r.p + (r.b[2] + d2)
  BY <1>1 DEF Anchored!VBurn, Anchored!Worth
<1>4. Anchored!VLand(r) = (r.b[1] - r.s[1] + d1) * r.p + (r.b[2] - r.s[2] + d2)
  BY <1>1, DrawIsOnBothSides DEF Anchored!VLand, Anchored!Worth
<1>5. (r.b[1] + d1) * r.p - (r.b[1] - r.s[1] + d1) * r.p = r.s[1] * r.p
  <2>1. r.b[1] + d1 - (r.b[1] - r.s[1] + d1) = r.s[1]
    BY <1>2
  <2>2. (r.b[1] + d1) * r.p - (r.b[1] - r.s[1] + d1) * r.p
          = (r.b[1] + d1 - (r.b[1] - r.s[1] + d1)) * r.p
    BY <1>2, ScaleSplit
  <2> QED
    BY <2>1, <2>2
<1>6. /\ (r.b[1] + d1) * r.p \in Int /\ (r.b[1] - r.s[1] + d1) * r.p \in Int
      /\ r.s[1] * r.p \in Int
  BY <1>2
<1> QED
  BY <1>2, <1>3, <1>4, <1>5, <1>6 DEF Anchored!Worth
-----------------------------------------------------------------------------
DustWhole == \A t \in Anchored!Tokens : dust[t] \in Int

\* The priced events are a sequence (of whatever their fractions are).
Listed == \E S : priced \in Seq(S)

AnchorInv == DustWhole /\ Listed /\ Anchored!CostIsSwaps

\* A row of whole amounts is whole, and so is what it leaves behind.
LEMMA RowsAreWhole ==
  ASSUME DustWhole, NEW b \in [Anchored!Tokens -> Burned],
         NEW s \in [Anchored!Tokens -> Swapped],
         NEW p \in Marks, NEW n
  PROVE  /\ RowOK(Anchored!Row(b, s, p, n))
         /\ \A t \in Anchored!Tokens : Anchored!Remainder(b, s)[t] \in Int
<1>1. p \in Int /\ \A t \in Anchored!Tokens : b[t] \in Int /\ s[t] \in Int /\ dust[t] \in Int
  BY AnchorAssumption DEF DustWhole
<1>2. \A t \in Anchored!Tokens : Anchored!Held(b, s)[t] \in Int
  BY <1>1 DEF Anchored!Held
<1>3. 1 \in Anchored!Tokens /\ 2 \in Anchored!Tokens
  BY DEF Anchored!Tokens
<1>4. Anchored!Minted(b, s) \in Int
  <2>1. /\ Anchored!Held(b, s)[1] + dust[1] \in Int
        /\ Anchored!Held(b, s)[2] + dust[2] \in Int
    BY <1>1, <1>2, <1>3
  <2> QED
    BY <2>1 DEF Anchored!Minted, Anchored!Lesser
<1>5. RowOK(Anchored!Row(b, s, p, n))
  BY <1>1, <1>4 DEF Anchored!Row, RowOK
<1>6. \A t \in Anchored!Tokens : Anchored!Remainder(b, s)[t] \in Int
  BY <1>1, <1>2, <1>4 DEF Anchored!Remainder
<1> QED
  BY <1>5, <1>6

\* Appending to a sequence: a sequence again, with the new element last.
LEMMA AppendKeeps ==
  ASSUME NEW S, NEW seq \in Seq(S), NEW e
  PROVE  /\ \E T : Append(seq, e) \in Seq(T)
         /\ Len(Append(seq, e)) = Len(seq) + 1
         /\ \A i \in DOMAIN Append(seq, e) :
              \/ i \in DOMAIN seq /\ Append(seq, e)[i] = seq[i]
              \/ Append(seq, e)[i] = e
<1>1. seq \in Seq(S \cup {e})
  OBVIOUS
<1>2. Append(seq, e) \in Seq(S \cup {e})
  BY <1>1
<1>3. /\ Len(Append(seq, e)) = Len(seq) + 1
      /\ \A i \in 1..Len(seq) : Append(seq, e)[i] = seq[i]
      /\ Append(seq, e)[Len(seq) + 1] = e
  BY <1>1
<1>4. DOMAIN seq = 1..Len(seq) /\ DOMAIN Append(seq, e) = 1..(Len(seq) + 1)
  BY <1>1, <1>2, <1>3
<1> QED
  BY <1>2, <1>3, <1>4

\* The cost of a priced event is the worth of its swaps at the mark, whatever
\* dust was drawn or left over, for all amounts, marks and tolerances.
LEMMA CostOfSwapsOnly == Anchored!Spec => []Anchored!CostIsSwaps
<1>1. Anchored!Init => AnchorInv
  <2> SUFFICES ASSUME Anchored!Init PROVE AnchorInv
    OBVIOUS
  <2>1. DustWhole
    BY DEF Anchored!Init, DustWhole, Anchored!Tokens
  <2>2. priced = <<>>
    BY DEF Anchored!Init
  <2>3. Listed
    BY <2>2 DEF Listed
  <2>4. Anchored!CostIsSwaps
    BY <2>2 DEF Anchored!CostIsSwaps
  <2> QED
    BY <2>1, <2>3, <2>4 DEF AnchorInv
<1>2. AnchorInv /\ [Anchored!Next]_(Anchored!avars) => AnchorInv'
  <2> SUFFICES ASSUME AnchorInv, [Anchored!Next]_(Anchored!avars) PROVE AnchorInv'
    OBVIOUS
  <2>1. CASE UNCHANGED Anchored!avars
    BY <2>1 DEF AnchorInv, DustWhole, Listed, Anchored!CostIsSwaps, Anchored!avars
  <2>2. CASE Anchored!Next
    <3>1. PICK b \in [Anchored!Tokens -> Burned], s \in [Anchored!Tokens -> Swapped], p \in Marks,
               nonzero \in 1..2, x \in Fractions, m \in Fractions :
            dust' = Anchored!Remainder(b, s) /\ Anchored!Evaluate(Anchored!Row(b, s, p, nonzero), x, m)
      BY <2>2 DEF Anchored!Next, Anchored!Rebalance
    <3> DEFINE r == Anchored!Row(b, s, p, nonzero)
               e == Anchored!Event(r, Anchored!Rows, x, m)
    <3>2. DustWhole'
      BY <3>1, RowsAreWhole DEF AnchorInv, DustWhole
    <3>3. e.vBurn - e.vLand = e.swaps
      <4>1. Anchored!VBurn(r) - Anchored!VLand(r) = Anchored!Worth(r.s, r.p)
        BY RowsAreWhole, RowCost DEF AnchorInv
      <4> HIDE DEF r
      <4> QED
        BY <4>1 DEF Anchored!Event
    <3>4. priced' = priced \/ priced' = Append(priced, e)
      BY <3>1 DEF Anchored!Evaluate
    <3> HIDE DEF e
    <3>5. CASE priced' = priced
      BY <3>2, <3>5 DEF AnchorInv, Listed, Anchored!CostIsSwaps
    <3>6. CASE priced' = Append(priced, e)
      <4>1. PICK S : priced \in Seq(S)
        BY DEF AnchorInv, Listed
      <4>2. Listed'
        BY <3>6, <4>1, AppendKeeps DEF Listed
      <4>3. Anchored!CostIsSwaps'
        BY <3>3, <3>6, <4>1, AppendKeeps DEF AnchorInv, Anchored!CostIsSwaps
      <4> QED
        BY <3>2, <4>2, <4>3 DEF AnchorInv
    <3> QED
      BY <3>4, <3>5, <3>6
  <2> QED
    BY <2>1, <2>2
<1>3. AnchorInv => Anchored!CostIsSwaps
  BY DEF AnchorInv
<1> QED
  BY <1>1, <1>2, <1>3, PTL DEF Anchored!Spec
-----------------------------------------------------------------------------
(***************************************************************************)
(* The books of the manager and of the script.                             *)
(***************************************************************************)
DustTypes  == \A t \in Anchored!Tokens : dust[t] \in Nat
ClassTypes == byClass \in [Anchored!Classes -> Nat] /\ Anchored!Rows <= N_ROWS
Credits    == dustOk \in Nat /\ dustBad = 0 /\ dustOk = byClass["clean"]
OfClasses  == \A i \in DOMAIN priced : priced[i].class \in {"draw", "clean"}

Books == /\ DustTypes /\ ClassTypes /\ Credits /\ Listed
         /\ OfClasses /\ Anchored!CleanIsIsolated /\ Anchored!NothingLost

\* What the manager leaves behind is not negative, whatever it minted.
LEMMA LeftBehind ==
  ASSUME DustTypes, NEW b \in [Anchored!Tokens -> Burned],
         NEW s \in [Anchored!Tokens -> Swapped]
  PROVE  /\ \A t \in Anchored!Tokens : Anchored!Held(b, s)[t] \in Int /\ dust[t] \in Nat
         /\ Anchored!Minted(b, s) \in Int
         /\ \A t \in Anchored!Tokens :
              /\ Anchored!Remainder(b, s)[t]
                   = Anchored!Held(b, s)[t] + dust[t] - Anchored!Minted(b, s)
                             /\ Anchored!Remainder(b, s)[t] \in Nat
<1>1. Anchored!Tokens = {1, 2}
  BY DEF Anchored!Tokens
<1>2. \A t \in Anchored!Tokens : b[t] \in Int /\ s[t] \in Int /\ dust[t] \in Nat
  BY AnchorAssumption DEF DustTypes
<1>3. \A t \in Anchored!Tokens : Anchored!Held(b, s)[t] \in Int
  BY <1>2 DEF Anchored!Held
<1>4. /\ Anchored!Held(b, s)[1] + dust[1] \in Int /\ Anchored!Held(b, s)[2] + dust[2] \in Int
      /\ Anchored!Minted(b, s) = IF Anchored!Held(b, s)[1] + dust[1] <= Anchored!Held(b, s)[2] + dust[2]
                        THEN Anchored!Held(b, s)[1] + dust[1] ELSE Anchored!Held(b, s)[2] + dust[2]
  BY <1>1, <1>2, <1>3 DEF Anchored!Minted, Anchored!Lesser
<1>5. /\ Anchored!Minted(b, s) \in Int
      /\ Anchored!Minted(b, s) <= Anchored!Held(b, s)[1] + dust[1]
      /\ Anchored!Minted(b, s) <= Anchored!Held(b, s)[2] + dust[2]
  BY <1>4
<1>6. ASSUME NEW t \in Anchored!Tokens
      PROVE  /\ Anchored!Remainder(b, s)[t] = Anchored!Held(b, s)[t] + dust[t] - Anchored!Minted(b, s)
             /\ Anchored!Remainder(b, s)[t] \in Nat
  <2>1. Anchored!Remainder(b, s)[t] = Anchored!Held(b, s)[t] + dust[t] - Anchored!Minted(b, s)
    BY DEF Anchored!Remainder
  <2>2. Anchored!Minted(b, s) <= Anchored!Held(b, s)[t] + dust[t]
    BY <1>1, <1>5
  <2> QED
    BY <1>2, <1>3, <1>5, <2>1, <2>2
<1> QED
  BY <1>2, <1>3, <1>5, <1>6

\* The amounts of a row, as the script reads them back.
LEMMA RowAmounts ==
  ASSUME DustTypes, NEW b \in [Anchored!Tokens -> Burned],
         NEW s \in [Anchored!Tokens -> Swapped],
         NEW p, NEW n, NEW r, r = Anchored!Row(b, s, p, n)
  PROVE  /\ r.liq = Anchored!Minted(b, s) /\ r.liq \in Int
         /\ r.credits = {Anchored!Remainder(b, s)[t] : t \in Anchored!Tokens} \ {0}
         /\ \A t \in Anchored!Tokens : /\ Anchored!RowHeld(r)[t] = Anchored!Held(b, s)[t]
                                       /\ Anchored!RowHeld(r)[t] \in Int
                             /\ Anchored!Short(r, t) = Anchored!RowHeld(r)[t] - r.liq
<1>1. /\ r.b = b /\ r.s = s /\ r.liq = Anchored!Minted(b, s)
      /\ r.m = [t \in Anchored!Tokens |-> Anchored!Minted(b, s)]
      /\ r.credits = {Anchored!Remainder(b, s)[t] : t \in Anchored!Tokens} \ {0}
  BY DEF Anchored!Row
<1> QED
  BY <1>1, LeftBehind DEF Anchored!RowHeld, Anchored!Short

\* A priced row is clean when it minted no more than its own holdings would
\* have, to rounding, and a draw when it minted more.
LEMMA ClassSaysIsolated ==
  ASSUME DustTypes, NEW b \in [Anchored!Tokens -> Burned],
         NEW s \in [Anchored!Tokens -> Swapped],
         NEW p, NEW n,
         NEW r, r = Anchored!Row(b, s, p, n), Anchored!ClassOf(r) \in {"draw", "clean"}
  PROVE  Anchored!ClassOf(r) = "clean"
           <=> r.liq - Anchored!Lesser(Anchored!RowHeld(r)[1], Anchored!RowHeld(r)[2]) <= TOL
<1>1. Anchored!Tokens = {1, 2} /\ TOL \in Nat
  BY AnchorAssumption DEF Anchored!Tokens
<1>2. /\ r.liq \in Int /\ Anchored!RowHeld(r)[1] \in Int /\ Anchored!RowHeld(r)[2] \in Int
      /\ Anchored!Short(r, 1) = Anchored!RowHeld(r)[1] - r.liq
      /\ Anchored!Short(r, 2) = Anchored!RowHeld(r)[2] - r.liq
  BY <1>1, RowAmounts
<1>3. Anchored!ClassOf(r) = "clean" <=> ~Anchored!IsDraw(r)
  BY DEF Anchored!ClassOf
<1>4. Anchored!IsDraw(r) <=> Anchored!Short(r, 1) < -TOL \/ Anchored!Short(r, 2) < -TOL
  BY <1>1 DEF Anchored!IsDraw
<1> QED
  BY <1>1, <1>2, <1>3, <1>4 DEF Anchored!Lesser

\* Every surplus of a row is credited: what is left of it and of the swept
\* dust is no less.
LEMMA SurplusInCredits ==
  ASSUME DustTypes, NEW b \in [Anchored!Tokens -> Burned],
         NEW s \in [Anchored!Tokens -> Swapped],
         NEW p, NEW n, NEW r, r = Anchored!Row(b, s, p, n)
  PROVE  Anchored!DustMatch(r)
<1> SUFFICES ASSUME NEW t \in Anchored!Tokens, Anchored!Short(r, t) > TOL
             PROVE  \E c \in r.credits : c >= Anchored!Short(r, t) - TOL
  BY DEF Anchored!DustMatch, Anchored!Surplus
<1>1. TOL \in Nat
  BY AnchorAssumption
<1>2. /\ r.liq = Anchored!Minted(b, s) /\ r.liq \in Int
      /\ r.credits = {Anchored!Remainder(b, s)[i] : i \in Anchored!Tokens} \ {0}
      /\ Anchored!RowHeld(r)[t] = Anchored!Held(b, s)[t] /\ Anchored!RowHeld(r)[t] \in Int
      /\ Anchored!Short(r, t) = Anchored!RowHeld(r)[t] - r.liq
  BY RowAmounts
<1>3. /\ Anchored!Remainder(b, s)[t] = Anchored!Held(b, s)[t] + dust[t] - Anchored!Minted(b, s)
      /\ dust[t] \in Nat
  BY LeftBehind
<1>4. Anchored!Remainder(b, s)[t] >= Anchored!Short(r, t) - TOL /\ Anchored!Remainder(b, s)[t] # 0
  BY <1>1, <1>2, <1>3
<1>5. Anchored!Remainder(b, s)[t] \in r.credits
  BY <1>2, <1>4
<1> QED
  BY <1>4, <1>5

\* One row more keeps the books.
LEMMA RowKeepsBooks ==
  ASSUME Books, Anchored!Rebalance
  PROVE  Books'
<1>1. PICK b \in [Anchored!Tokens -> Burned], s \in [Anchored!Tokens -> Swapped], p \in Marks,
           nonzero \in 1..2, x \in Fractions, m \in Fractions :
        /\ dust' = Anchored!Remainder(b, s)
        /\ Anchored!Evaluate(Anchored!Row(b, s, p, nonzero), x, m)
  BY DEF Anchored!Rebalance
<1>2. PICK r : r = Anchored!Row(b, s, p, nonzero)
  OBVIOUS
<1> DEFINE c == Anchored!ClassOf(r)
           e == Anchored!Event(r, Anchored!Rows, x, m)
<1>3. /\ byClass' = [byClass EXCEPT ![c] = @ + 1]
      /\ priced' = IF c \in {"draw", "clean"} THEN Append(priced, e) ELSE priced
      /\ dustOk'  = IF c = "clean" /\ Anchored!DustMatch(r) THEN dustOk + 1 ELSE dustOk
      /\ dustBad' = IF c = "clean" /\ ~Anchored!DustMatch(r) THEN dustBad + 1 ELSE dustBad
  BY <1>1, <1>2 DEF Anchored!Evaluate
<1>4. c \in Anchored!Classes
  BY DEF Anchored!ClassOf, Anchored!Classes
<1>5. Anchored!DustMatch(r)
  BY <1>2, SurplusInCredits DEF Books
<1>6. e.class = c
  BY DEF Anchored!Event
<1>7. c \in {"draw", "clean"} =>
        (e.class = "clean" <=> e.minted - e.isolated <= TOL)
  BY <1>2, ClassSaysIsolated DEF Books, Anchored!Event
<1> HIDE DEF c, e
<1>8. DustTypes'
  BY <1>1, LeftBehind DEF Books, DustTypes
<1>9. /\ byClass' \in [Anchored!Classes -> Nat]
      /\ byClass'["clean"] = byClass["clean"] + (IF c = "clean" THEN 1 ELSE 0)
      /\ byClass'["draw"] = byClass["draw"] + (IF c = "draw" THEN 1 ELSE 0)
      /\ Anchored!Rows' = Anchored!Rows + 1 /\ Anchored!Rows \in Nat
  <2>1. \A k \in Anchored!Classes : /\ byClass[k] \in Nat
                           /\ byClass'[k] = IF k = c THEN byClass[k] + 1 ELSE byClass[k]
    BY <1>3, <1>4 DEF Books, ClassTypes
  <2>2. byClass' \in [Anchored!Classes -> Nat]
    BY <1>3, <1>4 DEF Books, ClassTypes
  <2>3. /\ "multi" \in Anchored!Classes /\ "degenerate" \in Anchored!Classes
        /\ "draw" \in Anchored!Classes /\ "clean" \in Anchored!Classes
        /\ c \in {"multi", "degenerate", "draw", "clean"}
    BY <1>4 DEF Anchored!Classes
  <2> QED
    BY <2>1, <2>2, <2>3 DEF Anchored!Rows
<1>10. ClassTypes'
  <2>1. Anchored!Rows < N_ROWS /\ N_ROWS \in Nat
    BY AnchorAssumption DEF Anchored!Rebalance
  <2> QED
    BY <1>9, <2>1 DEF ClassTypes
<1>11. Credits'
  BY <1>3, <1>5, <1>9 DEF Books, Credits, ClassTypes
<1>12. CASE c \notin {"draw", "clean"}
  <2>1. priced' = priced /\ byClass'["clean"] = byClass["clean"]
        /\ byClass'["draw"] = byClass["draw"]
    <3>1. byClass["clean"] \in Nat /\ byClass["draw"] \in Nat
      BY DEF Books, ClassTypes, Anchored!Classes
    <3> QED
      BY <1>3, <1>9, <1>12, <3>1
  <2> QED
    BY <1>8, <1>10, <1>11, <2>1
       DEF Books, Listed, OfClasses, Anchored!CleanIsIsolated, Anchored!NothingLost
<1>13. CASE c \in {"draw", "clean"}
  <2>1. priced' = Append(priced, e)
    BY <1>3, <1>13
  <2>2. PICK S : priced \in Seq(S)
    BY DEF Books, Listed
  <2>3. /\ Listed' /\ Len(priced') = Len(priced) + 1
        /\ \A i \in DOMAIN priced' : \/ i \in DOMAIN priced /\ priced'[i] = priced[i]
                                    \/ priced'[i] = e
    BY <2>1, <2>2, AppendKeeps DEF Listed
  <2>4. OfClasses'
    BY <1>6, <1>13, <2>3 DEF Books, OfClasses
  <2>5. Anchored!CleanIsIsolated'
    BY <1>7, <1>13, <2>3 DEF Books, Anchored!CleanIsIsolated
  <2>6. Anchored!NothingLost'
    <3>1. byClass["clean"] \in Nat /\ byClass["draw"] \in Nat
      BY DEF Books, ClassTypes, Anchored!Classes
    <3>2. Len(priced) = byClass["clean"] + byClass["draw"]
      BY DEF Books, Anchored!NothingLost
    <3> QED
      BY <1>9, <1>13, <2>3, <3>1, <3>2 DEF Anchored!NothingLost
  <2> QED
    BY <1>8, <1>10, <1>11, <2>3, <2>4, <2>5, <2>6 DEF Books
<1> QED
  BY <1>12, <1>13

\* The classes of the anchor say what they are taken for, no surplus is
\* unmatched and no row is lost, for all amounts, marks and tolerances.
LEMMA BooksAreKept ==
  Anchored!Spec => [](/\ Anchored!TypeOK /\ Anchored!CleanIsIsolated
                      /\ Anchored!SurplusIsCredited /\ Anchored!NothingLost)
<1>1. Anchored!Init => Books
  <2> SUFFICES ASSUME Anchored!Init PROVE Books
    OBVIOUS
  <2>1. /\ dust = <<0, 0>> /\ byClass = [k \in Anchored!Classes |-> 0] /\ priced = <<>>
        /\ dustOk = 0 /\ dustBad = 0
    BY DEF Anchored!Init
  <2>2. DustTypes
    BY <2>1 DEF DustTypes, Anchored!Tokens
  <2>3. byClass["multi"] = 0 /\ byClass["degenerate"] = 0 /\ byClass["draw"] = 0
        /\ byClass["clean"] = 0
    BY <2>1 DEF Anchored!Classes
  <2>4. ClassTypes
    BY <2>1, <2>3, AnchorAssumption DEF ClassTypes, Anchored!Rows
  <2>5. priced \in Seq({}) /\ Len(priced) = 0 /\ DOMAIN priced = {}
    BY <2>1
  <2> QED
    BY <2>1, <2>2, <2>3, <2>4, <2>5
       DEF Books, Credits, Listed, OfClasses, Anchored!CleanIsIsolated, Anchored!NothingLost
<1>2. Books /\ [Anchored!Next]_(Anchored!avars) => Books'
  <2>1. ASSUME Books, UNCHANGED Anchored!avars PROVE Books'
    BY <2>1 DEF Anchored!avars, Books, DustTypes, ClassTypes, Anchored!Rows, Credits,
       Listed, OfClasses,
       Anchored!CleanIsIsolated, Anchored!NothingLost
  <2> QED
    BY <2>1, RowKeepsBooks DEF Anchored!Next
<1>3. Books => /\ Anchored!TypeOK /\ Anchored!CleanIsIsolated
               /\ Anchored!SurplusIsCredited /\ Anchored!NothingLost
  <2> SUFFICES ASSUME Books PROVE Anchored!TypeOK /\ Anchored!SurplusIsCredited
    BY DEF Books
  <2>1. byClass \in [Anchored!Classes -> 0..N_ROWS]
    <3>1. \A k \in Anchored!Classes : byClass[k] \in Nat
      BY DEF Books, ClassTypes
    <3>2. \A k \in Anchored!Classes : byClass[k] <= Anchored!Rows /\ Anchored!Rows \in Nat
      BY <3>1 DEF Anchored!Classes, Anchored!Rows
    <3>3. \A k \in Anchored!Classes : byClass[k] \in 0..N_ROWS
      BY <3>1, <3>2, AnchorAssumption DEF Books, ClassTypes
    <3> QED
      BY <3>3 DEF Books, ClassTypes
  <2>2. dustOk + dustBad = byClass["clean"]
    BY DEF Books, Credits
  <2> QED
    BY <2>1, <2>2 DEF Books, Anchored!TypeOK, DustTypes, OfClasses,
       Anchored!SurplusIsCredited, Credits
<1> QED
  BY <1>1, <1>2, <1>3, PTL DEF Anchored!Spec

\* The anchor beside the other measurements.
LEMMA AnchorRuns == MCSpec => Anchored!Spec
<1>1. MCInit => Anchored!Init
  BY DEF MCInit
<1>2. [MCNext]_all => [Anchored!Next]_(Anchored!avars)
  BY DEF MCNext, all, anchorVars, Anchored!avars
<1> QED
  BY <1>1, <1>2, PTL DEF MCSpec, Anchored!Spec

\* What the anchor prices of an event is what its swaps lost at the mark,
\* whatever dust was drawn or left over.
THEOREM AnchorPricesSwaps == MCSpec => []CostIsSwaps
BY AnchorRuns, CostOfSwapsOnly, PTL DEF CostIsSwaps

\* Its classes say what they are taken for, no surplus goes unmatched and no
\* row is lost.
THEOREM AnchorKeepsBooks == MCSpec => []AnchorBooks
BY AnchorRuns, BooksAreKept, PTL DEF AnchorBooks
-----------------------------------------------------------------------------
(***************************************************************************)
(* The within-block probe.  Its cache of ticks is a part of the whole      *)
(* history that answers every later question alike; the range it keeps of  *)
(* an operator is that of the latest placement; its counters are sizes of  *)
(* sets of one block's firings and positions.                              *)
(***************************************************************************)

\* The library's operators are the same in the instance.
LEMMA ProbeLibrary ==
  /\ \A T : Probe!Cardinality(T) = Cardinality(T)
  /\ \A T : Probe!Max(T) = Max(T) /\ Probe!Min(T) = Min(T)
BY DEF Probe!Cardinality, Cardinality, Probe!IsFiniteSet, IsFiniteSet,
       Probe!Max, Max, Probe!Min, Min

\* Entries of the blocks 1..n, one a block, in order.
Stepwise(arr, n) ==
  /\ arr \in Seq((1..n) \X Int)
  /\ \A i, j \in DOMAIN arr : i < j => arr[i][1] < arr[j][1]

LEMMA StepwiseFacts ==
  ASSUME NEW n \in Nat, NEW arr, Stepwise(arr, n)
  PROVE  /\ DOMAIN arr = 1..Len(arr) /\ Len(arr) \in Nat
         /\ \A i \in DOMAIN arr : /\ arr[i] = <<arr[i][1], arr[i][2]>>
                                  /\ arr[i][1] \in 1..n /\ arr[i][1] \in Nat /\ arr[i][2] \in Int
         /\ \A i, j \in DOMAIN arr : arr[i][1] <= arr[j][1] <=> i <= j
         /\ \A i, j \in DOMAIN arr : arr[i][1] = arr[j][1] => i = j
<1>1. DOMAIN arr = 1..Len(arr) /\ Len(arr) \in Nat
  BY DEF Stepwise
<1>2. \A i \in DOMAIN arr : arr[i] \in (1..n) \X Int
  BY DEF Stepwise
<1>3. \A i \in DOMAIN arr : /\ arr[i] = <<arr[i][1], arr[i][2]>>
                            /\ arr[i][1] \in 1..n /\ arr[i][1] \in Nat /\ arr[i][2] \in Int
  BY <1>2
<1>4. \A i, j \in DOMAIN arr : i < j => arr[i][1] < arr[j][1]
  BY DEF Stepwise
<1>5. \A i, j \in DOMAIN arr : arr[i][1] <= arr[j][1] <=> i <= j
  <2> SUFFICES ASSUME NEW i \in DOMAIN arr, NEW j \in DOMAIN arr
               PROVE  arr[i][1] <= arr[j][1] <=> i <= j
    OBVIOUS
  <2>1. i < j \/ i = j \/ j < i
    BY <1>1
  <2> QED
    BY <1>1, <1>3, <1>4, <2>1
<1>6. \A i, j \in DOMAIN arr : arr[i][1] = arr[j][1] => i = j
  <2> SUFFICES ASSUME NEW i \in DOMAIN arr, NEW j \in DOMAIN arr, arr[i][1] = arr[j][1]
               PROVE  i = j
    OBVIOUS
  <2>1. arr[i][1] <= arr[j][1] /\ arr[j][1] <= arr[i][1]
    BY <1>3
  <2>2. i <= j /\ j <= i
    BY <1>5, <2>1
  <2> QED
    BY <1>1, <2>2
<1> QED
  BY <1>1, <1>3, <1>5, <1>6

\* What a backward look finds: the latest of the entries at the indices J.
LEMMA LatestEntry ==
  ASSUME NEW n \in Nat, NEW arr, Stepwise(arr, n), NEW J, J \subseteq DOMAIN arr, J # {}
  PROVE  Probe!Max(J) \in J /\ \A j \in J : arr[j][1] <= arr[Probe!Max(J)][1]
<1>1. Len(arr) \in Nat /\ J \subseteq 0..Len(arr)
  BY StepwiseFacts
<1>2. Max(J) \in J /\ \A j \in J : j <= Max(J)
  BY <1>1, Largest
<1>3. Probe!Max(J) = Max(J)
  BY ProbeLibrary
<1> QED
  BY <1>2, <1>3, StepwiseFacts

\* In a look back from block b one listing covers another: it has no other
\* entries, and has those the lookback reaches and the last one.
Covers(arr, full_, b) ==
  /\ \A i \in DOMAIN arr : arr[i][1] < b => \E j \in DOMAIN full_ : full_[j] = arr[i]
  /\ \A j \in DOMAIN full_ :
       /\ full_[j][1] < b
       /\ \/ full_[j][1] >= b - LOOKBACK
          \/ \A k \in DOMAIN full_ : full_[k][1] < b => full_[k][1] <= full_[j][1]
       => \E i \in DOMAIN arr : arr[i] = full_[j]

\* Both listings then give the same tick.
LEMMA SameTick ==
  ASSUME NEW n \in Nat, NEW arr, NEW h, Stepwise(arr, n), Stepwise(h, n), NEW b \in Int,
         Covers(arr, h, b)
  PROVE  Probe!TickBefore(arr, b) = Probe!TickBefore(h, b)
<1> DEFINE A == Probe!Earlier(arr, b)
           H == Probe!Earlier(h, b)
<1>1. A \subseteq DOMAIN arr /\ H \subseteq DOMAIN h
  BY DEF Probe!Earlier
<1>2. CASE H = {}
  <2>1. A = {}
    BY <1>2 DEF Probe!Earlier, Covers
  <2> QED
    BY <1>2, <2>1 DEF Probe!TickBefore
<1>3. CASE H # {}
  <2> DEFINE m == Probe!Max(H)
  <2>1. m \in H /\ \A j \in H : h[j][1] <= h[m][1]
    BY <1>1, <1>3, LatestEntry
  <2>2. m \in DOMAIN h /\ h[m][1] < b
    BY <2>1 DEF Probe!Earlier
  <2>3. \A k \in DOMAIN h : h[k][1] < b => h[k][1] <= h[m][1]
    BY <2>1 DEF Probe!Earlier
  <2> HIDE DEF m
  <2>4. PICK i \in DOMAIN arr : arr[i] = h[m]
    BY <2>2, <2>3 DEF Covers
  <2>5. i \in A
    BY <2>2, <2>4 DEF Probe!Earlier
  <2>6. Probe!Max(A) \in A /\ \A j \in A : arr[j][1] <= arr[Probe!Max(A)][1]
    BY <1>1, <2>5, LatestEntry
  <2>7. Probe!Max(A) \in DOMAIN arr /\ arr[Probe!Max(A)][1] < b
    BY <2>6 DEF Probe!Earlier
  <2>8. PICK k \in DOMAIN h : h[k] = arr[Probe!Max(A)]
    BY <2>7 DEF Covers
  <2>9. h[k][1] <= h[m][1] /\ h[m][1] <= h[k][1]
    BY <2>3, <2>4, <2>5, <2>6, <2>7, <2>8
  <2>10. h[k][1] \in Nat /\ h[m][1] \in Nat
    BY <2>2, StepwiseFacts
  <2>11. k = m
    BY <2>2, <2>9, <2>10, StepwiseFacts
  <2>12. arr[Probe!Max(A)] = h[m]
    BY <2>8, <2>11
  <2>13. Probe!TickBefore(arr, b) = arr[Probe!Max(A)][2]
    BY <2>5 DEF Probe!TickBefore
  <2>14. Probe!TickBefore(h, b) = h[m][2]
    BY <1>3 DEF Probe!TickBefore, m
  <2> QED
    BY <2>12, <2>13, <2>14
<1> QED
  BY <1>2, <1>3

\* And the same delay.
LEMMA SameDelay ==
  ASSUME NEW n \in Nat, NEW arr, NEW h, Stepwise(arr, n), Stepwise(h, n), NEW b \in Int,
         Covers(arr, h, b), NEW r
  PROVE  Probe!ExitDelay(arr, b, r) = Probe!ExitDelay(h, b, r)
<1> DEFINE In(x) == {j \in Probe!Earlier(x, b) : /\ x[j][1] >= b - LOOKBACK
                                             /\ x[j][2] \in r[1]..r[2]}
<1>1. /\ Probe!ExitDelay(arr, b, r) = IF In(arr) = {} THEN Probe!NoOne ELSE b - arr[Probe!Max(In(arr))][1]
      /\ Probe!ExitDelay(h, b, r) = IF In(h) = {} THEN Probe!NoOne ELSE b - h[Probe!Max(In(h))][1]
  BY DEF Probe!ExitDelay
<1>2. /\ \A j : j \in In(arr) <=> /\ j \in DOMAIN arr /\ arr[j][1] < b
                                  /\ arr[j][1] >= b - LOOKBACK /\ arr[j][2] \in r[1]..r[2]
      /\ \A j : j \in In(h) <=> /\ j \in DOMAIN h /\ h[j][1] < b
                                /\ h[j][1] >= b - LOOKBACK /\ h[j][2] \in r[1]..r[2]
  BY DEF Probe!Earlier
<1> HIDE DEF In
<1>3. \A i \in In(arr) : \E j \in In(h) : h[j] = arr[i]
  <2> TAKE i \in In(arr)
  <2>1. PICK j \in DOMAIN h : h[j] = arr[i]
    BY <1>2 DEF Covers
  <2>2. j \in In(h)
    BY <1>2, <2>1
  <2> QED
    BY <2>1, <2>2
<1>4. \A j \in In(h) : \E i \in In(arr) : arr[i] = h[j]
  <2> TAKE j \in In(h)
  <2>1. PICK i \in DOMAIN arr : arr[i] = h[j]
    BY <1>2 DEF Covers
  <2>2. i \in In(arr)
    BY <1>2, <2>1
  <2> QED
    BY <2>1, <2>2
<1>5. CASE In(h) = {}
  BY <1>1, <1>3, <1>5
<1>6. CASE In(h) # {}
  <2>1. In(arr) # {} /\ In(arr) \subseteq DOMAIN arr /\ In(h) \subseteq DOMAIN h
    BY <1>2, <1>4, <1>6
  <2>2. Probe!Max(In(h)) \in In(h) /\ \A j \in In(h) : h[j][1] <= h[Probe!Max(In(h))][1]
    BY <1>6, <2>1, LatestEntry
  <2>3. Probe!Max(In(arr)) \in In(arr) /\ \A j \in In(arr) : arr[j][1] <= arr[Probe!Max(In(arr))][1]
    BY <2>1, LatestEntry
  <2>4. h[Probe!Max(In(h))][1] <= arr[Probe!Max(In(arr))][1]
    <3>1. PICK i \in In(arr) : arr[i] = h[Probe!Max(In(h))]
      BY <1>4, <2>2
    <3> QED
      BY <2>3, <3>1
  <2>5. arr[Probe!Max(In(arr))][1] <= h[Probe!Max(In(h))][1]
    <3>1. PICK j \in In(h) : h[j] = arr[Probe!Max(In(arr))]
      BY <1>3, <2>3
    <3> QED
      BY <2>2, <3>1
  <2>6. h[Probe!Max(In(h))][1] \in Nat /\ arr[Probe!Max(In(arr))][1] \in Nat
    BY <2>1, <2>2, <2>3, StepwiseFacts
  <2>7. h[Probe!Max(In(h))][1] = arr[Probe!Max(In(arr))][1]
    BY <2>4, <2>5, <2>6
  <2> QED
    BY <1>1, <1>6, <2>1, <2>7
<1> QED
  BY <1>5, <1>6

LEMMA StepwiseOnward ==
  ASSUME NEW n \in Nat, NEW h, Stepwise(h, n)
  PROVE  /\ Stepwise(h, n + 1)
         /\ \A t \in Int : Stepwise(Append(h, <<n + 1, t>>), n + 1)
<1>1. h \in Seq((1..n) \X Int) /\ (1..n) \X Int \subseteq (1..(n + 1)) \X Int
  BY DEF Stepwise
<1>2. h \in Seq((1..(n + 1)) \X Int)
  BY <1>1
<1>3. Stepwise(h, n + 1)
  BY <1>2 DEF Stepwise
<1>4. ASSUME NEW t \in Int
      PROVE  Stepwise(Append(h, <<n + 1, t>>), n + 1)
  <2> DEFINE e == <<n + 1, t>>
  <2>1. e \in (1..(n + 1)) \X Int /\ e[1] = n + 1
    OBVIOUS
  <2> HIDE DEF e
  <2>2. Append(h, e) \in Seq((1..(n + 1)) \X Int)
    BY <1>2, <2>1
  <2>3. \A i \in DOMAIN Append(h, e) :
          \/ i \in DOMAIN h /\ Append(h, e)[i] = h[i] /\ i < Len(h) + 1
          \/ i = Len(h) + 1 /\ Append(h, e)[i] = e
    BY <1>2
  <2>4. Len(h) \in Nat /\ \A i \in DOMAIN h : h[i][1] \in 1..n
    BY StepwiseFacts
  <2>5. ASSUME NEW i \in DOMAIN Append(h, e), NEW j \in DOMAIN Append(h, e), i < j
        PROVE  Append(h, e)[i][1] < Append(h, e)[j][1]
    <3>1. i \in DOMAIN h /\ Append(h, e)[i] = h[i]
      BY <2>3, <2>4, <2>5
    <3>2. CASE j = Len(h) + 1
      <4>1. Append(h, e)[j] = e
        BY <2>3, <2>4, <3>2
      <4> QED
        BY <2>1, <2>4, <3>1, <4>1
    <3>3. CASE j \in DOMAIN h /\ Append(h, e)[j] = h[j]
      BY <2>5, <3>1, <3>3 DEF Stepwise
    <3> QED
      BY <2>3, <3>2, <3>3
  <2> QED
    BY <2>2, <2>5 DEF Stepwise, e
<1> QED
  BY <1>3, <1>4

\* The entry of a block answers no question of that block or an earlier one.
LEMMA EntryIsLate ==
  ASSUME NEW n \in Nat, NEW h, Stepwise(h, n), NEW t \in Int, NEW b \in Int, b <= n + 1
  PROVE  /\ Probe!TickBefore(Append(h, <<n + 1, t>>), b) = Probe!TickBefore(h, b)
         /\ \A r : Probe!ExitDelay(Append(h, <<n + 1, t>>), b, r) = Probe!ExitDelay(h, b, r)
         /\ Probe!Earlier(Append(h, <<n + 1, t>>), b) = Probe!Earlier(h, b)
<1> DEFINE e == <<n + 1, t>>
           g == Append(h, e)
<1>1. Stepwise(h, n + 1) /\ Stepwise(g, n + 1)
  BY StepwiseOnward
<1>2. e[1] = n + 1
  OBVIOUS
<1> HIDE DEF e
<1>3. h \in Seq((1..n) \X Int)
  BY DEF Stepwise
<1>4. /\ \A i \in DOMAIN g : \/ i \in DOMAIN h /\ g[i] = h[i]
                             \/ i = Len(h) + 1 /\ g[i] = e
      /\ \A i \in DOMAIN h : i \in DOMAIN g /\ g[i] = h[i]
  BY <1>3
<1> HIDE DEF g
<1>5. \A i \in DOMAIN g : g[i][1] < b => i \in DOMAIN h /\ g[i] = h[i]
  BY <1>2, <1>4
<1>6. Covers(g, h, b)
  BY <1>4, <1>5 DEF Covers
<1>7. Probe!TickBefore(g, b) = Probe!TickBefore(h, b)
  BY <1>1, <1>6, SameTick
<1>8. \A r : Probe!ExitDelay(g, b, r) = Probe!ExitDelay(h, b, r)
  BY <1>1, <1>6, SameDelay
<1>9. Probe!Earlier(g, b) = Probe!Earlier(h, b)
  BY <1>4, <1>5 DEF Probe!Earlier
<1> QED
  BY <1>7, <1>8, <1>9 DEF g, e

\* Pruning keeps what the lookback of its block reaches.
LEMMA PruneKeeps ==
  ASSUME NEW n \in Nat, NEW arr, Stepwise(arr, n), NEW b \in Int,
         NEW q, q = Probe!Prune(arr, b)
  PROVE  /\ Stepwise(q, n)
         /\ \A k \in DOMAIN q : \E j \in DOMAIN arr : q[k] = arr[j]
         /\ \A j \in DOMAIN arr : arr[j][1] >= b - LOOKBACK => \E k \in DOMAIN q : q[k] = arr[j]
<1> DEFINE S == Probe!Recent(arr, b)
           O == {p \in S \X S : p[1] < p[2]}
           kept == Probe!Ranked(S, <)
<1>1. DOMAIN arr = 1..Len(arr) /\ Len(arr) \in Nat
  BY StepwiseFacts
<1>2. S \subseteq DOMAIN arr /\ \A j \in S : j \in Nat
  BY <1>1 DEF Probe!Recent
<1>3. IsFiniteSet(S) /\ Cardinality(S) \in Nat
  <2>1. 1 \in Int /\ Len(arr) \in Int
    BY <1>1
  <2>2. IsFiniteSet(1..Len(arr))
    BY <2>1, FS_Interval
  <2> QED
    BY <1>1, <1>2, <2>2, FS_Subset, FS_CardinalityType
<1>4. OrdersStrictly(O, S)
  BY <1>2 DEF OrdersStrictly
<1>5. /\ DOMAIN kept = 1..Cardinality(S)
      /\ \A k \in DOMAIN kept : kept[k] = AtRank(k, O, S)
  <2>1. \A r \in S : {x \in S : x < r} = Preceding(r, O, S)
    BY DEF Preceding
  <2>2. \A k : (CHOOSE r \in S : Cardinality({x \in S : x < r}) = k - 1)
              = CHOOSE r \in S : Cardinality(Preceding(r, O, S)) = k - 1
    BY <2>1
  <2> QED
    BY <2>2, ProbeLibrary DEF Probe!Ranked, AtRank
<1>6. \A i, j \in S : <<i, j>> \in O => i < j
  OBVIOUS
<1> HIDE DEF O, kept
<1>7. /\ \A k \in DOMAIN kept : kept[k] \in S
      /\ \A j, k \in DOMAIN kept : j < k => <<kept[j], kept[k]>> \in O
      /\ \A r \in S : \E k \in DOMAIN kept : kept[k] = r
  BY <1>3, <1>4, <1>5, RankedInOrder
<1>8. CASE q = arr
  BY <1>8
<1>9. CASE q = [k \in DOMAIN kept |-> arr[kept[k]]]
  <2>1. DOMAIN q = 1..Cardinality(S) /\ \A k \in DOMAIN q : q[k] = arr[kept[k]]
    BY <1>5, <1>9
  <2>2. \A k \in DOMAIN q : q[k] \in (1..n) \X Int
    <3>1. \A j \in DOMAIN arr : arr[j] \in (1..n) \X Int
      BY DEF Stepwise
    <3> QED
      BY <1>2, <1>5, <1>7, <2>1, <3>1
  <2>3. q \in Seq((1..n) \X Int)
    BY <1>3, <1>5, <1>9, <2>1, <2>2
  <2>4. ASSUME NEW i \in DOMAIN q, NEW j \in DOMAIN q, i < j
        PROVE  q[i][1] < q[j][1]
    <3>1. kept[i] \in S /\ kept[j] \in S /\ kept[i] < kept[j]
      BY <1>5, <1>6, <1>7, <2>1, <2>4
    <3> QED
      BY <1>2, <2>1, <3>1 DEF Stepwise
  <2>5. \A k \in DOMAIN q : \E j \in DOMAIN arr : q[k] = arr[j]
    BY <1>2, <1>5, <1>7, <2>1
  <2>6. ASSUME NEW j \in DOMAIN arr, arr[j][1] >= b - LOOKBACK
        PROVE  \E k \in DOMAIN q : q[k] = arr[j]
    <3>1. j \in S
      BY <2>6 DEF Probe!Recent
    <3> QED
      BY <1>5, <1>7, <2>1, <3>1
  <2> QED
    BY <2>3, <2>4, <2>5, <2>6 DEF Stepwise
<1> QED
  BY <1>8, <1>9 DEF Probe!Prune, kept

\* Blocks against the horizon of the next look back.
LEMMA Horizons ==
  ASSUME NEW n \in Nat, NEW x \in Nat, x <= n
  PROVE  /\ x < n + 1 /\ x < n + 2
         /\ x >= (n + 2) - LOOKBACK => x >= (n + 1) - LOOKBACK
BY ProbeAssumption

\* A block without a swap, or without logs, leaves the cache good for the next.
LEMMA CoversOnward ==
  ASSUME NEW n \in Nat, NEW arr, NEW h, Stepwise(arr, n), Stepwise(h, n),
         Covers(arr, h, n + 1)
  PROVE  Covers(arr, h, n + 2)
<1>1. /\ \A j \in DOMAIN h : h[j][1] \in Nat /\ h[j][1] <= n
      /\ \A i \in DOMAIN arr : arr[i][1] \in Nat /\ arr[i][1] <= n
  BY StepwiseFacts
<1>2. /\ \A j \in DOMAIN h : h[j][1] < n + 1 /\ h[j][1] < n + 2
      /\ \A i \in DOMAIN arr : arr[i][1] < n + 1
      /\ \A j \in DOMAIN h : h[j][1] >= (n + 2) - LOOKBACK => h[j][1] >= (n + 1) - LOOKBACK
  BY <1>1, Horizons
<1>3. \A i \in DOMAIN arr : \E j \in DOMAIN h : h[j] = arr[i]
  BY <1>2 DEF Covers
<1>4. ASSUME NEW j \in DOMAIN h,
             \/ h[j][1] >= (n + 2) - LOOKBACK
             \/ \A k \in DOMAIN h : h[k][1] < n + 2 => h[k][1] <= h[j][1]
      PROVE  \E i \in DOMAIN arr : arr[i] = h[j]
  BY <1>2, <1>4 DEF Covers
<1> QED
  BY <1>3, <1>4 DEF Covers

\* A block with a swap: its entry goes in, and then the cache is pruned.
LEMMA CoversEntered ==
  ASSUME NEW n \in Nat, NEW arr, NEW h, Stepwise(arr, n), Stepwise(h, n),
         Covers(arr, h, n + 1), NEW t \in Int
  PROVE  Covers(Probe!Prune(Append(arr, <<n + 1, t>>), n + 1), Append(h, <<n + 1, t>>), n + 2)
<1> DEFINE e == <<n + 1, t>>
           a2 == Append(arr, e)
           h2 == Append(h, e)
           q == Probe!Prune(a2, n + 1)
<1>1. LOOKBACK \in Nat
  BY ProbeAssumption
<1>2. Stepwise(a2, n + 1) /\ Stepwise(h2, n + 1)
  BY StepwiseOnward
<1>3. e[1] = n + 1
  OBVIOUS
<1> HIDE DEF e
<1>4. arr \in Seq((1..n) \X Int) /\ h \in Seq((1..n) \X Int)
  BY DEF Stepwise
<1>5. /\ \A i \in DOMAIN a2 : \/ i \in DOMAIN arr /\ a2[i] = arr[i]
                              \/ a2[i] = e
      /\ \A i \in DOMAIN arr : i \in DOMAIN a2 /\ a2[i] = arr[i]
      /\ \E i \in DOMAIN a2 : a2[i] = e
  <2>1. Len(arr) + 1 \in DOMAIN a2 /\ a2[Len(arr) + 1] = e
    BY <1>4
  <2> QED
    BY <1>4, <2>1
<1>6. /\ \A i \in DOMAIN h2 : \/ i \in DOMAIN h /\ h2[i] = h[i]
                              \/ h2[i] = e
      /\ \A i \in DOMAIN h : i \in DOMAIN h2 /\ h2[i] = h[i]
      /\ \E i \in DOMAIN h2 : h2[i] = e
  <2>1. Len(h) + 1 \in DOMAIN h2 /\ h2[Len(h) + 1] = e
    BY <1>4
  <2> QED
    BY <1>4, <2>1
<1> HIDE DEF a2, h2
<1>7. /\ \A k \in DOMAIN q : \E j \in DOMAIN a2 : q[k] = a2[j]
      /\ \A j \in DOMAIN a2 : a2[j][1] >= (n + 1) - LOOKBACK => \E k \in DOMAIN q : q[k] = a2[j]
  <2>1. n + 1 \in Nat /\ n + 1 \in Int
    OBVIOUS
  <2>2. q = Probe!Prune(a2, n + 1)
    OBVIOUS
  <2> HIDE DEF q
  <2> QED
    BY <1>2, <2>1, <2>2, PruneKeeps
<1> HIDE DEF q
<1>8. \A j \in DOMAIN h : h[j][1] \in Nat /\ h[j][1] <= n
  BY StepwiseFacts
<1>9. \A i \in DOMAIN arr : arr[i][1] < n + 1
  BY StepwiseFacts, Horizons
<1>10. \A i \in DOMAIN arr : \E j \in DOMAIN h : h[j] = arr[i]
  <2>1. \A i \in DOMAIN arr : arr[i][1] < n + 1 => \E j \in DOMAIN h : h[j] = arr[i]
    BY Zenon DEF Covers
  <2> QED
    BY <1>9, <2>1
<1>11. ASSUME NEW k \in DOMAIN q
       PROVE  \E j \in DOMAIN h2 : h2[j] = q[k]
  <2>1. PICK j \in DOMAIN a2 : q[k] = a2[j]
    BY <1>7
  <2>2. CASE a2[j] = e
    BY <1>6, <2>1, <2>2
  <2>3. CASE j \in DOMAIN arr /\ a2[j] = arr[j]
    <3>1. PICK i \in DOMAIN h : h[i] = arr[j]
      BY <1>10, <2>3
    <3> QED
      BY <1>6, <2>1, <2>3, <3>1
  <2> QED
    BY <1>5, <2>2, <2>3
<1>12. \E k \in DOMAIN q : q[k] = e
  <2>1. PICK j \in DOMAIN a2 : a2[j] = e
    BY <1>5
  <2>2. a2[j][1] >= (n + 1) - LOOKBACK
    BY <1>1, <1>3, <2>1
  <2> QED
    BY <1>7, <2>1, <2>2
<1>13. ASSUME NEW j \in DOMAIN h2,
              \/ h2[j][1] >= (n + 2) - LOOKBACK
              \/ \A k \in DOMAIN h2 : h2[k][1] < n + 2 => h2[k][1] <= h2[j][1]
       PROVE  \E k \in DOMAIN q : q[k] = h2[j]
  <2>1. CASE h2[j] = e
    BY <1>12, <2>1
  <2>2. CASE j \in DOMAIN h /\ h2[j] = h[j]
    <3>1. ~(\A k \in DOMAIN h2 : h2[k][1] < n + 2 => h2[k][1] <= h2[j][1])
      <4>1. PICK k \in DOMAIN h2 : h2[k] = e
        BY <1>6
      <4>2. h2[k][1] = n + 1 /\ h2[j][1] <= n /\ h2[j][1] \in Nat
        BY <1>3, <1>8, <2>2, <4>1
      <4> QED
        BY <4>2
    <3>2. h[j][1] >= (n + 1) - LOOKBACK /\ h[j][1] < n + 1
      BY <1>1, <1>8, <1>13, <2>2, <3>1
    <3>3. PICK i \in DOMAIN arr : arr[i] = h[j]
      BY <2>2, <3>2 DEF Covers
    <3>4. i \in DOMAIN a2 /\ a2[i] = h[j]
      BY <1>5, <3>3
    <3> QED
      BY <1>7, <2>2, <3>2, <3>4
  <2> QED
    BY <1>6, <2>1, <2>2
<1>14. Covers(q, h2, n + 2)
  BY <1>11, <1>13 DEF Covers
<1> QED
  BY <1>14 DEF q, a2, h2, e

(* One block's logs.                                                        *)
LEMMA BlockFacts ==
  ASSUME NEW logs, Probe!IsBlock(logs)
  PROVE  /\ DOMAIN logs = 1..Len(logs) /\ Len(logs) \in Nat /\ IsFiniteSet(DOMAIN logs)
         /\ \A i \in DOMAIN logs :
              /\ logs[i].pool \in Pools /\ logs[i].kind \in {"swap", "mint", "burn"}
              /\ logs[i].tx \in Nat /\ logs[i].tick \in Int
              /\ logs[i].owner \in Owners \cup {NFPM} /\ logs[i].rng \in Int \X Int
              /\ logs[i].sender \in Owners \cup {Probe!NoOne}
         /\ \A i, j \in DOMAIN logs : i < j => logs[i].tx <= logs[j].tx
         /\ \A i \in DOMAIN logs : IF logs[i].kind = "swap" THEN logs[i].tick # Probe!NoTick
                                   ELSE logs[i].rng[1] < logs[i].rng[2]
<1>1. logs \in Seq(Probe!Log)
  BY DEF Probe!IsBlock
<1>2. DOMAIN logs = 1..Len(logs) /\ Len(logs) \in Nat
  BY <1>1
<1>3. IsFiniteSet(DOMAIN logs)
  <2>1. 1 \in Int /\ Len(logs) \in Int
    BY <1>2
  <2> QED
    BY <1>2, <2>1, FS_Interval
<1>4. \A i \in DOMAIN logs : logs[i] \in Probe!Log
  BY <1>1
<1>5. ASSUME NEW i \in DOMAIN logs
      PROVE  /\ logs[i].pool \in Pools /\ logs[i].kind \in {"swap", "mint", "burn"}
             /\ logs[i].tx \in Nat /\ logs[i].tick \in Int
             /\ logs[i].owner \in Owners \cup {NFPM} /\ logs[i].rng \in Int \X Int
             /\ logs[i].sender \in Owners \cup {Probe!NoOne}
  BY <1>4 DEF Probe!Log
<1> QED
  BY <1>2, <1>3, <1>5 DEF Probe!IsBlock

\* The first and the last of some of a block's logs.
LEMMA Places ==
  ASSUME NEW logs, Probe!IsBlock(logs), NEW T, T \subseteq DOMAIN logs, T # {}
  PROVE  /\ Probe!Max(T) \in T /\ \A i \in T : i <= Probe!Max(T)
         /\ Probe!Min(T) \in T /\ \A i \in T : Probe!Min(T) <= i
<1>1. Len(logs) \in Nat /\ T \subseteq 0..Len(logs)
  BY BlockFacts
<1>2. /\ Max(T) \in T /\ \A i \in T : i <= Max(T)
      /\ Min(T) \in T /\ \A i \in T : Min(T) <= i
  BY <1>1, Largest
<1> QED
  BY <1>2, ProbeLibrary

\* The last of some of a block's transactions.
LEMMA LastTx ==
  ASSUME NEW logs, Probe!IsBlock(logs),
         NEW T, T \subseteq {logs[i].tx : i \in DOMAIN logs}, T # {}
  PROVE  Probe!Max(T) \in T /\ \A x \in T : x <= Probe!Max(T)
<1>1. PICK i \in DOMAIN logs : logs[i].tx \in T
  OBVIOUS
<1>2. Len(logs) \in Nat /\ Len(logs) \in DOMAIN logs /\ i \in 1..Len(logs)
  BY BlockFacts
<1> DEFINE n == logs[Len(logs)].tx
<1>3. n \in Nat
  BY <1>2, BlockFacts
<1>4. \A j \in DOMAIN logs : logs[j].tx \in Nat /\ logs[j].tx <= n
  <2> TAKE j \in DOMAIN logs
  <2>1. logs[j].tx \in Nat /\ j \in 1..Len(logs)
    BY BlockFacts
  <2>2. j < Len(logs) \/ j = Len(logs)
    BY <1>2, <2>1
  <2>3. j < Len(logs) => logs[j].tx <= n
    BY <1>2, BlockFacts
  <2> QED
    BY <1>3, <2>1, <2>2, <2>3
<1>5. T \subseteq 0..n
  BY <1>3, <1>4
<1> QED
  BY <1>3, <1>5, Largest, ProbeLibrary

\* A firing has logs of its own, a live mint among them, and an operator.
LEMMA FiringFacts ==
  ASSUME NEW logs, Probe!IsBlock(logs), NEW p \in Pools, NEW tx \in Probe!Fires(logs, p)
  PROVE  /\ tx \in Nat /\ tx \in {logs[i].tx : i \in DOMAIN logs}
         /\ Probe!Group(logs, p, tx) # {} /\ Probe!Group(logs, p, tx) \subseteq DOMAIN logs
         /\ \A i \in Probe!Group(logs, p, tx) :
              logs[i].pool = p /\ logs[i].tx = tx /\ logs[i].kind # "swap"
         /\ Probe!OperatorOf(logs, p, tx) \in Owners
         /\ Probe!NewRange(logs, p, tx) \in Int \X Int
         /\ Probe!NewRange(logs, p, tx)[1] < Probe!NewRange(logs, p, tx)[2]
<1> DEFINE G == Probe!Group(logs, p, tx)
           burns == Probe!Live(logs, G, "burn")
           mints == Probe!Live(logs, G, "mint")
           owners == {logs[i].owner : i \in burns \cup mints}
           senders == {logs[i].sender : i \in G} \ {Probe!NoOne}
<1>1. tx \in {logs[i].tx : i \in Probe!Pos(logs, p)} /\ Probe!FiringOf(logs, G) # Probe!NoOne
  BY DEF Probe!Fires
<1>2. G \subseteq DOMAIN logs
  BY DEF Probe!Group, Probe!Pos
<1>3. \A i \in G : logs[i].pool = p /\ logs[i].tx = tx /\ logs[i].kind # "swap"
  BY DEF Probe!Group, Probe!Pos
<1>4. tx \in Nat /\ tx \in {logs[i].tx : i \in DOMAIN logs}
  <2>1. PICK i \in Probe!Pos(logs, p) : tx = logs[i].tx
    BY <1>1
  <2>2. i \in DOMAIN logs
    BY DEF Probe!Pos
  <2> QED
    BY <2>1, <2>2, BlockFacts
<1>5. /\ ~(Probe!RangesOf(logs, mints) \subseteq Probe!RangesOf(logs, burns))
      /\ Probe!OperatorOf(logs, p, tx) = IF owners \ {NFPM} # {} THEN Probe!Min(owners \ {NFPM})
                                     ELSE IF senders # {} THEN Probe!Min(senders) ELSE Probe!NoOne
      /\ Probe!OperatorOf(logs, p, tx) # Probe!NoOne
  BY <1>1 DEF Probe!FiringOf, Probe!OperatorOf
<1>6. mints # {} /\ mints \subseteq G /\ burns \subseteq G
  BY <1>5 DEF Probe!RangesOf, Probe!Live
<1> HIDE DEF G, burns, mints
<1>7. Probe!OperatorOf(logs, p, tx) \in Owners
  <2>1. owners \ {NFPM} \subseteq Owners
    BY <1>2, <1>6, BlockFacts
  <2>2. senders \subseteq Owners
    BY <1>2, BlockFacts
  <2> HIDE DEF owners, senders
  <2>3. \A T : T \subseteq Owners /\ T # {} => Probe!Min(T) \in Owners
    <3> SUFFICES ASSUME NEW T, T \subseteq Owners, T # {} PROVE Probe!Min(T) \in Owners
      OBVIOUS
    <3>1. T \subseteq Nat
      BY ProbeAssumption
    <3>2. \E x \in T : \A y \in T : x <= y
      BY <3>1, LeastNat
    <3>3. Probe!Min(T) \in T
      BY <3>2 DEF Probe!Min
    <3> QED
      BY <3>3
  <2> QED
    BY <1>5, <2>1, <2>2, <2>3
<1>8. Probe!NewRange(logs, p, tx) = logs[Probe!Min(mints)].rng
  BY DEF Probe!NewRange, mints, G
<1>9. Probe!Min(mints) \in DOMAIN logs /\ logs[Probe!Min(mints)].kind # "swap"
  BY <1>2, <1>3, <1>6, Places
<1>10. /\ Probe!NewRange(logs, p, tx) \in Int \X Int
       /\ Probe!NewRange(logs, p, tx)[1] < Probe!NewRange(logs, p, tx)[2]
  BY <1>8, <1>9, BlockFacts
<1> QED
  BY <1>2, <1>3, <1>4, <1>6, <1>7, <1>10 DEF G

\* The firings of a block are no more than its logs.
LEMMA FiringsAreFew ==
  ASSUME NEW logs, Probe!IsBlock(logs)
  PROVE  IsFiniteSet(Probe!AllFires(logs))
<1> DEFINE F == Probe!AllFires(logs)
           first == [f \in F |-> Probe!Min(Probe!Group(logs, f[1], f[2]))]
<1>1. \A f \in F : f[1] \in Pools /\ f[2] \in Probe!Fires(logs, f[1]) /\ f = <<f[1], f[2]>>
  BY DEF Probe!AllFires
<1> HIDE DEF F
<1>2. ASSUME NEW f \in F
      PROVE  /\ first[f] \in DOMAIN logs
             /\ logs[first[f]].pool = f[1] /\ logs[first[f]].tx = f[2]
  <2>1. /\ Probe!Group(logs, f[1], f[2]) # {} /\ Probe!Group(logs, f[1], f[2]) \subseteq DOMAIN logs
        /\ \A i \in Probe!Group(logs, f[1], f[2]) : logs[i].pool = f[1] /\ logs[i].tx = f[2]
    BY <1>1, FiringFacts
  <2>2. Probe!Min(Probe!Group(logs, f[1], f[2])) \in Probe!Group(logs, f[1], f[2])
    BY <2>1, Places
  <2> QED
    BY <2>1, <2>2
<1>3. \A f, g \in F : first[f] = first[g] => f = g
  BY <1>1, <1>2
<1>4. first \in [F -> DOMAIN logs]
  BY <1>2
<1> HIDE DEF first
<1>5. first \in Injection(F, DOMAIN logs)
  BY <1>3, <1>4 DEF Injection, IsInjective
<1>6. IsFiniteSet(DOMAIN logs)
  BY BlockFacts
<1> QED
  BY <1>5, <1>6, FS_Injection DEF F

\* A firing's logs are next to each other but for those of its own transaction:
\* a swap of another one is before them all or after them all.
LEMMA OutsideSwaps ==
  ASSUME NEW logs, Probe!IsBlock(logs), NEW p \in Pools, NEW tx \in Probe!Fires(logs, p)
  PROVE  Probe!External(logs, p, tx) # {} <=> Probe!Before(logs, p, tx) \/ Probe!After(logs, p, tx)
<1> DEFINE G == Probe!Group(logs, p, tx)
<1>1. /\ G # {} /\ G \subseteq DOMAIN logs
      /\ \A i \in G : logs[i].pool = p /\ logs[i].tx = tx /\ logs[i].kind # "swap"
  BY FiringFacts
<1>2. Probe!Min(G) \in G /\ Probe!Max(G) \in G
  BY <1>1, Places
<1>3. /\ Probe!Before(logs, p, tx) <=> \E i \in Probe!External(logs, p, tx) : i < Probe!Min(G)
      /\ Probe!After(logs, p, tx) <=> \E i \in Probe!External(logs, p, tx) : i > Probe!Max(G)
  BY DEF Probe!Before, Probe!After
<1> HIDE DEF G
<1>4. ASSUME NEW i \in Probe!External(logs, p, tx)
      PROVE  i < Probe!Min(G) \/ i > Probe!Max(G)
  <2>1. i \in DOMAIN logs /\ logs[i].tx # tx
    BY DEF Probe!External, Probe!Swaps
  <2>2. /\ i \in Nat /\ Probe!Min(G) \in Nat /\ Probe!Max(G) \in Nat
        /\ Probe!Min(G) \in DOMAIN logs /\ Probe!Max(G) \in DOMAIN logs
        /\ logs[i].tx \in Nat /\ tx \in Nat
        /\ logs[Probe!Min(G)].tx = tx /\ logs[Probe!Max(G)].tx = tx
    BY <1>1, <1>2, <2>1, BlockFacts
  <2>3. Probe!Min(G) < i => tx <= logs[i].tx
    BY <2>1, <2>2, BlockFacts
  <2>4. i < Probe!Max(G) => logs[i].tx <= tx
    BY <2>1, <2>2, BlockFacts
  <2>5. i # Probe!Min(G) /\ i # Probe!Max(G)
    BY <2>1, <2>2
  <2> QED
    BY <2>1, <2>2, <2>3, <2>4, <2>5
<1> QED
  BY <1>3, <1>4

\* The positions a block opened and closed, and those it closed and opened.
JitOf(logs)    == UNION {{p} \X Probe!Jit(logs, p) : p \in Pools}
RemintOf(logs) == UNION {{p} \X Probe!Remint(logs, p) : p \in Pools}

\* What a block adds to the counters, name by name.
LEMMA TallyIs ==
  ASSUME NEW logs
  PROVE  LET F == Probe!AllFires(logs)
             B == {f \in F : Probe!Before(logs, f[1], f[2])}
             A == {f \in F : Probe!After(logs, f[1], f[2])}
             T == Probe!Tally(logs)
         IN /\ T["firings"] = Cardinality(F)
            /\ T["backrun"] = Cardinality(A) /\ T["frontrun"] = Cardinality(B)
            /\ T["sandwich"] = Cardinality(A \cap B) /\ T["any_ext"] = Cardinality(A \cup B)
            /\ T["own_swap"] = Cardinality({f \in F : \E i \in Probe!Swaps(logs, f[1]) :
                                                        logs[i].tx = f[2]})
            /\ T["with_swaps"] = Cardinality({f \in F : Probe!External(logs, f[1], f[2]) # {}})
            /\ T["events"] = Cardinality({i \in DOMAIN logs : logs[i].kind # "swap"})
            /\ T["jit"] = Cardinality(JitOf(logs))
            /\ T["remint"] = Cardinality(RemintOf(logs))
            /\ T = [c \in Probe!Counters |-> T[c]]
BY ProbeLibrary DEF Probe!Tally, Probe!Counters, JitOf, RemintOf

\* Each firing with swaps of others is counted once on either side.
LEMMA TallyCompares ==
  ASSUME NEW logs, Probe!IsBlock(logs)
  PROVE  LET T == Probe!Tally(logs)
         IN /\ \A c \in {"firings", "backrun", "frontrun", "sandwich", "any_ext",
                         "own_swap", "with_swaps"} : T[c] \in Nat
            /\ T["backrun"] + T["frontrun"] - T["sandwich"] = T["with_swaps"]
            /\ T["any_ext"] = T["with_swaps"]
<1> DEFINE F == Probe!AllFires(logs)
           B == {f \in F : Probe!Before(logs, f[1], f[2])}
           A == {f \in F : Probe!After(logs, f[1], f[2])}
           W == {f \in F : Probe!External(logs, f[1], f[2]) # {}}
           O == {f \in F : \E i \in Probe!Swaps(logs, f[1]) : logs[i].tx = f[2]}
           T == Probe!Tally(logs)
<1>1. /\ T["firings"] = Cardinality(F)
      /\ T["backrun"] = Cardinality(A) /\ T["frontrun"] = Cardinality(B)
      /\ T["sandwich"] = Cardinality(A \cap B) /\ T["any_ext"] = Cardinality(A \cup B)
      /\ T["own_swap"] = Cardinality(O) /\ T["with_swaps"] = Cardinality(W)
  BY TallyIs
<1>2. W = A \cup B
  <2>1. \A f \in F : f[1] \in Pools /\ f[2] \in Probe!Fires(logs, f[1])
    BY DEF Probe!AllFires
  <2>2. \A f \in F : Probe!External(logs, f[1], f[2]) # {}
                       <=> Probe!Before(logs, f[1], f[2]) \/ Probe!After(logs, f[1], f[2])
    BY <2>1, OutsideSwaps
  <2> HIDE DEF F
  <2> QED
    BY <2>2
<1>3. IsFiniteSet(F)
  BY FiringsAreFew
<1> HIDE DEF F
<1>4. /\ A \in SUBSET F /\ B \in SUBSET F /\ O \in SUBSET F /\ A \cup B \in SUBSET F
      /\ A \cap B \in SUBSET F
  OBVIOUS
<1> HIDE DEF A, B, O, W, T
<1>5. /\ IsFiniteSet(A) /\ IsFiniteSet(B)
      /\ Cardinality(F) \in Nat /\ Cardinality(O) \in Nat
      /\ Cardinality(A) \in Nat /\ Cardinality(B) \in Nat
      /\ Cardinality(A \cap B) \in Nat /\ Cardinality(A \cup B) \in Nat
  BY <1>3, <1>4, FS_Subset, FS_CardinalityType
<1>6. Cardinality(A \cup B) = Cardinality(A) + Cardinality(B) - Cardinality(A \cap B)
  BY <1>5, FS_Union
<1>7. \A c \in {"firings", "backrun", "frontrun", "sandwich", "any_ext",
                "own_swap", "with_swaps"} : T[c] \in Nat
  BY <1>1, <1>2, <1>5
<1> QED
  BY <1>1, <1>2, <1>6, <1>7 DEF T

\* A position that was opened and closed in a block has a log of either kind, and
\* no other position has the same.
LEMMA TallyShares ==
  ASSUME NEW logs, Probe!IsBlock(logs)
  PROVE  LET T == Probe!Tally(logs)
         IN /\ \A c \in {"events", "jit", "remint"} : T[c] \in Nat
            /\ 2 * T["jit"] + 2 * T["remint"] <= T["events"]
<1> DEFINE J == JitOf(logs)
           R == RemintOf(logs)
           V == {i \in DOMAIN logs : logs[i].kind # "swap"}
           X == (J \cup R) \X {"mint", "burn"}
           Mine(x) == {i \in Probe!KindsOf(logs, x[1][1], x[1][2]) : logs[i].kind = x[2]}
           its == [x \in X |-> Probe!Min(Mine(x))]
           T == Probe!Tally(logs)
<1>1. /\ T["jit"] = Cardinality(J) /\ T["remint"] = Cardinality(R)
      /\ T["events"] = Cardinality(V)
  BY TallyIs
<1>2. J \cap R = {}
  <2> SUFFICES ASSUME NEW y \in J, y \in R PROVE FALSE
    OBVIOUS
  <2>1. y[2] \in Probe!Jit(logs, y[1])
    BY DEF JitOf
  <2>2. y[2] \in Probe!Remint(logs, y[1])
    BY DEF RemintOf
  <2> QED
    BY <2>1, <2>2 DEF Probe!Remint
<1>3. \A y \in J \cup R : /\ y[1] \in Pools /\ y = <<y[1], y[2]>>
                          /\ {logs[i].kind : i \in Probe!KindsOf(logs, y[1], y[2])} = {"mint", "burn"}
  BY DEF JitOf, RemintOf, Probe!Jit, Probe!Remint, Probe!Both
<1> HIDE DEF J, R, T
<1>4. ASSUME NEW x \in X
      PROVE  /\ its[x] \in V
             /\ logs[its[x]].pool = x[1][1]
             /\ <<logs[its[x]].owner, logs[its[x]].rng>> = x[1][2]
             /\ logs[its[x]].kind = x[2]
  <2>1. x[1] \in J \cup R /\ x[2] \in {"mint", "burn"}
    OBVIOUS
  <2>2. x[2] \in {logs[i].kind : i \in Probe!KindsOf(logs, x[1][1], x[1][2])}
    BY <1>3, <2>1
  <2>3. Mine(x) # {}
    BY <2>2
  <2>4. \A i \in Mine(x) : /\ i \in DOMAIN logs /\ logs[i].kind = x[2] /\ logs[i].kind # "swap"
                           /\ logs[i].pool = x[1][1]
                           /\ <<logs[i].owner, logs[i].rng>> = x[1][2]
    BY DEF Probe!KindsOf, Probe!Pos
  <2>5. its[x] = Probe!Min(Mine(x))
    OBVIOUS
  <2> HIDE DEF Mine
  <2>6. its[x] \in Mine(x)
    BY <2>3, <2>4, <2>5, Places
  <2> QED
    BY <2>4, <2>6
<1>5. its \in [X -> V]
  BY <1>4
<1> HIDE DEF its
<1>6. ASSUME NEW x \in X, NEW y \in X, its[x] = its[y]
      PROVE  x = y
  <2>1. x[1][1] = y[1][1] /\ x[1][2] = y[1][2] /\ x[2] = y[2]
    BY <1>4, <1>6
  <2>2. x[1] = <<x[1][1], x[1][2]>> /\ y[1] = <<y[1][1], y[1][2]>>
    BY <1>3
  <2>3. x = <<x[1], x[2]>> /\ y = <<y[1], y[2]>>
    OBVIOUS
  <2> QED
    BY <2>1, <2>2, <2>3
<1>7. its \in Injection(X, V)
  BY <1>5, <1>6 DEF Injection, IsInjective
<1>8. IsFiniteSet(V) /\ Cardinality(V) \in Nat
  <2>1. IsFiniteSet(DOMAIN logs) /\ V \in SUBSET (DOMAIN logs)
    BY BlockFacts
  <2> QED
    BY <2>1, FS_Subset, FS_CardinalityType
<1>9. IsFiniteSet(X) /\ Cardinality(X) <= Cardinality(V)
  BY <1>7, <1>8, FS_Injection
<1>10. IsFiniteSet(J \cup R)
  <2> DEFINE f == [y \in J \cup R |-> <<y, "mint">>]
  <2>1. f \in [J \cup R -> X] /\ \A y, z \in J \cup R : f[y] = f[z] => y = z
    OBVIOUS
  <2>2. f \in Injection(J \cup R, X)
    BY <2>1 DEF Injection, IsInjective
  <2> QED
    BY <1>9, <2>2, FS_Injection
<1>11. IsFiniteSet({"mint", "burn"}) /\ Cardinality({"mint", "burn"}) = 2
  <2>1. {"mint", "burn"} = {"mint"} \cup {"burn"} /\ "burn" \notin {"mint"}
    OBVIOUS
  <2>2. IsFiniteSet({"mint"}) /\ Cardinality({"mint"}) = 1
    BY FS_Singleton
  <2>3. /\ IsFiniteSet({"mint"} \cup {"burn"})
        /\ Cardinality({"mint"} \cup {"burn"}) = Cardinality({"mint"}) + 1
    BY <2>1, <2>2, FS_AddElement
  <2> QED
    BY <2>1, <2>2, <2>3
<1>12. Cardinality(X) = Cardinality(J \cup R) * 2
  BY <1>10, <1>11, FS_Product
<1>13. /\ IsFiniteSet(J) /\ IsFiniteSet(R)
       /\ Cardinality(J) \in Nat /\ Cardinality(R) \in Nat
  <2>1. J \in SUBSET (J \cup R) /\ R \in SUBSET (J \cup R)
    OBVIOUS
  <2> QED
    BY <1>10, <2>1, FS_Subset, FS_CardinalityType
<1>14. Cardinality(J \cup R) = Cardinality(J) + Cardinality(R)
  <2>1. Cardinality(J \cup R) = Cardinality(J) + Cardinality(R) - Cardinality(J \cap R)
    BY <1>13, FS_Union
  <2>2. Cardinality(J \cap R) = 0
    BY <1>2, FS_EmptySet
  <2> QED
    BY <1>13, <2>1, <2>2
<1> HIDE DEF X, V
<1>15. \A c \in {"events", "jit", "remint"} : T[c] \in Nat
  BY <1>1, <1>8, <1>13
<1>16. 2 * T["jit"] + 2 * T["remint"] <= T["events"]
  BY <1>1, <1>8, <1>9, <1>12, <1>13, <1>14
<1> QED
  BY <1>15, <1>16 DEF T

(* The invariant of the probe.                                              *)
OfOne(T, k)    == {g \in T : g.pool = k[1] /\ g.op = k[2]}
LatestOf(T, g) == g \in T /\ \A h \in T : h = g \/ Probe!Older(h, g)

\* The cache and the history are in block order, and the one stands for the other.
CacheStands ==
  \A p \in Pools : /\ Stepwise(pticks[p], blk) /\ Stepwise(full[p], blk)
                   /\ Covers(pticks[p], full[p], blk + 1)
                   /\ \A j \in DOMAIN full[p] : full[p][j][2] # Probe!NoTick

\* The range kept of an operator in a pool is that of its latest placement there.
LastHeld ==
  /\ \A g \in placed : g.rng[1] < g.rng[2]
  /\ \A k \in Pools \X Owners :
       \/ OfOne(placed, k) = {} /\ lastRange[k] = Probe!NoRange
       \/ \E g \in placed : LatestOf(OfOne(placed, k), g) /\ lastRange[k] = g.rng

NeverOwnBlock == \A r \in readings : r.delay # 0 /\ r.tick # Probe!NoTick

ProbeInv ==
  /\ Probe!TypeOK /\ CacheStands /\ LastHeld /\ NeverOwnBlock
  /\ Probe!ReadsHistory /\ Probe!HeldBefore /\ Probe!Comparable /\ Probe!SharesAreShares

\* What on_block() is told of, and what is placed in it.
Placement(logs, b, f) ==
  [pool |-> f[1], op |-> Probe!OperatorOf(logs, f[1], f[2]), blk |-> b, tx |-> f[2],
   rng |-> Probe!NewRange(logs, f[1], f[2])]

BlockRead(logs) ==
  /\ Probe!IsBlock(logs) /\ blk' = blk + 1 /\ blk' \in 0..MAX_BLOCK
  /\ Probe!OnBlock(blk + 1, logs)

LEMMA BlockNumbers ==
  ASSUME Probe!TypeOK
  PROVE  blk \in Nat /\ blk + 1 \in Nat /\ (blk + 1) + 1 = blk + 2
BY ProbeAssumption DEF Probe!TypeOK

LEMMA FiringsOf ==
  ASSUME NEW logs, NEW f \in Probe!AllFires(logs)
  PROVE  f[1] \in Pools /\ f[2] \in Probe!Fires(logs, f[1]) /\ f = <<f[1], f[2]>>
BY DEF Probe!AllFires

LEMMA EntryFacts ==
  ASSUME NEW logs, Probe!IsBlock(logs), NEW p \in Pools, Probe!Swaps(logs, p) # {}
  PROVE  Probe!LastSwap(logs, p) \in Int /\ Probe!LastSwap(logs, p) # Probe!NoTick
<1> DEFINE T == Probe!Swaps(logs, p)
<1>1. T # {} /\ T \subseteq DOMAIN logs /\ \A i \in T : logs[i].kind = "swap"
  BY DEF Probe!Swaps
<1>2. Probe!LastSwap(logs, p) = logs[Probe!Max(T)].tick
  BY DEF Probe!LastSwap
<1> HIDE DEF T
<1>3. Probe!Max(T) \in T
  BY <1>1, Places
<1> QED
  BY <1>1, <1>2, <1>3, BlockFacts

\* The cache after a block.
LEMMA CacheOnward ==
  ASSUME Probe!TypeOK, CacheStands, NEW logs, BlockRead(logs)
  PROVE  CacheStands'
<1>1. blk \in Nat /\ blk' = blk + 1 /\ blk' + 1 = blk + 2
  BY BlockNumbers DEF BlockRead
<1>2. ASSUME NEW p \in Pools
      PROVE  /\ Stepwise(pticks'[p], blk + 1) /\ Stepwise(full'[p], blk + 1)
             /\ Covers(pticks'[p], full'[p], blk + 2)
             /\ \A j \in DOMAIN full'[p] : full'[p][j][2] # Probe!NoTick
  <2>1. /\ Stepwise(pticks[p], blk) /\ Stepwise(full[p], blk)
        /\ Covers(pticks[p], full[p], blk + 1)
        /\ \A j \in DOMAIN full[p] : full[p][j][2] # Probe!NoTick
    BY DEF CacheStands
  <2>2. CASE Probe!Swaps(logs, p) = {}
    <3>1. pticks'[p] = pticks[p] /\ full'[p] = full[p]
      BY <2>2 DEF BlockRead, Probe!OnBlock, Probe!Entered
    <3>2. /\ Stepwise(pticks[p], blk + 1) /\ Stepwise(full[p], blk + 1)
          /\ Covers(pticks[p], full[p], blk + 2)
      BY <1>1, <2>1, StepwiseOnward, CoversOnward
    <3> QED
      BY <2>1, <3>1, <3>2
  <2>3. CASE Probe!Swaps(logs, p) # {}
    <3> DEFINE t == Probe!LastSwap(logs, p)
               a2 == Append(pticks[p], <<blk + 1, t>>)
               h2 == Append(full[p], <<blk + 1, t>>)
    <3>1. t \in Int /\ t # Probe!NoTick
      BY <2>3, EntryFacts DEF BlockRead
    <3>2. pticks'[p] = Probe!Prune(a2, blk + 1) /\ full'[p] = h2
      BY <2>3 DEF BlockRead, Probe!OnBlock, Probe!Entered
    <3> HIDE DEF t
    <3>3. Stepwise(a2, blk + 1) /\ Stepwise(h2, blk + 1)
      BY <1>1, <2>1, <3>1, StepwiseOnward
    <3>4. Covers(Probe!Prune(a2, blk + 1), h2, blk + 2)
      BY <1>1, <2>1, <3>1, CoversEntered
    <3>5. \A j \in DOMAIN h2 : h2[j][2] # Probe!NoTick
      <4> DEFINE e == <<blk + 1, t>>
      <4>1. full[p] \in Seq((1..blk) \X Int) /\ e[2] = t
        BY <2>1 DEF Stepwise
      <4> HIDE DEF e
      <4>2. \A j \in DOMAIN Append(full[p], e) :
              \/ j \in DOMAIN full[p] /\ Append(full[p], e)[j] = full[p][j]
              \/ Append(full[p], e)[j] = e
        BY <4>1
      <4> QED
        BY <2>1, <3>1, <4>1, <4>2 DEF e
    <3>6. Stepwise(Probe!Prune(a2, blk + 1), blk + 1)
      <4>1. blk + 1 \in Nat /\ blk + 1 \in Int
        BY <1>1
      <4> HIDE DEF a2
      <4> QED
        BY <3>3, <4>1, PruneKeeps
    <3> QED
      BY <3>2, <3>3, <3>4, <3>5, <3>6
  <2> QED
    BY <2>2, <2>3
<1> QED
  BY <1>1, <1>2 DEF CacheStands

\* The history of the blocks before stays what it was.
LEMMA HistoryStays ==
  ASSUME Probe!TypeOK, CacheStands, NEW logs, BlockRead(logs),
         NEW p \in Pools, NEW b \in Int, b <= blk + 1
  PROVE  /\ Probe!TickBefore(full'[p], b) = Probe!TickBefore(full[p], b)
         /\ \A r : Probe!ExitDelay(full'[p], b, r) = Probe!ExitDelay(full[p], b, r)
         /\ Probe!Earlier(full'[p], b) = Probe!Earlier(full[p], b)
<1>1. blk \in Nat /\ Stepwise(full[p], blk)
  BY BlockNumbers DEF CacheStands
<1>2. CASE Probe!Swaps(logs, p) = {}
  <2>1. full'[p] = full[p]
    BY <1>2 DEF BlockRead, Probe!OnBlock, Probe!Entered
  <2> QED
    BY <2>1
<1>3. CASE Probe!Swaps(logs, p) # {}
  <2> DEFINE t == Probe!LastSwap(logs, p)
  <2>1. t \in Int
    BY <1>3, EntryFacts DEF BlockRead
  <2>2. full'[p] = Append(full[p], <<blk + 1, t>>)
    BY <1>3 DEF BlockRead, Probe!OnBlock, Probe!Entered
  <2> HIDE DEF t
  <2>3. PICK F : F = Append(full[p], <<blk + 1, t>>)
    OBVIOUS
  <2>4. PICK G : G = full[p]
    OBVIOUS
  <2>5. /\ Probe!TickBefore(F, b) = Probe!TickBefore(G, b)
        /\ \A r : Probe!ExitDelay(F, b, r) = Probe!ExitDelay(G, b, r)
        /\ Probe!Earlier(F, b) = Probe!Earlier(G, b)
    BY <1>1, <2>1, <2>3, <2>4, EntryIsLate
  <2> QED
    BY <2>2, <2>3, <2>4, <2>5
<1> QED
  BY <1>2, <1>3

\* A reading of this block is of the history before it, and no delay is zero.
LEMMA ReadingFacts ==
  ASSUME Probe!TypeOK, CacheStands, NEW p \in Pools, NEW r
  PROVE  /\ Probe!TickBefore(pticks[p], blk + 1) = Probe!TickBefore(full[p], blk + 1)
         /\ Probe!ExitDelay(pticks[p], blk + 1, r) = Probe!ExitDelay(full[p], blk + 1, r)
         /\ Probe!TickBefore(full[p], blk + 1) \in Int
         /\ Probe!ExitDelay(full[p], blk + 1, r) \in Int \ {0}
         /\ Probe!Earlier(full[p], blk + 1) # {} => Probe!TickBefore(full[p], blk + 1) # Probe!NoTick
<1>1. /\ blk \in Nat /\ blk + 1 \in Int /\ Stepwise(pticks[p], blk) /\ Stepwise(full[p], blk)
      /\ Covers(pticks[p], full[p], blk + 1)
      /\ \A j \in DOMAIN full[p] : full[p][j][2] # Probe!NoTick
  BY BlockNumbers DEF CacheStands
<1> DEFINE h == full[p]
           E == Probe!Earlier(h, blk + 1)
           I == {j \in E : h[j][1] >= (blk + 1) - LOOKBACK /\ h[j][2] \in r[1]..r[2]}
<1>2. E \subseteq DOMAIN h /\ I \subseteq DOMAIN h /\ \A j \in E : h[j][1] < blk + 1
  BY DEF Probe!Earlier
<1>3. /\ Probe!TickBefore(h, blk + 1) = IF E = {} THEN Probe!NoTick ELSE h[Probe!Max(E)][2]
      /\ Probe!ExitDelay(h, blk + 1, r) = IF I = {} THEN Probe!NoOne ELSE (blk + 1) - h[Probe!Max(I)][1]
  BY DEF Probe!TickBefore, Probe!ExitDelay
<1>4. I \subseteq E
  OBVIOUS
<1>5. Stepwise(h, blk) /\ \A j \in DOMAIN h : h[j][2] # Probe!NoTick
  BY <1>1
<1> HIDE DEF E, I, h
<1>6. E # {} => Probe!Max(E) \in DOMAIN h
  BY <1>1, <1>2, <1>5, LatestEntry
<1>7. I # {} => Probe!Max(I) \in DOMAIN h /\ h[Probe!Max(I)][1] < blk + 1
  BY <1>1, <1>2, <1>4, <1>5, LatestEntry
<1>8. \A j \in DOMAIN h : h[j][1] \in Nat /\ h[j][2] \in Int
  BY <1>1, <1>5, StepwiseFacts
<1>9. Probe!TickBefore(h, blk + 1) \in Int /\ (E # {} => Probe!TickBefore(h, blk + 1) # Probe!NoTick)
  BY <1>3, <1>5, <1>6, <1>8 DEF Probe!NoTick
<1>10. Probe!ExitDelay(h, blk + 1, r) \in Int \ {0}
  BY <1>1, <1>3, <1>7, <1>8 DEF Probe!NoOne
<1> QED
  BY <1>1, <1>9, <1>10, SameTick, SameDelay DEF h, E

\* The placements before a firing of this block, and the range PrevRange gives it.
LEMMA HeldRange ==
  ASSUME Probe!TypeOK, LastHeld, NEW logs, Probe!IsBlock(logs),
         NEW p \in Pools, NEW tx \in Probe!Fires(logs, p),
         NEW me, me = Placement(logs, blk + 1, <<p, tx>>),
         NEW now, now = placed \cup {Placement(logs, blk + 1, f) : f \in Probe!AllFires(logs)},
         NEW before, before = {h \in now : Probe!Older(h, me)}
  PROVE  \/ before = {} /\ Probe!PrevRange(logs, p, tx) = Probe!NoRange
         \/ \E g \in before : /\ Probe!PrevRange(logs, p, tx) = g.rng /\ g.rng[1] < g.rng[2]
                              /\ \A h \in before : h = g \/ Probe!Older(h, g)
<1> DEFINE op == Probe!OperatorOf(logs, p, tx)
           k == <<p, op>>
           new == {Placement(logs, blk + 1, f) : f \in Probe!AllFires(logs)}
           ahead == Probe!Earliers(logs, p, tx)
<1>1. blk \in Nat /\ k \in Pools \X Owners /\ k[1] = p /\ k[2] = op /\ tx \in Nat
  BY BlockNumbers, FiringFacts
<1>2. me.pool = p /\ me.op = op /\ me.blk = blk + 1 /\ me.tx = tx
  BY DEF Placement
<1>3. \A h \in placed : h.blk \in Nat /\ h.blk <= blk /\ h.tx \in Nat
  <2>1. \A h \in placed : h.blk \in 1..blk /\ h.tx \in Nat
    BY DEF Probe!TypeOK
  <2> QED
    BY <1>1, <2>1
<1>4. ASSUME NEW h \in new
      PROVE  \E f \in Probe!AllFires(logs) :
               /\ h = Placement(logs, blk + 1, f) /\ f[1] \in Pools /\ f[2] \in Probe!Fires(logs, f[1])
               /\ f = <<f[1], f[2]>>
               /\ h.pool = f[1] /\ h.op = Probe!OperatorOf(logs, f[1], f[2]) /\ h.blk = blk + 1
               /\ h.tx = f[2]
  <2>1. PICK f \in Probe!AllFires(logs) : h = Placement(logs, blk + 1, f)
    OBVIOUS
  <2>2. /\ h.pool = f[1] /\ h.op = Probe!OperatorOf(logs, f[1], f[2]) /\ h.blk = blk + 1
        /\ h.tx = f[2]
    BY <2>1 DEF Placement
  <2> QED
    BY <2>1, <2>2, FiringsOf
<1>5. ASSUME NEW h \in new, Probe!Older(h, me)
      PROVE  /\ h.tx \in ahead /\ h = Placement(logs, blk + 1, <<p, h.tx>>)
             /\ h.blk = blk + 1 /\ h.pool = p /\ h.op = op /\ h.tx \in Nat
  <2>1. PICK f \in Probe!AllFires(logs) :
               /\ h = Placement(logs, blk + 1, f) /\ f[1] \in Pools /\ f[2] \in Probe!Fires(logs, f[1])
               /\ f = <<f[1], f[2]>>
               /\ h.pool = f[1] /\ h.op = Probe!OperatorOf(logs, f[1], f[2]) /\ h.blk = blk + 1
               /\ h.tx = f[2]
    BY <1>4
  <2>2. h.pool = p /\ h.op = op /\ (h.blk < blk + 1 \/ h.tx < tx)
    BY <1>2, <1>5 DEF Probe!Older
  <2>3. h.tx < tx
    BY <1>1, <2>1, <2>2
  <2>4. f[1] = p /\ f[2] = h.tx /\ h.tx \in Probe!Fires(logs, p)
    BY <2>1, <2>2
  <2>5. h.tx \in ahead
    BY <2>1, <2>2, <2>3, <2>4 DEF Probe!Earliers
  <2>6. h.tx \in Nat
    BY <2>4, FiringFacts
  <2> QED
    BY <2>1, <2>2, <2>4, <2>5, <2>6
<1>6. \A t \in ahead : /\ t \in Probe!Fires(logs, p) /\ t < tx /\ Probe!OperatorOf(logs, p, t) = op
                       /\ <<p, t>> \in Probe!AllFires(logs)
  BY DEF Probe!Earliers, Probe!AllFires
<1>7. \A h \in placed : Probe!Older(h, me) <=> h \in OfOne(placed, k)
  <2> TAKE h \in placed
  <2>1. h.blk < blk + 1 /\ h.blk # blk + 1
    BY <1>1, <1>3
  <2> QED
    BY <1>1, <1>2, <2>1 DEF Probe!Older, OfOne
<1> HIDE DEF new, ahead, k, op
<1>8. CASE ahead = {}
  <2>1. before = OfOne(placed, k)
    <3>1. \A h \in before : h \in placed /\ Probe!Older(h, me)
      BY <1>5, <1>8 DEF new
    <3>2. \A h \in OfOne(placed, k) : h \in before
      BY <1>7 DEF OfOne
    <3> QED
      BY <1>7, <3>1, <3>2
  <2>2. Probe!PrevRange(logs, p, tx) = lastRange[k]
    BY <1>8 DEF Probe!PrevRange, k, op, ahead
  <2>3. CASE OfOne(placed, k) = {} /\ lastRange[k] = Probe!NoRange
    BY <2>1, <2>2, <2>3
  <2>4. CASE \E g \in placed : LatestOf(OfOne(placed, k), g) /\ lastRange[k] = g.rng
    BY <2>1, <2>2, <2>4 DEF LatestOf, LastHeld
  <2>5. \/ OfOne(placed, k) = {} /\ lastRange[k] = Probe!NoRange
        \/ \E g \in placed : LatestOf(OfOne(placed, k), g) /\ lastRange[k] = g.rng
    BY <1>1 DEF LastHeld
  <2> QED
    BY <2>3, <2>4, <2>5
<1>9. CASE ahead # {}
  <2> DEFINE t == Probe!Max(ahead)
             g == Placement(logs, blk + 1, <<p, t>>)
  <2>1. ahead \subseteq {logs[i].tx : i \in DOMAIN logs}
    <3> SUFFICES ASSUME NEW x \in ahead PROVE x \in {logs[i].tx : i \in DOMAIN logs}
      OBVIOUS
    <3>1. x \in Probe!Fires(logs, p)
      BY <1>6
    <3> QED
      BY <3>1, FiringFacts
  <2>2. t \in ahead /\ \A x \in ahead : x <= t
    BY <1>9, <2>1, LastTx
  <2>3. Probe!PrevRange(logs, p, tx) = Probe!NewRange(logs, p, t)
    BY <1>9 DEF Probe!PrevRange, ahead
  <2> HIDE DEF t
  <2>4. t \in Probe!Fires(logs, p) /\ t < tx /\ Probe!OperatorOf(logs, p, t) = op /\ t \in Nat
    BY <1>6, <2>2, FiringFacts
  <2>5. g.pool = p /\ g.op = op /\ g.blk = blk + 1 /\ g.tx = t /\ g.rng = Probe!NewRange(logs, p, t)
    BY <2>4 DEF Placement
  <2>6. g \in new
    BY <1>6, <2>2 DEF new
  <2> HIDE DEF g
  <2>7. Probe!Older(g, me)
    BY <1>2, <2>4, <2>5 DEF Probe!Older
  <2>8. g \in before
    BY <2>6, <2>7 DEF new
  <2>9. g.rng[1] < g.rng[2]
    BY <2>4, <2>5, FiringFacts
  <2>10. ASSUME NEW h \in before
         PROVE  h = g \/ Probe!Older(h, g)
    <3>1. Probe!Older(h, me)
      OBVIOUS
    <3>2. CASE h \in placed
      <4>1. h.pool = p /\ h.op = op
        BY <1>2, <3>1 DEF Probe!Older
      <4>2. h.blk < blk + 1
        BY <1>1, <1>3, <3>2
      <4> QED
        BY <2>5, <4>1, <4>2 DEF Probe!Older
    <3>3. CASE h \in new
      <4>1. /\ h.tx \in ahead /\ h = Placement(logs, blk + 1, <<p, h.tx>>)
            /\ h.blk = blk + 1 /\ h.pool = p /\ h.op = op /\ h.tx \in Nat
        BY <1>5, <3>1, <3>3
      <4>2. h.tx < t \/ h.tx = t
        BY <2>2, <2>4, <4>1
      <4>3. h.tx = t => h = g
        BY <4>1 DEF g
      <4>4. h.tx < t => Probe!Older(h, g)
        BY <2>5, <4>1 DEF Probe!Older
      <4> QED
        BY <4>2, <4>3, <4>4
    <3> QED
      BY <3>2, <3>3 DEF new
  <2> QED
    BY <2>3, <2>5, <2>8, <2>9, <2>10
<1> QED
  BY <1>8, <1>9

\* The ranges after a block.
LEMMA RangesOnward ==
  ASSUME Probe!TypeOK, LastHeld, NEW logs, BlockRead(logs)
  PROVE  LastHeld' /\ lastRange' \in [Pools \X Owners -> Int \X Int]
<1> DEFINE new == {Placement(logs, blk + 1, f) : f \in Probe!AllFires(logs)}
<1>1. Probe!IsBlock(logs) /\ blk \in Nat /\ placed' = placed \cup new
  BY BlockNumbers DEF BlockRead, Probe!OnBlock, Placement
<1>2. ASSUME NEW g \in new
      PROVE  \E f \in Probe!AllFires(logs) :
               /\ f[1] \in Pools /\ f[2] \in Probe!Fires(logs, f[1]) /\ f = <<f[1], f[2]>>
               /\ g = Placement(logs, blk + 1, f)
               /\ g.pool = f[1] /\ g.op = Probe!OperatorOf(logs, f[1], f[2]) /\ g.blk = blk + 1
               /\ g.tx = f[2] /\ g.rng = Probe!NewRange(logs, f[1], f[2])
  <2>1. PICK f \in Probe!AllFires(logs) : g = Placement(logs, blk + 1, f)
    OBVIOUS
  <2>2. /\ g.pool = f[1] /\ g.op = Probe!OperatorOf(logs, f[1], f[2]) /\ g.blk = blk + 1
        /\ g.tx = f[2] /\ g.rng = Probe!NewRange(logs, f[1], f[2])
    BY <2>1 DEF Placement
  <2> QED
    BY <2>1, <2>2, FiringsOf
<1>3. \A g \in new : g.rng[1] < g.rng[2]
  BY <1>1, <1>2, FiringFacts
<1>4. \A g \in placed' : g.rng[1] < g.rng[2]
  BY <1>1, <1>3 DEF LastHeld
<1>5. \A h \in placed : h.blk < blk + 1
  <2>1. \A h \in placed : h.blk \in 1..blk
    BY DEF Probe!TypeOK
  <2> QED
    BY <1>1, <2>1
<1>6. ASSUME NEW k \in Pools \X Owners
      PROVE  /\ lastRange'[k] \in Int \X Int
             /\ \/ OfOne(placed', k) = {} /\ lastRange'[k] = Probe!NoRange
                \/ \E g \in placed' : LatestOf(OfOne(placed', k), g) /\ lastRange'[k] = g.rng
  <2> DEFINE mine == {tx \in Probe!Fires(logs, k[1]) : Probe!OperatorOf(logs, k[1], tx) = k[2]}
  <2>1. lastRange'[k] = IF mine = {} THEN lastRange[k] ELSE Probe!NewRange(logs, k[1], Probe!Max(mine))
    BY DEF BlockRead, Probe!OnBlock
  <2>2. lastRange[k] \in Int \X Int
    BY DEF Probe!TypeOK
  <2>3. k[1] \in Pools
    OBVIOUS
  <2>4. \A g \in new : g \in OfOne(placed', k) => g.tx \in mine
    BY <1>2 DEF OfOne
  <2>5. CASE mine = {}
    <3>1. OfOne(placed', k) = OfOne(placed, k)
      BY <1>1, <2>4, <2>5 DEF OfOne
    <3>2. lastRange'[k] = lastRange[k]
      BY <2>1, <2>5
    <3>3. \/ OfOne(placed, k) = {} /\ lastRange[k] = Probe!NoRange
          \/ \E g \in placed : LatestOf(OfOne(placed, k), g) /\ lastRange[k] = g.rng
      BY DEF LastHeld
    <3> QED
      BY <1>1, <2>2, <3>1, <3>2, <3>3
  <2>6. CASE mine # {}
    <3> DEFINE t == Probe!Max(mine)
               g == Placement(logs, blk + 1, <<k[1], t>>)
    <3>1. mine \subseteq {logs[i].tx : i \in DOMAIN logs}
      BY <1>1, <2>3, FiringFacts
    <3>2. t \in mine /\ \A x \in mine : x <= t
      BY <1>1, <2>6, <3>1, LastTx
    <3>3. lastRange'[k] = Probe!NewRange(logs, k[1], t)
      BY <2>1, <2>6
    <3> HIDE DEF t
    <3>4. t \in Probe!Fires(logs, k[1]) /\ Probe!OperatorOf(logs, k[1], t) = k[2] /\ t \in Nat
      BY <1>1, <2>3, <3>2, FiringFacts
    <3>5. /\ g.pool = k[1] /\ g.op = k[2] /\ g.blk = blk + 1 /\ g.tx = t
          /\ g.rng = Probe!NewRange(logs, k[1], t)
      BY <3>4 DEF Placement
    <3>6. <<k[1], t>> \in Probe!AllFires(logs)
      BY <2>3, <3>4 DEF Probe!AllFires
    <3>7. g \in new
      BY <3>6
    <3> HIDE DEF g, mine
    <3>8. g \in placed' /\ g \in OfOne(placed', k)
      BY <1>1, <3>5, <3>7 DEF OfOne
    <3>9. ASSUME NEW h \in OfOne(placed', k)
          PROVE  h = g \/ Probe!Older(h, g)
      <4>1. h.pool = k[1] /\ h.op = k[2]
        BY DEF OfOne
      <4>2. CASE h \in placed
        BY <1>5, <3>5, <4>1, <4>2 DEF Probe!Older
      <4>3. CASE h \in new
        <5>1. PICK f \in Probe!AllFires(logs) :
                 /\ f[1] \in Pools /\ f[2] \in Probe!Fires(logs, f[1]) /\ f = <<f[1], f[2]>>
                 /\ h = Placement(logs, blk + 1, f)
                 /\ h.pool = f[1] /\ h.blk = blk + 1 /\ h.tx = f[2]
          BY <1>2, <4>3
        <5>2. h.tx \in mine /\ h.tx \in Nat
          BY <1>1, <2>4, <4>3, <5>1, FiringFacts
        <5>3. h.tx = t \/ h.tx < t
          BY <3>2, <3>4, <5>2
        <5>4. h.tx = t => h = g
          BY <4>1, <5>1 DEF g
        <5>5. h.tx < t => Probe!Older(h, g)
          BY <3>5, <4>1, <5>1 DEF Probe!Older
        <5> QED
          BY <5>3, <5>4, <5>5
      <4>4. h \in placed'
        BY DEF OfOne
      <4> QED
        BY <1>1, <4>2, <4>3, <4>4
    <3>10. Probe!NewRange(logs, k[1], t) \in Int \X Int
      BY <1>1, <2>3, <3>4, FiringFacts
    <3>11. LatestOf(OfOne(placed', k), g)
      BY <3>8, <3>9 DEF LatestOf
    <3> QED
      BY <3>3, <3>5, <3>8, <3>10, <3>11
  <2> QED
    BY <2>5, <2>6
<1>7. lastRange' \in [Pools \X Owners -> Int \X Int]
  <2>1. lastRange' = [k \in Pools \X Owners |-> lastRange'[k]]
    BY DEF BlockRead, Probe!OnBlock
  <2> QED
    BY <1>6, <2>1
<1> QED
  BY <1>4, <1>6, <1>7 DEF LastHeld

\* A range that is not empty tells a reading from a first firing.
LEMMA ReadOrFirst ==
  ASSUME Probe!TypeOK, LastHeld, NEW logs, BlockRead(logs), NEW f \in Probe!AllFires(logs)
  PROVE  LET me     == Placement(logs, blk + 1, f)
             before == {h \in placed' : Probe!Older(h, me)}
             prev   == Probe!PrevRange(logs, f[1], f[2])
         IN /\ me \in placed'
            /\ \/ before = {} /\ prev = Probe!NoRange
               \/ \E g \in before : /\ prev = g.rng /\ g.rng[1] < g.rng[2]
                                    /\ \A h \in before : h = g \/ Probe!Older(h, g)
<1> DEFINE me == Placement(logs, blk + 1, f)
           before == {h \in placed' : Probe!Older(h, me)}
<1>1. /\ Probe!IsBlock(logs)
      /\ placed' = placed \cup {Placement(logs, blk + 1, x) : x \in Probe!AllFires(logs)}
  BY DEF BlockRead, Probe!OnBlock, Placement
<1>2. f[1] \in Pools /\ f[2] \in Probe!Fires(logs, f[1]) /\ f = <<f[1], f[2]>>
  BY FiringsOf
<1>3. me = Placement(logs, blk + 1, <<f[1], f[2]>>)
  BY <1>2
<1>4. me \in placed'
  BY <1>1
<1>5. before = {h \in placed' : Probe!Older(h, me)}
  OBVIOUS
<1> HIDE DEF me, before
<1>6. ASSUME NEW p \in Pools, NEW tx \in Probe!Fires(logs, p),
             me = Placement(logs, blk + 1, <<p, tx>>)
      PROVE  \/ before = {} /\ Probe!PrevRange(logs, p, tx) = Probe!NoRange
             \/ \E g \in before : /\ Probe!PrevRange(logs, p, tx) = g.rng /\ g.rng[1] < g.rng[2]
                                  /\ \A h \in before : h = g \/ Probe!Older(h, g)
  BY <1>1, <1>5, <1>6, HeldRange
<1>7. \/ before = {} /\ Probe!PrevRange(logs, f[1], f[2]) = Probe!NoRange
      \/ \E g \in before : /\ Probe!PrevRange(logs, f[1], f[2]) = g.rng /\ g.rng[1] < g.rng[2]
                           /\ \A h \in before : h = g \/ Probe!Older(h, g)
  BY <1>2, <1>3, <1>6
<1> QED
  BY <1>4, <1>7 DEF me, before

\* Field by field, a reading of this block.
LEMMA NewReading ==
  ASSUME Probe!TypeOK, CacheStands, LastHeld, NEW logs, BlockRead(logs),
         NEW f \in Probe!AllFires(logs), NEW r,
         r = Probe!Reading(pticks[f[1]], blk + 1, logs, f[1], f[2])
  PROVE  LET prev == Probe!PrevRange(logs, f[1], f[2])
         IN /\ r = [pool |-> r.pool, op |-> r.op, blk |-> r.blk, tx |-> r.tx,
                    prev |-> r.prev, tick |-> r.tick, delay |-> r.delay]
            /\ r.pool = f[1] /\ r.op = Probe!OperatorOf(logs, f[1], f[2])
            /\ r.blk = blk + 1 /\ r.tx = f[2] /\ r.prev = prev
            /\ r.tick = Probe!TickBefore(full[f[1]], blk + 1) /\ r.tick \in Int
            /\ r.delay = Probe!ExitDelay(full[f[1]], blk + 1, prev) /\ r.delay \in Int /\ r.delay # 0
            /\ Probe!Earlier(full[f[1]], blk + 1) # {} => r.tick # Probe!NoTick
            /\ r.pool \in Pools /\ r.op \in Owners /\ r.tx \in Nat
<1> DEFINE prev == Probe!PrevRange(logs, f[1], f[2])
<1>1. f[1] \in Pools /\ f[2] \in Probe!Fires(logs, f[1]) /\ Probe!IsBlock(logs)
  BY FiringsOf DEF BlockRead
<1>2. /\ r = [pool |-> r.pool, op |-> r.op, blk |-> r.blk, tx |-> r.tx,
              prev |-> r.prev, tick |-> r.tick, delay |-> r.delay]
      /\ r.pool = f[1] /\ r.op = Probe!OperatorOf(logs, f[1], f[2])
      /\ r.blk = blk + 1 /\ r.tx = f[2] /\ r.prev = prev
      /\ r.tick = Probe!TickBefore(pticks[f[1]], blk + 1)
      /\ r.delay = Probe!ExitDelay(pticks[f[1]], blk + 1, prev)
  BY DEF Probe!Reading
<1> HIDE DEF prev
<1>3. /\ Probe!TickBefore(pticks[f[1]], blk + 1) = Probe!TickBefore(full[f[1]], blk + 1)
      /\ Probe!ExitDelay(pticks[f[1]], blk + 1, prev) = Probe!ExitDelay(full[f[1]], blk + 1, prev)
      /\ Probe!TickBefore(full[f[1]], blk + 1) \in Int
      /\ Probe!ExitDelay(full[f[1]], blk + 1, prev) \in Int \ {0}
      /\ Probe!Earlier(full[f[1]], blk + 1) # {} => Probe!TickBefore(full[f[1]], blk + 1) # Probe!NoTick
  BY <1>1, ReadingFacts
<1>4. f[2] \in Nat /\ Probe!OperatorOf(logs, f[1], f[2]) \in Owners
  BY <1>1, FiringFacts
<1> QED
  BY <1>1, <1>2, <1>3, <1>4 DEF prev

\* Which readings a block adds.
LEMMA AddedReadings ==
  ASSUME NEW logs, BlockRead(logs), NEW r
  PROVE  r \in readings' <=>
           \/ r \in readings
           \/ \E f \in Probe!AllFires(logs) :
                /\ r = Probe!Reading(pticks[f[1]], blk + 1, logs, f[1], f[2])
                /\ r.prev[2] > r.prev[1] /\ r.tick # Probe!NoTick
BY DEF BlockRead, Probe!OnBlock, Probe!NewReadings

\* The readings of a block and before are of the history.
LEMMA ReadingsOnward ==
  ASSUME Probe!TypeOK, CacheStands, LastHeld, NeverOwnBlock, Probe!ReadsHistory,
         NEW logs, BlockRead(logs)
  PROVE  Probe!ReadsHistory' /\ NeverOwnBlock'
<1>1. /\ blk \in Nat /\ blk + 1 \in Int /\ blk + 1 <= blk + 1
      /\ \A r \in readings : r.pool \in Pools /\ r.blk \in Int /\ r.blk <= blk + 1
  <2>1. \A r \in readings : r.pool \in Pools /\ r.blk \in 1..blk
    BY DEF Probe!TypeOK
  <2> QED
    BY <2>1, BlockNumbers
<1>2. ASSUME NEW r \in readings'
      PROVE  /\ r.tick = Probe!TickBefore(full'[r.pool], r.blk)
             /\ r.delay = Probe!ExitDelay(full'[r.pool], r.blk, r.prev)
             /\ r.delay # 0 /\ r.tick # Probe!NoTick
  <2>1. CASE r \in readings
    <3>1. /\ r.tick = Probe!TickBefore(full[r.pool], r.blk)
          /\ r.delay = Probe!ExitDelay(full[r.pool], r.blk, r.prev)
          /\ r.delay # 0 /\ r.tick # Probe!NoTick
      BY <2>1 DEF Probe!ReadsHistory, NeverOwnBlock
    <3>2. /\ Probe!TickBefore(full'[r.pool], r.blk) = Probe!TickBefore(full[r.pool], r.blk)
          /\ Probe!ExitDelay(full'[r.pool], r.blk, r.prev) = Probe!ExitDelay(full[r.pool], r.blk, r.prev)
      BY <1>1, <2>1, HistoryStays
    <3> QED
      BY <3>1, <3>2
  <2>2. CASE \E f \in Probe!AllFires(logs) :
               /\ r = Probe!Reading(pticks[f[1]], blk + 1, logs, f[1], f[2])
               /\ r.tick # Probe!NoTick
    <3>1. PICK f \in Probe!AllFires(logs) :
            /\ r = Probe!Reading(pticks[f[1]], blk + 1, logs, f[1], f[2])
            /\ r.tick # Probe!NoTick
      BY <2>2
    <3>2. /\ r.pool = f[1] /\ r.blk = blk + 1 /\ r.pool \in Pools
          /\ r.prev = Probe!PrevRange(logs, f[1], f[2])
          /\ r.tick = Probe!TickBefore(full[f[1]], blk + 1)
          /\ r.delay = Probe!ExitDelay(full[f[1]], blk + 1, Probe!PrevRange(logs, f[1], f[2]))
          /\ r.delay # 0
      BY <3>1, NewReading
    <3>3. /\ Probe!TickBefore(full'[r.pool], blk + 1) = Probe!TickBefore(full[r.pool], blk + 1)
          /\ Probe!ExitDelay(full'[r.pool], blk + 1, r.prev)
               = Probe!ExitDelay(full[r.pool], blk + 1, r.prev)
      BY <1>1, <3>2, HistoryStays
    <3> QED
      BY <3>1, <3>2, <3>3
  <2> QED
    BY <2>1, <2>2, AddedReadings
<1>3. Probe!ReadsHistory'
  BY <1>2 DEF Probe!ReadsHistory
<1> QED
  BY <1>2, <1>3 DEF NeverOwnBlock

\* A record of the blocks before has before it what it had.
LEMMA PriorStays ==
  ASSUME Probe!TypeOK, NEW logs, BlockRead(logs), NEW x, x.blk \in 1..blk
  PROVE  {h \in placed' : Probe!Older(h, x)} = {h \in placed : Probe!Older(h, x)}
<1>1. /\ blk \in Nat
      /\ placed' = placed \cup {Placement(logs, blk + 1, f) : f \in Probe!AllFires(logs)}
  BY BlockNumbers DEF BlockRead, Probe!OnBlock, Placement
<1>2. \A f \in Probe!AllFires(logs) : ~Probe!Older(Placement(logs, blk + 1, f), x)
  <2> TAKE f \in Probe!AllFires(logs)
  <2>1. Placement(logs, blk + 1, f).blk = blk + 1
    BY DEF Placement
  <2>2. ~(blk + 1 < x.blk) /\ blk + 1 # x.blk
    BY <1>1
  <2> QED
    BY <2>1, <2>2 DEF Probe!Older
<1> QED
  BY <1>1, <1>2

\* A reading is of the range its operator placed in its firing before, and every
\* firing after a first one whose pool has traded gives one.
LEMMA HeldOnward ==
  ASSUME Probe!TypeOK, CacheStands, LastHeld, Probe!HeldBefore, NEW logs, BlockRead(logs)
  PROVE  Probe!HeldBefore'
<1> DEFINE Ahead(x) == {h \in placed' : Probe!Older(h, x)}
<1>1. /\ blk \in Nat /\ blk + 1 \in Int
      /\ \A r \in readings : r.blk \in 1..blk
      /\ \A g \in placed : g.blk \in 1..blk /\ g.pool \in Pools
  BY BlockNumbers DEF Probe!TypeOK
<1>2. ASSUME NEW r \in readings'
      PROVE  \E g \in Ahead(r) : /\ r.prev = g.rng
                                 /\ \A h \in Ahead(r) : h = g \/ Probe!Older(h, g)
  <2>1. CASE r \in readings
    <3>1. Ahead(r) = {h \in placed : Probe!Older(h, r)}
      BY <1>1, <2>1, PriorStays
    <3> HIDE DEF Ahead
    <3> QED
      BY <2>1, <3>1 DEF Probe!HeldBefore, Probe!Prior
  <2>2. CASE \E f \in Probe!AllFires(logs) :
               /\ r = Probe!Reading(pticks[f[1]], blk + 1, logs, f[1], f[2])
               /\ r.prev[2] > r.prev[1] /\ r.tick # Probe!NoTick
    <3>1. PICK f \in Probe!AllFires(logs) :
               /\ r = Probe!Reading(pticks[f[1]], blk + 1, logs, f[1], f[2])
               /\ r.prev[2] > r.prev[1] /\ r.tick # Probe!NoTick
      BY <2>2
    <3> DEFINE me == Placement(logs, blk + 1, f)
    <3>2. /\ r.pool = f[1] /\ r.op = Probe!OperatorOf(logs, f[1], f[2])
          /\ r.blk = blk + 1 /\ r.tx = f[2] /\ r.prev = Probe!PrevRange(logs, f[1], f[2])
      BY <3>1, NewReading
    <3>3. /\ me.pool = f[1] /\ me.op = Probe!OperatorOf(logs, f[1], f[2])
          /\ me.blk = blk + 1 /\ me.tx = f[2]
      BY DEF Placement
    <3>4. \/ Ahead(me) = {} /\ r.prev = Probe!NoRange
          \/ \E g \in Ahead(me) : /\ r.prev = g.rng
                                  /\ \A h \in Ahead(me) : h = g \/ Probe!Older(h, g)
      BY <3>2, ReadOrFirst
    <3> HIDE DEF me
    <3>5. Ahead(r) = Ahead(me)
      BY <3>2, <3>3 DEF Probe!Older
    <3>6. r.prev # Probe!NoRange
      BY <3>1 DEF Probe!NoRange
    <3> HIDE DEF Ahead
    <3> QED
      BY <3>4, <3>5, <3>6
  <2> QED
    BY <2>1, <2>2, AddedReadings
<1>3. ASSUME NEW x \in placed', Ahead(x) # {}, Probe!Earlier(full'[x.pool], x.blk) # {}
      PROVE  \E r \in readings' : r.pool = x.pool /\ r.blk = x.blk /\ r.tx = x.tx
  <2>1. CASE x \in placed
    <3>1. {h \in placed : Probe!Older(h, x)} # {}
      BY <1>1, <1>3, <2>1, PriorStays
    <3>2. Probe!Earlier(full[x.pool], x.blk) # {}
      <4>1. x.pool \in Pools /\ x.blk \in Int /\ x.blk <= blk + 1
        BY <1>1, <2>1
      <4> QED
        BY <1>3, <4>1, HistoryStays
    <3>3. PICK r \in readings : r.pool = x.pool /\ r.blk = x.blk /\ r.tx = x.tx
      BY <2>1, <3>1, <3>2 DEF Probe!HeldBefore, Probe!Prior
    <3> QED
      BY <3>3, AddedReadings
  <2>2. CASE \E f \in Probe!AllFires(logs) : x = Placement(logs, blk + 1, f)
    <3>1. PICK f \in Probe!AllFires(logs) : x = Placement(logs, blk + 1, f)
      BY <2>2
    <3> DEFINE r == Probe!Reading(pticks[f[1]], blk + 1, logs, f[1], f[2])
               prev == Probe!PrevRange(logs, f[1], f[2])
    <3>2. x.pool = f[1] /\ x.blk = blk + 1 /\ x.tx = f[2]
      BY <3>1 DEF Placement
    <3>3. /\ r.pool = f[1] /\ r.blk = blk + 1 /\ r.tx = f[2] /\ r.prev = prev
          /\ Probe!Earlier(full[f[1]], blk + 1) # {} => r.tick # Probe!NoTick
      BY NewReading
    <3>4. Probe!Earlier(full[f[1]], blk + 1) # {}
      <4>1. f[1] \in Pools /\ blk + 1 <= blk + 1
        BY <1>1, FiringsOf
      <4> QED
        BY <1>1, <1>3, <3>2, <4>1, HistoryStays
    <3>5. PICK g \in Ahead(x) : prev = g.rng /\ g.rng[1] < g.rng[2]
      BY <1>3, <3>1, ReadOrFirst
    <3>6. prev[2] > prev[1]
      <4>1. g.rng \in Int \X Int
        <5>1. g \in placed'
          OBVIOUS
        <5>2. CASE g \in placed
          BY <5>2 DEF Probe!TypeOK
        <5>3. CASE \E e \in Probe!AllFires(logs) : g = Placement(logs, blk + 1, e)
          <6>1. PICK e \in Probe!AllFires(logs) : g = Placement(logs, blk + 1, e)
            BY <5>3
          <6>2. g.rng = Probe!NewRange(logs, e[1], e[2])
            BY <6>1 DEF Placement
          <6>3. Probe!IsBlock(logs) /\ e[1] \in Pools /\ e[2] \in Probe!Fires(logs, e[1])
            BY FiringsOf DEF BlockRead
          <6> QED
            BY <6>2, <6>3, FiringFacts
        <5>4. placed' = placed \cup {Placement(logs, blk + 1, e) : e \in Probe!AllFires(logs)}
          BY DEF BlockRead, Probe!OnBlock, Placement
        <5> QED
          BY <5>1, <5>2, <5>3, <5>4
      <4> QED
        BY <3>5, <4>1
    <3> HIDE DEF prev
    <3>7. r \in readings'
      <4>1. r.prev[2] > r.prev[1] /\ r.tick # Probe!NoTick
        BY <3>3, <3>4, <3>6
      <4>2. r = Probe!Reading(pticks[f[1]], blk + 1, logs, f[1], f[2])
        OBVIOUS
      <4> HIDE DEF r
      <4> QED
        BY <4>1, <4>2, AddedReadings
    <3> QED
      BY <3>2, <3>3, <3>7
  <2>3. placed' = placed \cup {Placement(logs, blk + 1, f) : f \in Probe!AllFires(logs)}
    BY DEF BlockRead, Probe!OnBlock, Placement
  <2> QED
    BY <2>1, <2>2, <2>3
<1> QED
  BY <1>2, <1>3 DEF Probe!HeldBefore, Probe!Prior

\* The totals after a block.
LEMMA TotalsOnward ==
  ASSUME Probe!TypeOK, Probe!Comparable, Probe!SharesAreShares, NEW logs, BlockRead(logs)
  PROVE  count' \in [Probe!Counters -> Nat] /\ Probe!Comparable' /\ Probe!SharesAreShares'
<1> DEFINE T == Probe!Tally(logs)
<1>1. Probe!IsBlock(logs) /\ count' = [c \in Probe!Counters |-> count[c] + T[c]]
  BY DEF BlockRead, Probe!OnBlock
<1>2. /\ \A c \in {"firings", "backrun", "frontrun", "sandwich", "any_ext",
                   "own_swap", "with_swaps"} : T[c] \in Nat
      /\ T["backrun"] + T["frontrun"] - T["sandwich"] = T["with_swaps"]
      /\ T["any_ext"] = T["with_swaps"]
  BY <1>1, TallyCompares
<1>3. /\ \A c \in {"events", "jit", "remint"} : T[c] \in Nat
      /\ 2 * T["jit"] + 2 * T["remint"] <= T["events"]
  BY <1>1, TallyShares
<1> HIDE DEF T
<1>4. \A c \in Probe!Counters : T[c] \in Nat /\ count[c] \in Nat /\ count'[c] = count[c] + T[c]
  <2>1. \A c \in Probe!Counters : count[c] \in Nat
    BY DEF Probe!TypeOK
  <2>2. \A c \in Probe!Counters : T[c] \in Nat
    BY <1>2, <1>3 DEF Probe!Counters
  <2> QED
    BY <1>1, <2>1, <2>2
<1>5. count' \in [Probe!Counters -> Nat]
  <2>1. \A c \in Probe!Counters : count[c] + T[c] \in Nat
    BY <1>4
  <2> QED
    BY <1>1, <2>1
<1>6. {"backrun", "frontrun", "sandwich", "any_ext", "with_swaps", "jit", "remint", "events"}
        \subseteq Probe!Counters
  BY DEF Probe!Counters
<1>7. Probe!Comparable'
  <2>1. /\ count["backrun"] + count["frontrun"] - count["sandwich"] = count["with_swaps"]
        /\ count["any_ext"] = count["with_swaps"]
    BY DEF Probe!Comparable
  <2>2. /\ count'["backrun"] = count["backrun"] + T["backrun"]
        /\ count'["frontrun"] = count["frontrun"] + T["frontrun"]
        /\ count'["sandwich"] = count["sandwich"] + T["sandwich"]
        /\ count'["any_ext"] = count["any_ext"] + T["any_ext"]
        /\ count'["with_swaps"] = count["with_swaps"] + T["with_swaps"]
    BY <1>4, <1>6
  <2>3. /\ count["backrun"] \in Nat /\ count["frontrun"] \in Nat /\ count["sandwich"] \in Nat
        /\ count["with_swaps"] \in Nat
        /\ T["backrun"] \in Nat /\ T["frontrun"] \in Nat /\ T["sandwich"] \in Nat
        /\ T["with_swaps"] \in Nat
    BY <1>4, <1>6
  <2>4. /\ count'["backrun"] + count'["frontrun"] - count'["sandwich"] = count'["with_swaps"]
        /\ count'["any_ext"] = count'["with_swaps"]
    BY <1>2, <2>1, <2>2, <2>3
  <2> QED
    BY <2>4 DEF Probe!Comparable
<1>8. Probe!SharesAreShares'
  <2>1. 2 * count["jit"] + 2 * count["remint"] <= count["events"]
    BY DEF Probe!SharesAreShares, Probe!Summary
  <2>2. /\ count'["jit"] = count["jit"] + T["jit"]
        /\ count'["remint"] = count["remint"] + T["remint"]
        /\ count'["events"] = count["events"] + T["events"]
    BY <1>4, <1>6
  <2>3. /\ count["jit"] \in Nat /\ count["remint"] \in Nat /\ count["events"] \in Nat
        /\ T["jit"] \in Nat /\ T["remint"] \in Nat /\ T["events"] \in Nat
    BY <1>4, <1>6
  <2>4. 2 * count'["jit"] + 2 * count'["remint"] <= count'["events"]
    BY <1>3, <2>1, <2>2, <2>3
  <2> QED
    BY <2>4 DEF Probe!SharesAreShares, Probe!Summary
<1> QED
  BY <1>5, <1>7, <1>8

\* The types after a block.
LEMMA ProbeTypeOnward ==
  ASSUME ProbeInv, NEW logs, BlockRead(logs)
  PROVE  Probe!TypeOK'
<1>1. /\ blk \in Nat /\ blk' = blk + 1 /\ blk' \in 0..MAX_BLOCK
      /\ 1..blk \subseteq 1..blk' /\ blk + 1 \in 1..blk'
  BY BlockNumbers DEF BlockRead, ProbeInv
<1>2. \A p \in Pools : /\ pticks'[p] \in Seq((1..blk') \X Int)
                       /\ full'[p] \in Seq((1..blk') \X Int)
  BY CacheOnward DEF ProbeInv, CacheStands, Stepwise
<1>3. lastRange' \in [Pools \X Owners -> Int \X Int]
  BY RangesOnward DEF ProbeInv
<1>4. count' \in [Probe!Counters -> Nat]
  BY TotalsOnward DEF ProbeInv
<1>5. ASSUME NEW g \in placed'
      PROVE  g \in [pool : Pools, op : Owners, blk : 1..blk', tx : Nat, rng : Int \X Int]
  <2>1. CASE g \in placed
    <3>1. g \in [pool : Pools, op : Owners, blk : 1..blk, tx : Nat, rng : Int \X Int]
      BY <2>1 DEF ProbeInv, Probe!TypeOK
    <3> QED
      BY <1>1, <3>1
  <2>2. CASE \E f \in Probe!AllFires(logs) : g = Placement(logs, blk + 1, f)
    <3>1. PICK f \in Probe!AllFires(logs) : g = Placement(logs, blk + 1, f)
      BY <2>2
    <3>2. f[1] \in Pools /\ f[2] \in Probe!Fires(logs, f[1]) /\ Probe!IsBlock(logs)
      BY FiringsOf DEF BlockRead
    <3>3. /\ f[2] \in Nat /\ Probe!OperatorOf(logs, f[1], f[2]) \in Owners
          /\ Probe!NewRange(logs, f[1], f[2]) \in Int \X Int
      BY <3>2, FiringFacts
    <3> QED
      BY <1>1, <3>1, <3>2, <3>3 DEF Placement
  <2>3. placed' = placed \cup {Placement(logs, blk + 1, f) : f \in Probe!AllFires(logs)}
    BY DEF BlockRead, Probe!OnBlock, Placement
  <2> QED
    BY <2>1, <2>2, <2>3
<1>6. ASSUME NEW r \in readings'
      PROVE  r \in [pool : Pools, op : Owners, blk : 1..blk', tx : Nat,
                    prev : Int \X Int, tick : Int, delay : Int]
  <2>1. CASE r \in readings
    <3>1. r \in [pool : Pools, op : Owners, blk : 1..blk, tx : Nat,
                 prev : Int \X Int, tick : Int, delay : Int]
      BY <2>1 DEF ProbeInv, Probe!TypeOK
    <3> QED
      BY <1>1, <3>1
  <2>2. CASE \E f \in Probe!AllFires(logs) :
               r = Probe!Reading(pticks[f[1]], blk + 1, logs, f[1], f[2])
    <3>1. PICK f \in Probe!AllFires(logs) :
            r = Probe!Reading(pticks[f[1]], blk + 1, logs, f[1], f[2])
      BY <2>2
    <3>2. /\ r = [pool |-> r.pool, op |-> r.op, blk |-> r.blk, tx |-> r.tx,
                  prev |-> r.prev, tick |-> r.tick, delay |-> r.delay]
          /\ r.pool \in Pools /\ r.op \in Owners /\ r.tx \in Nat /\ r.blk = blk + 1
          /\ r.tick \in Int /\ r.delay \in Int
          /\ r.prev = Probe!PrevRange(logs, f[1], f[2])
      BY <3>1, NewReading DEF ProbeInv
    <3>3. r.prev \in Int \X Int
      <4> DEFINE me == Placement(logs, blk + 1, f)
                 before == {h \in placed' : Probe!Older(h, me)}
      <4>1. \/ r.prev = Probe!NoRange
            \/ \E g \in before : r.prev = g.rng
        BY <3>2, ReadOrFirst DEF ProbeInv
      <4>2. \A g \in before : g.rng \in Int \X Int
        BY <1>5
      <4> HIDE DEF before
      <4> QED
        BY <4>1, <4>2 DEF Probe!NoRange
    <3> QED
      BY <1>1, <3>2, <3>3
  <2> QED
    BY <2>1, <2>2, AddedReadings
<1> QED
  BY <1>1, <1>2, <1>3, <1>4, <1>5, <1>6 DEF Probe!TypeOK

\* A block that came without logs moves the block number alone.
LEMMA QuietBlock ==
  ASSUME ProbeInv, blk' = blk + 1, blk' \in 0..MAX_BLOCK,
         UNCHANGED <<pticks, lastRange, count, readings, full, placed>>
  PROVE  ProbeInv'
<1>1. /\ blk \in Nat /\ blk' + 1 = blk + 2 /\ 1..blk \subseteq 1..blk'
  BY BlockNumbers DEF ProbeInv
<1>2. CacheStands'
  <2>1. \A p \in Pools : /\ Stepwise(pticks[p], blk) /\ Stepwise(full[p], blk)
                         /\ Covers(pticks[p], full[p], blk + 1)
                         /\ \A j \in DOMAIN full[p] : full[p][j][2] # Probe!NoTick
    BY DEF ProbeInv, CacheStands
  <2>2. \A p \in Pools : /\ Stepwise(pticks[p], blk + 1) /\ Stepwise(full[p], blk + 1)
                         /\ Covers(pticks[p], full[p], blk + 2)
    BY <1>1, <2>1, StepwiseOnward, CoversOnward
  <2> QED
    BY <1>1, <2>1, <2>2 DEF CacheStands
<1>3. LastHeld' /\ NeverOwnBlock'
  BY DEF ProbeInv, LastHeld, NeverOwnBlock
<1>4. Probe!ReadsHistory' /\ Probe!HeldBefore' /\ Probe!Comparable' /\ Probe!SharesAreShares'
  BY DEF ProbeInv, Probe!ReadsHistory, Probe!HeldBefore, Probe!Prior, Probe!Comparable,
     Probe!SharesAreShares,
         Probe!Summary
<1>5. Probe!TypeOK'
  <2>1. \A p \in Pools : /\ pticks'[p] \in Seq((1..blk') \X Int)
                         /\ full'[p] \in Seq((1..blk') \X Int)
    BY <1>2 DEF CacheStands, Stepwise
  <2>2. \A r \in readings : r \in [pool : Pools, op : Owners, blk : 1..blk', tx : Nat,
                                   prev : Int \X Int, tick : Int, delay : Int]
    <3> TAKE r \in readings
    <3>1. r \in [pool : Pools, op : Owners, blk : 1..blk, tx : Nat,
                 prev : Int \X Int, tick : Int, delay : Int]
      BY DEF ProbeInv, Probe!TypeOK
    <3> QED
      BY <1>1, <3>1
  <2>3. \A g \in placed : g \in [pool : Pools, op : Owners, blk : 1..blk', tx : Nat,
                                 rng : Int \X Int]
    <3> TAKE g \in placed
    <3>1. g \in [pool : Pools, op : Owners, blk : 1..blk, tx : Nat, rng : Int \X Int]
      BY DEF ProbeInv, Probe!TypeOK
    <3> QED
      BY <1>1, <3>1
  <2>4. /\ lastRange \in [Pools \X Owners -> Int \X Int]
        /\ count \in [Probe!Counters -> Nat]
    BY DEF ProbeInv, Probe!TypeOK
  <2> QED
    BY <2>1, <2>2, <2>3, <2>4 DEF Probe!TypeOK
<1> QED
  BY <1>2, <1>3, <1>4, <1>5 DEF ProbeInv

LEMMA ProbeInitially == Probe!Init => ProbeInv
<1> SUFFICES ASSUME Probe!Init PROVE ProbeInv
  OBVIOUS
<1>1. /\ blk = 0 /\ readings = {} /\ placed = {}
      /\ pticks = [p \in Pools |-> <<>>] /\ full = [p \in Pools |-> <<>>]
      /\ lastRange = [k \in Pools \X Owners |-> Probe!NoRange]
      /\ count = [c \in Probe!Counters |-> 0]
  BY DEF Probe!Init
<1>2. Probe!TypeOK
  <2>1. 0 \in 0..MAX_BLOCK
    BY ProbeAssumption
  <2>2. \A p \in Pools : /\ pticks[p] \in Seq((1..blk) \X Int)
                         /\ full[p] \in Seq((1..blk) \X Int)
    BY <1>1
  <2>3. lastRange \in [Pools \X Owners -> Int \X Int] /\ count \in [Probe!Counters -> Nat]
    BY <1>1 DEF Probe!NoRange
  <2> QED
    BY <1>1, <2>1, <2>2, <2>3 DEF Probe!TypeOK
<1>3. CacheStands
  <2>1. \A p \in Pools : pticks[p] = <<>> /\ full[p] = <<>>
    BY <1>1
  <2>2. Stepwise(<<>>, blk) /\ Covers(<<>>, <<>>, blk + 1)
    BY DEF Stepwise, Covers
  <2> QED
    BY <2>1, <2>2 DEF CacheStands
<1>4. LastHeld
  BY <1>1 DEF LastHeld, OfOne
<1>5. Probe!ReadsHistory /\ Probe!HeldBefore /\ NeverOwnBlock
  BY <1>1 DEF Probe!ReadsHistory, Probe!HeldBefore, NeverOwnBlock
<1>6. Probe!Comparable /\ Probe!SharesAreShares
  BY <1>1 DEF Probe!Comparable, Probe!SharesAreShares, Probe!Summary,
     Probe!Counters
<1> QED
  BY <1>2, <1>3, <1>4, <1>5, <1>6 DEF ProbeInv

LEMMA ProbeInductive == ProbeInv /\ [Probe!Next]_probeVars => ProbeInv'
<1> SUFFICES ASSUME ProbeInv, [Probe!Next]_probeVars PROVE ProbeInv'
  OBVIOUS
<1>1. CASE UNCHANGED probeVars
  BY <1>1 DEF probeVars, ProbeInv, Probe!TypeOK, CacheStands, LastHeld, NeverOwnBlock,
     Probe!ReadsHistory, Probe!HeldBefore, Probe!Prior, Probe!Comparable, Probe!SharesAreShares,
     Probe!Summary
<1>2. CASE Probe!Next
  <2>1. blk' = blk + 1 /\ blk' \in 0..MAX_BLOCK
    BY <1>2, ProbeAssumption DEF Probe!Next, Probe!Block, ProbeInv, Probe!TypeOK
  <2>2. CASE \E logs \in BlockLogs : Probe!OnBlock(blk + 1, logs)
    <3>1. PICK logs \in BlockLogs : Probe!OnBlock(blk + 1, logs)
      BY <2>2
    <3>2. BlockRead(logs)
      BY <2>1, <3>1, ProbeAssumption DEF BlockRead
    <3>3. Probe!TypeOK'
      BY <3>2, ProbeTypeOnward
    <3>4. CacheStands' /\ LastHeld'
      BY <3>2, CacheOnward, RangesOnward DEF ProbeInv
    <3>5. NeverOwnBlock' /\ Probe!ReadsHistory'
      BY <3>2, ReadingsOnward DEF ProbeInv
    <3>6. Probe!HeldBefore'
      BY <3>2, HeldOnward DEF ProbeInv
    <3>7. Probe!Comparable' /\ Probe!SharesAreShares'
      BY <3>2, TotalsOnward DEF ProbeInv
    <3> QED
      BY <3>3, <3>4, <3>5, <3>6, <3>7 DEF ProbeInv
  <2>3. CASE UNCHANGED <<pticks, lastRange, count, readings, full, placed>>
    BY <2>1, <2>3, QuietBlock
  <2> QED
    BY <1>2, <2>2, <2>3 DEF Probe!Next, Probe!Block
<1> QED
  BY <1>1, <1>2

\* A price inside at the sample before: that sample is what an exit is dated by.
LEMMA LastInside ==
  ASSUME NEW n \in Nat, NEW h, Stepwise(h, n), NEW b \in Int, NEW r,
         Probe!TickBefore(h, b) # Probe!NoTick, Probe!TickBefore(h, b) \in r[1]..r[2]
  PROVE  LET sampled == h[Probe!Max(Probe!Earlier(h, b))][1]
         IN  Probe!ExitDelay(h, b, r) = IF sampled < b - LOOKBACK THEN Probe!NoOne ELSE b - sampled
<1> DEFINE E == Probe!Earlier(h, b)
           I == {j \in E : h[j][1] >= b - LOOKBACK /\ h[j][2] \in r[1]..r[2]}
           m == Probe!Max(E)
<1>1. E \subseteq DOMAIN h /\ I \subseteq DOMAIN h /\ I \subseteq E
  BY DEF Probe!Earlier
<1>2. Probe!ExitDelay(h, b, r) = IF I = {} THEN Probe!NoOne ELSE b - h[Probe!Max(I)][1]
  BY DEF Probe!ExitDelay
<1>3. E # {} /\ h[m][2] \in r[1]..r[2]
  BY DEF Probe!TickBefore
<1>4. m \in E /\ \A j \in E : h[j][1] <= h[m][1]
  BY <1>1, <1>3, LatestEntry
<1>5. LOOKBACK \in Int /\ \A j \in DOMAIN h : h[j][1] \in Int
  BY StepwiseFacts, ProbeAssumption
<1> HIDE DEF E, m
<1>6. CASE h[m][1] < b - LOOKBACK
  <2>1. I = {}
    BY <1>1, <1>4, <1>5, <1>6
  <2> QED
    BY <1>2, <1>6, <2>1 DEF m, E
<1>7. CASE ~(h[m][1] < b - LOOKBACK)
  <2>1. m \in I
    BY <1>1, <1>3, <1>4, <1>5, <1>7
  <2>2. Probe!Max(I) \in I /\ \A j \in I : h[j][1] <= h[Probe!Max(I)][1]
    BY <1>1, <2>1, LatestEntry
  <2>3. h[Probe!Max(I)][1] = h[m][1]
    BY <1>1, <1>4, <1>5, <2>1, <2>2
  <2> QED
    BY <1>2, <1>7, <2>1, <2>3 DEF m, E
<1> QED
  BY <1>6, <1>7

\* The probe's readings are of the history and of the range held before, none has a
\* delay of zero, an exit in the firing's own block included, and its counts compare
\* with their null and stay shares.
THEOREM ProbeReadsSound == MCSpec => []ProbeSound
<1>1. MCInit => Probe!Init
  BY DEF MCInit
<1>2. [MCNext]_all => [Probe!Next]_probeVars
  BY DEF MCNext, all, probeVars
<1>3. ProbeInv => ProbeSound
  <2>1. ProbeInv => Probe!StructuralZero
    <3> SUFFICES ASSUME ProbeInv PROVE Probe!StructuralZero
      OBVIOUS
    <3> DEFINE zeros == {r \in {q \in readings : q.delay # Probe!NoOne} : r.delay = 0}
    <3>1. zeros = {}
      BY DEF ProbeInv, NeverOwnBlock
    <3>2. Probe!Summary.d0 = Cardinality(zeros)
      BY ProbeLibrary DEF Probe!Summary
    <3>3. ASSUME NEW r \in readings, r.tick \in r.prev[1]..r.prev[2]
          PROVE  LET sample == full[r.pool][Probe!Max(Probe!Earlier(full[r.pool], r.blk))][1]
                 IN  r.delay = IF sample < r.blk - LOOKBACK THEN Probe!NoOne ELSE r.blk - sample
      <4>1. r.pool \in Pools /\ r.blk \in Int /\ blk \in Nat
        BY BlockNumbers DEF ProbeInv, Probe!TypeOK
      <4>2. Stepwise(full[r.pool], blk)
        BY <4>1 DEF ProbeInv, CacheStands
      <4>3. /\ r.tick = Probe!TickBefore(full[r.pool], r.blk) /\ r.tick # Probe!NoTick
            /\ r.delay = Probe!ExitDelay(full[r.pool], r.blk, r.prev)
        BY DEF ProbeInv, Probe!ReadsHistory, NeverOwnBlock
      <4> QED
        BY <3>3, <4>1, <4>2, <4>3, LastInside
    <3> QED
      BY <3>1, <3>2, <3>3, FS_EmptySet DEF Probe!StructuralZero
  <2> QED
    BY <2>1 DEF ProbeInv, ProbeSound
<1> QED
  BY <1>1, <1>2, <1>3, ProbeInitially, ProbeInductive, PTL DEF MCSpec
=============================================================================

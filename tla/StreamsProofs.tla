---------------------------- MODULE StreamsProofs ----------------------------
(***************************************************************************)
(* Theorems about the Liquidity Book scan and the within-block probe, as   *)
(* MCStreams composes them: for every chain, pin, span, chunk and window,  *)
(* and whatever the other scripts do.                                      *)
(***************************************************************************)
EXTENDS MCStreams, M2StreamProofs, OrderProofs

\* The maximum of a bounded set of naturals is the greatest of its elements.
LEMMA MaxOfNats ==
  ASSUME NEW n \in Nat, NEW T, T \subseteq 0..n, T # {}
  PROVE  Scan!Max(T) \in T /\ \A y \in T : Scan!Max(T) >= y
BY GreatestNat DEF Scan!Max
-----------------------------------------------------------------------------
(***************************************************************************)
(* Kept: its recursive function exists, and what it returns.               *)
(***************************************************************************)
KeptBy(upTo, s, S, n) ==
  upTo = [k \in 0..n |-> IF k = 0 THEN <<>>
                         ELSE IF s[k] \in S THEN Append(upTo[k - 1], s[k]) ELSE upTo[k - 1]]

\* One step of it.
LEMMA KeptByStep ==
  ASSUME NEW upTo, NEW s, NEW S, NEW n \in Nat, KeptBy(upTo, s, S, n)
  PROVE  /\ upTo[0] = <<>>
         /\ \A k \in 1..n :
              upTo[k] = IF s[k] \in S THEN Append(upTo[k - 1], s[k]) ELSE upTo[k - 1]
<1> DEFINE g == [k \in 0..n |-> IF k = 0 THEN <<>>
                               ELSE IF s[k] \in S THEN Append(upTo[k - 1], s[k]) ELSE upTo[k - 1]]
<1>1. upTo = g
  BY DEF KeptBy
<1>2. g[0] = <<>>
  OBVIOUS
<1>3. \A k \in 1..n : g[k] = IF s[k] \in S THEN Append(upTo[k - 1], s[k]) ELSE upTo[k - 1]
  OBVIOUS
<1> HIDE DEF g
<1> QED
  BY <1>1, <1>2, <1>3

\* The recursion is well founded: for every n there is such a function.
LEMMA KeptExists ==
  ASSUME NEW s, NEW S, NEW n \in Nat
  PROVE  \E upTo : KeptBy(upTo, s, S, n)
<1> DEFINE T == {m \in Nat : \E upTo : KeptBy(upTo, s, S, m)}
<1>1. 0 \in T
  <2>1. KeptBy([k \in 0..0 |-> <<>>], s, S, 0)
    BY DEF KeptBy
  <2> QED
    BY <2>1
<1>2. ASSUME NEW m \in Nat, m \in T PROVE m + 1 \in T
  <2>1. PICK f : KeptBy(f, s, S, m)
    BY <1>2
  <2> DEFINE g == [k \in 0..(m + 1) |->
                     IF k \in 0..m THEN f[k]
                     ELSE IF s[m + 1] \in S THEN Append(f[m], s[m + 1]) ELSE f[m]]
  <2>2. f[0] = <<>>
    BY <2>1, KeptByStep
  <2>3. \A k \in 1..m : f[k] = IF s[k] \in S THEN Append(f[k - 1], s[k]) ELSE f[k - 1]
    BY <2>1, KeptByStep
  <2>4. \A k \in 0..m : g[k] = f[k]
    OBVIOUS
  <2>5. g[m + 1] = IF s[m + 1] \in S THEN Append(g[m], s[m + 1]) ELSE g[m]
    BY <2>4
  <2>6. \A k \in 1..(m + 1) : g[k] = IF s[k] \in S THEN Append(g[k - 1], s[k]) ELSE g[k - 1]
    <3> TAKE k \in 1..(m + 1)
    <3>1. CASE k = m + 1
      BY <2>5, <3>1
    <3>2. CASE k \in 1..m
      BY <2>3, <2>4, <3>2
    <3> QED
      BY <3>1, <3>2
  <2>7. g[0] = <<>>
    BY <2>2, <2>4
  <2> HIDE DEF g
  <2> DEFINE h == [k \in 0..(m + 1) |->
                     IF k = 0 THEN <<>>
                     ELSE IF s[k] \in S THEN Append(g[k - 1], s[k]) ELSE g[k - 1]]
  <2>8. \A k \in 0..(m + 1) : g[k] = h[k]
    BY <2>6, <2>7
  <2>9. g = h
    BY <2>8 DEF g
  <2>10. KeptBy(g, s, S, m + 1)
    BY <2>9 DEF KeptBy
  <2> QED
    BY <2>10
<1>3. Nat \subseteq T
  BY <1>1, <1>2, NatInd
<1> QED
  BY <1>3

\* What is kept of s: the elements of s in S, once each when s has each of
\* them once.
LEMMA KeptProperties ==
  ASSUME NEW T, NEW s \in Seq(T), NEW S
  PROVE  /\ Scan!Kept(s, S) \in Seq(T)
         /\ Scan!Events(Scan!Kept(s, S)) = Scan!Events(s) \cap S
         /\ (\A i, j \in DOMAIN s : s[i] = s[j] /\ s[i] \in S => i = j)
              => \A i, j \in DOMAIN Scan!Kept(s, S) :
                   Scan!Kept(s, S)[i] = Scan!Kept(s, S)[j] => i = j
<1> DEFINE N == Len(s)
           f == CHOOSE upTo : KeptBy(upTo, s, S, N)
           Once == \A i, j \in 1..N : s[i] = s[j] /\ s[i] \in S => i = j
           Fine(t, n) == /\ t \in Seq(T)
                         /\ \A x : (\E i \in 1..Len(t) : t[i] = x)
                                     <=> x \in S /\ \E i \in 1..n : s[i] = x
                         /\ Once => \A i, j \in 1..Len(t) : t[i] = t[j] => i = j
<1>1. N \in Nat /\ DOMAIN s = 1..N /\ \A i \in 1..N : s[i] \in T
  BY LenProperties
<1>2. KeptBy(f, s, S, N)
  BY <1>1, KeptExists
<1>3. Scan!Kept(s, S) = f[N]
  BY DEF Scan!Kept, KeptBy, f
<1> HIDE DEF f
<1>4. f[0] = <<>>
  BY <1>1, <1>2, KeptByStep
<1>5. \A k \in 1..N : f[k] = IF s[k] \in S THEN Append(f[k - 1], s[k]) ELSE f[k - 1]
  BY <1>1, <1>2, KeptByStep
<1>6. Fine(f[0], 0)
  BY <1>4
<1>7. ASSUME NEW n \in 0..(N - 1), Fine(f[n], n)
      PROVE  Fine(f[n + 1], n + 1)
  <2>1. n + 1 \in 1..N /\ (n + 1) - 1 = n /\ s[n + 1] \in T
    BY <1>1
  <2>2. f[n] \in Seq(T) /\ Len(f[n]) \in Nat
    BY <1>7
  <2>3. CASE s[n + 1] \in S
    <3>1. f[n + 1] = Append(f[n], s[n + 1])
      BY <1>5, <2>1, <2>3
    <3>2. /\ f[n + 1] \in Seq(T) /\ Len(f[n + 1]) = Len(f[n]) + 1
          /\ \A i \in 1..Len(f[n]) : f[n + 1][i] = f[n][i]
          /\ f[n + 1][Len(f[n]) + 1] = s[n + 1]
      BY <2>1, <2>2, <3>1, AppendProperties
    <3>3. \A x : (\E i \in 1..Len(f[n + 1]) : f[n + 1][i] = x)
                   <=> (\E i \in 1..Len(f[n]) : f[n][i] = x) \/ x = s[n + 1]
      <4>1. 1..Len(f[n + 1]) = 1..Len(f[n]) \cup {Len(f[n]) + 1}
        BY <2>2, <3>2
      <4> QED
        BY <3>2, <4>1
    <3>4. \A x : (\E i \in 1..(n + 1) : s[i] = x) <=> (\E i \in 1..n : s[i] = x) \/ x = s[n + 1]
      BY <2>1
    <3>5. \A x : (\E i \in 1..Len(f[n + 1]) : f[n + 1][i] = x)
                   <=> x \in S /\ \E i \in 1..(n + 1) : s[i] = x
      BY <1>7, <2>3, <3>3, <3>4
    <3>6. ASSUME Once, NEW i \in 1..Len(f[n + 1]), NEW j \in 1..Len(f[n + 1]),
                 f[n + 1][i] = f[n + 1][j], i < j
          PROVE  FALSE
      <4>1. i \in 1..Len(f[n])
        BY <2>2, <3>2, <3>6
      <4>2. CASE j \in 1..Len(f[n])
        BY <1>7, <3>2, <3>6, <4>1, <4>2
      <4>3. CASE j = Len(f[n]) + 1
        <5>1. f[n][i] = s[n + 1]
          BY <3>2, <3>6, <4>1, <4>3
        <5>2. PICK k \in 1..n : s[k] = s[n + 1]
          BY <1>7, <4>1, <5>1
        <5>3. k = n + 1
          BY <1>1, <2>1, <2>3, <3>6, <5>2
        <5> QED
          BY <5>3
      <4> QED
        BY <2>2, <3>2, <4>2, <4>3
    <3>7. Once => \A i, j \in 1..Len(f[n + 1]) : f[n + 1][i] = f[n + 1][j] => i = j
      <4> SUFFICES ASSUME Once, NEW i \in 1..Len(f[n + 1]), NEW j \in 1..Len(f[n + 1]),
                          f[n + 1][i] = f[n + 1][j], i # j
                   PROVE  FALSE
        OBVIOUS
      <4>1. i < j \/ j < i
        BY <2>2, <3>2
      <4> QED
        BY <3>6, <4>1
    <3> QED
      BY <3>2, <3>5, <3>7
  <2>4. CASE s[n + 1] \notin S
    <3>1. f[n + 1] = f[n]
      BY <1>5, <2>1, <2>4
    <3>2. \A x \in S : (\E i \in 1..(n + 1) : s[i] = x) <=> (\E i \in 1..n : s[i] = x)
      BY <2>1, <2>4
    <3> QED
      BY <1>7, <3>1, <3>2
  <2> QED
    BY <2>3, <2>4
<1> HIDE DEF Fine
<1> DEFINE G == {n \in Nat : n <= N => Fine(f[n], n)}
<1>8. 0 \in G
  BY <1>6
<1>9. \A n \in Nat : n \in G => n + 1 \in G
  BY <1>1, <1>7
<1>10. Nat \subseteq G
  BY <1>8, <1>9, NatInd
<1>11. Fine(f[N], N)
  BY <1>1, <1>10
<1>12. f[N] \in Seq(T) /\ DOMAIN f[N] = 1..Len(f[N])
  BY <1>11 DEF Fine
<1>13. Scan!Events(f[N]) = Scan!Events(s) \cap S
  <2>1. \A x : x \in Scan!Events(f[N]) <=> \E i \in 1..Len(f[N]) : f[N][i] = x
    BY <1>12 DEF Scan!Events
  <2>2. \A x : x \in Scan!Events(s) <=> \E i \in 1..N : s[i] = x
    BY <1>1 DEF Scan!Events
  <2> QED
    BY <1>11, <2>1, <2>2 DEF Fine
<1> QED
  BY <1>1, <1>3, <1>11, <1>12, <1>13 DEF Fine
-----------------------------------------------------------------------------
(***************************************************************************)
(* The scan's operators.                                                   *)
(***************************************************************************)
ChainEvents == Scan!Events(Chain)
Line == {Scan!Row(e) : e \in ChainEvents} \cup {Scan!Marker(end) : end \in 0..(PIN - 1)}
          \cup {Scan!Half}

RowsOnce(f) == \A i, j \in DOMAIN f : f[i] = f[j] /\ f[i].line = "ev" => i = j

\* What the assumption says of the chain's events.
LEMMA ChainFacts ==
  /\ Chain \in Seq(ChainEvents)
  /\ \A e \in ChainEvents : e.block \in 0..(PIN - 1) /\ e.kind \in {"W", "D"}
  /\ Scan!IsInjective(Chain)
BY ScanAssumption DEF ChainEvents, Scan!Events, Scan!IsInjective

\* The three forms of a line are told apart by their first field.
LEMMA LineFacts ==
  /\ \A e : Scan!Row(e).line = "ev" /\ Scan!Row(e).event = e
  /\ \A end : Scan!Marker(end).line = "chunk" /\ Scan!Marker(end).end = end
  /\ Scan!Half.line = "half"
  /\ \A l \in Line : \/ l.line = "ev" /\ l.event \in ChainEvents /\ l = Scan!Row(l.event)
                     \/ l.line = "chunk" /\ l.end \in 0..(PIN - 1) /\ l = Scan!Marker(l.end)
                     \/ l.line = "half" /\ l = Scan!Half
BY DEF Line, Scan!Row, Scan!Marker, Scan!Half

\* The events of the rows among some lines.
LEMMA EventsOfFacts ==
  ASSUME NEW ls \in Seq(Line)
  PROVE  /\ Scan!EventsOf(ls) \in Seq(ChainEvents)
         /\ \A e : e \in Scan!Events(Scan!EventsOf(ls))
                     <=> e \in ChainEvents /\ \E i \in DOMAIN ls : ls[i] = Scan!Row(e)
         /\ RowsOnce(ls) => Scan!IsInjective(Scan!EventsOf(ls))
<1> DEFINE R == {Scan!Row(e) : e \in ChainEvents}
           r == Scan!Kept(ls, R)
           v == [i \in DOMAIN r |-> r[i].event]
<1>1. /\ r \in Seq(Line) /\ Scan!Events(r) = Scan!Events(ls) \cap R
      /\ (\A i, j \in DOMAIN ls : ls[i] = ls[j] /\ ls[i] \in R => i = j)
           => \A i, j \in DOMAIN r : r[i] = r[j] => i = j
  BY KeptProperties
<1> HIDE DEF r
<1>2. Scan!EventsOf(ls) = v
  BY DEF Scan!EventsOf, ChainEvents, r
<1>3. \A i \in DOMAIN r : r[i] \in R
  BY <1>1 DEF Scan!Events
<1>4. \A i \in DOMAIN r : v[i] \in ChainEvents /\ r[i] = Scan!Row(v[i])
  BY <1>3, LineFacts
<1>5. v \in Seq(ChainEvents) /\ DOMAIN v = DOMAIN r
  <2>1. DOMAIN r = 1..Len(r) /\ Len(r) \in Nat
    BY <1>1, LenProperties
  <2> QED
    BY <1>4, <2>1
<1>6. ASSUME NEW e
      PROVE  e \in Scan!Events(v) <=> e \in ChainEvents /\ \E i \in DOMAIN ls : ls[i] = Scan!Row(e)
  <2>1. e \in Scan!Events(v) <=> \E i \in DOMAIN r : v[i] = e
    BY <1>5 DEF Scan!Events
  <2>2. (\E i \in DOMAIN r : v[i] = e) <=> e \in ChainEvents /\ \E i \in DOMAIN r : r[i] = Scan!Row(e)
    BY <1>4, LineFacts
  <2>3. (\E i \in DOMAIN r : r[i] = Scan!Row(e)) <=> Scan!Row(e) \in Scan!Events(ls) \cap R
    BY <1>1 DEF Scan!Events
  <2>4. Scan!Row(e) \in Scan!Events(ls) <=> \E i \in DOMAIN ls : ls[i] = Scan!Row(e)
    BY DEF Scan!Events
  <2> QED
    BY <2>1, <2>2, <2>3, <2>4
<1>7. RowsOnce(ls) => Scan!IsInjective(v)
  <2>1. \A l \in R : l.line = "ev"
    BY LineFacts
  <2> QED
    BY <1>1, <1>4, <1>5, <2>1 DEF RowsOnce, Scan!IsInjective
<1> QED
  BY <1>2, <1>5, <1>6, <1>7

\* What a rerun accepts of a file: the rows some marker follows.
LEMMA CommittedFacts ==
  ASSUME NEW f \in Seq(Line)
  PROVE  /\ Scan!Committed(f) \in Seq(ChainEvents)
         /\ \A e : e \in Scan!Events(Scan!Committed(f))
                     <=> e \in ChainEvents /\ \E k \in Scan!Markers(f) : \E i \in 1..k : f[i] = Scan!Row(e)
         /\ RowsOnce(f) => Scan!IsInjective(Scan!Committed(f))
<1> DEFINE M == Scan!Max(Scan!Markers(f) \cup {0})
           g == SubSeq(f, 1, M)
<1>1. Len(f) \in Nat /\ DOMAIN f = 1..Len(f)
  BY LenProperties
<1>2. Scan!Markers(f) \subseteq 1..Len(f)
  BY <1>1 DEF Scan!Markers
<1>3. M \in Scan!Markers(f) \cup {0} /\ \A k \in Scan!Markers(f) : k <= M
  <2>1. Scan!Markers(f) \cup {0} \subseteq 0..Len(f)
    BY <1>1, <1>2
  <2>2. /\ Scan!Max(Scan!Markers(f) \cup {0}) \in Scan!Markers(f) \cup {0}
        /\ \A y \in Scan!Markers(f) \cup {0} : Scan!Max(Scan!Markers(f) \cup {0}) >= y
    BY <1>1, <2>1, MaxOfNats
  <2> QED
    BY <1>2, <2>1, <2>2
<1> HIDE DEF M
<1>4. M \in 0..Len(f)
  BY <1>1, <1>2, <1>3
<1>5. /\ g \in Seq(Line) /\ Len(g) = M /\ DOMAIN g = 1..M
      /\ \A i \in 1..M : g[i] = f[i]
  <2>1. \A i \in 1..M : f[i] \in Line
    BY <1>1, <1>4
  <2> QED
    BY <1>1, <1>4, <2>1, SubSeqProperties, LenProperties
<1> HIDE DEF g
<1>6. Scan!Committed(f) = Scan!EventsOf(g)
  BY DEF Scan!Committed, g, M
<1>7. RowsOnce(f) => RowsOnce(g)
  BY <1>1, <1>4, <1>5 DEF RowsOnce
<1>8. ASSUME NEW e
      PROVE  (\E i \in DOMAIN g : g[i] = Scan!Row(e))
               <=> \E k \in Scan!Markers(f) : \E i \in 1..k : f[i] = Scan!Row(e)
  <2>1. \A k \in Scan!Markers(f) : k <= M /\ k \in Nat
    BY <1>2, <1>3
  <2>2. (\E i \in 1..M : f[i] = Scan!Row(e)) => M \in Scan!Markers(f)
    BY <1>3
  <2>3. \A k \in Scan!Markers(f) : \A i \in 1..k : i \in 1..M
    BY <1>4, <2>1
  <2>4. (\E i \in DOMAIN g : g[i] = Scan!Row(e)) <=> \E i \in 1..M : f[i] = Scan!Row(e)
    BY <1>5
  <2> QED
    BY <2>2, <2>3, <2>4
<1> QED
  BY <1>5, <1>6, <1>7, <1>8, EventsOfFacts

\* Where a rerun goes on: its lower end, or behind some marker and every other.
LEMMA ResumeFacts ==
  ASSUME NEW f \in Seq(Line), NEW base \in 0..PIN
  PROVE  /\ Scan!ResumeAt(f, base) \in base..PIN
         /\ \/ Scan!ResumeAt(f, base) = base
            \/ \E i \in Scan!Markers(f) : Scan!ResumeAt(f, base) = f[i].end + 1
         /\ \A i \in Scan!Markers(f) : f[i].end < Scan!ResumeAt(f, base)
<1> DEFINE E == {f[i].end + 1 : i \in Scan!Markers(f)} \cup {base}
<1>1. \A i \in Scan!Markers(f) : f[i].end \in 0..(PIN - 1)
  BY LineFacts DEF Scan!Markers
<1>2. E \subseteq 0..PIN /\ E # {} /\ PIN \in Nat
  BY <1>1, ScanAssumption
<1>3. Scan!Max(E) \in E /\ \A y \in E : Scan!Max(E) >= y
  BY <1>2, MaxOfNats
<1>4. Scan!ResumeAt(f, base) = Scan!Max(E)
  BY DEF Scan!ResumeAt
<1>5. /\ Scan!ResumeAt(f, base) \in E /\ Scan!ResumeAt(f, base) >= base
      /\ \A i \in Scan!Markers(f) : Scan!ResumeAt(f, base) >= f[i].end + 1
  BY <1>3, <1>4
<1>6. Scan!ResumeAt(f, base) \in base..PIN
  BY <1>2, <1>5
<1>7. \A i \in Scan!Markers(f) : f[i].end < Scan!ResumeAt(f, base)
  BY <1>1, <1>5, <1>6
<1> QED
  BY <1>5, <1>6, <1>7

\* The rows of a chunk: the chain's events in it, once each.
LEMMA ChunkFacts ==
  ASSUME NEW s \in 0..(PIN - 1)
  PROVE  /\ Scan!ChunkEnd(s) \in s..(PIN - 1) /\ Scan!ChunkEnd(s) < s + CHUNK
         /\ Scan!ChunkEnd(s) = PIN - 1 \/ Scan!ChunkEnd(s) + 1 = s + CHUNK
         /\ Scan!ChunkRows(s) \in Seq(ChainEvents)
         /\ Scan!Events(Scan!ChunkRows(s)) =
              {e \in ChainEvents : s <= e.block /\ e.block <= Scan!ChunkEnd(s)}
         /\ Scan!IsInjective(Scan!ChunkRows(s))
<1> USE ScanAssumption
<1> DEFINE z == Scan!ChunkEnd(s)
           In(k) == {e \in ChainEvents : e.kind = k /\ s <= e.block /\ e.block <= z}
           w == Scan!Logs("W", s, z)
           d == Scan!Logs("D", s, z)
<1>1. /\ z \in s..(PIN - 1) /\ z < s + CHUNK
      /\ z = PIN - 1 \/ z + 1 = s + CHUNK
  BY DEF Scan!ChunkEnd
<1>2. ASSUME NEW k
      PROVE  /\ Scan!Logs(k, s, z) \in Seq(ChainEvents)
             /\ Scan!Events(Scan!Logs(k, s, z)) = In(k)
             /\ \A i, j \in DOMAIN Scan!Logs(k, s, z) :
                  Scan!Logs(k, s, z)[i] = Scan!Logs(k, s, z)[j] => i = j
  <2>1. Scan!Logs(k, s, z) = Scan!Kept(Chain, In(k))
    BY DEF Scan!Logs, ChainEvents
  <2>2. Scan!Events(Chain) \cap In(k) = In(k)
    BY DEF ChainEvents
  <2>3. \A i, j \in DOMAIN Chain : Chain[i] = Chain[j] => i = j
    BY ChainFacts DEF Scan!IsInjective
  <2> HIDE DEF In
  <2>4. /\ Scan!Kept(Chain, In(k)) \in Seq(ChainEvents)
        /\ Scan!Events(Scan!Kept(Chain, In(k))) = In(k)
        /\ \A i, j \in DOMAIN Scan!Kept(Chain, In(k)) :
             Scan!Kept(Chain, In(k))[i] = Scan!Kept(Chain, In(k))[j] => i = j
    BY <2>2, <2>3, ChainFacts, KeptProperties
  <2> QED
    BY <2>1, <2>4
<1>3. /\ w \in Seq(ChainEvents) /\ d \in Seq(ChainEvents)
      /\ \A i \in DOMAIN w : w[i] \in In("W")
      /\ \A i \in DOMAIN d : d[i] \in In("D")
      /\ \A e \in In("W") : \E i \in DOMAIN w : w[i] = e
      /\ \A e \in In("D") : \E i \in DOMAIN d : d[i] = e
      /\ \A i, j \in DOMAIN w : w[i] = w[j] => i = j
      /\ \A i, j \in DOMAIN d : d[i] = d[j] => i = j
  BY <1>2 DEF Scan!Events
<1>4. Scan!ChunkRows(s) = w \o d
  BY DEF Scan!ChunkRows
<1> HIDE DEF w, d
<1>5. /\ Len(w) \in Nat /\ Len(d) \in Nat /\ DOMAIN w = 1..Len(w) /\ DOMAIN d = 1..Len(d)
      /\ w \o d \in Seq(ChainEvents) /\ DOMAIN (w \o d) = 1..(Len(w) + Len(d))
      /\ \A i \in 1..(Len(w) + Len(d)) :
           (w \o d)[i] = IF i <= Len(w) THEN w[i] ELSE d[i - Len(w)]
  BY <1>3, LenProperties, ConcatProperties
<1>6. ASSUME NEW e
      PROVE  (\E i \in DOMAIN (w \o d) : (w \o d)[i] = e) <=> e \in In("W") \cup In("D")
  <2>1. ASSUME NEW i \in DOMAIN (w \o d) PROVE (w \o d)[i] \in In("W") \cup In("D")
    <3>1. CASE i <= Len(w)
      BY <1>3, <1>5, <3>1
    <3>2. CASE i > Len(w)
      <4>1. i - Len(w) \in DOMAIN d /\ (w \o d)[i] = d[i - Len(w)]
        BY <1>5, <3>2
      <4> QED
        BY <1>3, <4>1
    <3> QED
      BY <1>5, <3>1, <3>2
  <2>2. ASSUME e \in In("W") PROVE \E i \in DOMAIN (w \o d) : (w \o d)[i] = e
    <3>1. PICK i \in DOMAIN w : w[i] = e
      BY <1>3, <2>2
    <3> QED
      BY <1>5, <3>1
  <2>3. ASSUME e \in In("D") PROVE \E i \in DOMAIN (w \o d) : (w \o d)[i] = e
    <3>1. PICK i \in DOMAIN d : d[i] = e
      BY <1>3, <2>3
    <3>2. /\ Len(w) + i \in 1..(Len(w) + Len(d)) /\ ~(Len(w) + i <= Len(w))
          /\ (Len(w) + i) - Len(w) = i
      BY <1>5
    <3> QED
      BY <1>5, <3>1, <3>2
  <2> QED
    BY <2>1, <2>2, <2>3
<1>7. In("W") \cup In("D") = {e \in ChainEvents : s <= e.block /\ e.block <= z}
  BY ChainFacts
<1>8. ASSUME NEW i \in DOMAIN (w \o d), NEW j \in DOMAIN (w \o d), (w \o d)[i] = (w \o d)[j]
      PROVE  i = j
  <2>1. CASE i <= Len(w) /\ j <= Len(w)
    BY <1>3, <1>5, <1>8, <2>1
  <2>2. CASE i > Len(w) /\ j > Len(w)
    <3>1. i - Len(w) \in DOMAIN d /\ j - Len(w) \in DOMAIN d /\ d[i - Len(w)] = d[j - Len(w)]
      BY <1>5, <1>8, <2>2
    <3>2. i - Len(w) = j - Len(w)
      BY <1>3, <3>1
    <3> QED
      BY <1>5, <3>2
  <2>3. ASSUME NEW a \in DOMAIN (w \o d), NEW b \in DOMAIN (w \o d),
               a <= Len(w), b > Len(w), (w \o d)[a] = (w \o d)[b]
        PROVE  FALSE
    <3>1. w[a] \in In("W") /\ w[a] = d[b - Len(w)] /\ b - Len(w) \in DOMAIN d
      BY <1>3, <1>5, <2>3
    <3>2. d[b - Len(w)] \in In("D")
      BY <1>3, <3>1
    <3> QED
      BY <3>1, <3>2
  <2> QED
    BY <1>5, <1>8, <2>1, <2>2, <2>3
<1>9. Scan!Events(w \o d) = {e \in ChainEvents : s <= e.block /\ e.block <= z}
  <2>1. \A e : e \in Scan!Events(w \o d) <=> \E i \in DOMAIN (w \o d) : (w \o d)[i] = e
    BY DEF Scan!Events
  <2> QED
    BY <1>6, <1>7, <2>1
<1> QED
  BY <1>1, <1>4, <1>5, <1>8, <1>9 DEF Scan!IsInjective
-----------------------------------------------------------------------------
(***************************************************************************)
(* The scan's inductive invariant.  What the properties say of a finished  *)
(* scan and of the marker a rerun resumes at has to be said of every       *)
(* marker and of every chunk in hand; and that nothing is added twice      *)
(* needs the rows of the file to lie before the chunk in hand.             *)
(***************************************************************************)
ScanTypes == /\ spc \in {"off", "scan", "append", "done"}
             /\ lo \in 0..PIN /\ start \in 0..(PIN + CHUNK)
             /\ streams \in Seq(ChainEvents) /\ rows \in Seq(ChainEvents)
             /\ file \in Seq(Line) /\ cuts \in 0..MAX_CUTS

Vouched == \A k \in Scan!Markers(file) : \A e \in ChainEvents :
             PIN - SPAN <= e.block /\ e.block <= file[k].end
               => \E i \in 1..k : file[i] = Scan!Row(e)

InHand == spc # "off" =>
            /\ lo = PIN - SPAN /\ lo <= start /\ (spc = "done" <=> PIN <= start)
            /\ \A e \in ChainEvents : lo <= e.block /\ e.block < start
                 => /\ e \in Scan!Events(streams)
                    /\ \E i \in DOMAIN file : file[i] = Scan!Row(e)
            /\ spc = "append" => /\ rows = Scan!ChunkRows(start)
                                 /\ Scan!Events(rows) \subseteq Scan!Events(streams)

RowsBehind(f, b) == \A i \in DOMAIN f : f[i].line = "ev" => f[i].event.block < b
Ahead            == IF spc = "append" THEN start + CHUNK ELSE start

Uncut == cuts = 0 =>
           /\ RowsOnce(file) /\ Scan!IsInjective(streams)
           /\ \A i \in DOMAIN file : file[i].line = "ev" =>
                \E k \in Scan!Markers(file) : file[i].event.block <= file[k].end
           /\ spc # "off" => /\ RowsBehind(file, start)
                             /\ \A e \in Scan!Events(streams) : e.block < Ahead

ScanInv == ScanTypes /\ Vouched /\ InHand /\ Uncut

\* g is f with t behind it.
Extended(g, f, t) ==
  /\ DOMAIN f = 1..Len(f) /\ DOMAIN t = 1..Len(t) /\ Len(f) \in Nat /\ Len(t) \in Nat
  /\ DOMAIN g = 1..(Len(f) + Len(t)) /\ Len(g) = Len(f) + Len(t)
  /\ \A i \in 1..Len(f) : i \in DOMAIN g /\ g[i] = f[i]
  /\ \A i \in 1..Len(t) : Len(f) + i \in DOMAIN g /\ g[Len(f) + i] = t[i]
  /\ \A i \in DOMAIN g : i \in 1..Len(f) \/ \E j \in 1..Len(t) : i = Len(f) + j

\* A file and what is appended to it.
LEMMA Appended ==
  ASSUME NEW f \in Seq(Line), NEW t \in Seq(Line)
  PROVE  f \o t \in Seq(Line) /\ Extended(f \o t, f, t)
<1>1. Len(f) \in Nat /\ Len(t) \in Nat /\ DOMAIN f = 1..Len(f) /\ DOMAIN t = 1..Len(t)
  BY LenProperties
<1>2. /\ f \o t \in Seq(Line) /\ DOMAIN (f \o t) = 1..(Len(f) + Len(t))
      /\ Len(f \o t) = Len(f) + Len(t)
      /\ \A i \in 1..(Len(f) + Len(t)) :
           (f \o t)[i] = IF i <= Len(f) THEN f[i] ELSE t[i - Len(f)]
  BY ConcatProperties, LenProperties
<1>3. \A i \in 1..Len(f) : i \in DOMAIN (f \o t) /\ (f \o t)[i] = f[i]
  BY <1>1, <1>2
<1>4. ASSUME NEW i \in 1..Len(t)
      PROVE  Len(f) + i \in DOMAIN (f \o t) /\ (f \o t)[Len(f) + i] = t[i]
  <2>1. /\ Len(f) + i \in 1..(Len(f) + Len(t)) /\ ~(Len(f) + i <= Len(f))
        /\ (Len(f) + i) - Len(f) = i
    BY <1>1
  <2> QED
    BY <1>2, <2>1
<1>5. ASSUME NEW i \in DOMAIN (f \o t), i \notin 1..Len(f)
      PROVE  \E j \in 1..Len(t) : i = Len(f) + j
  <2>1. i - Len(f) \in 1..Len(t) /\ i = Len(f) + (i - Len(f))
    BY <1>1, <1>2, <1>5
  <2> QED
    BY <2>1
<1> QED
  BY <1>1, <1>2, <1>3, <1>4, <1>5 DEF Extended

\* The lines of the chunk in hand: its rows, then its marker.
LEMMA LinesFacts ==
  ASSUME ScanInv, spc = "append"
  PROVE  /\ Scan!Lines \in Seq(Line) /\ Len(Scan!Lines) = Len(rows) + 1 /\ Len(rows) \in Nat
         /\ \A i \in 1..Len(rows) : Scan!Lines[i] = Scan!Row(rows[i]) /\ rows[i] \in ChainEvents
         /\ Scan!Lines[Len(rows) + 1] = Scan!Marker(Scan!ChunkEnd(start))
         /\ start \in 0..(PIN - 1) /\ rows = Scan!ChunkRows(start)
<1>1. start \in 0..(PIN - 1) /\ rows = Scan!ChunkRows(start)
  BY ScanAssumption DEF ScanInv, ScanTypes, InHand
<1>2. rows \in Seq(ChainEvents) /\ Len(rows) \in Nat /\ DOMAIN rows = 1..Len(rows)
  BY LenProperties DEF ScanInv, ScanTypes
<1>3. Scan!ChunkEnd(start) \in 0..(PIN - 1)
  BY <1>1, ChunkFacts, ScanAssumption
<1> DEFINE r == [i \in DOMAIN rows |-> Scan!Row(rows[i])]
           m == Scan!Marker(Scan!ChunkEnd(start))
<1>4. \A i \in 1..Len(rows) : rows[i] \in ChainEvents /\ Scan!Row(rows[i]) \in Line
  BY <1>2 DEF Line
<1>5. m \in Line
  BY <1>3 DEF Line
<1>6. r \in Seq(Line) /\ Len(r) = Len(rows) /\ \A i \in 1..Len(rows) : r[i] = Scan!Row(rows[i])
  BY <1>2, <1>4
<1>7. <<m>> \in Seq(Line) /\ Len(<<m>>) = 1 /\ <<m>>[1] = m
  BY <1>5
<1>8. Scan!Lines = r \o <<m>>
  BY DEF Scan!Lines
<1> HIDE DEF r, m
<1>9. /\ r \o <<m>> \in Seq(Line) /\ Len(r \o <<m>>) = Len(rows) + 1
      /\ \A i \in 1..Len(rows) : (r \o <<m>>)[i] = r[i]
      /\ (r \o <<m>>)[Len(rows) + 1] = m
  BY <1>2, <1>6, <1>7, ConcatProperties
<1> QED
  BY <1>1, <1>2, <1>4, <1>6, <1>8, <1>9 DEF m

\* What is added behind leaves the elements as they were, and adds its own.
LEMMA AppendedEvents ==
  ASSUME NEW f \in Seq(ChainEvents), NEW t \in Seq(ChainEvents)
  PROVE  /\ f \o t \in Seq(ChainEvents)
         /\ Scan!Events(f \o t) = Scan!Events(f) \cup Scan!Events(t)
         /\ Scan!IsInjective(f) /\ Scan!IsInjective(t) /\ Scan!Events(f) \cap Scan!Events(t) = {}
              => Scan!IsInjective(f \o t)
<1>1. /\ Len(f) \in Nat /\ Len(t) \in Nat /\ DOMAIN f = 1..Len(f) /\ DOMAIN t = 1..Len(t)
      /\ f \o t \in Seq(ChainEvents) /\ DOMAIN (f \o t) = 1..(Len(f) + Len(t))
      /\ \A i \in 1..(Len(f) + Len(t)) :
           (f \o t)[i] = IF i <= Len(f) THEN f[i] ELSE t[i - Len(f)]
  BY LenProperties, ConcatProperties
<1> DEFINE c == f \o t
<1>2. \A i \in 1..Len(f) : i \in DOMAIN c /\ c[i] = f[i]
  BY <1>1
<1>3. ASSUME NEW i \in 1..Len(t) PROVE Len(f) + i \in DOMAIN c /\ c[Len(f) + i] = t[i]
  <2>1. /\ Len(f) + i \in 1..(Len(f) + Len(t)) /\ ~(Len(f) + i <= Len(f))
        /\ (Len(f) + i) - Len(f) = i
    BY <1>1
  <2> QED
    BY <1>1, <2>1
<1>4. ASSUME NEW i \in DOMAIN c, i \notin 1..Len(f)
      PROVE  \E j \in 1..Len(t) : i = Len(f) + j
  <2>1. i - Len(f) \in 1..Len(t) /\ i = Len(f) + (i - Len(f))
    BY <1>1, <1>4
  <2> QED
    BY <2>1
<1> HIDE DEF c
<1>5. ASSUME NEW e
      PROVE  e \in Scan!Events(c) <=> e \in Scan!Events(f) \/ e \in Scan!Events(t)
  <2>1. e \in Scan!Events(c) <=> \E i \in DOMAIN c : c[i] = e
    BY DEF Scan!Events
  <2>2. e \in Scan!Events(f) <=> \E i \in 1..Len(f) : f[i] = e
    BY <1>1 DEF Scan!Events
  <2>3. e \in Scan!Events(t) <=> \E i \in 1..Len(t) : t[i] = e
    BY <1>1 DEF Scan!Events
  <2> QED
    BY <1>2, <1>3, <1>4, <2>1, <2>2, <2>3
<1>6. ASSUME Scan!IsInjective(f), Scan!IsInjective(t), Scan!Events(f) \cap Scan!Events(t) = {},
             NEW i \in DOMAIN c, NEW j \in DOMAIN c, c[i] = c[j]
      PROVE  i = j
  <2>1. \A a \in 1..Len(f), b \in 1..Len(t) : f[a] # t[b]
    BY <1>1, <1>6 DEF Scan!Events
  <2>2. \A a, b \in 1..Len(f) : f[a] = f[b] => a = b
    BY <1>1, <1>6 DEF Scan!IsInjective
  <2>3. \A a, b \in 1..Len(t) : t[a] = t[b] => a = b
    BY <1>1, <1>6 DEF Scan!IsInjective
  <2>4. CASE i \in 1..Len(f)
    <3>1. j \in 1..Len(f)
      <4> SUFFICES ASSUME j \notin 1..Len(f) PROVE FALSE
        OBVIOUS
      <4>1. PICK b \in 1..Len(t) : j = Len(f) + b
        BY <1>4
      <4> QED
        BY <1>2, <1>3, <1>6, <2>1, <2>4, <4>1
    <3> QED
      BY <1>2, <1>6, <2>2, <2>4, <3>1
  <2>5. CASE i \notin 1..Len(f)
    <3>1. PICK a \in 1..Len(t) : i = Len(f) + a
      BY <1>4, <2>5
    <3>2. j \notin 1..Len(f)
      BY <1>2, <1>3, <1>6, <2>1, <3>1
    <3>3. PICK b \in 1..Len(t) : j = Len(f) + b
      BY <1>4, <3>2
    <3>4. t[a] = t[b]
      BY <1>3, <1>6, <3>1, <3>3
    <3> QED
      BY <2>3, <3>1, <3>3, <3>4
  <2> QED
    BY <2>4, <2>5
<1> QED
  BY <1>1, <1>5, <1>6 DEF c, Scan!IsInjective

\* A rerun accepts what the markers vouch for and goes on behind the highest.
LEMMA ScanStart == ScanInv /\ Scan!Start => ScanInv'
<1> SUFFICES ASSUME ScanInv, Scan!Start PROVE ScanInv'
  OBVIOUS
<1> USE ScanAssumption
<1> DEFINE base == PIN - SPAN
           r == Scan!ResumeAt(file, base)
<1>1. file \in Seq(Line) /\ base \in 0..PIN /\ PIN \in Nat /\ CHUNK \in Nat
  BY DEF ScanInv, ScanTypes
<1>2. /\ lo' = base /\ start' = r /\ spc' = IF r < PIN THEN "scan" ELSE "done"
      /\ streams' = Scan!Committed(file) /\ rows' = <<>> /\ UNCHANGED <<file, cuts>>
  BY DEF Scan!Start, Scan!ScanFrom
<1>3. /\ r \in base..PIN
      /\ r = base \/ \E i \in Scan!Markers(file) : r = file[i].end + 1
      /\ \A i \in Scan!Markers(file) : file[i].end < r
  BY <1>1, ResumeFacts
<1>4. /\ Scan!Committed(file) \in Seq(ChainEvents)
      /\ \A e : e \in Scan!Events(Scan!Committed(file))
                  <=> e \in ChainEvents
                      /\ \E k \in Scan!Markers(file) : \E i \in 1..k : file[i] = Scan!Row(e)
      /\ RowsOnce(file) => Scan!IsInjective(Scan!Committed(file))
  BY <1>1, CommittedFacts
<1> HIDE DEF r
<1>5. ScanTypes'
  BY <1>1, <1>2, <1>3, <1>4 DEF ScanInv, ScanTypes
<1>6. Vouched'
  BY <1>2 DEF ScanInv, Vouched, Scan!Markers
<1>7. \A i \in DOMAIN file : file[i] \in Line
  BY <1>1
<1>8. \A k \in Scan!Markers(file) : \A i \in 1..k : i \in DOMAIN file
  BY <1>1, LenProperties DEF Scan!Markers
<1>9. ASSUME NEW e \in ChainEvents, base <= e.block, e.block < r
      PROVE  e \in Scan!Events(streams') /\ \E i \in DOMAIN file : file[i] = Scan!Row(e)
  <2>1. e.block \in Nat
    BY ChainFacts
  <2>2. PICK k \in Scan!Markers(file) : r = file[k].end + 1
    BY <1>1, <1>3, <1>9, <2>1
  <2>3. file[k].end \in Nat
    BY <1>7, LineFacts DEF Scan!Markers
  <2>4. \E i \in 1..k : file[i] = Scan!Row(e)
    BY <1>9, <2>1, <2>2, <2>3 DEF ScanInv, Vouched
  <2> QED
    BY <1>2, <1>4, <1>8, <2>4
<1>10. InHand'
  BY <1>2, <1>3, <1>9 DEF InHand
<1>11. ASSUME cuts = 0 PROVE RowsBehind(file, r)
  <2> SUFFICES ASSUME NEW i \in DOMAIN file, file[i].line = "ev" PROVE file[i].event.block < r
    BY DEF RowsBehind
  <2>1. PICK k \in Scan!Markers(file) : file[i].event.block <= file[k].end
    BY <1>11 DEF ScanInv, Uncut
  <2>2. file[i].event.block \in Nat /\ file[k].end \in Nat
    BY <1>7, ChainFacts, LineFacts DEF Scan!Markers
  <2> QED
    BY <1>3, <2>1, <2>2
<1>12. ASSUME cuts = 0, NEW e \in Scan!Events(streams') PROVE e.block < r
  <2>1. PICK i \in DOMAIN file : file[i] = Scan!Row(e)
    BY <1>2, <1>4, <1>8, <1>12
  <2>2. file[i].line = "ev" /\ file[i].event = e
    BY <2>1, LineFacts
  <2> QED
    BY <1>11, <1>12, <2>2 DEF RowsBehind
<1>13. Uncut'
  <2> SUFFICES ASSUME cuts = 0
               PROVE  /\ RowsOnce(file) /\ Scan!IsInjective(streams')
                      /\ \A i \in DOMAIN file : file[i].line = "ev" =>
                           \E k \in Scan!Markers(file) : file[i].event.block <= file[k].end
                      /\ RowsBehind(file, r)
                      /\ \A e \in Scan!Events(streams') : e.block < r
    BY <1>2 DEF Uncut, RowsOnce, RowsBehind, Ahead, Scan!Markers, Scan!IsInjective, Scan!Events
  <2> QED
    BY <1>2, <1>4, <1>11, <1>12 DEF ScanInv, Uncut
<1> QED
  BY <1>5, <1>6, <1>10, <1>13 DEF ScanInv

\* The chunk in hand is read: nothing of it was in the streams before.
LEMMA ScanFetch == ScanInv /\ Scan!Fetch => ScanInv'
<1> SUFFICES ASSUME ScanInv, Scan!Fetch PROVE ScanInv'
  OBVIOUS
<1> USE ScanAssumption
<1>1. /\ spc = "scan" /\ spc' = "append" /\ rows' = Scan!ChunkRows(start)
      /\ streams' = streams \o Scan!ChunkRows(start) /\ UNCHANGED <<lo, start, file, cuts>>
  BY DEF Scan!Fetch
<1>2. /\ start \in 0..(PIN - 1) /\ lo = PIN - SPAN /\ lo <= start /\ lo \in 0..PIN
      /\ streams \in Seq(ChainEvents) /\ file \in Seq(Line) /\ cuts \in 0..MAX_CUTS
  BY <1>1 DEF ScanInv, ScanTypes, InHand
<1>3. /\ Scan!ChunkRows(start) \in Seq(ChainEvents)
      /\ Scan!Events(Scan!ChunkRows(start)) =
           {e \in ChainEvents : start <= e.block /\ e.block <= Scan!ChunkEnd(start)}
      /\ Scan!IsInjective(Scan!ChunkRows(start))
      /\ Scan!ChunkEnd(start) < start + CHUNK /\ Scan!ChunkEnd(start) \in Nat
  BY <1>2, ChunkFacts
<1>4. /\ streams' \in Seq(ChainEvents)
      /\ Scan!Events(streams') = Scan!Events(streams) \cup Scan!Events(Scan!ChunkRows(start))
      /\ Scan!IsInjective(streams) /\ Scan!Events(streams) \cap Scan!Events(Scan!ChunkRows(start)) = {}
           => Scan!IsInjective(streams')
  BY <1>1, <1>2, <1>3, AppendedEvents
<1>5. ScanTypes'
  BY <1>1, <1>2, <1>3, <1>4 DEF ScanInv, ScanTypes
<1>6. Vouched'
  BY <1>1 DEF ScanInv, Vouched, Scan!Markers
<1>7. InHand'
  <2>1. \A e \in ChainEvents : lo <= e.block /\ e.block < start
          => e \in Scan!Events(streams) /\ \E i \in DOMAIN file : file[i] = Scan!Row(e)
    BY <1>1 DEF ScanInv, InHand
  <2>2. ~(PIN <= start)
    BY <1>2
  <2> QED
    BY <1>1, <1>2, <1>4, <2>1, <2>2 DEF InHand
<1>8. ASSUME cuts = 0
      PROVE  /\ RowsOnce(file) /\ Scan!IsInjective(streams) /\ RowsBehind(file, start)
             /\ \A i \in DOMAIN file : file[i].line = "ev" =>
                  \E k \in Scan!Markers(file) : file[i].event.block <= file[k].end
             /\ \A e \in Scan!Events(streams) : e.block < start
  BY <1>1, <1>8 DEF ScanInv, Uncut, Ahead
<1>9. ASSUME cuts = 0 PROVE Scan!IsInjective(streams')
  <2>1. \A e \in Scan!Events(Scan!ChunkRows(start)) : start <= e.block /\ e.block \in Nat
    BY <1>3, ChainFacts
  <2>2. Scan!Events(streams) \cap Scan!Events(Scan!ChunkRows(start)) = {}
    BY <1>2, <1>8, <1>9, <2>1
  <2> QED
    BY <1>4, <1>8, <1>9, <2>2
<1>10. ASSUME cuts = 0, NEW e \in Scan!Events(streams') PROVE e.block < start + CHUNK
  <2>1. CASE e \in Scan!Events(streams)
    <3>1. e \in ChainEvents
      BY <1>2, <2>1 DEF Scan!Events
    <3>2. e.block \in Nat /\ e.block < start
      BY <1>8, <1>10, <2>1, <3>1, ChainFacts
    <3> QED
      BY <1>2, <3>2
  <2>2. CASE e \in Scan!Events(Scan!ChunkRows(start))
    <3>1. e.block \in Nat /\ e.block <= Scan!ChunkEnd(start)
      BY <1>3, <2>2, ChainFacts
    <3> QED
      BY <1>2, <1>3, <3>1
  <2> QED
    BY <1>4, <1>10, <2>1, <2>2
<1>11. Uncut'
  BY <1>1, <1>8, <1>9, <1>10
  DEF Uncut, RowsOnce, RowsBehind, Ahead, Scan!Markers, Scan!IsInjective, Scan!Events
<1> QED
  BY <1>5, <1>6, <1>7, <1>11 DEF ScanInv

\* The chunk's rows and its marker reach the file.
LEMMA ScanAppend == ScanInv /\ Scan!AppendChunk => ScanInv'
<1> SUFFICES ASSUME ScanInv, Scan!AppendChunk PROVE ScanInv'
  OBVIOUS
<1> USE ScanAssumption
<1> DEFINE N == Len(file)
           m == Len(rows)
           z == Scan!ChunkEnd(start)
<1>1. /\ spc = "append" /\ file' = file \o Scan!Lines /\ start' = start + CHUNK
      /\ spc' = IF start + CHUNK < PIN THEN "scan" ELSE "done"
      /\ UNCHANGED <<lo, streams, rows, cuts>>
  BY DEF Scan!AppendChunk, Scan!ScanFrom
<1>2. /\ Scan!Lines \in Seq(Line) /\ Len(Scan!Lines) = m + 1 /\ m \in Nat
      /\ \A i \in 1..m : Scan!Lines[i] = Scan!Row(rows[i]) /\ rows[i] \in ChainEvents
      /\ Scan!Lines[m + 1] = Scan!Marker(z)
      /\ start \in 0..(PIN - 1) /\ rows = Scan!ChunkRows(start)
  BY <1>1, LinesFacts
<1>3. /\ z \in start..(PIN - 1) /\ z < start + CHUNK
      /\ z = PIN - 1 \/ z + 1 = start + CHUNK
      /\ rows \in Seq(ChainEvents)
      /\ Scan!Events(rows) = {e \in ChainEvents : start <= e.block /\ e.block <= z}
      /\ Scan!IsInjective(rows)
  BY <1>2, ChunkFacts
<1>4. /\ lo = PIN - SPAN /\ lo <= start /\ lo \in 0..PIN /\ file \in Seq(Line)
      /\ Scan!Events(rows) \subseteq Scan!Events(streams)
      /\ \A e \in ChainEvents : lo <= e.block /\ e.block < start
           => e \in Scan!Events(streams) /\ \E i \in DOMAIN file : file[i] = Scan!Row(e)
  BY <1>1 DEF ScanInv, ScanTypes, InHand
<1>5. /\ file' \in Seq(Line) /\ DOMAIN file = 1..N /\ N \in Nat
      /\ DOMAIN file' = 1..(N + m + 1)
      /\ \A i \in 1..N : file'[i] = file[i] /\ i \in DOMAIN file'
      /\ \A i \in 1..(m + 1) : file'[N + i] = Scan!Lines[i]
      /\ \A i \in DOMAIN file' : i \in 1..N \/ \E j \in 1..(m + 1) : i = N + j
  <2>1. file' \in Seq(Line) /\ Extended(file', file, Scan!Lines)
    BY <1>1, <1>2, <1>4, Appended
  <2>2. N + Len(Scan!Lines) = N + m + 1
    BY <1>2, <2>1 DEF Extended
  <2> QED
    BY <1>2, <2>1, <2>2 DEF Extended
<1> HIDE DEF N, m, z
<1>0. PIN \in Nat /\ CHUNK \in Nat /\ start \in Nat /\ z \in Nat /\ z < start + CHUNK
  <2>1. PIN \in Nat /\ CHUNK \in Nat
    OBVIOUS
  <2>2. start \in 0..(PIN - 1)
    BY <1>2
  <2>3. z \in start..(PIN - 1) /\ z < start + CHUNK
    BY <1>3
  <2>4. start \in Nat
    BY <2>1, <2>2
  <2> QED
    BY <2>1, <2>3, <2>4
<1>6. /\ \A i \in 1..m : file'[N + i] = Scan!Row(rows[i])
      /\ file'[N + m + 1] = Scan!Marker(z) /\ N + m + 1 \in DOMAIN file'
      /\ \A i \in DOMAIN file' : i \in 1..N \/ i = N + m + 1 \/ \E j \in 1..m : i = N + j
  <2>1. m + 1 \in 1..(m + 1) /\ N + (m + 1) = N + m + 1 /\ N + m + 1 \in 1..(N + m + 1)
    BY <1>2, <1>5
  <2>2. \A j \in 1..(m + 1) : j \in 1..m \/ j = m + 1
    BY <1>2
  <2>3. ASSUME NEW i \in 1..m
        PROVE  file'[N + i] = Scan!Row(rows[i])
    <3>1. i \in 1..(m + 1)
      BY <1>2
    <3>2. file'[N + i] = Scan!Lines[i]
      BY <1>5, <3>1
    <3> QED
      BY <1>2, <3>2
  <2>4. file'[N + m + 1] = Scan!Marker(z) /\ N + m + 1 \in DOMAIN file'
    <3>1. file'[N + (m + 1)] = Scan!Lines[m + 1]
      BY <1>5, <2>1
    <3>2. N + m + 1 \in DOMAIN file'
      BY <1>5, <2>1
    <3> QED
      BY <1>2, <2>1, <3>1, <3>2
  <2>5. ASSUME NEW i \in DOMAIN file'
        PROVE  i \in 1..N \/ i = N + m + 1 \/ \E j \in 1..m : i = N + j
    <3>1. CASE i \in 1..N
      BY <3>1
    <3>2. CASE i \notin 1..N
      <4>1. PICK j \in 1..(m + 1) : i = N + j
        BY <1>5, <3>2
      <4>2. CASE j \in 1..m
        BY <4>1, <4>2
      <4>3. CASE j = m + 1
        BY <2>1, <4>1, <4>3
      <4> QED
        BY <2>2, <4>2, <4>3
    <3> QED
      BY <3>1, <3>2
  <2> QED
    BY <2>3, <2>4, <2>5
<1>7. Scan!Markers(file)' = Scan!Markers(file) \cup {N + m + 1}
  <2>1. \A i \in DOMAIN file' : file'[i].line = "chunk" <=>
          i \in Scan!Markers(file) \/ i = N + m + 1
    <3> TAKE i \in DOMAIN file'
    <3>1. CASE i \in 1..N
      BY <1>2, <1>5, <3>1 DEF Scan!Markers
    <3>2. CASE i = N + m + 1
      BY <1>6, <3>2, LineFacts
    <3>3. ASSUME NEW j \in 1..m, i = N + j
          PROVE  file'[i].line # "chunk" /\ i \notin 1..N /\ i # N + m + 1
      <4>1. file'[i].line = "ev"
        BY <1>6, <3>3, LineFacts
      <4> QED
        BY <1>2, <1>5, <3>3, <4>1
    <3> QED
      BY <1>5, <1>6, <3>1, <3>2, <3>3 DEF Scan!Markers
  <2>2. \A i \in Scan!Markers(file) : i \in DOMAIN file'
    BY <1>5 DEF Scan!Markers
  <2> QED
    BY <1>6, <2>1, <2>2 DEF Scan!Markers
<1>8. ASSUME NEW e \in ChainEvents, lo <= e.block, e.block < start \/ e.block <= z
      PROVE  e \in Scan!Events(streams) /\ \E i \in 1..(N + m) : file'[i] = Scan!Row(e)
  <2>1. e.block \in Nat
    BY ChainFacts
  <2>2. CASE e.block < start
    <3>1. PICK i \in 1..N : file[i] = Scan!Row(e)
      BY <1>4, <1>5, <1>8, <2>2
    <3>2. i \in 1..(N + m)
      BY <1>2, <1>5
    <3> QED
      BY <1>4, <1>5, <1>8, <2>2, <3>1, <3>2
  <2>3. CASE ~(e.block < start)
    <3>1. e \in Scan!Events(rows)
      BY <1>2, <1>3, <1>8, <2>1, <2>3
    <3>2. PICK j \in DOMAIN rows : rows[j] = e
      BY <3>1 DEF Scan!Events
    <3>3. j \in 1..m /\ N + j \in 1..(N + m)
      BY <1>2, <1>3, <1>5, LenProperties DEF m
    <3> QED
      BY <1>4, <1>6, <3>1, <3>2, <3>3
  <2> QED
    BY <2>2, <2>3
<1>9. \A e \in ChainEvents : e.block < start + CHUNK => e.block < start \/ e.block <= z
  <2> TAKE e \in ChainEvents
  <2>1. e.block \in 0..(PIN - 1)
    BY ChainFacts
  <2> QED
    BY <1>3, <1>0, <2>1
<1>10. ScanTypes'
  BY <1>1, <1>2, <1>5 DEF ScanInv, ScanTypes
<1>11. Vouched'
  <2> SUFFICES ASSUME NEW k \in Scan!Markers(file)', NEW e \in ChainEvents,
                      lo <= e.block, e.block <= file'[k].end
               PROVE  \E i \in 1..k : file'[i] = Scan!Row(e)
    BY <1>4 DEF Vouched
  <2>1. CASE k \in Scan!Markers(file)
    <3>1. k \in 1..N /\ file'[k] = file[k]
      BY <1>5, <2>1 DEF Scan!Markers
    <3>2. PICK i \in 1..k : file[i] = Scan!Row(e)
      BY <1>4, <2>1, <3>1 DEF ScanInv, Vouched
    <3> QED
      BY <1>5, <3>1, <3>2
  <2>2. CASE k = N + m + 1
    <3>1. e.block <= z
      BY <1>6, <2>2, LineFacts
    <3>2. \A i \in 1..(N + m) : i \in 1..k
      BY <1>2, <1>5, <2>2
    <3> QED
      BY <1>8, <3>1, <3>2
  <2> QED
    BY <1>7, <2>1, <2>2
<1>12. InHand'
  <2>1. \A e \in ChainEvents : lo <= e.block /\ e.block < start + CHUNK
          => e \in Scan!Events(streams) /\ \E i \in DOMAIN file' : file'[i] = Scan!Row(e)
    <3>1. \A i \in 1..(N + m) : i \in DOMAIN file'
      BY <1>2, <1>5
    <3> QED
      BY <1>8, <1>9, <3>1
  <2>2. lo <= start + CHUNK /\ spc' # "append" /\ (spc' = "done" <=> PIN <= start + CHUNK)
    BY <1>1, <1>2, <1>4
  <2> QED
    BY <1>1, <1>4, <2>1, <2>2 DEF InHand
<1>13. ASSUME cuts = 0
       PROVE  /\ RowsOnce(file) /\ Scan!IsInjective(streams) /\ RowsBehind(file, start)
              /\ \A i \in DOMAIN file : file[i].line = "ev" =>
                   \E k \in Scan!Markers(file) : file[i].event.block <= file[k].end
              /\ \A e \in Scan!Events(streams) : e.block < start + CHUNK
  BY <1>1, <1>13 DEF ScanInv, Uncut, Ahead
<1>14. \A i \in 1..m : /\ file'[N + i].line = "ev" /\ file'[N + i].event = rows[i]
                       /\ rows[i].block \in start..z
  <2> TAKE i \in 1..m
  <2>1. rows[i] \in Scan!Events(rows)
    BY <1>2, <1>3, LenProperties DEF Scan!Events, m
  <2>2. rows[i].block \in Nat /\ start <= rows[i].block /\ rows[i].block <= z
    BY <1>3, <2>1, ChainFacts
  <2> QED
    BY <1>2, <1>3, <1>6, <2>2, LineFacts
<1>15. ASSUME cuts = 0 PROVE RowsBehind(file', start + CHUNK)
  <2> SUFFICES ASSUME NEW i \in DOMAIN file', file'[i].line = "ev"
               PROVE  file'[i].event.block < start + CHUNK
    BY <1>1 DEF RowsBehind
  <2>1. CASE i \in 1..N
    <3>1. file[i] \in Line /\ file[i].line = "ev" /\ file'[i] = file[i]
      BY <1>4, <1>5, <2>1
    <3>2. file[i].event.block \in Nat /\ file[i].event.block < start
      BY <1>5, <1>13, <1>15, <2>1, <3>1, ChainFacts, LineFacts DEF RowsBehind
    <3> QED
      BY <1>2, <3>1, <3>2
  <2>2. CASE i = N + m + 1
    BY <1>6, <2>2, LineFacts
  <2>3. ASSUME NEW j \in 1..m, i = N + j PROVE file'[i].event.block < start + CHUNK
    <3>1. file'[i].event.block \in start..z
      BY <1>14, <2>3
    <3> QED
      BY <1>0, <3>1
  <2> QED
    BY <1>6, <2>1, <2>2, <2>3
<1>16. ASSUME cuts = 0, NEW i \in DOMAIN file', NEW j \in DOMAIN file', i # j,
              file'[i] = file'[j], file'[i].line = "ev"
       PROVE  FALSE
  <2>1. \A k \in 1..N : file[k].line = "ev" => file[k].event.block < start
    BY <1>5, <1>13, <1>16 DEF RowsBehind
  <2>2. \A k \in 1..N, l \in 1..m : file'[k] # file'[N + l]
    <3> TAKE k \in 1..N, l \in 1..m
    <3> SUFFICES ASSUME file'[k] = file'[N + l] PROVE FALSE
      OBVIOUS
    <3>1. file[k].line = "ev" /\ file[k].event = rows[l]
      BY <1>5, <1>14
    <3>2. rows[l].block < start /\ rows[l].block \in start..z
      BY <1>14, <2>1, <3>1
    <3> QED
      BY <1>2, <1>3, <3>2
  <2>3. \A k, l \in 1..m : file'[N + k] = file'[N + l] => k = l
    <3> TAKE k \in 1..m, l \in 1..m
    <3>1. k \in DOMAIN rows /\ l \in DOMAIN rows
      BY <1>3, LenProperties DEF m
    <3> QED
      BY <1>3, <1>14, <3>1 DEF Scan!IsInjective
  <2>4. \A k, l \in 1..N : file'[k] = file'[l] /\ file'[k].line = "ev" => k = l
    <3>1. \A k, l \in 1..N : file[k] = file[l] /\ file[k].line = "ev" => k = l
      BY <1>5, <1>13, <1>16 DEF RowsOnce
    <3> QED
      BY <1>5, <3>1
  <2>5. i # N + m + 1 /\ j # N + m + 1
    BY <1>6, <1>16, LineFacts
  <2> QED
    BY <1>6, <1>16, <2>2, <2>3, <2>4, <2>5
<1>17. ASSUME cuts = 0, NEW i \in DOMAIN file', file'[i].line = "ev"
       PROVE  \E k \in Scan!Markers(file)' : file'[i].event.block <= file'[k].end
  <2>1. CASE i \in 1..N
    <3>1. file'[i] = file[i] /\ i \in DOMAIN file
      BY <1>5, <2>1
    <3>2. PICK k \in Scan!Markers(file) : file[i].event.block <= file[k].end
      BY <1>13, <1>17, <3>1
    <3>3. k \in 1..N
      BY <1>5 DEF Scan!Markers
    <3> QED
      BY <1>5, <1>7, <3>1, <3>2, <3>3
  <2>2. CASE i = N + m + 1
    BY <1>6, <1>17, <2>2, LineFacts
  <2>3. ASSUME NEW j \in 1..m, i = N + j
        PROVE  \E k \in Scan!Markers(file)' : file'[i].event.block <= file'[k].end
    <3>1. file'[i].event.block \in start..z /\ file'[N + m + 1].end = z
      BY <1>6, <1>14, <2>3, LineFacts
    <3> QED
      BY <1>3, <1>7, <3>1
  <2> QED
    BY <1>6, <2>1, <2>2, <2>3
<1>18. Uncut'
  <2> SUFFICES ASSUME cuts = 0
               PROVE  /\ RowsOnce(file)' /\ Scan!IsInjective(streams)
                      /\ \A i \in DOMAIN file' : file'[i].line = "ev" =>
                           \E k \in Scan!Markers(file)' : file'[i].event.block <= file'[k].end
                      /\ RowsBehind(file', start + CHUNK)
                      /\ \A e \in Scan!Events(streams) : e.block < start + CHUNK
    BY <1>1 DEF Uncut, Ahead, Scan!IsInjective, Scan!Events, RowsBehind
  <2>1. RowsOnce(file)'
    BY <1>16 DEF RowsOnce
  <2> QED
    BY <1>13, <1>15, <1>17, <2>1
<1> QED
  BY <1>10, <1>11, <1>12, <1>18 DEF ScanInv

\* The process dies; or dies within its append, leaving some rows, no marker.
LEMMA ScanDies == ScanInv /\ (Scan!Crash \/ Scan!CutAppend) => ScanInv'
<1> SUFFICES ASSUME ScanInv, Scan!Crash \/ Scan!CutAppend PROVE ScanInv'
  OBVIOUS
<1> USE ScanAssumption
<1>1. /\ spc' = "off" /\ lo' = 0 /\ start' = 0 /\ streams' = <<>> /\ rows' = <<>>
      /\ file \in Seq(Line) /\ cuts \in 0..MAX_CUTS
  BY DEF Scan!Crash, Scan!CutAppend, Scan!Off, ScanInv, ScanTypes
<1>2. InHand' /\ Scan!IsInjective(streams')
  BY <1>1 DEF InHand, Scan!IsInjective
<1>3. CASE Scan!Crash
  <2>1. UNCHANGED <<file, cuts>>
    BY <1>3 DEF Scan!Crash
  <2>2. ScanTypes'
    BY <1>1, <2>1 DEF ScanTypes
  <2>3. Vouched'
    BY <2>1 DEF ScanInv, Vouched, Scan!Markers
  <2>4. Uncut'
    BY <1>1, <1>2, <2>1 DEF ScanInv, Uncut, RowsOnce, Scan!Markers, Scan!IsInjective
  <2> QED
    BY <1>2, <2>2, <2>3, <2>4 DEF ScanInv
<1>4. CASE Scan!CutAppend
  <2>1. PICK n \in 0..(Len(Scan!Lines) - 1), half \in BOOLEAN :
          file' = file \o SubSeq(Scan!Lines, 1, n) \o (IF half THEN <<Scan!Half>> ELSE <<>>)
    BY <1>4 DEF Scan!CutAppend
  <2>2. spc = "append" /\ cuts < MAX_CUTS /\ cuts' = cuts + 1
    BY <1>4 DEF Scan!CutAppend
  <2>3. /\ Scan!Lines \in Seq(Line) /\ Len(Scan!Lines) = Len(rows) + 1 /\ Len(rows) \in Nat
        /\ \A i \in 1..Len(rows) : Scan!Lines[i] = Scan!Row(rows[i])
    BY <2>2, LinesFacts
  <2> DEFINE a == SubSeq(Scan!Lines, 1, n)
             h == IF half THEN <<Scan!Half>> ELSE <<>>
  <2>4. n \in 0..Len(rows)
    BY <2>3
  <2>5. /\ a \in Seq(Line) /\ Len(a) = n
        /\ \A i \in 1..n : a[i].line = "ev"
    <3>1. \A i \in 1..n : Scan!Lines[i] \in Line /\ Scan!Lines[i].line = "ev"
      BY <2>3, <2>4, LineFacts
    <3> QED
      BY <2>3, <2>4, <3>1, SubSeqProperties
  <2>6. h \in Seq(Line) /\ \A i \in 1..Len(h) : h[i].line = "half"
    <3>1. Scan!Half \in Line /\ Scan!Half.line = "half"
      BY LineFacts DEF Line
    <3>2. <<Scan!Half>> \in Seq(Line) /\ \A i \in 1..Len(<<Scan!Half>>) : <<Scan!Half>>[i].line = "half"
      BY <3>1
    <3>3. <<>> \in Seq(Line) /\ Len(<<>>) = 0
      OBVIOUS
    <3> QED
      BY <3>2, <3>3
  <2>7. file' = (file \o a) \o h
    BY <2>1
  <2> HIDE DEF a, h
  <2>8. file \o a \in Seq(Line) /\ Extended(file \o a, file, a)
    BY <1>1, <2>5, Appended
  <2>9. file' \in Seq(Line) /\ Extended(file', file \o a, h)
    BY <2>6, <2>7, <2>8, Appended
  <2>10. \A i \in DOMAIN file : i \in DOMAIN file' /\ file'[i] = file[i]
    BY <2>8, <2>9 DEF Extended
  <2>11. \A i \in DOMAIN file' : file'[i].line = "chunk" => i \in DOMAIN file
    <3> SUFFICES ASSUME NEW i \in DOMAIN file', i \notin DOMAIN file PROVE file'[i].line # "chunk"
      OBVIOUS
    <3>1. CASE i \in 1..Len(file \o a)
      BY <2>5, <2>8, <2>9, <3>1 DEF Extended
    <3>2. CASE i \notin 1..Len(file \o a)
      BY <2>6, <2>9, <3>2 DEF Extended
    <3> QED
      BY <3>1, <3>2
  <2>12. Scan!Markers(file)' = Scan!Markers(file)
    BY <2>10, <2>11 DEF Scan!Markers
  <2>13. Vouched'
    <3>1. \A k \in Scan!Markers(file) : \A i \in 1..k : i \in DOMAIN file
      BY <2>8 DEF Scan!Markers, Extended
    <3>2. \A k \in Scan!Markers(file) : k \in DOMAIN file
      BY DEF Scan!Markers
    <3> QED
      BY <2>10, <2>12, <3>1, <3>2 DEF ScanInv, Vouched
  <2>14. cuts' \in 0..MAX_CUTS /\ cuts' # 0
    BY <1>1, <2>2
  <2>15. ScanTypes'
    BY <1>1, <2>9, <2>14 DEF ScanTypes
  <2> QED
    BY <1>2, <2>13, <2>14, <2>15 DEF ScanInv, Uncut
<1> QED
  BY <1>3, <1>4

\* A script that does not run the scan leaves it alone.
LEMMA ScanStutters == ScanInv /\ UNCHANGED scanVars => ScanInv'
<1> SUFFICES ASSUME ScanInv, UNCHANGED scanVars PROVE ScanInv'
  OBVIOUS
<1>1. UNCHANGED <<spc, lo, start, streams, rows, file, cuts>>
  BY DEF scanVars
<1>2. ScanTypes' /\ Vouched'
  BY <1>1 DEF ScanInv, ScanTypes, Vouched, Scan!Markers
<1>3. InHand'
  BY <1>1 DEF ScanInv, InHand, Scan!Events
<1>4. Uncut'
  BY <1>1 DEF ScanInv, Uncut, RowsOnce, RowsBehind, Ahead, Scan!Markers, Scan!Events, Scan!IsInjective
<1> QED
  BY <1>2, <1>3, <1>4 DEF ScanInv

LEMMA ScanInductive == ScanInv /\ [MCNext]_all => ScanInv'
<1> SUFFICES ASSUME ScanInv, [MCNext]_all PROVE ScanInv'
  OBVIOUS
<1>1. CASE Scan!Next
  BY <1>1, ScanStart, ScanFetch, ScanAppend, ScanDies DEF Scan!Next
<1>2. CASE UNCHANGED scanVars
  BY <1>2, ScanStutters
<1> QED
  BY <1>1, <1>2 DEF MCNext, all

LEMMA ScanInitial == MCInit => ScanInv
<1> SUFFICES ASSUME MCInit PROVE ScanInv
  OBVIOUS
<1>1. /\ spc = "off" /\ lo = 0 /\ start = 0 /\ streams = <<>> /\ rows = <<>> /\ file = <<>>
      /\ cuts = 0
  BY DEF MCInit, Scan!Init
<1>2. ScanTypes
  BY <1>1, ScanAssumption DEF ScanTypes
<1>3. Vouched /\ InHand /\ Uncut
  BY <1>1 DEF Vouched, InHand, Uncut, RowsOnce, Scan!Markers, Scan!IsInjective
<1> QED
  BY <1>2, <1>3 DEF ScanInv

\* The invariant has what the run checks.
LEMMA ScanPromises == ScanInv => ScanComplete
<1> SUFFICES ASSUME ScanInv PROVE ScanComplete
  OBVIOUS
<1> USE ScanAssumption
<1>1. file \in Seq(Line) /\ \A i \in DOMAIN file : file[i] \in Line
  BY DEF ScanInv, ScanTypes
<1>2. Scan!TypeOK
  <2>1. Scan!Events(streams) \cup Scan!Events(rows) \subseteq Scan!Events(Chain)
    BY DEF ScanInv, ScanTypes, Scan!Events, ChainEvents
  <2>2. \A i \in DOMAIN file : \/ file[i].line = "half"
                               \/ file[i].line = "ev" /\ file[i].event \in Scan!Events(Chain)
                               \/ file[i].line = "chunk" /\ file[i].end < PIN
    BY <1>1, LineFacts DEF ChainEvents
  <2> QED
    BY <2>1, <2>2 DEF Scan!TypeOK, ScanInv, ScanTypes
<1>3. Scan!NothingMissed
  <2> SUFFICES ASSUME spc = "done", NEW e \in Scan!Events(Chain), lo <= e.block
               PROVE  e \in Scan!Events(streams)
    BY DEF Scan!NothingMissed, Scan!InSpan
  <2>1. e \in ChainEvents /\ e.block \in 0..(PIN - 1)
    BY ChainFacts DEF ChainEvents
  <2>2. PIN <= start /\ start \in Nat
    BY DEF ScanInv, ScanTypes, InHand
  <2> QED
    BY <2>1, <2>2 DEF ScanInv, InHand
<1>4. Scan!ExactWithoutCuts
  BY DEF ScanInv, Uncut, Scan!ExactWithoutCuts
<1>5. Scan!MarkersVouch
  <2> SUFFICES ASSUME NEW e \in Scan!Events(Chain), PIN - SPAN <= e.block,
                      e.block < Scan!ResumeAt(file, PIN - SPAN)
               PROVE  e \in Scan!Events(Scan!Committed(file))
    BY DEF Scan!MarkersVouch
  <2>1. e \in ChainEvents /\ e.block \in 0..(PIN - 1)
    BY ChainFacts DEF ChainEvents
  <2>2. PICK k \in Scan!Markers(file) : Scan!ResumeAt(file, PIN - SPAN) = file[k].end + 1
    <3>1. PIN - SPAN \in 0..PIN
      OBVIOUS
    <3>2. Scan!ResumeAt(file, PIN - SPAN) # PIN - SPAN
      BY <2>1, <3>1
    <3> QED
      BY <1>1, <3>1, <3>2, ResumeFacts
  <2>3. file[k].end \in Nat
    BY <1>1, LineFacts DEF Scan!Markers
  <2>4. \E i \in 1..k : file[i] = Scan!Row(e)
    BY <2>1, <2>2, <2>3 DEF ScanInv, Vouched
  <2> QED
    BY <1>1, <2>1, <2>4, CommittedFacts
<1> QED
  BY <1>2, <1>3, <1>4, <1>5 DEF ScanComplete

\* For every chain, pin, span and chunk size, and wherever the runs died: a scan
\* that finishes has every event of its span, the file's markers vouch for all
\* that a rerun skips, and nothing is held twice unless an append was cut short.
THEOREM ScanIsComplete == MCSpec => []ScanComplete
BY ScanInitial, ScanInductive, ScanPromises, PTL DEF MCSpec
-----------------------------------------------------------------------------
(***************************************************************************)
(* The probe.  That each block is fed once needs the place of the last     *)
(* block read with respect to the request, in every state of a request.    *)
(***************************************************************************)
ProbePlace == /\ at \in {"off", "post", "read", "write", "close"}
              /\ from \in ERA_LO..(ERA_HI + 1) /\ upto \in Block
              /\ fed \in Seq(Block) /\ Exact(fed, upto)
              /\ at = "post" => from <= ERA_HI /\ upto = from - 1
              /\ at = "read" => from <= ERA_HI /\ from - 1 <= upto

(* ... and, of a portal that never ends a response early and empty, that the *)
(* summary is opened with the whole window read.                             *)
ProbeWhole == /\ at \in {"write", "close"} => Exact(fed, ERA_HI)
              /\ summary.st = "whole" => Exact(summary.of, ERA_HI) /\ summary.of \in Seq(Block)

ProbeInv == ProbePlace /\ (script = "probe0" => ProbeWhole)

\* The two portals differ in what they may do, not in what the probe does.
LEMMA NeverEarlyIsProbe == Probe0!Next => Probe!Next
BY DEF Probe0!Next, Probe0!Work, Probe0!Start, Probe0!Crash, Probe0!PostOk, Probe0!PostBusy,
       Probe0!PostError, Probe0!ReadError, Probe0!ReadLine, Probe0!ReadEnd, Probe0!OpenSummary,
       Probe0!CloseSummary, Probe0!Again, Probe0!Stop, Probe0!TransportError, Probe0!Onward,
       Probe0!Retry, Probe0!LoopTop, Probe!Next, Probe!Work, Probe!Start, Probe!Crash,
       Probe!PostOk, Probe!PostBusy, Probe!PostError, Probe!ReadError, Probe!ReadLine,
       Probe!ReadEnd, Probe!OpenSummary, Probe!CloseSummary, Probe!Again, Probe!Stop,
       Probe!TransportError, Probe!Onward, Probe!Retry, Probe!LoopTop

\* Every step of the probe keeps its place.
LEMMA ProbeKeepsPlace == ProbePlace /\ Probe!Next => ProbePlace'
<1> SUFFICES ASSUME ProbePlace, Probe!Next PROVE ProbePlace'
  OBVIOUS
<1> USE M2Assumption
<1>1. ASSUME at' = "off", from' = ERA_LO, upto' = ERA_LO - 1, fed' = <<>> PROVE ProbePlace'
  BY <1>1, ExactEmpty DEF ProbePlace, Block, Exact
<1>2. CASE Probe!Start
  <2>1. /\ at' = IF ERA_LO <= ERA_HI THEN "post" ELSE "write"
        /\ from' = ERA_LO /\ upto' = ERA_LO - 1 /\ fed' = <<>>
    BY <1>2 DEF Probe!Start, Probe!LoopTop
  <2> QED
    BY <2>1, ExactEmpty DEF ProbePlace, Block, Exact
<1>3. CASE Probe!Stop
  BY <1>1, <1>3 DEF Probe!Stop
<1>4. CASE Probe!PostOk
  BY <1>4 DEF Probe!PostOk, ProbePlace, Block, Exact
<1>5. CASE Probe!Again
  BY <1>5 DEF Probe!Again, ProbePlace, Exact
<1>6. ASSUME at \in {"post", "read"}, Probe!Onward PROVE ProbePlace'
  <2>1. /\ at' = IF upto + 1 <= ERA_HI THEN "post" ELSE "write"
        /\ from' = upto + 1 /\ upto' = (upto + 1) - 1 /\ fed' = fed
    BY <1>6 DEF Probe!Onward, Probe!LoopTop
  <2>2. upto \in (ERA_LO - 1)..ERA_HI /\ upto' = upto
    BY <2>1 DEF ProbePlace, Block
  <2> QED
    BY <2>1, <2>2 DEF ProbePlace, Block, Exact
<1>7. ASSUME at \in {"post", "read"}, upto < from, Probe!Retry PROVE ProbePlace'
  <2>1. /\ at' = IF from <= ERA_HI THEN "post" ELSE "write"
        /\ from' = from /\ upto' = from - 1 /\ fed' = fed
    BY <1>7 DEF Probe!Retry, Probe!LoopTop
  <2>2. from - 1 = upto
    BY <1>7 DEF ProbePlace, Block
  <2> QED
    BY <2>1, <2>2 DEF ProbePlace, Block, Exact
<1>8. CASE Probe!TransportError
  BY <1>6, <1>7, <1>8 DEF Probe!TransportError
<1>9. CASE Probe!ReadLine
  <2>1. PICK b \in ERA_LO..ERA_HI :
          /\ upto < b /\ \A m \in Matching : m <= upto \/ m >= b
          /\ upto' = b /\ fed' = IF b \in Matching THEN Append(fed, b) ELSE fed
    BY <1>9 DEF Probe!ReadLine
  <2>2. fed \in Seq(Block) /\ upto \in Block /\ Exact(fed, upto)
    BY DEF ProbePlace
  <2>3. Exact(fed', b) /\ fed' \in Seq(Block)
    BY <2>1, <2>2, ExactAppend
  <2>4. at = "read" /\ at' = at /\ from' = from
    BY <1>9 DEF Probe!ReadLine
  <2> QED
    BY <2>1, <2>2, <2>3, <2>4 DEF ProbePlace, Block
<1>10. CASE Probe!ReadEnd
  <2>1. CASE at = "read" /\ Probe!Onward
    BY <1>6, <2>1
  <2>2. CASE at' = "write" /\ UNCHANGED <<from, upto, fed>>
    BY <2>2 DEF ProbePlace, Exact
  <2> QED
    BY <1>10, <2>1, <2>2 DEF Probe!ReadEnd
<1>11. CASE Probe!OpenSummary
  BY <1>11 DEF Probe!OpenSummary, ProbePlace, Exact
<1> QED
  BY <1>2, <1>3, <1>4, <1>5, <1>8, <1>9, <1>10, <1>11
  DEF Probe!Next, Probe!Work, Probe!Crash, Probe!PostBusy, Probe!PostError, Probe!ReadError,
      Probe!CloseSummary

\* When an empty end means that nothing is left, what is written is whole.
LEMMA ProbeKeepsWhole == ProbePlace /\ ProbeWhole /\ Probe0!Next => ProbeWhole'
<1> SUFFICES ASSUME ProbePlace, ProbeWhole, Probe0!Next PROVE ProbeWhole'
  OBVIOUS
<1> USE M2Assumption
<1>1. fed \in Seq(Block) /\ upto \in (ERA_LO - 1)..ERA_HI /\ Exact(fed, upto)
  BY DEF ProbePlace, Block
<1>2. ASSUME UNCHANGED summary,
             \/ at' \in {"off", "post", "read"}
             \/ fed' = fed /\ \A m \in Matching : m <= upto
      PROVE  ProbeWhole'
  <2>1. (\A m \in Matching : m <= upto) => Exact(fed, ERA_HI)
    BY <1>1, ExactToEnd DEF Block
  <2> QED
    BY <1>2, <2>1 DEF ProbeWhole, Exact
<1>3. CASE Probe0!Start
  BY <1>2, <1>3 DEF Probe0!Start, Probe0!LoopTop
<1>4. CASE Probe0!Stop /\ UNCHANGED summary
  BY <1>2, <1>4 DEF Probe0!Stop
<1>5. CASE Probe0!PostOk \/ Probe0!ReadLine
  <2>1. UNCHANGED summary /\ at' = "read"
    BY <1>5 DEF Probe0!PostOk, Probe0!ReadLine
  <2> QED
    BY <1>2, <2>1
<1>6. CASE at = "post" /\ Probe0!Again
  BY <1>2, <1>6 DEF Probe0!Again
<1>7. CASE Probe0!Onward
  <2>1. fed' = fed /\ summary' = summary /\ at' = IF upto + 1 <= ERA_HI THEN "post" ELSE "write"
    BY <1>7 DEF Probe0!Onward, Probe0!LoopTop
  <2>2. at' = "write" => \A m \in Matching : m <= upto
    BY <1>1, <2>1
  <2> QED
    BY <1>2, <2>1, <2>2
<1>8. ASSUME at \in {"post", "read"}, Probe0!Retry PROVE ProbeWhole'
  <2>1. from <= ERA_HI
    BY <1>8 DEF ProbePlace
  <2> QED
    BY <1>2, <1>8, <2>1 DEF Probe0!Retry, Probe0!LoopTop
<1>9. CASE Probe0!TransportError
  BY <1>7, <1>8, <1>9 DEF Probe0!TransportError
<1>10. CASE Probe0!ReadEnd
  BY <1>2, <1>7, <1>10 DEF Probe0!ReadEnd
<1>11. CASE Probe0!OpenSummary
  BY <1>11 DEF Probe0!OpenSummary, ProbeWhole, Exact
<1>12. CASE Probe0!CloseSummary
  BY <1>1, <1>12 DEF Probe0!CloseSummary, Probe0!Stop, ProbeWhole, Exact
<1> QED
  BY <1>3, <1>4, <1>5, <1>6, <1>9, <1>10, <1>11, <1>12
  DEF Probe0!Next, Probe0!Work, Probe0!Crash, Probe0!PostBusy, Probe0!PostError, Probe0!ReadError

LEMMA ProbeInductive == ProbeInv /\ [MCNext]_all => ProbeInv'
<1> SUFFICES ASSUME ProbeInv, [MCNext]_all PROVE ProbeInv'
  OBVIOUS
<1>1. script' = script
  BY DEF MCNext, all
<1>2. CASE script = "probe" /\ Probe!Next
  BY <1>1, <1>2, ProbeKeepsPlace DEF ProbeInv
<1>3. CASE Probe0!Next
  BY <1>1, <1>3, NeverEarlyIsProbe, ProbeKeepsPlace, ProbeKeepsWhole DEF ProbeInv
<1>4. CASE UNCHANGED probeVars
  BY <1>1, <1>4 DEF probeVars, ProbeInv, ProbePlace, ProbeWhole, Exact
<1> QED
  BY <1>2, <1>3, <1>4 DEF MCNext, all

\* Whatever the portal sends and however often a response breaks, the probe is
\* fed each block of the window once and in order; and when an empty end of a
\* response means that nothing is left, the summary is of the whole window.
THEOREM ProbeIsFed == MCSpec => []ProbeFed
<1>1. MCInit => ProbeInv
  BY M2Assumption, ExactEmpty
  DEF MCInit, Probe!Init, Probe!NoSummary, ProbeInv, ProbePlace, ProbeWhole, Block
<1>2. ProbeInv => ProbeFed
  <2> SUFFICES ASSUME ProbeInv PROVE ProbeFed
    OBVIOUS
  <2>1. DOMAIN fed = 1..Len(fed) /\ Exact(fed, upto)
    BY LenProperties DEF ProbeInv, ProbePlace
  <2>2. Probe!FedOnce
    BY <2>1 DEF Probe!FedOnce, Exact
  <2>3. ASSUME script = "probe0", summary.st = "whole"
        PROVE  {summary.of[i] : i \in DOMAIN summary.of} = Matching
    <3>1. summary.of \in Seq(Block) /\ Exact(summary.of, ERA_HI)
      BY <2>3 DEF ProbeInv, ProbeWhole
    <3>2. DOMAIN summary.of = 1..Len(summary.of)
      BY <3>1, LenProperties
    <3>3. \A b \in Matching : b <= ERA_HI
      BY M2Assumption
    <3> QED
      BY <3>1, <3>2, <3>3 DEF Exact
  <2> QED
    BY <2>2, <2>3 DEF ProbeFed, Probe0!WholeWindow
<1> QED
  BY <1>1, <1>2, ProbeInductive, PTL DEF MCSpec
=============================================================================

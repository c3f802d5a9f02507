------------------------------ MODULE LBPairing ------------------------------
(***************************************************************************)
(* verification/third-party/lb_anchor.py, window_candidates(): which       *)
(* deposit transaction each withdraw transaction of one pair is matched    *)
(* with, on the stream scan() returns (sorted tuples of block, kind and    *)
(* transaction hash, so in one block "D" comes before "W").                *)
(*                                                                         *)
(* A step is one iteration of the loop over the stream.  A transaction is  *)
(* a number, its hash order; an event may be in the stream twice (two logs *)
(* of one transaction, or rows the scan committed twice).                  *)
(***************************************************************************)
EXTENDS Ranking, Sequences, FiniteSetsExt

CONSTANTS NTX,      \* transactions of the pair, numbered in hash order
          Blocks,   \* the blocks they may be in
          WINDOW    \* 50: blocks from the withdraw to the deposit

VARIABLES blockOf,  \* the block of each transaction
          evs,      \* the pair's stream
          i,        \* index of the loop over evs
          wSeen, dSeen,
          out       \* pairs <<withdraw, deposit>>, in the order appended
vars == <<blockOf, evs, i, wSeen, dSeen, out>>

Txs   == 1..NTX
Kinds == {"W", "D"}

\* The order of the tuples (block, kind, hash): strings compare "D" < "W".
Before(a, b) == \/ a.block < b.block
                \/ a.block = b.block /\ a.kind = "D" /\ b.kind = "W"
                \/ a.block = b.block /\ a.kind = b.kind /\ a.tx < b.tx

\* The events of the transactions, some of each one's kinds.
Once(at, has) == {e \in [block : Blocks, kind : Kinds, tx : Txs] :
                    e.block = at[e.tx] /\ e.kind \in has[e.tx]}

\* The streams of a pair: some events, one of them perhaps twice, sorted.
Lower(r, s)   == Before(r[1], s[1]) \/ (r[1] = s[1] /\ r[2] < s[2])
Stream(rows)  == LET sorted == Ranked(rows, Lower)
                 IN [k \in DOMAIN sorted |-> sorted[k][1]]
Copies(E)     == {{}} \cup {{<<e, 2>>} : e \in E}
Streams(at)   == UNION {{Stream((E \X {1}) \cup again) : again \in Copies(E)} :
                          E \in {Once(at, has) : has \in [Txs -> SUBSET Kinds]}}

Init == /\ blockOf \in {at \in [Txs -> Blocks] :
                          \A t, u \in Txs : t < u => at[t] <= at[u]}
        /\ evs \in Streams(blockOf)
        /\ i = 1
        /\ wSeen = {} /\ dSeen = {}
        /\ out = <<>>
-----------------------------------------------------------------------------
\* The inner loop: indices from i on, cut at the first event past the window.
Reach(w) == {j \in i..Len(evs) : evs[j].block <= w.block + WINDOW}

Partners(w) == {j \in Reach(w) : /\ evs[j].kind = "D"
                                 /\ evs[j].tx # w.tx
                                 /\ evs[j].tx \notin dSeen}

Furthest(S) == Max(S)      \* mutant: the last deposit in the window
Nearest(S)  == Min(S)

Deposit(j)  == evs[j].tx

Skip == /\ \/ evs[i].kind # "W"
           \/ evs[i].tx \in wSeen
        /\ UNCHANGED <<wSeen, dSeen, out>>

Leave == /\ evs[i].kind = "W" /\ evs[i].tx \notin wSeen
         /\ Partners(evs[i]) = {}
         /\ wSeen' = wSeen \cup {evs[i].tx}
         /\ UNCHANGED <<dSeen, out>>

Match == /\ evs[i].kind = "W" /\ evs[i].tx \notin wSeen
         /\ Partners(evs[i]) # {}
         /\ LET d == Deposit(Nearest(Partners(evs[i])))
            IN  /\ dSeen' = dSeen \cup {d}
                /\ out' = Append(out, <<evs[i].tx, d>>)
         /\ wSeen' = wSeen \cup {evs[i].tx}

Next == /\ i <= Len(evs)
        /\ Skip \/ Leave \/ Match
        /\ i' = i + 1
        /\ UNCHANGED <<blockOf, evs>>

Spec == Init /\ [][Next]_vars
-----------------------------------------------------------------------------
Finished == i > Len(evs)
Has(t, k) == \E j \in DOMAIN evs : evs[j].tx = t /\ evs[j].kind = k

\* A withdraw and a deposit a sequence may consist of, as the loop sees them:
\* the deposit later in the stream, within the window.
Follows(w, d) == /\ Has(w, "W") /\ Has(d, "D") /\ w # d
                 /\ blockOf[d] <= blockOf[w] + WINDOW
                 /\ \E j, k \in DOMAIN evs : /\ j < k
                                             /\ evs[j].tx = w /\ evs[j].kind = "W"
                                             /\ evs[k].tx = d /\ evs[k].kind = "D"

TypeOK == /\ i \in 1..(Len(evs) + 1)
          /\ wSeen \subseteq Txs /\ dSeen \subseteq Txs
          /\ \A c \in DOMAIN out : out[c] \in Txs \X Txs

\* No transaction is in two candidates in the same role, also when its events
\* are in the stream twice: rows the scan duplicated add no candidate.
NoneTwice == \A c, e \in DOMAIN out :
               c # e => out[c][1] # out[e][1] /\ out[c][2] # out[e][2]

\* The pairing is stable: when a deposit follows a withdraw in its window, the
\* withdraw has a deposit no later than that one (nearest deposit), or the
\* deposit went to a withdraw no later than this one.
Stable ==
  Finished =>
    \A w, d \in Txs : Follows(w, d) =>
      \E c \in DOMAIN out :
        \/ out[c][1] = w /\ blockOf[out[c][2]] <= blockOf[d]
        \/ out[c][2] = d /\ blockOf[out[c][1]] <= blockOf[w]

\* First come, first served loses nothing: no other assignment of deposits to
\* withdraws within the window pairs more transactions.
Assignments == {f \in SUBSET {p \in Txs \X Txs : Follows(p[1], p[2])} :
                  \A p, q \in f : p # q => p[1] # q[1] /\ p[2] # q[2]}
Maximum == Finished => \A f \in Assignments : Cardinality(f) <= Len(out)

\* The docstring's isolation criterion (l.19-21): "same-block pairs allowed when
\* the block holds exactly these two".  A stream of one withdraw and one
\* deposit transaction, both in one block, then has a candidate.
SameBlockPairs ==
  Finished =>
    \A w, d \in Txs :
      /\ w # d /\ blockOf[w] = blockOf[d]
      /\ \A j \in DOMAIN evs : \/ evs[j].tx = w /\ evs[j].kind = "W"
                               \/ evs[j].tx = d /\ evs[j].kind = "D"
      /\ Has(w, "W") /\ Has(d, "D")
      => out = <<<<w, d>>>>
=============================================================================

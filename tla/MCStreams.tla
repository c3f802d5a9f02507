----------------------------- MODULE MCStreams -----------------------------
(* The three scripts that stream a chain, one per behaviour: `script' names   *)
(* the one that runs, the variables of the others keep their first values.    *)
(*   m2      M2Stream over five blocks, three with logs; the portal may drop  *)
(*           a response silently                                              *)
(*   scan    LBScan over five blocks in chunks of two, the last one short;    *)
(*           the middle chunk has a withdrawal and a deposit, so that an      *)
(*           append has three lines to be cut in                              *)
(*   probe   ProbeStream over the same window as m2; an empty end is possible *)
(*   probe0  ... and is not                                                   *)
EXTENDS M2Stream

CONSTANTS PIN, CHUNK, SPAN, Chain, HalfLines, MAX_CUTS    \* of the scan

Ev(b, k, n) == [block |-> b, kind |-> k, name |-> n]

(* The scan's blocks are those before PIN; a log is in the chain once. *)
ASSUME ScanAssumption ==
  /\ PIN \in Nat /\ CHUNK \in Nat \ {0} /\ SPAN \in 0..PIN
  /\ HalfLines \in BOOLEAN /\ MAX_CUTS \in Nat
  /\ Chain \in Seq({Chain[i] : i \in DOMAIN Chain})
  /\ \A i \in DOMAIN Chain : Chain[i].block \in 0..(PIN - 1) /\ Chain[i].kind \in {"W", "D"}
  /\ \A i, j \in DOMAIN Chain : Chain[i] = Chain[j] => i = j

MCMatching == {1, 3, 4}
MCChain    == <<Ev(0, "W", "a"), Ev(2, "D", "b"), Ev(3, "W", "c"), Ev(4, "D", "d")>>

VARIABLES script,
          spc, lo, start, streams, rows, file, cuts,   \* scan
          at, from, upto, attempt, broken, fed, summary        \* probe and probe0

scanVars  == <<spc, lo, start, streams, rows, file, cuts>>
probeVars == <<at, from, upto, attempt, broken, fed, summary>>
all       == <<script, vars, scanVars, probeVars>>

Scan   == INSTANCE LBScan WITH Spans <- {SPAN}, pc <- spc
Probe  == INSTANCE ProbeStream WITH LO <- ERA_LO, HI <- ERA_HI, Logged <- Matching,
            ATTEMPTS <- RETRIES, EmptyDrop <- TRUE
Probe0 == INSTANCE ProbeStream WITH LO <- ERA_LO, HI <- ERA_HI, Logged <- Matching,
            ATTEMPTS <- RETRIES, EmptyDrop <- FALSE

MCInit == /\ script \in {"m2", "scan", "probe", "probe0"}
          /\ Init /\ Scan!Init /\ Probe!Init
MCNext ==
  /\ UNCHANGED script
  /\ \/ script = "m2" /\ Next /\ UNCHANGED <<scanVars, probeVars>>
     \/ script = "scan" /\ Scan!Next /\ UNCHANGED <<vars, probeVars>>
     \/ script = "probe" /\ Probe!Next /\ UNCHANGED <<vars, scanVars>>
     \/ script = "probe0" /\ Probe0!Next /\ UNCHANGED <<vars, scanVars>>

(* Each script with the fairness of its own module: a live process goes on;   *)
(* m2_stream.py and lb_anchor.py are started again by whoever runs them, and  *)
(* of mev_probe.py not even that is assumed.                                  *)
MCSpec ==
  /\ MCInit /\ [][MCNext]_all
  /\ WF_vars(script = "m2" /\ Work)
  /\ WF_vars(script = "m2" /\ Start)
  /\ WF_scanVars(script = "scan" /\ (Scan!Fetch \/ Scan!AppendChunk))
  /\ WF_scanVars(script = "scan" /\ spc = "off" /\ Scan!Start)
  /\ WF_probeVars(script = "probe" /\ Probe!Work)
  /\ WF_probeVars(script = "probe0" /\ Probe0!Work)

\* A finished scan missed nothing of its span, holds each event once unless an
\* append was cut short, and every marker vouches for its chunk.
ScanComplete == script = "scan" => /\ Scan!TypeOK
                                   /\ Scan!NothingMissed
                                   /\ Scan!ExactWithoutCuts
                                   /\ Scan!MarkersVouch

\* on_block() sees each block of the window once and in order, and a summary is
\* of the whole window when the portal never ends a response early and empty.
ProbeFed == /\ Probe!FedOnce
            /\ script = "probe0" => Probe0!WholeWindow

\* Let alone, each script comes to its end: the cells of m2_stream.py are whole
\* once kills and transport errors stop, but for a file that a kill, and nothing
\* else, tore in its write; a rerun of the scan finishes once the process is no
\* longer killed, but for half a line that a kill left in its file; and the
\* probe, which retries without limit, ends once transport errors stop.
LetAlone == /\ OnlyKillsTear
            /\ script = "m2" => CellsInTheEnd
            /\ script = "scan" => Scan!ResumesOrHalf
            /\ script = "probe" => Probe!EndsOnceQuiet
            /\ script = "probe0" => Probe0!EndsOnceQuiet
=============================================================================

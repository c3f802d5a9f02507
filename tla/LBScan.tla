------------------------------- MODULE LBScan -------------------------------
(***************************************************************************)
(* verification/third-party/lb_anchor.py, scan(): the chain-wide scan and  *)
(* its append-only checkpoint scan_events.jsonl.                           *)
(*                                                                         *)
(* A chunk's rows are appended and then its marker; a rerun accepts the    *)
(* rows that a marker follows and scans on from the highest marker.  The   *)
(* process may die at any step, inside an append too: the file then ends   *)
(* in some of the chunk's rows, and perhaps in half a line.                *)
(*                                                                         *)
(* Abstracted: an event is a record of its block and kind and a name for   *)
(* the rest (pair, transaction, which log of it); `streams' is the         *)
(* sequence of the events added, of which the code keeps one sorted list   *)
(* per pair.                                                               *)
(***************************************************************************)
EXTENDS Naturals, Sequences, FiniteSets, SequencesExt

CONSTANTS PIN,        \* the scan ends before this block
          CHUNK,      \* 2_000: blocks per eth_getLogs
          Spans,      \* the values T5B_SPAN takes from one run to the next
          Chain,      \* the chain's withdraw and deposit events, in log order
          HalfLines,  \* may a crash leave half a line at the end of the file?
          MAX_CUTS    \* bound of the model: appends that a crash cuts short

VARIABLES pc,       \* "off", "scan", "append", "done"
          lo,       \* PIN - SPAN of this run
          start,    \* first block of the chunk in hand
          streams,  \* the events added, in the order they were added
          rows,     \* the rows of the chunk in hand
          file,     \* the lines of scan_events.jsonl
          cuts      \* appends cut short so far (bounded by MAX_CUTS)

mem  == <<lo, start, streams, rows>>
vars == <<pc, mem, file, cuts>>

Row(e)      == [line |-> "ev", event |-> e]
Marker(end) == [line |-> "chunk", end |-> end]
Half        == [line |-> "half"]

Events(s) == {s[i] : i \in DOMAIN s}

Init == /\ pc = "off"
        /\ lo = 0 /\ start = 0
        /\ streams = <<>> /\ rows = <<>>
        /\ file = <<>>
        /\ cuts = 0
-----------------------------------------------------------------------------
Markers(f) == {i \in DOMAIN f : f[i].line = "chunk"}

\* The elements of s that are in S, in their order.
Kept(s, S) == LET upTo[n \in 0..Len(s)] ==
                    IF n = 0 THEN <<>>
                    ELSE IF s[n] \in S THEN Append(upTo[n - 1], s[n]) ELSE upTo[n - 1]
              IN  upTo[Len(s)]

\* The rows that some marker follows, in file order: pending rows are added
\* when the next marker is read, and rows after the last one are not.
EventsOf(ls)    == LET r == Kept(ls, {Row(e) : e \in Events(Chain)})
                   IN  [i \in DOMAIN r |-> r[i].event]
Committed(f)    == EventsOf(SubSeq(f, 1, Max(Markers(f) \cup {0})))

\* Where the scan goes on: after the highest marker, and not before lo.
ResumeAt(f, from)  == Max({f[i].end + 1 : i \in Markers(f)} \cup {from})

\* json.loads refuses half a line.
EndsInMarker(f) == \A i \in DOMAIN f : i = Len(f) => f[i].line = "chunk"  \* mutant
Readable(f)     == \A i \in DOMAIN f : f[i] # Half

ChunkEnd(s) == IF s + CHUNK <= PIN THEN s + CHUNK - 1 ELSE PIN - 1

\* eth_getLogs over the chunk, withdrawals first, then deposits.
Logs(kind, a, b) == Kept(Chain, {e \in Events(Chain) :
                                   e.kind = kind /\ a <= e.block /\ e.block <= b})
ChunkRows(s) == Logs("W", s, ChunkEnd(s)) \o Logs("D", s, ChunkEnd(s))

\* The top of the scan loop.
ScanFrom(s) == /\ start' = s
               /\ pc' = IF s < PIN THEN "scan" ELSE "done"

\* scan() up to its loop.  A file that cannot be read stops it there.
Start == /\ pc \in {"off", "done"}
         /\ Readable(file)
         /\ \E span \in Spans :
              /\ lo' = PIN - span
              /\ ScanFrom(ResumeAt(file, PIN - span))
         /\ streams' = Committed(file)
         /\ rows' = <<>>
         /\ UNCHANGED <<file, cuts>>

\* Both topics of one chunk are read and added to the streams in memory.
Fetch == /\ pc = "scan"
         /\ rows' = ChunkRows(start)
         /\ streams' = streams \o ChunkRows(start)
         /\ pc' = "append"
         /\ UNCHANGED <<lo, start, file, cuts>>

MarkerFirst == <<Marker(ChunkEnd(start))>> \o [i \in DOMAIN rows |-> Row(rows[i])]  \* mutant
Lines == [i \in DOMAIN rows |-> Row(rows[i])] \o <<Marker(ChunkEnd(start))>>

\* The chunk's lines reach the file, the marker last.
AppendChunk == /\ pc = "append"
               /\ file' = file \o Lines
               /\ ScanFrom(start + CHUNK)
               /\ UNCHANGED <<lo, streams, rows, cuts>>

Off == /\ pc' = "off"
       /\ lo' = 0 /\ start' = 0
       /\ streams' = <<>> /\ rows' = <<>>

\* The process dies, or rpc() gives up after its retries and raises.
Crash == /\ pc \in {"scan", "append"}
         /\ Off
         /\ UNCHANGED <<file, cuts>>

\* It dies while appending: the first n lines are there, or n and a half.
CutAppend == /\ pc = "append"
             /\ cuts < MAX_CUTS
             /\ cuts' = cuts + 1
             /\ \E n \in 0..(Len(Lines) - 1), half \in BOOLEAN :
                  /\ half => HalfLines
                  /\ file' = file \o SubSeq(Lines, 1, n) \o (IF half THEN <<Half>> ELSE <<>>)
             /\ Off

Next == Start \/ Fetch \/ AppendChunk \/ Crash \/ CutAppend
Spec == Init /\ [][Next]_vars

\* A live process goes on (urlopen has a timeout and rpc() a retry limit), and
\* whoever runs the scan starts it again until it is done.
FairSpec == Spec /\ WF_vars(Fetch \/ AppendChunk)
                 /\ WF_vars(pc = "off" /\ Start)
-----------------------------------------------------------------------------
InSpan(e) == lo <= e.block

\* Types: what memory and the file hold are events of the chain.
TypeOK == /\ pc \in {"off", "scan", "append", "done"}
          /\ lo \in 0..PIN /\ start \in 0..(PIN + CHUNK)
          /\ Events(streams) \cup Events(rows) \subseteq Events(Chain)
          /\ \A i \in DOMAIN file : \/ file[i].line = "half"
                                    \/ file[i].line = "ev" /\ file[i].event \in Events(Chain)
                                    \/ file[i].line = "chunk" /\ file[i].end < PIN
          /\ cuts \in 0..MAX_CUTS

\* A scan that finishes has every event of its span, whatever crashed before it
\* and wherever (the order rows-then-marker of l.259-262 and the resume at
\* marker + 1).
NothingMissed == pc = "done" =>
                   {e \in Events(Chain) : InSpan(e)} \subseteq Events(streams)

\* As long as no crash cut an append short, however many runs were stopped
\* elsewhere, the streams are the chain's events, each once.
ExactWithoutCuts == pc = "done" /\ cuts = 0 => IsInjective(streams)

\* Behind the markers the file always accounts for whole chunks: at any time,
\* in any run, what a rerun would accept has every event up to where it would
\* resume.
MarkersVouch == \A span \in Spans :
                  \A e \in Events(Chain) :
                    PIN - span <= e.block /\ e.block < ResumeAt(file, PIN - span)
                      => e \in Events(Committed(file))

\* The comment at l.244-245: "trailing events with no chunk marker (crash
\* mid-chunk) are dropped; their chunk re-scans".  So a finished scan holds
\* each event once.
TrailingRowsDropped == pc = "done" => IsInjective(streams)

\* "Chunk results checkpoint to scan_events.jsonl; a rerun resumes" (l.219):
\* once the process is no longer killed, some run finishes.
RerunResumes == <>[][~Crash /\ ~CutAppend]_vars => <>(pc = "done")

\* What does hold: some run finishes, unless a kill left half a line, which no
\* later run gets past (l.237).
ResumesOrHalf == <>[][~Crash /\ ~CutAppend]_vars
                   => <>(pc = "done") \/ <>[]~Readable(file)
=============================================================================

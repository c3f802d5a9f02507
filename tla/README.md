# Verification of the measuring code of "Local Time Against Deployed Code"

The repository holds a paper's evidence: programs that read chains through a
portal or an RPC node, programs that measure what they read, simulations of a
threshold detector and of re-placement policies, and Solidity helpers and fork
suites that quote deployed contracts.  This directory models the parts of it
whose correctness depends on the order of steps, on crashes, on boundaries, on
bookkeeping, or on two implementations that must agree, checks them with TLC
and proves the main results with TLAPS.

Source paths below are relative to `src/`; `l.` is a line of the file named.

## The system

### Components, state, interaction

| component | state it keeps | operations | modelled by |
|---|---|---|---|
| `verification/mainnet/m2_stream.py` | position `cur`/`done_to`, accumulation (`cells`, `ticks`, `tally`), `fails`; on disk `RESUME` and three outputs | `main` loop, `post`, `checkpoint`, final writes; one group of logs, `price_event` | `EraStream`, `M2Stream`; `M2Cells` |
| `verification/mainnet/m3_analysis.py` | none | sort, buckets, moves, admission | `M3Analysis` |
| `verification/mainnet/mev_probe.py` | tick cache, last range per operator, counters, readings | `on_block`, `summary`; `run`, `post` | `MevProbe`; `ProbeStream` |
| `verification/third-party/t2_eval.py` | none | `firing_of` | in `MevProbe` |
| `verification/anchor/anchor.py` | priced events, class counts, dust | evaluate a row, summarise | `Anchor` |
| `verification/third-party/lb_anchor.py`, `scan` | `streams`, `done_from`; on disk `scan_events.jsonl` | load, fetch a chunk, append a chunk | `LBScan` |
| `lb_anchor.py`, `window_candidates` | `w_seen`, `d_seen`, `out` | one iteration over a sorted stream | `LBPairing` |
| `lb_anchor.py`, phases 2 to 5 | caches, receipts, pre-state | `total_fee`, filters, replay | `total_fee` in `PairParameter` |
| `foundry/src/joe-v2/PairParameterHelper.sol` | the packed word of a pair | setters, updates, fees | `PairParameter` |
| `foundry/test/LocalTimeLBForkAvalanche.t.sol` | none | packs the getters, quotes a fee | `Packed`, `ViewPath` in `PairParameter` |
| `verification/act3-instrument/mc_harness.py`, `run_operator` | line, crossing, dwell count, last jump, events | one block | `Detector` |
| the same, `check7`, and `probe_ctick_real.py` | grid place, lines, events, rates | one block of a path, one value of the grid | `TwoSided` |
| `act3-instrument/common.py` and ten probes | tick caches, scored events | walk census rows, report by pool | `ProbeWalk` |
| `calibration/item3_stress_maps/stress_maps.py` | part A: the operator in tensors, accumulators; part B: policies and premia | one block; one step | `VectorScan`, `BracketMap`; `Surcharge` |
| `calibration/item1_spectrometer` (`spectrometer.py`, `production_sweep.py`, `robustness_sweep.py`) | path, operators, events, cells | draw, scan, invert a cell | `Spectrometer` |
| `calibration/item2_sharp_constant/mc_policy_zoo.py` | price, centre, counters of a replica | one step | `PolicyZoo` |
| `calibration/item2_sharp_constant/qvi_solver.py` | policy, gain | evaluate, improve | `GridQVI` |
| `act1-law/mc_harness.py`, `act2-floor/verify_floor.py`, `probe_bound.py` | price, range, liquidity, account of a path | one step; checks of one geometry | `Dissipation` |

How they meet: `m2_stream` writes the cells and ticks `m3_analysis` reads, and
calls `t2_eval` per transaction, as `mev_probe` does.  `scan` feeds
`window_candidates`, whose candidates go through the factory filter and the
isolation clauses into the replay, which asks `total_fee`.  The fork suite and
`total_fee` both stand in for a pair that only the chain has.  `stress_maps`
claims to be the operator of the harness run over many worlds, and its part B
the policies of the zoo.  The sweeps scan with the spectrometer's operator; the
population probes measure deployed operators against the same lines.  The
solver and the zoo price re-placements with the geometry of the first two acts.

### What is hard, and what must hold

- *Crashes and restarts.*  Readers resume from files.  A resumed run must have
  every event once (`ExactlyOnce`, `ScanComplete`); what it publishes must be
  all of the era (`PublishedWholeEra`) and of one piece (`OutputsAgree`).
- *A transport that stops anywhere.*  Refused requests, broken and short
  responses: no block lost or fed twice (`ProbeFed`), and each loop ends
  (`RunEnds`, `LetAlone`).
- *Order that the environment chooses.*  Events of one block, candidates that
  compete for one deposit (`PairingStable`), samples of one block
  (`DelayMeasured`), firings of one operator in a block (`ProbeSound`).
- *State read later than it was written.*  The detector's jump label
  (`LabelsCrossing`, `ScanAgrees`, `MapOfEvents`), a pruned cache
  (`ProbeSound`), a scale taken from the stream the event is in
  (`ScaleIsPrior`), one scan cut to many eras (`InversionSound`).
- *Boundaries.*  Check grids, dwells and delays (`NoMissedFiring`,
  `DelayBounded`, `FilterRespected`), field widths, filter and decay windows
  (`NeverReverts`, `QuietQuote`, `DecayForgets`), the verdict on a grid
  (`SweepAdmits`), singular systems (`SolverSound`).
- *Books that must balance.*  What a firing cost is what its swaps lost
  (`NoSwapNoCost`, `CostIsSwaps`), what a path gave up is what it accounts for
  (`LawExact`), counters are of one set of firings
  (`TallyAddsUp`, `AnchorBooks`, `RecentringsPriced`), reports divide one
  sample (`SampleKept`, `FloorReadings`).
- *Two implementations of one thing.*  Fork suite and Python against the pair's
  helpers (`PackedIsOwn`, `AnchorAgrees`), path of trades against stored value
  (`Recomputable`), tensors against the loop (`ScanAgrees`).

`PROJECT.json` lists the hazards line by line, with the few that no property
covers.

## The modules

### EraStream, M2Stream, ProbeStream: reading an era

`EraStream` is what a reader of an era promises: it takes the matching blocks in
order, may fall back to an earlier prefix, and publishes the whole era once.

`M2Stream` is `main()` with one action per step of the process that something
can come between: `Start` (l.205-232), the attempts of `post()` (`PostOk`,
`PostBusy`, `PostError`), one line of a response (`ReadLine`, the checkpoint at
its end included), its failure and its end (`ReadError`, `ReadEnd`), and opening
and closing each output (`OpenOutput`, `CloseOutput`: `gzip.open(.., "wt")`
truncates at once, the content is complete when closed).  `AfterResponse` is the
code behind the `try` block, l.315-320.  `Crash` may happen at any step.  The
accumulation of a block is its number appended to `ledger`: cells, ticks and
tallies change in one iteration with nothing in between.  `RESUME` is written
under another name and renamed, so a checkpoint is atomic.

The portal is an environment: it may send the next matching block or a header
before it, and end a response without error after at least one line or when
nothing is left.  `SilentDrop` also lets it end empty too early, in which case
the `break` of l.318 publishes a part of the era: that is why
`PublishedWholeEra` and the refinement are checked and proved with
`SilentDrop = FALSE` (an assumption of those two theorems), and `OutputsAgree`
and the liveness properties with `TRUE`.

`ProbeStream` is the loop of `mev_probe.py` over the same kind of portal: no
checkpoint, no limit on errors, one output at the end.  `EmptyDrop` is its
`SilentDrop`, and `ProbeFed` asks for a whole window only without it.

### M2Cells, M3Analysis: what is made of a block

`M2Cells` takes one group of logs (a transaction in a pool) per step: `Swaps`
before positions, `firing_of` and `identity_of` as fields of the group, and
`price_event()` with each of its early returns.  A log-return is kept as the two
values it is the ratio of.  `M3Analysis` extends it with the sort, the buckets,
the moves and the admission of a cell, as operators over the accumulated state.
`sorted()` is `Ranking`'s `Ranked`: the row whose rank is `k` stands at place `k`.
It is written with a choice per place rather than with a sorting operator of a
library so that the same definition can be proved about.  `NoSwapNoCost` is the
reason why `m3_analysis` may leave out firings without a
swap as unidentified.

### MevProbe: the within-block readings

`OnBlock` is `on_block()` for one block of logs: positions of a block (just in
time or reopened), firings by transaction with `firing_of()`, their adjacency to
external swaps, previous range, entry displacement and exit delay, and at the
end the ticks and their pruning.  Of the comparison with random places only the
number of firings it is made for is kept (`with_swaps`); the expected counts are
not modelled.  The logs of a block are an environment: `IsBlock` says that
transactions come one after another, that a swap has a tick and that a position's
range is not empty.  `full` and `placed` are history variables that only
properties read.

### Anchor: recorded re-placements

`Rebalance` evaluates one recorded row: what it held, whether it drew on
standing dust (`is_draw`), the two sides of its value and the match of dust
credits.  The position manager is external: it sweeps the standing balance into
a mint and credits back what is left, as the comment of l.188-190 says.  The
summary's medians are operators over the priced events.

### LBScan, LBPairing: phase 1 of the Liquidity Book anchor

`LBScan` has the file as a sequence of lines; an append may be cut after any
line, and with `HalfLines` inside one (`MAX_CUTS` bounds how many appends are
cut).  `Committed` is what the loader accepts: every row that some marker
follows.  A crash between rows and marker leaves rows that the next marker
commits, together with the rescanned ones; `ExactWithoutCuts` (in
`ScanComplete`) says that this is the only way to a duplicate, `MarkersVouch`
that nothing is ever missing behind a marker.

`LBPairing` takes one iteration of the loop per step over every stream of a pair
with `NTX` transactions, sorted with `Ranked`, an event duplicated or not: the greedy choice of the
nearest free deposit is one-to-one also on duplicated rows, stable, and as large
as any other assignment.

### PairParameter: the parameter word of a Liquidity Book pair

The word is a record of its fields, each kept to its mask; `RefFits` and
`AccFits` are the reverts of the two 20-bit setters.  `UpdateReferences` and
`UpdateVolatilityParameters` are the library functions; a trade (`Swap`,
`AddLiquidity`) applies them and moves the active bin, `SetParameters` changes
the static part at any time, `Tick` is time.  What the pair does with the
library is external, taken from the view path the fork suite replicates (l.337).
`Packed` is the fork suite's `_packedParams`, `AnchorFee` is `total_fee()`.
`safe128` in `getTotalFee` cannot revert at the real widths (a 20-bit
accumulator, a 16-bit step and a 24-bit control stay below 2^128), and the
oracle index plays no part in fees: both are left out.

### Detector, VectorScan, BracketMap: the threshold operator

`Detector` is `run_operator()`: `Pass` and `Fire` are the two ends of an
iteration, `Crossing` and `Outside` the bookkeeping of l.204-215, `Checks` the
values `is_check` can take (periodic, random, or sure within `COX` blocks of a
jump).  The path is drawn block by block, so TLC explores every path over
`Moves` and `Jumps`.  Prices are integers; what the properties ask is order and
equality, which no rounding disturbs on the paths the harness draws.

`VectorScan` is one column of the tensor loop.  It keeps no path and no count of
blocks outside, and carries the label from the crossing: `ScanAgrees` is
`Detector`'s specification under the mapping `consec <- Now - crossed`, the
claim of `--validate`, for every path rather than for the seeds it draws.
`BracketMap` adds the accumulators of part A, updated in the iteration that
fires, and says that they are those of the operator's list of events.

### TwoSided, ProbeWalk: the rest of act 3

`TwoSided` is the sweep of `check7()`: for each value of a grid a path is drawn
and scanned block by block, then the rate decides.  `ProbeWalk` walks the census
cells row by row against a tick stream, as every probe does, with
`classify_event`, `crossing_delay` and `local_sigma` of `common.py`; when the
rows are done it reports pool by pool what the probes of halves, strata, tails,
pairs and shapes make of the events.  `Sums` has the array functions both it and
the spectrometer use (`np.cumsum`, `np.sum` and a boolean mask), written as
recursive functions so that they can be proved about.

### Spectrometer, PolicyZoo, Surcharge, GridQVI, Dissipation: calibration and geometry

`Spectrometer`: one world, a drawn population, one scan of the longest era, then
the cells of the sweeps one after another; `robustness_sweep.py` is the same at
other reference widths.  `Inversion` gives its parameters the assumption the
proofs use and names what must hold of a cell.  `PolicyZoo` is one replica of one policy, `Surcharge`
one of part B; both price with an arbitrary potential and a cap, and `Recentring`
puts them into one behaviour with the assumption their proofs use.  `GridQVI` is
policy iteration: evaluation solves the code's linear system with exact
fractions, one action is one round of improvement, the last one, which finds
nothing to improve and breaks, included.  `SolverSound` compares the gain it
reports with that of every four-parameter policy, under the walk and under
jumps; under the walk the cycle algebra gives the same gain to each of them.  `Dissipation` is the mint
arithmetic in exact fractions, the checks of one geometry, and the loop shared
by `check_identity()` and `mc_renewal()`.  A log-cost is kept as the ratio it is
the logarithm of; a fraction is always in lowest terms, so that equal values are
equal records; a step that would bring the price to nothing is not one, because
the code's price is `exp(logs)`.  `PathLaw` gives the path and the geometries the
assumptions the harnesses choose them by.

## The runs

Several modules are checked by one run: `script` names the program that runs in
a behaviour, the variables of the others keep their first values, so that the
state space is the sum and not the product of theirs.  The constants of such
parts are declared in `MCStreams`, `MCLiquidityBook`, `MCMainnet`,
`MCDetector`, `Recentring`, `Inversion` and `PathLaw`, with an assumption each
(`ScanAssumption`, `PairingAssumption`, `ProbeAssumption`, `AnchorAssumption`,
`WalkAssumption`, `SweepAssumption`, `RecentringAssumption`,
`InversionAssumption`, `PathAssumption` and `DrawAssumption`).  A theorem about a
part is one about the run's own specification `MCSpec`, for every value they
allow; for the parts of `calibration` it is one about the specification of the
part (`Spec`, `MapSpec`, `RecSpec`, `Spe!Spec`, `Law!Spec`), whose variables the
other scripts leave alone.

| run | what it asks | instance |
|---|---|---|
| `m2_stream` | exactly once, whole era, checkpoints grow, implements `EraStream` | five blocks, three with logs, `CKPT_BLOCKS` 1, two failures, two attempts |
| `streams` | outputs agree, scan complete, probe fed; each script ends | the same era with silent drops; five blocks in chunks of two with two cut appends, between lines or inside one; the probe with and without empty ends |
| `m2_nothing_to_do` | *violation*: "checkpoint exists; nothing to do" | as `m2_stream` |
| `lb_scan_duplicates` | *violation*: "trailing events ... are dropped" | five blocks in chunks of two |
| `lb_scan_half_line` | *violation*: "a rerun resumes" | the same, with half lines |
| `lb_pairing_same_block` | *violation*: "same-block pairs allowed" | streams of four transactions |
| `liquidity_book` | no reverts, recomputable, quotes agree; pairing one-to-one, stable, maximum | widths of 2 to 4 bits, four bins, eight seconds, five settings of which three are refused; every stream of four transactions over four blocks |
| `mainnet` | costs, tallies, floor readings; probe readings; anchor books | four groups, gaps of up to two blocks; five blocks of two pools and two operators; two rows |
| `m3_moves` | *violation*: "block-aggregated move law" | as `mainnet`, one script |
| `anchor_corrections` | *violation*: "measured trigger and correction fractions" | three events |
| `detector` | whole excursions, labels, no missed firing, filter, delay; Cox; probes; sweep | paths of seven blocks (dwell 2, period 3) and of six (penetration 2, random checks); three census cells, three rows, five tick streams; grid of two values, paths of three blocks |
| `calibration` | map, tensor scan, solver, inversion, law of a path and of a geometry, priced recentrings | paths of seven blocks; five steps of a policy with jumps; grids of seven and five states; five blocks and three operators; three steps of three policies, 60 geometries |

The six violations are findings: the code does something else than the quoted
line says.  `PROJECT.json` gives each with its place.

Why the bounds are enough.  The era needs a checkpoint inside a response, one
at its end, and a response shorter than a checkpoint's distance: three matching
blocks of five with a distance of one give all of them, and a run can crash
after any of them arbitrarily often (nothing counts crashes).  The scan needs a
chunk of two rows, to be cut after none, one and two lines, and a second cut in
the rescan of it.  Four transactions are two withdraws and two deposits that
compete, or three of one kind for one.  Seven blocks are an excursion, a dip, a
second entry and a second firing under a dwell of two.  The widths of the word
are scaled so that a distance of three bins exceeds the cap, and a cap the
accumulator's field; time runs past the decay period twice.  Five blocks of
logs let the probe prune its cache (more than four entries) and then read it;
its six kinds of block include two firings of one operator in a block, a
position opened and closed in one, and one only poked.  The tick streams of the
probes have gaps, two samples in a block, an excursion that fills the lookback
and one that began before it.  Three steps of a policy can fire three times or
not at all; the numbers stay small because fractions are exact and TLC's
integers have 32 bits.  The grids of the solver are the smallest on which firing
states can target firing states.  The geometries have half widths of three and
of five at a centre of seven, one on either side of the width ratio from which
the loss of the down branch no longer grows.  The bounds of the models (`MAX_CUTS`, `B`,
`BD`, `NTX`, `MAX_GROUPS`, `MAX_BLOCK`, `N_ROWS`, `MAX_ROWS`, `N_STEPS`,
`MAX_ITER`, `N_OPS`, `MASK_UINT40` as the last second) are constants, and the
theorems have none of them fixed.

Deadlock is not checked: every program ends (a stream after its outputs, a
detector after its path), and time in the pair's model has a last second.

Fairness.  Weak fairness of each process's own steps: every sleep is bounded and
every request has a timeout, so a live process goes on.  Nothing is assumed of
the portal: `RunEnds` (`m2_stream.py`) holds however it behaves.  `LetAlone`
says that each script comes to its end under its own premise: for `m2_stream.py`
and the scan that someone starts them again after they stopped and that kills
and errors cease; for the probe, which retries without limit, only that
transport errors cease.  Its ends are not all good ones, and it names them: the
cell file is whole, or a kill tore it in its write and no run completes it; the
scan is done, or a kill left half a line that no run reads past.

## The proofs

All are for every value of the constants that the `ASSUME` of the module (or of
the theorem) allows.

- `M2StreamProofs`.  The inductive invariant relates the ledger to `last`, the
  checkpoint to its own `doneTo`, `last` to `cur` by program counter, and each
  whole file to the era: `ExactlyOnce` alone is not inductive, because
  `AfterResponse` and `Load` move a position without the ledger.  From it
  follow `TypeCorrect`, `StreamsExactlyOnce`, `PublishesWholeEra`,
  `StreamImplementsEra` (initial states map to initial states, each action to a
  step of `EraStream` or a stutter) and `CheckpointsOnlyGrow`.
  `OutputsAreOfOneRun` adds what `main()` relies on when it looks at the cells
  alone: a run that still reads found no file at all, because the cells are
  opened first; the three are opened in order; and nothing is read any more once
  one is open.  A crash between two writes therefore leaves a file missing or
  torn, and never two files of different runs.
- `StreamsProofs`.  `ScanIsComplete`: what the property says of a finished scan
  has to be said of every marker (all rows up to its block stand in front of it)
  and of every chunk in hand (the process has all rows below it, and so has the
  file).  That nothing is added twice while no append was cut needs the rows of
  the file to lie before the chunk in hand.  What a prefix of the file commits is
  reasoned about place by place.
  `ProbeIsFed`: the blocks fed are the logs below the position, with and without
  empty ends.
- `MainnetProofs`.  `SwaplessFiringsAreFree`: without a swap, what landed is at
  least what was held, token by token, and a mark keeps the order; the type
  invariant is needed because a cell's record must be of a priceable group.
  `TallyIsConsistent`: the counters move together, one lemma per way a group
  leaves the iteration.  `FloorIsRead`: cells and ticks stand in block order and
  each firing with a swap has a tick of its own; from this the entries of a
  window can be ranked and matched with the firings, the last entry of a bucket
  found in the next one's move, and the two spans shown to be one.
  `AnchorPricesSwaps`: for whole amounts, a draw raises both sides of an event's
  value alike, so that its cost is what its swaps lost at the mark.
  `AnchorKeepsBooks`: what is left in the manager by one row is what the next may
  draw, and a row is counted in exactly one class.
  `ProbeReadsSound` rests on three invariants.  *The cache stands for the
  history*: both are in block order, every entry of the cache is of the history,
  and the cache has the last entry and all that the lookback still reaches, so
  that both give the same previous tick and the same delay; pruning keeps this
  for the block it runs in and for all later ones.  *The range kept is that of
  the latest placement*, also when an operator fires twice in a block.  *The
  totals add up*: each inequality between two counters is an injection between
  the sets of logs, transactions and positions of one block, such as two logs
  for each position that was both minted and burned.
- `DetectorProofs`.  The invariant adds the *open* excursion to the closed ones:
  that it began at the last block inside or at the last firing, has stayed
  outside since, has length `consec`, and missed no check.  From it:
  `TypeCorrect`, `EventsAreExcursions`, `LabelsAreOfCrossings`,
  `FiresAtFirstChance`, `EventsPassFilter`; `JumpsFireAtOnce`, because a jump that
  penetrates is always inside its own Cox window; and `DelaysAreBounded`, because
  one of any `PERIOD` consecutive blocks is checked.
- `InstrumentProofs`.  `CoxFiresOnJumps` carries `JumpsFireAtOnce` over to the
  run's own detector.  `SweepIsSound`: rates are those of the paths scanned, and
  a verdict that passes at one value bounds the rate at every later one, by
  induction on the distance in the grid with the slack added at each step.
  `DelayIsMeasured`, `ScalesArePrior` and `SampleIsKept` are about `ProbeWalk`.  In
  a stream in block order the samples before a block are the first ones, so the
  lookback's window is what the delay says of it, an excursion is what follows
  the last sample inside, and both scales of a near-zero delay read the stream no
  further than that sample.  The invariant is that an event's delay is the one
  its own pool's stream gives for the line its row was classified at.  That the
  rolling scale of the tails probe is the local one of the other probes but for
  one square (`RollingNearLocal`) is said about places: both windows are sets of
  places of one stream, a sum over a window is a difference of two running sums,
  and the two sets differ by one place at most.  `SampleIsKept` carries two
  invariants: while the rows are walked, that the ratios of
  all trails and the missing scales together are the near-zero events, once a
  trail; and, pool by pool, that
  what was reported so far is all of the sample of the pools before: the two
  halves, and the small pools with the tails, each divide it, because they are
  counts over disjoint sets of places that together are all of them.  A pool in a
  contrast of strata is one with operators of both.
- `CalibrationProofs`.  The invariant says that the carried label is the one the
  path gives for the crossing in hand; `ScanImplementsOperator` is the refinement.
  `MapIsOfEvents` adds that each accumulator of `BracketMap` is the number of
  events of its kind, which a firing raises by one; the drift cut is arithmetic.
  `RecentringsArePriced`: what a firing is priced at lies between nothing and the
  cap, and is the cap exactly when it lands beyond the range, so that the books
  of the zoo move together; a step smaller than the gap from trigger to edge
  cannot carry a position at rest out of the range.  Of the potential it is
  assumed that it grows, on the upper side by the slope at least (what
  the bound of l.412 relies on), and that it comes to the cap nowhere inside the range: a unit of
  displacement is coarser than the e^-10 of the range at its edge where the code
  would count a landing inside as capped.
  `InversionIsSound`: a block of the scan looks at no later block, and an event
  is written in the block it fires in, so the events of the long scan up to an
  era are the scan of the era, whatever path follows; the scale read against an
  event is a running sum that ends at the block of its crossing, or before it;
  and since a component is known by its first operator, each admitted event is in
  the sample of exactly one component, so that the components' levels add up to
  the pooled one and the two halves to the component's.
  `LawIsExact` has two parts.  *The path* (`PathIsExact`): Euclid's function
  divides both its arguments and scales with them, so a fraction in lowest terms
  is known by its value and sums of fractions can be reasoned about as sums of
  numbers.  Inside the range the value of a position is of the second degree in
  the price, so a step changes it by exactly its first two Taylor terms, which
  are what `ito` and `tanaka` gain; a firing moves the loss into `sum_J` and
  keeps the rest as the value of the new liquidity.  Above the displacement a
  range is re-placed to, token 0 binds, below it token 1, and there the
  loss is positive.  `PathInv` adds to the identity that the price is
  strictly between the triggers after every step, without which a step could
  leave the range, where the value is no longer the polynomial `J` is priced
  with.  *The geometry*: the minted liquidity is the smaller of two ratios, so the
  cost is the larger of two quotients of shares; each of these is the quotient of
  two potentials when the width is kept, the shares add up to one, so that the
  larger is at least one, and is one exactly when they are kept.  The clock's
  bounds are inequalities between whole numbers once the positive denominators
  are multiplied out.  For the threshold, one step of the grid on the down branch
  raises the loss exactly while a polynomial that falls along the grid is at
  least a constant, so that the last step decides.
- `LiquidityBookProofs`.  `TypeOK` and `Recomputable` together are inductive for
  the word.  `UpdatesNeverRevert` uses that a reference decays by a factor of at
  most one and that a cap fits its field; `QuietInFilter` that the stored
  accumulator is the one a quote computes again; `AnchorFeeAgrees`, `PackedIsPairs`
  and `DecayIsComplete` follow from the types.
  `PairingIsStable`: `Served` says of every withdraw passed what `Stable` says of
  all.  That no other assignment is larger is an exchange argument: `Extensible`
  says that every assignment has one no smaller that contains the candidates
  found so far, because the deposit the loop takes can replace the assignment's
  own, and the withdraw that had it can take that one in turn.
- `OrderProofs` has what these share: least and greatest elements of sets of
  numbers, that every rank of a finite strictly ordered set is taken by exactly
  one member, and that `Ranked` lists the set in order; that a running sum exists
  and steps by one value, what a sum makes of a longer, a split or a termwise
  added list, how the counts of disjoint sets add up, and what a mask keeps.  The
  library's induction takes an operator; here induction on the naturals goes
  through a set parameter (`NatInd`: a set of naturals with zero and all
  successors is all of them), and a recursive function has its
  equation once some function is shown to satisfy it on all of its domain.

Only model-checked:

- liveness (`RunEnds`, `LetAlone`): fairness and `ENABLED` are out of the
  prover's reach;
- `SolverSound`: `GridQVI` eliminates over matrices of fractions and takes the
  arg-min over policies.  That an elimination in lowest terms solves its system,
  and that an improvement lowers the gain, is linear algebra the library has
  nothing of; it is checked on every potential of the two grids.

## Not modelled

- Statistics on floats: tails, likelihoods, intervals, regressions, volatility
  estimates, Monte Carlo rates, the offsets of act 1, the corridor constants,
  widen-slide and swap class of act 2, the refinement of `sweep_four_param`.
- Decoding of logs and ABI words, formatting and logging.
- `ws0_probe.py` (bisecting log reader, stages that skip an existing file),
  `t2_eval.identity_of` and `t2_identity`, phases 2 to 5 of `lb_anchor` but for
  the fee, `probe_provenance.py`, `discover_pools.py`, `base_local_ab.py`.
- 128 to 512-bit arithmetic (`FeeHelper`, `PriceHelper`, `math/`, the mock
  pools), and the contracts behind the fork suites and the portal, which are not
  in the repository; where a model needs them they are external and as weak as
  the code's use of them allows.
- Lean, paper, recorded results.

A rerun of the scan with another `T5B_SPAN` resumes at the old marker and skips
what the shorter span left out: `Spans` can hold several values, and
`NothingMissed` then fails as the code does.

`exit_delay()` and the header of `mev_probe.py` disagree with the code and with
its summary.  The docstring (l.185-187) says that zero "means the price left the
range and the operator re-placed in the same block", and the header (l.15-17)
that the mass at zero is what reading B decides by; but a firing reads the ticks
before its own block only, so that this exit reads as the distance to the sample
before, at least one, as the note in the summary says (l.345-349).
`StructuralZero`, in `ProbeSound`, states what the code does; a reader of the
docstring would expect it to fail.

Seen while modelling, without a property, because no line of the repository says
what is meant or because only magnitudes tell: `probe_ctick_real.py` takes the
first low rate without the harness's check that rates fall (l.119); a burn of
nothing makes a fresh position count as just in time, and all users of the
position manager are one owner (`mev_probe.py` l.224-241); `probe_provenance.py`
compares the first sample of a block where its docstring says the last (l.86);
components of the agreement test are named by the period alone
(`production_sweep.py` l.117); `robustness_sweep.py` draws a number of random
words that depends on the list's length, so that its cadences are not paired
with the other sweep's (l.92); a refined grid of `sweep_four_param` need not
contain the last optimum when it is clipped (l.184-196); the zoo counts firings
over all replicas and averages over the kept ones (l.193-208).

## Plan

1. `ws0_probe.py`: bisection covers its range once and in order, the stages'
   files, the unguarded stream.
2. `lb_anchor` phases 2 to 5: factory cache with transient errors, isolation
   clauses (whether every isolated pair within the window is a candidate), and
   the replay ledger of the bins.
3. `identity_of()` over every small transaction against a declarative reading of
   the classes, and `t2_identity`'s copy against it.
4. Proofs: what the solver of `GridQVI` computes (`SolverSound`), from lemmas
   about elimination over fractions of which `CalibrationProofs` has those of
   one fraction.

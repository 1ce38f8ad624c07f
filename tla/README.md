# triggeralgs in TLA+

A model of the `triggeralgs` library in TLA+: the algorithms that turn trigger
primitives (TPs, hits on one channel) into trigger activities (TAs), and TAs of
several detector regions into trigger candidates (TCs). The modules follow the C++
line by line in their control and keep only the data that decides what is emitted;
TLC checks them on small instances and TLAPS proves, for all values of the constants,
what can be proved. `PROJECT.json` says which lines of the source every definition
stands for.

```
tlc -config ADCSimpleWindow.cfg MCADCSimpleWindow.tla     # likewise for the other cfgs
tlapm ADCSimpleWindowProofs.tla                           # likewise for the other proofs
```

## 1. The system

### Components, their state and operations

| Component | State | Operations |
|---|---|---|
| `AbstractFactory` (TA and TC instance) | a map from names to creators, a lazily made singleton | `register_creator` (before `main`), `get_instance`, `build_maker` |
| base classes `TriggerActivityMaker`, `TriggerCandidateMaker` | none | `configure(json)`, `operator()(input, output)`, `flush` (default: nothing) |
| `TPWindow` | `time_start`, `adc_integral` (32 bits), `channel_states`, `inputs` | `add`, `clear`, `reset`, `move`, `n_channels_hit`, `is_empty` |
| `TAWindow` | the same over TAs (charge in 64 bits), sorted by time | the same; `add` inserts where the TA's time says |
| TA makers ADCSimpleWindow, HorizontalMuon | configuration, one window, a counter of triggers | `configure`, `operator()` |
| TA makers MichelElectron, ChannelAdjacency, PlaneCoincidence | configuration, one or three windows, counters | `configure`, `operator()` with track finding |
| TA makers ChannelDistance, BundleN, Prescale, Supernova | a TA under construction, or a counter | `configure`, `operator()`, Supernova's `flush` |
| TA maker DBSCAN with `dbscan/` | a ring of hits, clusters | `operator()`, `add_hit`, `trim_hits` |
| TA maker Triton with `Triton/` | a TA under construction, a client of an inference server | `operator()`, `dispatch`, retries, `reset` |
| TC makers HorizontalMuon, ChannelAdjacency | configuration, a `TAWindow` | `configure`, `operator()`: judge after every TA |
| TC makers MichelElectron, PlaneCoincidence | configuration, a window | `configure`, `operator()`: judge when the window closes |
| TC makers BundleN, ChannelDistance, DBSCAN | a TC under construction, a count of TPs | `configure`, `operator()` |
| TC makers ADCSimpleWindow, Prescale, Supernova | nothing, a counter, a list of recent TAs | `configure`, `operator()`, `FlushOldActivity` |
| TD maker Supernova | none | one decision for each candidate |
| `exec/` demonstration | two lock-free queues, two atomics, three threads | `AddToQueue`, `Worker`, `SoftStop`, `Stop`, `GetNextProcessed` |
| `TriggerObjectOverlay`, data types, logging, build | none | serialisation and declarations |

### How they interact

The library has no thread of its own. A caller builds a maker by name with the factory,
calls `configure` once, and then calls the maker for each input with a vector it owns,
to which the maker appends what it emits. A TA maker sees the TPs of one region in
order of time. A TC maker sees the TAs of all regions: each region's are in order, but
the streams interleave, so a TA can be older than the one before it. Makers share
nothing. The only concurrency is in `exec/run_trivial_candidate.cxx`, a demonstration in
which `main`, a worker and a consumer share two queues, the TC maker and the output file.

### What is hard here

* **Cached totals.** A window keeps its start, charge and hits per channel by hand across
  `add`, `move`, `reset` and `clear`; an error shows many inputs later.
* **Unsigned arithmetic.** Times and charges are unsigned: differences wrap, sums wrap,
  and a readout start is a difference.
* **Order of arrival.** Late TAs meet code that reads `later - earlier` as unsigned.
* **Emission.** An object is emitted when the *next* input arrives. Between two windows no
  input may be used twice and no stretch over threshold may be missed.
* **Prescales** and the paths on which a window is neither reset nor moved.
* **Configuration** that is refused after it has been assigned.
* **Incremental clustering.** DBSCAN takes one hit at a time, merges clusters while it
  walks a hit's neighbours, and reuses the slots of hits.
* **A server that fails.** Triton requests are retried, answered with the wrong shape or
  size, or end in an exception, and the caller may go on.
* **The demonstration's threads**: a stop that races the worker and the consumer.

What makes a component correct follows from this: a window is what its inputs say; what
is emitted is justified by its own inputs; what should be emitted is; no input is lost
early, used twice or reordered. `PROJECT.json` lists each hazard at its line with the
properties that cover it, or the reason none does.

## 2. The modules

| Module | Models | Remarks |
|---|---|---|
| `UnsignedTime` | `timestamp_t` and fixed-width + and - | `fits` is the test of every window |
| `InputLists` | the list both windows keep | `n_to_erase`, the loop of `move` |
| `ChannelStates` | the map of hits per channel | a channel leaves with its last hit |
| `TPStream`, `TAStream` | the inputs: TPs in order; TAs of interleaved regions | an input's identity is its arrival number |
| `TPWindow`, `TAWindow` | the two window classes, as operators on a record | with the three agreement predicates |
| `Adjacency` | `check_adjacency()` of HorizontalMuon as a recursive function | three other TA makers share its steps |
| `AdjacencyLoop` | the same loop as a state machine, one step an iteration | judged against runs and tracks of wires |
| `TriggerActivityMakerADCSimpleWindow` | the maker and the window class nested in it | one action for each way through `operator()` |
| `TriggerActivityMaker` | the base class, the factory's `build_maker`, `configure` | declares the state of the eight makers below |
| `TriggerActivityMakerHorizontalMuon` | the maker, on `TPWindow` and `Adjacency` | branches 1 to 3 are one action |
| `TriggerActivityMakerChannelAdjacency` | the maker: tracks taken from a closed window until none is left | `extraction` is the loop |
| `TriggerActivityMakerMichelElectron` | the maker with its Bragg peak and kink | floats become integers on a common denominator |
| `TriggerActivityMakerPlaneCoincidence` | the maker with a window for each plane | the channel map is the constant `PlaneOf` |
| `TriggerActivityBundle` | Prescale, BundleN, ChannelDistance, Supernova with `flush` | no window |
| `TriggerActivityFactory` | the caller: build, configure, feed, flush | composes the eight makers |
| `IncrementalDBSCAN`, `TriggerActivityMakerDBSCAN` | the clustering library; the maker | a list of unique hits in order of time is a set of slots; times are rounded as floats are |
| `TritonClient`, `TriggerActivityMakerTriton` | client and data of inputs and outputs; the maker with the handlers of the model `simple` | the server answers or fails as it likes |
| `TriggerCandidateMaker` | the base class, the factory's `build_maker`, `configure` | declares the state of all TC makers |
| `CandidateWindow`, `CandidateOnClose` | what two pairs of TC makers share line for line | |
| `TriggerCandidateMaker{HorizontalMuon, ChannelAdjacency, MichelElectron, PlaneCoincidence}` | what is each maker's own | Michel: its own `clear` and `move` |
| `CandidateBundle` | the six TC makers that keep no window | |
| `TriggerCandidateFactory` | the caller: build, configure, feed | composes all ten TC makers |
| `Segmentation` | abstract: what a maker promises of the order of its inputs | implemented by all makers of windows and bundles |
| `NaiveTriggerQueue` | the three threads of the demonstration | one step an access to shared state; a call of the TC maker has two, going in and coming out |
| `MC*` | constants for TLC | |
| `InputListLemmas` | lemmas on numbers, lists, folds and the erasure of `move` | shared by the proofs below |
| `SegmentationProofs`, `AdjacencyProofs`, `ADCSimpleWindowProofs`, `TriggerActivityFactoryProofs`, `TriggerCandidateFactoryProofs`, `TritonProofs`, `NaiveTriggerQueueProofs` | theorems of the module each is named after | |

**State and code.** Variables have the names of the members; `m_config` is the record of
the members `configure` may set, under their JSON keys, with the defaults of the
headers; `output_ta` and `output_tc` are the caller's vector over all calls. `received`
is a history variable: what the caller has fed. An action named after a way through
`operator()` is guarded by the conditions that lead there, in the code's order, and one call
of `operator()` is one step, because nothing else can run meanwhile. The exceptions are
Triton, where a call waits for a server and may end in an exception (`phase` says where
the thread is), and the demonstration, where threads run at the same time.

**Data.** A TP is its arrival number, time, charge, channel and length; a TA its number,
region, start and end, charge and the channels of its TPs. Peaks, detector ids, types and log
lines are not modelled: nothing is decided by them. `TimeModulus`, `AdcModulus`,
`CountModulus` and `ChannelModulus` stand for 2^64, 2^32 (2^64 in `TAWindow`), 2^16 and
2^32. A chunk of Triton's input data is the number of the request it was made for, a
result the request, the call, and which outputs have data of the wrong size.

**Undefined behaviour.** `check_bragg_peak` reads the largest of an empty vector when no
cluster of charge is closed: the operator is the set of what it may return, then
`BOOLEAN`. In the ChannelAdjacency TA maker the window of the first track of a search is
declared without a value for its `adc_integral` (`ChannelAdjacency.cpp:182`,
`TPWindow.hpp:37`), and the charges of the track are added to what the memory holds: the
constant `Uninitialised` is the set of what that may be, and a call takes any of it. In the
demonstration `main` copies the cluster of the TC maker without a lock while the worker may
be changing it: what it then reads is any of `TornReads`. Members that are written before
they are read start with any one value.

**Floats.** The time of a DBSCAN hit is `1e-2 * (time_start - first)` as a 32-bit float, and
so are the differences and squares computed from it. `IncrementalDBSCAN` keeps such numbers as
whole multiples of 1/`Fine` of a unit (`Fine` is a bound; the source goes through a
double) and rounds each to `FloatBits` significant bits, to even (`nearest`, `ulp`, `float`).
With 24 bits and 62.5 MHz the floats are more than a unit apart some 27 seconds after the
first hit.

**The abstract specification.** `Segmentation` knows only arrival numbers: what is held,
and the sets given out. An element joins what is held, starts a new window after the
old one is given out, joins and goes out at once, is skipped, or everything held goes out
at the end of the stream; what is let go never returns. The makers are checked to refine
it with the mapping `received <- Len(received)`, `held <- Ids(window)`,
`segments <- ids of the outputs`. ChannelAdjacency gives out several TAs of one window
and may keep nothing; only what it holds is mapped.

## 3. What TLC checks

Every property has a mutant: a definition with a plausible slip ("A plausible slip", or
"Mutant", in the modules) under which TLC finds the property violated.

| Run | What it shows | Bounds |
|---|---|---|
| `adc_simple_window` | the totals agree even when the charge wraps (modulus 8); the window is short; a TA has every TP of its stretch; no TP is lost early; no stretch over threshold is missed while its charge fits; refines `Segmentation` | 5 TPs, gaps 0, 1, 2, 4 around windows of 2 and 3 ticks and a window of 0 |
| `adjacency` | the result is the size of a real track whose gaps the tolerance paid for, no shorter than the longest unbroken one, and exactly that one without tolerance | up to 5 of 11 wires with every gap from 1 to beyond 5, repeated hits, wire 0, tolerances 0, 1, 2, 4 |
| `activity_makers` | eight TA makers, built, configured, fed and flushed: totals, spans, no TP lost and no activity missed where that is promised, one trigger in prescale comes out, every TA justified by its own TPs counted afresh and no TP in two of them; all refine `Segmentation` | 4 to 6 TPs for each maker, with gaps and channels of its own (`MCStreams`) |
| `candidate_makers` | all ten TC makers, built, configured and fed: totals, sorted and short windows, justified TCs, nothing lost early, no candidate missed, repackagers drop nothing, the readout holds its TAs up to the end of the last one; all refine `Segmentation` | 4 TAs from 2 regions at 4 times in any interleaving |
| `dbscan` | hit by hit gives the clusters of the textbook, those given out are complete for good, and a slot is not reused while it is read | 7 TPs on 3 channels, gaps 0, 3 and 57 in half units, floats of 4 bits, 6 slots, `eps` 2, `min_pts` 2 and 3 |
| `triton` | a request is tried as often as configured and no more; inputs and results of two requests do not meet (before an exception, or without variable outputs); a call that began a request ends unless one answer never comes | 5 TPs, 8 models, 8 configurations, any behaviour of the server |
| `naive_trigger_queue` | every TP accepted is at one place of the pipeline and in order; after the stop the worker takes at most one more; the last cluster written by `main` repeats at most the beginning of the last TC unless it was read during a call of the TC maker; `main` always ends | 4 TPs, a queue of 2, 1 try |

The runs expected to find a violation, each a disagreement between the code and what the
documents or the code's own comments say (quoted under "findings"):

| Run | Counterexample |
|---|---|
| `candidate_late_ta` | a TA two ticks late empties the window of newer TAs |
| `michel_candidate_start` | Michel's own `move` leaves the start time of a window that is gone |
| `michel_activity_stuck` | a long track without a kink: the closed window is neither given out nor moved, and every later TP is dropped |
| `dbscan_core_left_out` | with `min_pts` 4 a hit that makes two noise hits core, each of another group, lets only one of them start a cluster |
| `triton_requests_early` | each TP that does not complete a request is stored twice: the request goes out with about half the TPs configured |

The models show more disagreements that have no run of their own: the 32-bit sum of a
window may wrap and a busy window look quiet (`TriggerActivityMakerADCSimpleWindow.cpp:45`);
a trigger that the prescale holds back loses the TP that closed the window and leaves
the window to be counted again (`TriggerActivityMakerHorizontalMuon.cpp:57`); the
adjacency loop may pass its tolerance (`:254`), and a gap of one missing wire costs two,
so a track with as many missing wires as tolerated is cut; a Michel TC window over the
channel threshold is dropped without a TC (`TriggerCandidateMakerMichelElectron.cpp:81`);
Triton's key `outputs`, which `docs/configuring_dunedaq.md:50` shows, is read as a string
by the maker and as a list by the client, so that `configure` always throws with it;
after an exception a Triton maker sends the inputs of the failed request again with the
next one; with `batch_size` 0 there is no call and the output handler throws.
`NoActivityMissed`, `OneInPrescale`, `RequestsKeepApart` and their kin name these cases
as preconditions.

**Bounds.** Five TPs (four TAs) are enough to start a window, fill it, move it with one
and with no survivor, emit it and go on into the next one; the gaps lie below, at and
above each window length, so that "just fits" and "just does not" both occur. A charge
modulus of 8 lets the sum wrap within a run. In `candidate_makers` the three payloads
separate charge from multiplicity and have a channel hit twice by one TA. `Regions` is
declared symmetric: no definition looks at a region except to compare two of them for
equality, and no property is a liveness property. `SupernovaWindow`,
`SupernovaThreshold` and `SupernovaHitThreshold` are scaled down from 500'000'000, 3
and 2. In `activity_makers` each maker has the gaps around its window, the channels that
make a track, a gap and a second plane, and as many TPs as close a window and fill the
next: Michel needs six, for a track of five with a kink and one that closes it
(`BraggHits` 2 and `KinkMinimum` 1 are scaled down from 6 and 10, `KinkTicks` from
1000). `CountModulus` is 10, above every number of hits and triggers in a run: that the
16-bit counters wrap is a hazard no run reaches. `Uninitialised` is {0, 5}: right by chance, and
not. In `dbscan`, seven TPs wrap around the
ring of six slots, a gap of 57 half units is more than ten `eps` (the distance at which hits are
trimmed) and lands where floats of four bits are two units apart, so that a hit 1.5 units after
another is now near it and now not; `TimeModulus` 64 leaves room for one such gap and one hit
after it, and streams that begin on channel 3 are left out as the mirror image of those on
channel 1; a cluster's hits, a hit between two clusters and a noise hit that becomes core
fit in. The server calls of `triton` are counted to two past the tries allowed, enough to
see one too many. Deadlock is not checked: a maker stops when the caller has no more
input, and the demonstration when `main` returns.

A TA of `candidate_makers` lasts 1, 4 or 2 ticks with the payload it has, so that an earlier
TA may outlast a later one.

**Preconditions in the properties.** `NoActivityMissed` of HorizontalMuon and
ChannelAdjacency asks for prescale 1 (else triggers are held back on purpose), looks for
tracks without missing wires (with a tolerance, adding hits can shorten the longest
track, so a window over threshold need not contain what a part of it had) and asks for a
charge that fits. That of ChannelDistance asks for channels no smaller than the distance
(else the lower bound wraps). Supernova takes a TP at time 0 for "no activity", so its
properties except streams with one. Properties of TC makers that ask for
`Ordered` describe streams without late TAs; `WindowSpan`, `TotalsAgreeWhenUsed`,
`TCsJustified` and the refinement hold for late TAs also. A prescale of 0 divides by
zero and is excluded by an assumption. The window lengths are such that a wrapped
difference never fits (`ShortWindow`), as with 64-bit times. The clusters of `dbscan` are
the textbook's for `min_pts` up to 3 (beyond, see `dbscan_core_left_out`) and when the
first TP is not at time 0 (`FirstTimeIsSeen`: the code takes 0 for "no TP yet"); which of
two clusters a border hit between them belongs to is not asked, both have it. The inputs
of a Triton request are its own up to the first exception, its results unless an output
has variable dimensions. A readout ends where the *last* TA ends (`PlaneCoincidence.cpp:134`,
`BundleN.cpp:24`, `ChannelDistance.cpp:40`, `DBSCAN.cpp:40`, `Supernova.cpp:31` in
`src/src/TriggerCandidateMaker*`): an earlier TA that lasts longer is cut off, and
`ReadoutCoversItsTAs` claims no more than the code does. The charge of a ChannelAdjacency TA
is that of its TPs on top of 0 or of a value of `Uninitialised` (`ChargesOf`).

**Fairness.** The makers other than Triton are called and return: no liveness is claimed.
In Triton the maker's thread runs on (weak fairness of `proceed`, `handle_output` and
`catch`). A call of the server is sure to return only where the client sees to it: `Infer()`
when `client_timeout_microseconds` is configured (`infer_returns`; the default is none), and
`getServerSideStatus()` when it calls nothing because the client is not verbose
(`status_returns`); it passes no timeout. Elsewhere the thread may wait for ever, and `DispatchEnds`
says that this is the only way a request does not come to an end. In
`NaiveTriggerQueue` each thread has weak fairness (`WF_vars(Main)`, `WF_vars(Worker)`,
`WF_vars(Consumer)`): an operating system lets each runnable thread run, no thread waits
on a lock, and `main`'s steps are always enabled until it joins the other two. The TC
maker of that program is not in this repository (`MakeTC` leaves open whether a TP closes
the cluster before it, after it, or not at all; `GetLastCluster()` is taken to copy the
cluster and change nothing), nor is Boost's queue (`bounded_push` fails exactly when the
capacity is reached). Both threads may be inside that maker at once, since nothing locks it; the history
variable `raced` records that they were, and after that nothing is said of what `main` has read, only that
what the worker does is not disturbed by the reading.

**A comment the code does not keep, without a run of its own.** The comments at
`TriggerActivityMakerHorizontalMuon.cpp:203-206` and `:214` let a track skip up to
`adj_tolerance` missing hits and say that `tol_count` "should not be passed" beyond it. The test
of line 254 looks at what was used *before* a gap and then charges the gap with its length:
with tolerance 1 and hits on wires 1, 2, 4 the gap of two is entered at `tol_count` 0 and leaves it
at 2, and a gap of five is entered just as well. `ResultIsATrack` states the rule the code
follows: each gap but the last leaves tolerance for the next.

## 4. What is proved

TLAPS proves the following for every stream, configuration, modulus, bound, queue capacity
and served model.

| Theorem | Says |
|---|---|
| `SegmentationInvariant` | the abstract discipline keeps output objects nonempty, disjoint and in stream order, and older than what is held |
| `TypeCorrectness`, `ChargeCorrectness`, `SpanCorrectness` | `TypeOK`, `ChargeIsThatOfTheWindow` and `WindowSpan` are invariants of the ADCSimpleWindow TA maker |
| `ImplementsSegmentation` | that maker implements `Segmentation`: every step is a step of it, or changes nothing it sees |
| `TAsComeInOrder` | hence its TAs are disjoint and come out in stream order |
| `NothingIsLostEarly`, `WindowsAreGivenWhole`, `ActivityIsNoticed` | `NoTPLostEarly`, `TAsAreComplete` and `NoActivityMissed` of that maker |
| `StrictResultIsLongest`, `ResultIsOfATrack` | `StrictResult`, and `ResultIsATrack` while no list reaches round the end of the channel numbers |
| `MakersKeepSpans`, `MakersKeepCharges` | the TA makers of the factory: `WindowSpan`, and the charge that their windows keep by hand |
| `MakersImplementSegmentation` (`TriggerActivityFactoryProofs`) | the eight TA makers of the factory implement `Segmentation` |
| `MakersLoseNothing` | `NothingLost` of the TA makers |
| `MakersKeepTheirTypes` | `TypeOK` of the TA makers of the factory |
| `MakersTotalsAgree` | their `TotalsAgree`, the hits per channel, Supernova's extent and the start of a TA included, and its charge, for ChannelAdjacency on top of what the uninitialised window may have held; whenever `CountsFit` |
| `MakersJustifyTAs` | `TAsJustified` of all eight, whenever `ChannelsFit` |
| `MakersPrescale` | `OneInPrescale`, until `m_ta_count` may have wrapped |
| `MakersImplementSegmentation` (`TriggerCandidateFactoryProofs`) | the ten TC makers implement `Segmentation`, late TAs included |
| `WindowsKeepTheirSpan`, `WindowsKeepTheirCharge` | the TC makers: `WindowSpan`, and the charge of a window while it is used |
| `RepackagersLoseNothing`, `NoTAGoesEarly` | `NothingDropped` and `NoTALostEarly` of the TC makers |
| `MembersKeepTheirTypes` | `TypeOK` of the TC makers |
| `TotalsAgreeWhereCountsFit` | `TotalsAgreeWhenUsed` of the TC makers, the hits per channel included, whenever `CountsFit` |
| `TCsAreJustified` | `TCsJustified` of all ten, as long as `TPsFit` |
| `ReadoutsCoverTheirTAs` | `ReadoutCoversItsTAs` of all ten, whatever time each TA takes, as long as `ReadoutFits` |
| `TritonTypeCorrectness`, `RequestsStayApart` | `TypeOK` and `RequestsKeepApart` of the Triton maker: up to the first exception whatever the model, after it for models without outputs of variable dimensions |
| `NoTPLostOrReordered`, `WorkerStops` | `EveryTPInItsPlace` and `OneMoreAfterStop` of the demonstration's threads |
| `LastClusterIsLast`, `ThreadsTypeCorrectness` | `LastClusterEndsTheFile`, wherever `main` did not read the cluster during a call of the TC maker, and `TypeOK` of the same |

*Assumptions*: the named `ASSUME`s of the modules (moduli are positive, gaps and charges
are naturals, configurations have the right types, a maker's defaults set exactly its
`Members` or `WindowMembers`, a window length is short enough that a wrapped difference does not fit
(`ShortWindow`), settings that are ticks or counts in the source are so here, channels and
`max_channel_distance` are below `ChannelModulus` (`ChannelAssumption`), a prescale is
not 0, which would be a division by zero, and a TA does not end after the clock), all
evaluated by TLC in the runs.
Besides `MakersPrescale`, five theorems have a hypothesis, which holds in every state of the runs:
`CountsFit`, no channel has `CountModulus` TPs or more in a window (stated for both kinds of makers); `TPsFit`, no TA has as
many TPs (the makers that bundle by the number of TPs keep it in an `uint16_t`);
`ReadoutFits`, a readout with its margins is shorter than the clock; and `ChannelsFit`, no
TA of HorizontalMuon has TPs on `CountModulus` channels or more. Beyond each of
these bounds the code's counters wrap and the claim can fail.

*Argument, windows*. Neither the charge nor the span of the window is inductive alone. When the
window moves, what remains is a suffix: that its charge is right needs the sum over a
list to split at any point (`TotalAdcSplit`, with `ModPlus` for the wrap), and that its
span is right needs the list to be in order of time and no TP of it to be older than
the new start, or the unsigned difference would wrap. So the inductive invariant is

    IInv == TypeOK /\ WellKept(m_current_window, window_length, LastTime)
                   /\ (received = <<>> => tp_list = <<>>)

where `WellKept` says of a window that its charge is the sum, its start the first TP's
time, its TPs ordered and within the length, and none younger than the last TP received
(`LastTime`). The third conjunct lets `configure` change the length while the window is
empty. Each window operation has a lemma (`ResetKeeps`, `AddKeeps`, `EraseKeeps`,
`MoveKeeps`) that says it turns a well kept window into one; `ReceiveKeeps` takes the four
ways through `operator()` and shows in one go that `IInv` is kept and that the step is a
step of `Segmentation`. `NToErase` gives what the loop of `move` counts. The sum of a
list is a recursive function: that it is defined and splits is proved by a least
counterexample (`LeastElement`, `TotalsUpToDefined`), since induction rules with an
operator parameter cannot be used here.

*Argument, completeness of ADCSimpleWindow*. The window is always the end of the stream, as
far back as its start reaches: no TP of the stream that fits the newest time is outside the
window. That needs times to be ordered and the erasure of `move` to stop at the first TP
that fits. A TA is given out when a TP no longer fits, so it is the whole of a window; and a
stretch over threshold lies in the window at its last TP, so that the next TP that does not
fit finds the charge above the threshold, unless the sum wrapped, which `NoActivityMissed`
excludes.

*Argument, TA makers of the factory*. The windows follow the first argument, on `TPWindow`;
the invariant `Inv` also says that the settings have the types of the defaults
(`Configured`), because the length read at a step is the one `configure` wrote. The charge
holds even where PlaneCoincidence keeps a TP twice.

For the discipline and for completeness `StepInv` adds what relates the stream, what is held
and what was given out: both are numbers of the stream, what was given out is older than
what is held and a TA is never empty (`StreamInv`), every TP in a window, of any plane, is the
one of that number in the stream and arrived in that order (`HeldInv`). A call then is one
of two: it *accounts* for its TP and keeps a part of what was held, or gives out all that was
held and the rest starts anew (`Accounts`, `Passes`), and in either case says why a TP was let go
(`NoneDropped`). One lemma for each maker shows this; the step of `Segmentation`, `StreamInv`
and `NothingLost` follow for all of them at once. A TP out of date stays so, because the
stream is in order. Two cases need more. In PlaneCoincidence a TP joins two windows before
they are judged, so that one given out is never empty, and no window is closed by the TP
added to it. In ChannelAdjacency one call may take several tracks out of its window, in a
loop that rebuilds the window each time; the loops are recursive functions here (`remade`,
`rounds`, `passed`), whose values are lists that only ever lose TPs of the window, and a call
with tracks keeps its own TP only.

The prescale: each trigger of ChannelAdjacency costs the window at least one TP, so that
`m_ta_count` and the TPs held together are at most the TPs received (`CountInv`); therefore
the counter cannot wrap while fewer than `CountModulus` TPs have come, and one trigger more
raises the number of TAs exactly when it is a multiple of the prescale (`DivStep`). Beyond the
bound the claim is false for a prescale that does not divide 65536.

*Argument, totals of the TA makers*. `MemberInv` says of each window, those of the planes
included, that its map counts the hits of its TPs per channel modulo the counter's width and
has no channel without a TP. Adding and erasing a TP moves one count by one, so this also
holds for the windows ChannelAdjacency makes anew and for the tracks it takes out. The start of a
TA is that of its first TP or, where the code looks for the earliest, the least
time, which a fold over the list finds (`EarliestOf`); Supernova's extent grows with each TP that
lies beyond it (`SpansMore`). ChannelDistance's bounds are unsigned; that a
bound stays a channel number needs the setting that `configure` wrote last (`BoundsSound`).

*Argument, justification of the TAs*. `TAsJustified` judges a TA by the TPs in it, counted
again, while a maker judges by what it keeps. `ReasonInv` says that each TA given out has a
reason that lasts: where the reason is in the TP behind the TA (a long TP, or one
Supernova's activity is not close to), that TP has come, since the stream grows under it. What is
known before a TA is given out differs from maker to maker:

- HorizontalMuon's window ends with the newest TP, or a trigger was held back by the prescale and the window is
  still over a threshold (`WhyHM`). Its map has no channel without a TP, so what it counts the
  TPs count too, wraps of single counts included.
- ChannelAdjacency's track grows along the sorted list: its channels rise, and the wires it
  leaves out were counted (`RunOfHits`), so that the tolerance and the last gap bound them. A
  track is taken out of what earlier tracks left over (`TracksApart`) and of TPs the window held,
  which were never given out (`ApartInv`).
- MichelElectron asks for a kink: a gradient is known only at a hit that differs in channel and
  in time from the one two before it (`UsableHits`), and a kink needs more than a few of them.
- PlaneCoincidence's track has a hit for each channel it counts (`TrackFitsChannels`), and a
  TP that is in an induction window twice, which the code permits, is there no more than
  twice (`WhyPC`), hence the factor 2 in the property.
- BundleN and Supernova hold the end of the stream (`WhyBundle`, `WhySupernova`), and each TP
  of a ChannelDistance cluster was within the bounds of those before it (`WhyDistance`).

That no TP is in two TAs follows, for all but ChannelAdjacency, from `Segmentation`: its
invariant, proved once, is carried over along the refinement (`SegmentsKeepOrder`).

*Argument, TC makers*. TAs may come late, so a window is sorted on insertion and not a
stretch of the stream in its order. A TA earlier than the window's start never fits it: the
unsigned difference wraps and is too large (`ShortWindow`). So a TA that fits is inserted
behind the first and the start stays that of the first; one that does not fit makes `move`
erase from the front what it does not fit, and the rest, which it fits, spans less than the
length with it (`WindowsKeepTheirSpan`). What a call lets go of therefore does not fit the
new TA, and if all TAs came in order it is out of date for good (`NoTAGoesEarly`; without
order the claim is false, see `candidate_late_ta`). For all ten makers a lemma says which
part of what was held a call keeps (`Takes`), which gives the discipline and
`RepackagersLoseNothing`. The charge is stated for windows that are not empty: Michel's
`clear` leaves a stale one behind, which `reset` overwrites before it is used. `updated` is
what `configure` assigns before it may refuse; `WindowMembers` are the settings a maker with
a window has.

*Argument, totals, justification and readout of the TC makers*. `MemberInv` says of a window
that its map counts, for each channel, the TPs its TAs have there, modulo the counter's
width, and has no channel without a TP there. So a total depends on what was added less
what was erased, a wrap on the way does no harm, and the number of channels, the size of
the map, is right where `CountsFit`. Inserting into the middle of a sorted list and erasing at its front add and
subtract one TA's tally (`TAHits`), whose sums split like those of the charge. A TC is judged
again from its own TAs in `TCsJustified`; what makes them the ones the maker judged is
`ReasonInv`: how many TPs a bundle has, that the count of activities is that of the TAs
received, that Supernova holds only bursts, and that in MichelElectron's window, whose
`clear` does not restore the start time, either the span is right or a single TA stands
under a start that is a window older (`MichelSpan`, needed only in an ordered stream). The
readout of a TC is computed from its first and last TA, which is right because
what is held is in order of the stream (`ReadoutInv`) or, in PlaneCoincidence, because it
takes the least and the greatest. A start before time 0 is one near the end of the clock;
`ReadoutCovers` shows that the unsigned differences still tell what lies in the readout.

*Argument, Triton*. The counter `tries_` counts the calls that failed, so the calls made are
`tries_` or one more, by the phase the thread is in. Until the
first exception `reset()` empties inputs and outputs between two requests, so that what is there
is of this one. After an exception something may stay; what an earlier request left in the
outputs is still not handed over, because at least one output is missing until a result
arrives, and that replaces all of them unless an output has variable dimensions.

*Argument, demonstration*. The TPs the queue accepted are at every moment those of the TCs
written, the TCs queued, the cluster being built, the worker's hands and the queue, in this
order. Each step moves TPs across one border only. The two facts needed are that each hand
is empty outside the steps that hold something (`HandsEmpty`) and that flattening a list of
TCs turns concatenation into concatenation (`FlattenConcat`), again without an induction
rule. For the end of the file (`EndInv`): once `process_on` is cleared the worker comes past
the TC maker at most once more, so a cluster `main` took is the beginning of the worker's
cluster while the worker may still get there, and of the newest TC afterwards; from hand to
hand the newest TC stays that (`NewestKept`). No TC is empty, so that lines, and with them
the counts that either thread may have loaded or stored, are bounded by the TPs.

*Argument, adjacency*. While wires are to come the loop follows a track that begins where
there is no hit on the wire before (`Following`): so no run of consecutive wires crosses
that beginning, and when the track is closed neither a run before it nor one in it is longer
than `max`. The list is sorted, hence the next wire is the one that decides
(`WiresInOrder`). The last comparison is with the first wire, across the end of the unsigned
range: it closes the track unless it is within reach with tolerance left, that is unless the
channels of one list span all but five of the 2^32 numbers. Then the last track would not be
recorded; `ResultIsOfATrack` excludes it, `StrictResultIsLongest` need not.

*Only model-checked*: that the factory's makers miss nothing (`NoActivityMissed`, and `NoCandidateMissed` of the
TC makers), which speaks of every stretch of the stream, not only of the windows the makers
looked at; DBSCAN; and liveness
(`DispatchEnds`, `Termination`), which this prover does not reach.

## 5. What is not modelled

The registration of creators, which runs in static constructors in one thread before
`main`. In the modelled makers: debug dumps and recording of windows to files, the TC
makers' `check_adjacency()`, which nothing calls, and the fields no decision reads. In
DBSCAN: `connectedness` and `latest_core_point`, which nothing reads, `add_point()`, and the cluster index shared by all instances
(`dbscan.cpp:157`), which matters to an application that runs two makers in two threads.
In Triton: what the server statistics say (the calls that wait for them are modelled), the numbers in a tensor, the handlers other than those of
`simple` and `another_model`. The TD maker (stateless), `TriggerObjectOverlay` (a byte
layout: no state and no control), logging and the build.

The rounding of MichelElectron's means and gradients, which are floats in the code and
exact here, can decide a comparison only when the two sides are equal or nearly so.

## 6. Plan

The order is that of importance: windows and the discipline first, since most makers are
built on them.

| | Modules | Properties and theorems | State |
|---|---|---|---|
| P1 | windows, ADCSimpleWindow, `Segmentation` | totals, span, completeness, refinement; proofs | done |
| P2 | HorizontalMuon TA maker, `Adjacency` | prescale, justification, the loop; loop proof | done |
| P3 | `TriggerCandidateFactory` with all TC makers | late TAs, justification, nothing dropped | done |
| P3b | `NaiveTriggerQueue` | conservation, order, the stop, termination | done |
| P4 | `TriggerActivityFactory` with the TA makers | discipline, justification, nothing lost, prescale; the stuck Michel window | done |
| P5 | `TritonClient`, TA maker Triton | tries, separation of requests, termination | done |
| P6 | `IncrementalDBSCAN` | the textbook's clusters, completeness, the ring | done |
| P7 | proofs for Triton, the demonstration, the windows of all makers, the discipline and what is never lost | see section 4 | done |
| P8 | types, totals and justification of the TA and TC makers; readouts of the TC makers | see section 4 | done |
| P9 | completeness of the makers that judge a window, DBSCAN | proofs of what is model-checked | open |

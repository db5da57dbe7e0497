# Formal models of the simulator's concurrent and sequential cores

This directory holds TLA+ models of parts of the repository, the TLC
configurations that check them, and TLAPS proofs about them. Each module is
translated from the source; `PROJECT.json` maps every definition to the lines
it stands for.

## The system and what of it is modelled

The repository is a quantum error correction simulator: a Rust engine
(`src/src`), a web explainer (`js`), a Python package
(`python/stabilizer_qec`) that wraps the engine and ports many published
libraries to it, and tests, tools, data and documents around them. Most of it
is numerical, single-threaded code. What follows is the inventory of the parts
that carry state and control of their own.

| Component | State | Operations | Interacts with | What makes it hard | Correct when | Status |
|---|---|---|---|---|---|---|
| Decoder queue, `realtime.py` 51-388 | tickets, epoch, results, the list of uncollected batches, statistics, counters, futures | `enqueue_syndromes`, `submit`, `get_corrections`, `reset`, `close`, workers' `run`, done callback | thread pool; sessions; callers' threads | operations take several locked blocks; a callback runs on any of three threads; timeouts race results; resets race everything | counters and statistics agree with the batches; each batch is answered once; every call returns | modelled, proved |
| Decoding service, `realtime.py` 436-875 | client lock and broken flag, two byte streams, session loop, one shared queue | `_ask`, `decode_batch` in pieces, `close`, HELLO, `_Session.run`, `handle`, `serve` | decoder queue; threads sharing a client | replies carry no request ids; interrupts; dropped connections; one client's RESET hits others | no request gets another's reply; nothing stays behind; every call ends | modelled (partly), proved |
| Worker pool, `js/pool.js`, `js/compute.js`, `js/worker.js` | job queue, workers, groups, pending calls, cancelled ids | `call`, `callAlone`, `stream`, `cancel`, `#pump`, `#spawn`, messages both ways | page; one worker each | lazy start, exclusive jobs, crashes, cancels racing results, microtasks | every promise settles; exclusive jobs run alone; no cancel is lost; results lose no shots | modelled (partly), proved |
| The worker's jobs, `js/worker.js`, `js/engine.js`, `wasm_*.rs` | the engine's static variables, the job and its rows, cancelled ids | thirteen operations, row by row; cancel messages | pool; engine | a refused call leaves what an earlier row left; a cancel may come late | a row is computed from its own inputs; a job is whole unless cancelled | modelled, proved |
| Circuit editor, `js/editor.js`, `js/crumble-format.js`, `js/sections/editor.js` | layers, markers, coordinates, the shown layer, a half-placed gate | every click and button; the Crumble URL both ways | page | records are named by counting back from where one stands, so each edit renames | lookbacks keep their records; markers flip what they should; a URL reads back | modelled |
| Figures with jobs, `js/sections/*.js` | runs under way, what is drawn, status lines, buttons | load, click, progress, answers, failures, a change of the noise model | pool; recorded results | what comes late belongs to a run that is over; chains of figures that may fail anywhere | a figure that says it is done is whole; failures are said; buttons come back | modelled (partly) |
| Lattices, `js/opener.js`, `js/ambient.js`, `js/patterns.js`, `anatomy`, `syndrome`, `decode`, `spacetime` | a patch with errors, erasures and lying readouts; a heartbeat; a clock | clicks, controls, chains, acts, ticks, resizing | engine on the page's thread | a reader, a heartbeat and a clock change one patch | verdicts are current; what is drawn is on the patch; a mark shows where it is | modelled (partly), proved |
| Threshold fit, `js/compute.js` | a sweep, two fits, replicas | screening, fits, bootstrap, crossings | threshold figure | several criteria look at the same curves in their own ways | a threshold is reported only where curves cross | modelled |
| Lambda fit, `js/lambda-fit.js` | counts, kept points, draws | estimate, draws | hardware figure | points near zero fidelity | draws fit the estimate's points | modelled (partly), proved |
| Resource estimator, `js/estimator.js`, `js/sections/estimator.js` | form, question, distance tried | presets, typing, validation, grid, the walk over distances | page | an early end must be right | the cheapest distance is found | modelled, proved |
| The page, `js/main.js`, `js/nav.js`, `js/sections/parity.js` | what was started, messages, the rail, a plaquette | boot, scroll, resize, clicks | all figures | workers or engine missing | what it says of its parts is so; the rail loses no scroll or resize | modelled, proved |
| Window decoding, `window.rs`, `stream.rs` | the schedule's windows, the layers held, live defects, what was let go | `plan`, `window`, `commit`, `push_layer`, `advance`, `finish`, whole shots | matching decoder | layers are let go as the stream goes; parallel windows commit in phases and reach over their regions | commit regions tile the rounds and stay clean; no released layer is needed again; the stream decodes as the shot does | modelled (partly), proved |
| Threads over shots, `parallel.rs` | ranges, an atomic counter | `parallel`, `try_parallel`, `parallel_dynamic` | every batch decoder | work stealing, rounding of ranges | each item once, results in order | planned: ParallelWork |
| Collection manager, `sinter/_collection` | work per worker, task progress, messages | start, distribute, collect results, stop | worker processes | processes, timeouts, over-collection | every task gets its shots, none twice | planned: SinterCollection |
| Stabilizer tableau, `simulator.rs`, `tableau.rs`, `clifford/` | sign and bit matrices | gates, measurement | circuits | commutation invariants | rows stay a symplectic basis | planned: Tableau |
| Union-find and matching decoders, `decoder.rs`, `sparse/`, `ldpc_uf.rs` | clusters, boundaries, trees | grow, merge, peel | windows, samplers | data-dependent control | the correction explains the syndrome | planned: UnionFind |
| `shared_queue`, `decode_async`, `realtime.py` 340-388 | registry of queues by decoder | lookup, `forget` | garbage collector, fork | finalizers and locks | one live queue per decoder and process | planned |
| Samplers, circuit and model parsers, code constructions, BP, OSD, LSD, relay, search, colour, ambiguity decoders, state-vector, density and coherent simulators, GPU, predecoder, surgery | arrays of bits and floats | pure computations | the above | numbers, not control | agreement with references, as the tests check | not modelled |
| Bindings, plots and markup, CLI, tools, data, report, ports of other libraries, vendored MWPF, Fusion Blossom, HiGHS | | | | I/O, drawing, transliterated code | | not modelled |

Statuses in detail are in `PROJECT.json`, `components`.

## The decoder queue

`DecoderQueue.tla` models class `DecoderQueue` and `AsyncResult`. A batch is its
ticket. An action is one locked block, one operation on a future or the pool, or
one unlocked access to shared state; `pc` says which comes next in each thread.

| Code | Actions |
|---|---|
| `enqueue_syndromes` | `Enter` (reads `_closed` without the lock), `Number` (first locked block), `HandToPool` or `PoolRefuses` (`pool.submit`), `Register` (second locked block), `AddHook` (`add_done_callback`, which runs the callback at once when the future is done) |
| `submit` | the same through the phases `s_...`, then `Claim` |
| `get_corrections` | `PickOldest`, `PickTicket` (first locked block), `Wake` or `TimeOut` (`result.get`), `CheckFailed` (the exception handler's second look), `Collect` (`_collected`) |
| `reset` | `Reset` (the locked block), then `Cancel` for each result it saw, `Drop` (the callback of a cancelled future, on this thread), `EndReset` |
| `close` | `Close`, `ShutDown`, `Join` |
| a worker | `Start`, `Skip` (a cancelled item), `DecodeReturns` or `DecodeRaises`, `Count` (`run`'s locked block), `Settle`, `CallBack` |

Threads are split by what they call (producers, consumers, owners, closers),
because a thread that calls everything in turn adds no interleaving to those of
several threads that call one thing each. The ticket, the predictions and the
times are kept as far as a property looks at them: `clock` ticks when a decode
finishes, which is what the span of the statistics depends on.

`DecoderLedger.tla` is what the queue promises of a batch with none of this
machinery: accepted, begun or dropped, settled, listed, and taken off the list
exactly by an answer, an error, its owner or a reset. `KeepsLedger` says that
`DecoderQueue` implements it, with its progress.

### Runs

| Run | Bounds | Shows |
|---|---|---|
| `queue_safety` | 2 producers, 1 impatient consumer, 1 owner, 2 workers, 2 tickets, 1 reset | `InFlightExact`, `DepthCovers`, `StatsMatchResults`, `ListMatchesResults`, `LeavesSettled` |
| `queue_ledger` | 1 producer, 1 impatient consumer, 1 owner, 2 workers, 2 tickets, 1 reset, fairness | `KeepsLedger` |
| `queue_calls` | 1 producer, 1 patient consumer, 1 owner, 1 closer, 1 worker, 2 tickets, 1 reset, fairness | `CallsReturn`; `SpanEndsAtLastResult` |

Two tickets and two workers are enough for every pair of batches to race on the
lock, on the list and on the statistics; one reset can fall between any two
steps of both batches, and what a second reset could add is the same race with
the epochs shifted. The proofs below remove the bounds for the invariants.
`queue_ledger` has one producer and one collector because the ledger answers a
batch once, and two collectors do not (see below).

### Disagreements between the code and its documentation

Three runs check a sentence of the source's own documentation and find that the
code does otherwise; the lines are under `findings`.

- `queue_two_collectors`: `get_corrections()` picks the oldest batch under the
  lock, waits for it outside and removes it afterwards, so two collecting
  threads are both handed the same batch ("A batch is handed back once").
- `queue_late_error`: the wait times out, the decode then fails, the second look
  finds it failed and removes it: the error is raised to nobody ("A batch whose
  decode raised is collected by raising its error").
- `queue_span`: a worker reads the time its decode ended, waits for the lock and
  writes that time to `_last_finish` without comparing. Of two workers the one
  that finished first may write last, and the span that the throughput is
  divided by ends before the last result ("shots per second over the span from
  the first enqueue to the last result"). With one worker, the default, it does
  end there: `queue_calls` checks it and `SpanOfOneWorker` proves it.

Others were seen while modelling and have a hazard but no run of their own: two
producers can list their batches out of order; a batch enqueued across a reset
survives it; another collector can take a submitted batch before `submit`
removes it from the list; the span can likewise start after the first enqueue,
as two producers read the time before the lock (the model has whether the start
is set, not when); and the latency of a result that is done can still be missing.

### Fairness

`Fairness` is weak fairness of each thread's own steps. The operating system
schedules every runnable thread, a decode ends (the decoders are terminating
computations), and Python's locks are released at the end of each block, so a
step that stays possible is taken. Nothing forces a caller to make a call, a
timeout to pass or a close to happen. Starvation on the lock is excluded
because, with finitely many calls, every other thread eventually stops asking.

## The decoding service

`DecoderService.tla` models the client and the server around the queue. A client
object has a lock and a state (`broken` is `_broken` set and the connection
dropped), a connection is two sequences of frames, a session is where its loop
is. The queue is `DecoderLedger`, instantiated on the service's own requests:
each session's `enqueue_syndromes` is `Accept` (or `Refuse`) and `List`, its
`get_corrections` of that ticket `Answer` or `Fail`, a RESET is `Forget`, and
the pool's `Begin`, `Finish` and `Drop` interleave with everything. The ledger
is what `queue_ledger` shows of the queue for one collector; here each ticket
has one collector, the session that enqueued it, so the disagreement of
`queue_two_collectors` cannot arise.

| Code | Actions |
|---|---|
| `DecoderClient.__init__`, `connect` | `Connect`, `Greeted`, `NotGreeted` |
| `_ask` and the calls on it | `Call`, `Enter` (the lock, the broken check), `Write`, `Read`, `Interrupt` and `Lost` (the exception handler, `Break`) |
| `close` | `SayBye`, `HangUp` |
| `_Session.run` | `ReadFrame`, `EndOfStream`, `IdleOut`, `WriteReply` |
| `_Session.handle` | `Stats`, `Reset`, `Enqueue`, `List`, `LookUp`, `Collect` |
| `serve` ends; the process dies | `Shut`, `Die` |

A frame carries the request it is or answers, which the real frames do not: the
model's actions never look at it except to copy it, and the properties compare
it. All batches have the same shot count, so the client's check of the count
never helps. A part of a frame that an interrupt leaves in the stream is followed
by the end of the stream, which the session treats as no frame; it is left out.

| Run | Bounds | Shows |
|---|---|---|
| `service_shared` | 2 threads on 1 client, 2 calls each, 2 pieces a batch | `InStep`, `OwnPredictions`: no thread ever gets another request's reply |
| `service_apart` | 2 clients with a thread each, 1 call each, fairness | `NothingLeftBehind` while one client resets the other's batch; `CallsAndSessionsEnd` |

Fairness: threads that have begun a call go on, a session takes its next step,
and the queue makes the ledger's progress. Interrupts, idle timeouts, the
server's end and new calls are never forced; in particular no call relies on a
timeout to end.

Two calls of two threads on one client put every call beside every other, with
the first still under way, interrupted, or answered; two pieces are what lets a
call of another thread fall inside a batch. A call each is enough for two
clients, because what one can do to the other is a reset, or the load of the
pool, at some point of a single request.

## The worker pool

`WorkerPool.tla` models the website's pool on both ends of its channels: the
page (`Pool` and a `Compute` per worker) and the workers' message loop. The page
is single-threaded, so its difficulty is in the order of tasks: a message is a
task, the promises it settles run on in microtasks before the next message, and
callers may call or cancel between any two of these. A worker's `phase` on the
page is what `busy`, `ready`, the `jobs` map and `Compute.pending` say of it
together.

| Code | Actions |
|---|---|
| `call`, `callAlone`, `stream` | `Job`, `Stream` (its parts, then its group), each ending in `Pump` |
| `#pump` | the operator `Pump`: which waiting jobs go to which idle workers, and how many workers are started, in one formula instead of the loop |
| `cancel` | `Cancel` |
| `#spawn` and its promise chain | `HandModule`, `MadeReady` |
| `inner.then(...).finally(...)` | `Settle`, `Free` |
| `Promise.all(parts)...finally` | `StreamEnds` |
| `#receive`, `#failAll` | `Receive` |
| the worker's `onmessage` and `stream` | `TakeMessage`, `RunChunk`, `Return`, `Raise`; `Crash` for a worker that ends |

`stream` calls and pumps once per part. That equals pumping once with all parts
in the queue: between two of these calls nothing else runs, a part goes to the
same idle worker, and a worker is started for the same parts.

| Run | Bounds | Shows |
|---|---|---|
| `pool` | 2 workers, the first of which may fail or crash; 3 numbers (a stream of 2 chunks and its parts, or 3 calls); 1 cancel; fairness | `AloneExclusive`, `WaitsForReason`, `CancelNotLost`, `ShotsAddUp`, `EveryCallSettles` |
| `pool_cancel` | the same | a disagreement: `CancelReachesEveryPart` is violated |

Two workers are what exclusive jobs, shared streams and one starting worker
beside one working worker need; the browser's limit is chosen from 1 and 2, so
that a refused start is seen. One worker that fails is enough for a failure to
fall beside work that goes on. Fairness is that of the event loops: microtasks
and messages are processed, a run goes on, and compiling the module settles. A
worker that the browser ends without an `error` event would leave its call
pending, as the code has no timeout; the model assumes that the event fires.

`pool_cancel`: `pool.js:173` says "cancelling the returned promise's id stops
every part", but once a part has failed the group is forgotten, and the other
parts can no longer be stopped.

## Window decoding

`WindowStream.tla` models a stream of rounds decoded window by window, and the
decoder of whole shots over the same windows. Both are sequential; what is hard
is that windows overlap, that their corrections cross the edges of the regions
they commit, and that the stream forgets layers as it goes.

| Code | Definitions |
|---|---|
| `plan` | `Sliding`, `Parallel`, `Gaps` (the loops as formulas: the i-th window starts at a multiple of the commit, or of the period) |
| `Model::window` | `WindowEdges`: an edge that leaves the window stays, cut at a virtual boundary, or goes |
| `dependencies`, `StreamDecoder::plan` | `Dependencies`, `ReadyLayers`, `Order` (by `Sorted`, the sort by key), `Keep` (the suffix minimum) |
| `Stream::push_layer` | `Push` |
| `Stream::advance`, `decode_window` | `Decode`, once for each turn of the loop; `Push` waits until the loop has stopped |
| a decoder that declines | `Decline`: the error leaves `advance`, and the callers give the stream up |
| `Stream::finish` | `Finished` and what `RegionsStayClean` says of it |
| `WindowDecoder::commit`, `decode_with` | `Committed`, `Ends`, `DecodeShot` |

The matching decoder is not modelled: `Decode` tries every set of the window's
edges that explains its defects, so the properties hold whatever correction the
matcher prefers; every detector has an edge to the boundary, so there is one. The whole-shot decoder is given the answer the stream got, and
`StreamDecodesTheShot` says that it asks the same question, which is what makes
this legitimate: the matcher is a function of the window's defects.

| Run | Bounds | Shows |
|---|---|---|
| `window_stream` | eleven schedules of 3 to 7 layers, one detector a layer, edges of up to 2 layers | `RegionsStayClean`, `CommittedOnce`, `HoldsWhatItNeeds` (no layer is let go too early, none is kept too long), `StreamDecodesTheShot` |

The schedules have a commit of one and two layers, with and without a buffer, a
window longer than the stream, a last window of every size, and one, two and
three parallel windows of the first phase with the gaps between and after them.
With three (7 layers) the first gap has all it waits for before the third window
has its layers, so the stream decodes a gap between windows of the first phase
and its order is not that of the phases; with fewer the two orders agree. A
fourth would repeat this at the next gap. `ScheduleAssumption` names what the code supposes of the model:
an edge out of a parallel window's commit region ends in the gap beside it, so
it spans no more than twice the buffer. A model with longer edges is accepted
by the code, and its regions then need not stay clean. One detector a layer
loses no case, since edges within a layer never cross a region.

## The circuit editor

`CircuitEditor.tla` models the editor's model, the clicks and buttons that change
it, and the Crumble URL it is written to and read from. Detectors, observables and
feedback name a measurement by counting back (`rec[-k]`), so an edit anywhere
before them changes how they must be written. The model gives each record an id
and each lookback the id it was written for. No definition looks at an id; the
properties do.

| Code | Definitions |
|---|---|
| `recordsMade`, `_recordStarts` | `RecordIds`, `Start` |
| `_recordRefs`, `_rewriteRecordRefs` | `Absolute`, `Relative`, `Rewritten` |
| `removeOn`, `place`, `deleteLayer` | `RemoveOn`, `Place`, `DeleteLayer` |
| `propagate`, `annotationsOf` | `Flips`, `DetFlips`, `ObsFlipped` |
| `circuitOf`, `layersOf`, `toCrumbleUrl`, `parseCrumbleUrl`, `stripMarkTicks`, `fromCrumbleUrl` | `CircuitOf`, `LayersOf`, `ToCrumbleUrl`, `ParsedOps` and `ParsedMarks`, `StripMarkTicks`, `FromCrumbleUrl` |
| the section's clicks, buttons and loads | `Erase`, `PlaceOne`, `FirstOfPair`, `SecondOfPair`, `ToggleMarker`, `Annotate`, `LetGo`, `AddLayer`, `DelLayer`, `AddQubit`, `ClearMarks`, `LoadText`, `LoadUrl`, `Pick` |

`FlipsAreRegions` compares the code's forward propagation with a reference that
the code does not have: what reaches a detector's records, followed backwards from
the end. They are written apart, so a rule for a gate, a pair, a product, a reset or
feedback that is wrong in one of them shows.

| Run | Bounds | Shows |
|---|---|---|
| `page`, editor | two circuits on two qubits with feedback, pair and product measurements, a URL with marks in every place, two edits, three layers | `NamesItsRecord`, `EditsKeepNames`, `FlipsAreRegions`, `UrlReadsBack` |

Two edits on these circuits reach every rule of rewriting: a record lost before,
in and after the operation that names it, joins of an operation, a layer
inserted or deleted, and the reading of a URL in between (which is not bounded).
The editor is a part of the run `page` (below), with which it shares no state.
Nothing here runs at once, so there is no fairness.

One disagreement has no run: `site-tests.mjs:639` reads a circuit with a marker
back as it was, but a marker on an empty last layer comes back on the layer before
(`editor.js:344`). `UrlReadsBack` leaves this case out by name.

## The page

The website's parts share no state, so `MCPage.tla` puts them side by side in one
specification in which a behaviour is that of one part; the others stay as they
were before their start. This is the run `page`.

### Figures with jobs: `PageFigures.tla`

Thirteen figures are run by asynchronous functions. Between two awaits a function
runs in one step, and an await is a stage: a fetch, jobs sent at once with
`Promise.all`, a call, jobs sent one after another, or a timer. A figure is then a
table: what each function awaits, what becomes of a failure there and of an
exception in the code after it, what a job's progress draws, and what the chain
around the functions does with a rejected promise. The tables are the
definitions `VitalsFigure` to `Xcheck`, one to a file of `js/sections`; the actions are
common to all.

| Code | Actions |
|---|---|
| a section nears the view; a button | `Near`, `Click`, `ClickMore`, `Stop` |
| the noise model's control | `ChangeNoise` |
| an await goes on, or fails | `Fetched`, `Fire`, `Back`; `Unavailable`, `Cut` |
| a job's progress callback | `Tell` |

`Promise.all` fails with the first job that does and forgets the rest, which go on
reporting: `Tell` and `Back` happen for runs that are over. `DoneIsWhole` says
that a figure that says it is done draws all of its latest run and nothing of an
earlier one. It leaves out sweep, bench and channel once a run has failed with
jobs still out or the noise model has changed under it (`disturbed`): there, late
jobs do draw on, and nothing in the code stops them. Fairness is that every job
reports and is answered, which is `EveryCallSettles` of the pool, that a fetch ends and that a
timer fires.

### Lattices: `LatticeFigures.tla`

The opener and four sections have a patch of the engine on the page's own thread.
The patch is the code's: its qubits and checks, which check sees which error in
either code, detection events between rounds, erasures and lying readouts. A
decoder's answer is abstract: the marks it was computed for and who computed it,
so that `VerdictIsCurrent` can say that what is on show is of these marks. The
actions are the clicks and controls (`PickQubit`, `PickCheck`, `Run`,
`SelectDecoder`, `Clear`, `LongChain`, `Scatter`, `PickSyndrome`, `Chain`,
`Rebuild`), the heartbeats of `ambient.js` (`Hover`, `BeatBegins`, `BeatGoesOn`)
and the opener's clock (`Tick`, `Faded`, `Turn`, `Resize`).

Two things the code's own words promise and the model does not show. `ambient.js`
says that after a touch "the figure is theirs", but an act in progress goes on and
clears what the reader did; `VerdictIsCurrent` leaves that case out (`swept`). The
syndrome figure says that "exactly two defects appear" for a chain, which at
distance three holds only by luck of the place; `ClicksShow` asks for it above three.

### The worker's jobs: `EngineJobs.tla`

The engine keeps what it was given last in static variables, and a call that
refuses its input leaves them. The model names each static by the job and row it
was made from. An operation's action says which statics its calls set, read and
leave when one of them raises, and `OwnInputs` that no report is computed from
another's. It is proved for every number of jobs and rows, see below. The cancel of a streamed run arrives at an await of whatever job is
then running; `WholeUnlessCancelled` says that it ends no run but its own.
`Take`, `Ask`, `Hear` and `Engine` are the message loop; the other actions are the
entries of `OPS`.

### Fits: `ThresholdFit.tla`, `LambdaFit.tla`

`ThresholdFit` keeps of a sweep the rates and which of its points exist, and of a
fit what the decisions look at. `SweepRefused` is every reason for which no threshold is
reported, `Crossings` what is listed beside one, and `ReportedCrosses` ties the two
together: a whole sweep for which a threshold is reported shows a crossing of
its smallest and largest patch. It does not hold of sweeps with lost points, nor
with ties, for reasons in the code that have no run:

- the bracket check is skipped where fewer than two rates have two distances
  (`compute.js:450` against 434-441);
- replicas of a corrected fit need two distances only (`compute.js:535`), where
  "Four is the minimum" (487-493);
- equal rates at a shared rate hide a crossing (206-215);
- the local search is not held within the swept rates.

`LambdaFit` keeps of a count how clear of zero its fidelity is, which is what
decides what is fitted. `DrawsUseItsPoints` is the sentence "decided once,
from the observed counts" of its comment, up to what the comment forgets: a
kept point whose draw has no logarithm is dropped from that draw (`p.F > 0`).

### The estimator: `ResourceEstimate.tla`

An estimate is a walk over the odd distances that ends at the first that meets
the budget, or early, where no larger one can. The model counts time in cycles
and error rates in one unit, and keeps both models, the factories, the storage, the
reader's form, the cases of the validation (`Cases`) and the grid. `CheapestDistance`
says that what is shown is the smallest distance there is, and that an early
end is right. It is proved, see below.

### Boot, rail and plaquette: `PageShell.tla`

`Boot` and `Arrives` are `main.js`: what is started at once, with workers, and with
the engine, and what is said where they are missing. `Scrolls` and `Frame` are the
rail, `Plaquette` every click on the four qubits. `ShellInStep` is that what the
page says of its parts is so, that the plaquette fires on odd patterns, and that the
rail follows the reader.

The page's layout is a variable. It may change with every action that touches the
document: the boot, whose error is shown above every section, the plaquette's text, and
any section that fills its host (`Fills`). `nav.js` listens to scrolls and resizes
alone, so the rail does not hear of it, unless the page has become too short for its
place and the browser scrolls it (`Flows`). `RailFollowsReader`, the rail's part of
`ShellInStep`, is therefore about events: with no frame asked for, the mark is that
of the window's present place and height in the layout that `update()` last read
(`read`, an auxiliary variable). The mark of the present layout is not promised, and
the code does not keep it: the comment in `nav.js:4`, "Marks the section nearest the
top of the viewport as current", does not hold of a page that was laid out anew
after `update()` ran, whose mark stays stale until the next scroll or resize. That
has no run of its own: it takes one step of the model, `Fills` with other tops. A
browser that scrolls along to keep what is read in place is covered: that is a
change of layout and then a scroll.

| Run | Bounds | Shows |
|---|---|---|
| `page`, figures | 13 figures, 2 jobs to a map, 2 clicks, 1 change of the noise | `DoneIsWhole`, `FailuresAreSaid`, `LiveRunsAnyway`, `ButtonsComeBack` |
| lattices | distances 3 and 5, 3 rounds, 2 decoders, marks within reach 3 (4 qubits), 2 marks, 2 pending errors | `VerdictIsCurrent`, `OpenerInStep`, `ClicksShow` |
| worker | 13 operations, 2 jobs, 2 rows, 2 configurations | `OwnInputs`, `WholeUnlessCancelled` |
| fits | 3 distances and 3 rates with up to 3 points lost; 5 experiments at 2 distances, 1 lost, 1 draw | `ReportedCrosses`; `DrawsUseItsPoints` |
| estimator | distances to 9, two algorithms and a custom one, two noises, two budgets, all settings | `CheapestDistance` |
| page | 3 sections in 3 layouts, 2 window heights, 4 qubits | `ShellInStep` |

Two runs of a figure are what a late answer needs; two jobs are what a failure
beside an answer needs. Two marks on four qubits around one inner check make
errors and lies cancel, stack and move; distance 5 is there for interiors. Two jobs
with two rows put every operation after every other, in each state that the first
may leave. The fits' limits (8 points, 4 distances, 400 draws) are constants and
are set lower, so that each side of each is reached. Thresholds of three distances
have a middle one, which is what a pairwise crossing and the extremes can disagree about.

## Proofs

`DecoderQueueProofs.tla` proves, for any number of
callers, workers, tickets and resets, that `DecoderQueue`'s specification implies

| Theorem | Property |
|---|---|
| `TypeCorrect` | `TypeOK` |
| `CounterExact` | `InFlightExact`: `_in_flight` is what the tickets say it is |
| `ListExact` | `ListMatchesResults`: every result has its place in the list of uncollected batches, once |
| `StatsExact` | `StatsMatchResults`: each decoded batch of the current epoch is counted once, none of an earlier one is |
| `DepthIsCovered` | `DepthCovers`: `queue_depth_max` is never below the number of batches of this epoch in flight |
| `SpanOfOneWorker` | `SpanEndsAtLastResult`, with one worker: the span that rates are divided by ends at the latest finish of the batches counted |
| `SettledWhenCollected` | `LeavesSettled`: a timeout or an interruption takes no batch off the list |
| `LedgerKept` | `Ledger!Spec`, the safety part of `KeepsLedger`, with one collecting thread |
| `OnceForOneCollector` | `HandedBackOnce`, with one collecting thread |

None of them is inductive as it stands. The counter is decremented by the callback of a
future, so its value depends on where each batch is between a caller's two
locked blocks, the pool, and three kinds of threads that may run the callback.
The proof therefore carries `Inv`, the conjunction of

- `TypeOK`;
- `Ownership`: a batch has at most one worker, at most one producer still
  enqueuing it and at most one reset running its callback; each waits in the
  pool's queue at most once; and the states of its future and of its callback
  follow from where its holder stands;
- `ListOK`: list and results agree, no ticket is listed twice, and a batch that its
  producer has not registered yet is in neither;
- `CounterOK`: `_in_flight` is the number of tickets given out and not counted out.

`Ownership` is what makes the other two preservable: a worker's callback counts a
batch out exactly once because no other thread can run the callback of the same
future, and a producer registers a batch that nobody has listed because nobody
else has its ticket. `Inv` is preserved one action at a time, by one lemma per
conjunct (`WorkersStep` to `OwnersStep`, `LiveStep`, `ListStep`,
`QueueTypesStep`, `PoolTypesStep`, `CallTypesStep`). `StatsOK` (the statistics'
invariant, with what is counted at each position of a worker) is preserved given
`Inv`, and `DepthCovers` and `SpanOK` given both. `SpanOK` is for one worker: a
finish is later than all before it (`Ended`), and what waits to be counted is no
earlier than what is counted (`CountsInOrder`), which a second worker breaks.

The ledger needs what the callers hold between two locked blocks. A batch is out
when its producer has let go of it (`Out`); it gets out by one of two steps and
stays out (`OutStep`), and what is out and not listed is never listed again
(`StaysGone`). `Held` says that a collector works on a batch that is out and that
ended as the collector believes, and that all a reset still has to cancel is out and
off the list. That gives `LeavesSettled`, with any number of collectors. With one,
`GivenOK` is an invariant too: nobody has a batch whose predictions were returned.
`StepMaps` then maps each step: what moves a future (`FutureMaps`), a producer that
lets go (`OutMaps`), predictions returned (`AnswerMaps`), and a batch that leaves the
list otherwise (`UnlistedMaps`); any other step stutters. The assumption of a single
collector is that of the theorem alone, and is needed: `queue_two_collectors` has
two, and the ledger's answer happens twice.

The assumptions are the two that `DecoderQueue.tla` declares: the threads are
divided by what they call (`CastAssumption`), and the bounds are naturals
(`BoundAssumption`). The bounds occur in guards only, but make the set of tickets
finite, which a cardinality needs.

`DecoderServiceProofs.tla` proves, for any clients, threads, calls and pieces,
that `DecoderService`'s specification implies

| Theorem | Property |
|---|---|
| `TypeCorrect` | `TypeOK` |
| `ConnectionsInStep` | `InStep` |
| `PredictionsAreOwn` | `OwnPredictions`: no call is ever handed another request's predictions |
| `QueueKeepsNothing` | `NothingLeftBehind` |

Frames carry no identifiers, so that the reply a thread reads is its own follows
from there being only one. `InStep` says so, but to be preserved it needs to know
who can write and read: `Turns` says that a thread is in the client's lock exactly
while it writes or reads, and that nobody does on a client that is greeting,
broken or (reading) closed. `Greeting` says that HELLO is the first frame of a
connection and never on its way again: without it a RESET, whose client does not
look at the kind of the reply, could take HELLO for its answer. `Positions` ties
the counters of a call to where it is. `Inv` is the conjunction of all of these
with `TypeOK`, `InStep` and `OwnPredictions`. `NothingLeftBehind` needs `Inv` and that
a dropped batch is off the list (`DroppedIsGone`). The assumptions are those that
`DecoderService.tla` declares: each thread uses one client, nobody is `NoThread`, and a
batch has at least one piece. The proof uses the ledger's actions, not the
queue's: that the queue behaves as the ledger is what `queue_ledger` checks.

`EstimateProofs.tla` proves, for any error rates, factories, algorithms
and measured latencies, that `ResourceEstimate`'s specification implies

| Theorem | Property |
|---|---|
| `EstimatorTypeCorrect` | `TypeOK`: each form, each case of the validation and each cell of the grid asks what the model is defined for |
| `CheapestDistanceFound` | `CheapestDistance` |

The invariant is `TypeOK`, `CheapestDistance` and `NoneBefore`: while the walk goes on, no
smaller odd distance met the budget. Where the walk ends early the argument is
`HopelessForGood`: the cycles of a run rise with the distance (`CyclesRise`, from
`LatencyRises` and the schedule's `d` per step), so what storage and magic states
take of the budget rises as well (`SharesRise`), and what was too much stays so. The
assumptions are `DataAssumption`, the types of the data, and `LatencyRises`. The
latter is a real one: `latencyAt` makes the measured latencies rise, but where the
power law takes over it is not held above them, so it needs data in which the law
at the first distance beyond is not below the largest measurement.

`WorkerPoolProofs.tla` proves, for any number of workers, calls, shots and cancels,
and whichever workers may fail, that `WorkerPool`'s specification implies

| Theorem | Property |
|---|---|
| `AloneMeansAlone` | `AloneExclusive` |
| `CancelsArrive` | `CancelNotLost` |
| `WaitingHasAReason` | `WaitsForReason` |
| `ShotsAreAddedUp` | `ShotsAddUp` |

The first rests on `Inv`. `Exclusive` is the page's half: while a job that asked for
the machine is held, from when it is given out until the `finally`, the flag is
up and no other worker is at work or starting. It is preserved because `#pump`
gives out nothing while the flag is up, and gives out such a job only when nobody
is busy, and then nothing else (`PumpGivesOut`). `Channels` is the worker's half: a
worker that lives has at most one thing, a message of work on its way, a job or an
answer on its way, and none unless the page waits for it; so a worker that the page
sees as idle runs nothing. `Placed` and `Waits` say that what is held and what
waits was called. The second rests on `Inv` and `Links`: a job waits once (`Distinct`)
and is marked if it was cancelled (`Marked`); a living worker that was given a job
has that job or its message (`Own`), and a cancel of it that arrived is in the
worker's set or behind the job's message, never before it (`Follows`); a worker
known to be dead does not live (`Silent`). The assumption is `PoolAssumption`, the
types of the bounds.

`WaitsForReason` looks at the moments between two microtasks, and `Reasons` is what
remains true of the queue between one `#pump` and the next. The proof follows the
loop of `#pump`: whoever idles is given a job in turn (`FirstAndLast`), and what
is left over starts as many workers as the browser allows (`WillStartAtMost`).
`size` falls when a start is refused, so the invariant needs `started <= size`.

`ShotsAddUp` relates the page's sum to what each worker counted. `Told` says what
every message on its way to the page may claim: progress comes before the answer,
an answer repeats the last progress, and an answer that does not say stopped
reports all of its part's runs. `Bidden` says that only ids the page asked to stop
are ever told to a worker, which is why stopped parts were asked. `Once` makes the ids
of calls, held jobs and queued jobs distinct, so that no message is counted for
another call. `Grouped` is the arithmetic: `shares` gives each part the quotient,
and the first parts one more, so that the parts' runs are the stream's. The sums are over
sets: `Total` is shown to exist and to add one element at a time (`EverySubset`: what
holds of a set when it holds of its proper subsets holds of every finite set), and
`MapThenSumSet` to be this sum.

The other parts of the page are proved for every value of their constants as well.

| Module | Theorem | Property |
|---|---|---|
| `EngineJobsProofs` | `TypeCorrect`, `ReportsOwnInputs`, `DoneIsWholeOrCancelled` | `TypeOK`, `OwnInputs`, `WholeUnlessCancelled` |
| `EstimateProofs` | `IntervalsUseItsPoints`, `ReportsWhatCrosses` | `DrawsUseItsPoints`, `ReportedCrosses` |
| `PageProofs` | `VerdictsAreCurrent`, `OpenerDrawsItsPatch`, `ClicksAreShown`, `ShellSaysWhatIs` | `VerdictIsCurrent`, `OpenerInStep`, `ClicksShow`, `ShellInStep` |
| `FigureProofs` | `DoneFiguresAreWhole`, `FailedFiguresSayIt`; `FiguresAgree` | `DoneIsWhole`, `FailuresAreSaid`; their invariant |

`OwnInputs` looks at reports only, so the worker's invariant says where a job can stand and
what that place may rely on: in the batches of an experiment its static is the one
this job set up (`InPlace`), and what a hardware row has decoded with is of this row
(`FromRow`). That a stream ends early only for its own cancel needs that
`cancelled` holds heard ids and nothing of what is to come (`CancelsHeard`), and
that the job under way is the next to end (`UnderWay`). The lemmas `Finishing`, `Advancing`,
`Going` and `Raising` are the ways in which a step leaves the job; each operation
then shows that its calls leave the statics its reports name. The assumption is
`JobsAssumption`: bounds are naturals and operations are those of `OPS`.

`DrawsUseItsPoints` rests on `LambdaMonotone`: what fewer points fit is no
more than what all of them fit, a statement about cardinalities of finite sets.
The assumption is that there are finitely many experiments.

`ReportedCrosses` holds because two readings of one sweep agree. The bracket check looks
at the signs of the gap between the smallest and the largest patch, rate by rate: below zero
somewhere and above zero later. The crossings look at neighbouring rates. `GapTurns` closes the
distance between the two: of the rates where the gap is above zero after the first where it is
below, take the least, and of those below zero before that one the greatest; where no gap
is zero, no rate lies between. `BracketsCross` then reads this off `Crossings`. The
invariant has that a sweep that is fitted was bracketed, with two distances or more.
The assumption is `SweepAssumption`: finitely many distances and two rates or more,
as `DISTANCES` and `SWEEP_PS` of `js/sweep-config.js` list them. With one rate the
bracket check asks nothing, and a threshold could be reported with no crossing.

A verdict outlives the marks it was given for only if something changes the patch
without resetting it, and only heartbeats do. The invariant says that a figure
with a verdict has been touched, so that no act begins under it, and an act in
progress sets `swept` as it goes on.

`OpenerInStep` says that errors are the parity of what is drawn. Its invariant adds
that every hit that is drawn lies on the patch (`InStep`), which resizing has to
restore, and that no heartbeat acts on the opener. One more hit toggles its errors in
the session and in the parity alike (`OddWithOneMore`). A tick adds its hits by a
fold; there are two at most, so that the fold can be written out (`SomeFolds`). The
assumption is `NoiseAssumption`: the noise is made of X, Y and Z.

`ClicksShow` has two halves, and its invariant (`ClicksInv`) says that every figure's
session is a patch (`Patch`): errors on its qubits, lies on its checks, all in its rounds.
Two patches of one size that differ in one mark read apart where `LieFlips` and `ErrorFlips`
say, and `EventsBetween` turns that into the events that move: an error is there from its
round on, so that only the round it comes in shows it. That an error shows at all is
geometry (`SomeCheckSees`): each qubit of the patch, a corner too, touches a check
that sees either kind, in both geometries. The other half is `ChainShowsTwo`: an X chain
on the first axis and a Z chain on the second leave the patch room for the checks at both
ends, and each check between lies beside two of their qubits; `Grown` takes the second
axis only when the first fails to show two, which an X chain never does. Checks and qubits
are written as halves of their coordinates (`CheckAt`, `QubitAt`), which leaves the provers
linear arithmetic and parities. `ClicksInv` was first checked by TLC for distances up to six.
The assumption is `PatchAssumption`: distances of two or more and a round or more, as the
page's controls and the opener's `distanceFor` have them.

`ShellInStep` says of the plaquette that half of all patterns look alike. The proof is
`TwinsAreHalf`: toggling one qubit is a bijection between the even and the odd
patterns (`FlipsParity`). Of boot the invariant says which parts each message leaves out
(`Started`), and of the rail that a mark which is not of this place and height, in the layout last
read, has a frame under way. The
assumption is `QubitsAssumption`: a plaquette has a qubit, and finitely many.

`DoneIsWhole` and `FailuresAreSaid` look at figures that are at rest, so their invariant
(`FiguresInv`) is about runs under way. Functions are called in turn, and a button has
one run going at a time (`InTurn`). What a run awaited before its stage is back, and
everything it sent once it has ended, unless a job of it failed (`Kept`). What is drawn are
jobs of runs (`OnShow`), and of a run under way whose answers are put as they come,
every answer that is there (`Drawn`): when the last comes in, the drawing is whole.
`Finished` is `DoneIsWhole` with a run named: the line's last word is that of the figure's
newest run, which has ended, and what else is drawn later is not of this figure.
`Spoken` says of the sections with recorded figures that each run that has ended left its
word and called the next. The tables enter through one lemma (`FunctionsAre`): what all
functions have in common (`Sound`), what holds of clicked figures, of the comparison and
of the recorded sections (`Apart`), and that functions of a figure write lines of their own
(`Lines`), save for the two of `xcheck`. Everything after it is about any table with these
properties: a job's move is one lemma (`JobKeeps`), whether it tells, answers or fails,
a function that goes on is another (`ComesKeeps`), and the clicks are what remains. The
exemption of the disturbed figures (`Excused`) is needed where a run that has failed
still draws; all other parts of the invariant hold there as well. The assumption is
`FiguresAssumption`: the figures are those of the page, and a map has a job.

`WindowStreamProofs.tla` proves, for any schedules of either mode, any number of
layers, any reach of the edges, any shot and any corrections, that `WindowStream`'s
specification implies

| Theorem | Property |
|---|---|
| `StreamInvariant` | `Inv`, below |
| `RegionsAreClean` | `RegionsStayClean` |
| `EdgesAreCommittedOnce` | `CommittedOnce` |
| `HeldWhileItIsNeeded` | `HoldsWhatItNeeds` |
| `StreamDecodesAsTheShot` | `StreamDecodesTheShot` |

The proof has two halves. The first is about plans, without any state. `Sorted` lists
a finite set in the order of a strict total order, each element once (`InOrder`); the
keys that the stream sorts by are such an order because no two windows commit from the
same layer. A plan is sound (`SoundPlan`) when its windows fit the stream and none
waits for layers more than `Slack` beyond its first (`Typed`); their commit regions
cover every layer (`Covered`); no window touches the region of one decoded
before it (`CleanAfter`); and of any two windows, either both decoders take them in the
same order or neither reads what the other toggles (`SameOrder`). `SlidingSound` shows
this from windows that start where the last region ended. `ParallelSound` shows it from
the figures of a window of the first phase (`MainFigures`), of a gap (`GapFigures`) and
the distance of their starts (`StartsRow`); it is here that `Reach <= 2 * buffer` is used,
and that a gap waits for the windows on both its sides.

The second half is the inductive invariant. No property follows from the states that it
mentions alone: that a decoded region stays clean needs to know what the window at hand may
commit, and that the two decoders agree needs the history of both. `Inv` says that

- the stream keeps pace: it waits for what the next window is due, and what it decoded was
  (`PaceInv`);
- decoded regions are clean (`CleanInv`), and the edges picked for a window have an
  end in its region, lie within `Reach` of it, and are none before it is decoded
  (`PickedInv`);
- `base` is the first layer that a window to come reads (`BaseInv`);
- a layer is live exactly if the shot has a defect there, toggled once by each
  decoded window whose correction flips it (`LiveInv`, with `Flipped` a parity); what a window
  saw is the same formula over the windows before it in the stream's order (`SeenInv`),
  and what the whole-shot decoder has is the same over those before it in order of phases
  (`ShotInv`).

`StreamDecodesTheShot` is then a statement about two parities: `SameOrder` makes the
windows that flip a layer that `w` reads the same in both prefixes. `CommittedOnce` follows
from `PickedInv` and `CleanAfter`, since an edge with an end in two regions would touch one
from the other. The assumptions are the two that `WindowStream.tla` declares:
`ScheduleAssumption`, the schedules that `check_schedule` lets through with the
condition on `Reach` discussed under Window decoding, and `ReachAssumption`. Each part of `Inv` was
first checked by TLC on the schedules of `window_stream`.

What is only model-checked: every liveness property, which needs `ENABLED`, and so
the progress that `KeepsLedger` asks for; and the four properties of the editor.
The editor is built on folds over sequences of sequences. What a recursive definition computes
for every input is an induction over data, for which the library's theorems cannot be
used here; where a proof above needs one, over the sums of a stream's shots, it goes
by a minimal counterexample among the subsets of a finite set instead.

## Not modelled

The numerical parts (samplers, decoders as algorithms, simulators) are not
modelled: they are pure functions over floating-point or bit arrays, which the
repository's tests compare with references, and TLC could only repeat a test.
Parsers, bindings, plots, markup, the command line, tools and data are input and
output. The ports of published libraries and the vendored code follow sources
that are not here.

Within the modelled parts: the methods of `AsyncResult` that only
look, the service's frame encoding and its framing errors, streams
built from a shorter template, the pool's `map`, `table` and `sweep`, the editor's
SPP gates, heralds and REPEAT blocks, and the figures that only draw are left out.

Hazards that were seen and that no module covers: the registry of shared queues
after a fork (`realtime.py:366`) and its finalizer inside its own lock
(`realtime.py:357`); the times of a result being recorded after its waiters wake
(`realtime.py:247`); a dead worker that stays in the pool and rejects what it is
handed (`pool.js:97`), which loses a call where another worker would have answered
it, although the call does settle; and a stream's window decoded with the graph of
a template's (`stream.rs:241`).

## Plan

Done: `DecoderLedger`, `DecoderQueue`, its proofs and that it keeps the ledger; `DecoderService` and its
proofs; `WorkerPool` and its proofs; `WindowStream` and its proofs; `CircuitEditor`; the page's other parts;
the proofs of the estimator, the worker's jobs, the two fits, the lattices, the figures and the shell.

What is left, in order:

1. `WindowTemplate`: `StreamDecoder::from_program` and the template's windows, and
   that a stream window has its template window's graph; it composes with
   `WindowStream`.
2. `SinterCollection`: the collection manager, its workers and messages.
3. `ParallelWork`: ranges and the shared counter of `parallel.rs`, small enough to
   be proved for every number of threads.
4. `shared_queue`: the registry, finalizers and `forget`, composed with the ledger.
5. `Tableau` and `UnionFind`: the sequential cores, as state machines with an
   invariant (rows stay a symplectic basis; a cluster's parity is its defects').
6. Proofs: the editor's `NamesItsRecord`.

# PNG-Analyzer: a verification project in TLA+

PNG-Analyzer opens a PNG or APNG file, indexes it, decodes it step by step and
shows every stage of the decoding. What makes it hard is of two kinds. Around
its libraries: a worker pool, replays that outlive the document that asked for
them, one QThread per task whose signals arrive late, a cache that resumes a
composition half way. In its libraries: decoders and indexes with budgets,
cancellation and damaged inputs, that must tell exactly what the file holds, or
say how far they got. This directory models both, checks them with TLC on
small instances, and proves the safety of the first with TLAPS for every size.

## 1. Inventory

Directories are relative to `src/`. The last column names the modules.

| component | where | state it keeps | operations | modules |
|---|---|---|---|---|
| job scheduler | `libs/analysis-engine/src/job_scheduler.cpp` | queue, reservations, generation, workers | submit, cancel, setGeneration, shutdown, the worker loop, the result sink | JobService, JobScheduler |
| query coordinator | `.../query_coordinator.cpp`, `scanline_anchor.cpp` | source, stream, anchors, row states and bytes | open (static, target), query_scanline, setDocumentGeneration, replay, sink | QueryCoordinator |
| trace orchestrator | `.../trace_orchestrator.cpp` | stream, completed queries, generation | open (2), submit, cancel, setDocumentGeneration, replay, onJobResult | TraceOrchestrator |
| frame inspection session | `apps/png-analyzer-gui/src/frame_inspection_session.cpp`, `libs/trace-model/src/inspection_context.cpp` | ticket, target, bounded queue, in-flight entries | openFrame, request analysis / statistics, selectTarget, clear, pump, completion | FrameInspectionSession |
| document session | `.../document_session.cpp`, workers | generation, one worker pointer and one result per task | replace, close, start workers, chunk detail, statistics, result and finished handlers | DocumentSession |
| animation controller, playback | `.../animation_controller.cpp`, `animation_worker.cpp`, `libs/analysis-engine/src/animation_playback.cpp` | selection, stage, serials, timer, playback clock, worker | setDocument, close, select frame / stage / fallback, play, pause, tick, results | AnimationController, AnimationPlayback |
| animation replay, canvas composition | `.../animation_replay.cpp`, `libs/png-reconstruction/src/canvas_composition.cpp` | LRU of images | materialize, cache, blend, dispose | AnimationReplay |
| trace controller, trace inspector state | `.../trace_controller.cpp`, `libs/analysis-engine/src/trace_inspector_state.cpp`, `ui/qt` binding | frame target, handle, pending coordinate, interval, page state | replace, clear, setFrameContext, request, result | TraceController |
| selection and navigation | `.../selection_navigation_controller.cpp`, `ui/qt` selection bus | identity, locked coordinate, hex source | lock, hover, route, ask for traces | SelectionNavigation |
| statistics controller | `.../statistics_controller.cpp` | one collection, one scan, the page | request, progress, occurrence scans, export | StatisticsController |
| main window | `.../main_window.cpp` | which controller hears what, in which order | documents, frames, results | Gui |
| token decoder, zlib wrapper | `libs/deflate-trace` | decoder, LZ ring | rich decode, scan with an observer | HuffmanCode, TokenDecoder |
| block index, access points, session index | `libs/deflate-index` | inflater at a boundary | scan, build, extract | DeflateIndex |
| persistent index cache | `libs/deflate-index/src/index_cache.cpp` | files | load, store, serialize | IndexCodec, IndexCache |
| artifact store | `.../artifact_store.cpp` | LRU with pins | put, get, pin, erase | ArtifactStore |
| chunk index, animation index, virtual streams, chunk detail | `libs/png-format` | none between calls | parse, map offsets | PngFormat, ChunkDetail |
| layout, filters, passes, samples, delivery | `libs/png-reconstruction` | none | layout, unfilter, deinterlace, deliver | Reconstruction |
| statistics and their export | `libs/statistics`, `statistics_collector.cpp`, `frame_statistics.cpp` | accumulators | count, collect, serialise | Statistics, StatisticsExport |
| occurrence query | `statistics_occurrence_query.cpp` | none | nearest occurrence of a bucket | Occurrences |
| canvas pixel query | `canvas_pixel_query.cpp` | a cursor between pages | pages of provenance | CanvasQuery |
| stages and views of a pixel | `stage_analysis.cpp`, `frame_analysis.cpp`, `coordinate_query.cpp`, `stage_*_view*.cpp`, `pixel_provenance.cpp` | none | analyse, locate, explain | PixelQueries |
| inspectors, trace query, validation, trace-model | `libs/analysis-engine`, `libs/validation`, `libs/trace-model` | none | view models, rules, values | section 9 |
| io, deflate-runtime, backend-libpng, core | `libs/...` | handles | read, inflate | section 9 |
| widgets, CLI | `ui/qt`, `apps/pnga-cli` | widgets | show | section 9 |

How they interact. The GUI thread owns `DocumentSession`, the controllers and
`FrameInspectionSession`. A document gets a *generation*; every worker, query
and result carries the one it was started under, and whoever receives a late
result compares. `QueryCoordinator` and `TraceOrchestrator` each own a
`JobScheduler`: they submit replays and receive results in a sink that runs on a
worker thread with the scheduler's mutex held, and take their own mutex inside
it. `AnimationController` runs at most one `AnimationWorker`, which alone may
use the replay cache, and each published frame opens a frame of
`FrameInspectionSession`, whose target is handed to `TraceController` and
`QueryCoordinator`. `SelectionNavigation` turns a click into a coordinate of the
image that is shown and asks `TraceController` for the interval behind it. The
libraries are called by the workers and return; of them only the artifact store
(one thread) and the index cache (files shared by processes) keep state.

What is hard, and what makes each component correct:

- *Scheduler*: one wake-up for several startable jobs, budget given back on every
  path, results of an old generation suppressed although the check and the
  delivery are two steps, shutdown with jobs still queued. Correct: the budget
  holds, every accepted job is settled once, nothing sleeps for ever.
- *Coordinator and orchestrator*: a replay in flight while the document, the
  stream or the generation is replaced; state kept twice and written one after
  the other. Correct: a ready row is a row of the open document; no replay reads
  a stream that was freed; nothing is left behind and nothing lost.
- *Frame inspection*: completions run on their own threads in any order, a
  bounded queue that merges and evicts. Correct: the queue is always fed, the
  last opened frame wins, a cleared document does not come back.
- *Document session*: result and finished signals of superseded workers arrive
  after the newer worker was started. Correct: results are whole and of this
  document, nothing is published twice, duplicated or forgotten.
- *Animation*: playback waits for frames whose workers are cancelled by any
  selection, and images are composed from whatever the cache kept. Correct:
  images are exact, the views settle on the selection, playback never hangs.
- *Pages of the GUI*: a frame's target arrives after the user went elsewhere, a
  trace result is posted before the document or frame changed, an occurrence
  scan ends after the next one began. Correct: the pages settle on the last
  request, the lock belongs to the image that is shown, one scan runs.
- *Decoders and indexes*: budgets, cancellation, failed reads and damage at any
  place, resumption inside a byte. Correct: what is told is what the file holds,
  as far as the call got, and the status says which.
- *Cache and store*: a writer that stops half-way, two writers with one
  temporary name, eviction among pinned entries. Correct: no load sees half a
  file; the bytes counted are those held.

## 2. Modules

| module | models | state and actions |
|---|---|---|
| `JobService` | what clients may rely on | a job is submitted, delivered at most once and only under its generation, or dropped; then it may come again |
| `JobScheduler` | the threads, the mutex (`holder`), the condition variable (`asleep`, `woken`), the queue, the budget counter in modular arithmetic | `Submit`, `Cancel`, `SetGeneration`, `SetResultSink`, the sections of `shutdown()`, and the sections of the worker loop |
| `QueryCoordinator` | rows, streams, the two generations; the scheduler as its queue, running and delivering sets | one action per critical section of each call, in `cpc` |
| `TraceOrchestrator` | jobs with the stream they captured, `completed_`, the two generations | the same |
| `FrameInspectionSession` | the queue, `in_flight_`, the completions as threads with a program counter | `OpenFrame` and the other calls; `Release`, `CheckGeneration`, `Pump`, `Adopt`, `Gate` are the sections of a completion |
| `DocumentSession` | worker pointers, results, threads with their two queued signals, the chunk pane | user actions, `Post`, one handler per signal |
| `AnimationPlayback` | the playback clock as operators on its record | used by AnimationController |
| `AnimationReplay` | the LRU and the composition as operators; a reference that says which frames are visible at a cell | used by AnimationController |
| `AnimationController` | selection, worker, cache, what is shown | user actions, `Tick`, the steps of a replay, the two signals |
| `TraceController` | the controller, the row states and the pages, over as much of the orchestrator as it can tell | operations from state to state, because a handler of the GUI is a sequence of them |
| `SelectionNavigation` | identity, lock, bus, hex source | the same |
| `Gui` | the handlers of the main window: which controller hears of a document, a frame, an analysis or a click, in which order | one action per event of the GUI thread and per step of a replay |
| `StatisticsController` | collections, scans with their threads, posted calls, the export dialog with its own event loop | user actions, `Collect`, `Scan`, `Finish`, `HandleCall` |
| `HuffmanCode`, `TokenDecoder` | the bit reader, canonical codes, the block engine with both sinks | functions from input, budgets and faults to the state a decode ends in |
| `DeflateIndex` | block scan, access points, session snapshots, both extractions | functions over a stream of segments |
| `IndexCodec` | the bytes of a cached index, both ways | functions |
| `IndexCache` | inodes, two names, the processes' program counters | one action per system call of `store()` and `load()`, and stopping at any of them |
| `ArtifactStore` | entries, pins, recency, marks of what was evicted | one action per operation; the loop of evictions is a function of its rounds |
| `Stores` | the two stores side by side, and what is asked of them | a step of either |
| `PngFormat`, `ChunkDetail` | chunk and animation index, virtual streams, chunk fields | functions over files |
| `Reconstruction` | layout, filters, passes, samples, delivery, blending | functions over images |
| `Statistics`, `StatisticsExport` | accumulator, pipelines, JSON and CSV | functions |
| `Occurrences`, `CanvasQuery`, `PixelQueries` | the queries | functions |
| `*_proofs` | theorems about JobScheduler, QueryCoordinator, TraceOrchestrator, FrameInspectionSession, DocumentSession, AnimationController, Gui with StatisticsController, Stores | |
| `MC...` | instances | `.cfg` files of the same name; `DocumentSession` is checked as it is |

A sequential library is a function of its input in these modules, and its
property compares the result with a reference written another way: a decode
with the tokens' own expansion, an index with the whole stream, a nearest
occurrence with all occurrences, an image put together from its passes with the
image it was taken apart from. `MCAlgorithms` draws the inputs, one kind and one
sample per behaviour; the samples of a library are in its own `MC` module.

A name that says what goes wrong (`FinishedForgotten`, `MergedKeepingBoth`,
...) is a *wrong variant* of the definition after it, written the way a
plausible slip in the code would be. No specification uses one; each property is
known to fail when the variant replaces the definition, which is how we know
that the property looks at the code at all.

## 3. Plan

Done, with proofs: JobScheduler and its contract; QueryCoordinator;
TraceOrchestrator; FrameInspectionSession; DocumentSession; AnimationPlayback,
AnimationReplay and AnimationController; TraceController, SelectionNavigation and
Gui; StatisticsController; ArtifactStore and IndexCache. Done, checked only:
IndexCodec; the functions of the libraries.

Left to model: the inspectors (Huffman, block, decode trace) and
`statistics_view.cpp` as functions of a trace; `trace_query.cpp`, the replay
behind a row; the validation rules; the evidence focus of the frame session;
thumbnails and playback speeds.

Left to prove: what single functions of the libraries guarantee (ranges, bounds,
offsets of the virtual streams and of the layout), the recursive ones by a least
counterexample, as ArtifactStore's evictions are.

## 4. What the runs check

| run | instance | checks |
|---|---|---|
| `scheduler` | 2 workers, 3 jobs whose reservations compete for the budget, submitted again without end, 2 generations | types, BudgetHeld, LedgerExact, OneOwner, NoLostWakeup, SinkIsCurrent, NoOvertaking, and that JobScheduler implements JobService (`ServiceSpec`) |
| `scheduler_live` | the same jobs, 2 callers of shutdown | JobsSettle, ShutdownReturns |
| `coordinator` | 2 documents and a frame target opened in any order, 3 rows of which one is too large, generations that grow, 2 workers | ReadyFromOpened, ReplayingHasJob, StaleReplayIgnored, QueriesAnswered |
| `orchestrator` | a document and a frame target, 2 replays of which any may throw, cancellations, generations | StreamOutlivesReplay, NothingLeftBehind, ResultNotLost |
| `inspection` | 4 requests of 3 kinds, 2 frames, a queue of 2 | QueueDisciplined, QueueIsFed, SettlesOnLatest |
| `inspection_clear` | an open and a clear | refutes ClearedStaysClear (finding 1) |
| `document` | 2 documents, 4 selections, 2 collections | ResultsAreWhole, AnimationPublishedOnce, OneCollection, DetailIsNewest, NothingForgotten |
| `animation` | 3 frames over 2 cells, 2 stages, a cache of 2 images, 2 plays | OneWorker, CacheExact, SettlesOnSelected, PlaybackGoesOn |
| `gui` | 2 documents, one animated with 2 frames, whose targets the workers adopt at once, late or never; replays in flight that may throw; opens that are refused; 2 collections and 2 scans | SettlesOnRequest, LockOfIdentity, OneScan |
| `gui_static` | 1 animated document, 1 frame | refutes StaticStaysRestored (finding 2) |
| `algorithms` | every library function on its samples; the store over 3 keys; 2 processes over the files of the cache | TokensAreExact, IndexesAreExact, ContainersAreExact, ImagesAreExact, CountsAreExact, QueriesAreExact, StoresAgree, PinnedStay |
| `access_points` | the streams of `algorithms` | refutes ExtractionsAreExact (finding 3) |

*Concurrent parts: bounds and why they are enough.* Races here are between two:
an old and a new document, a superseded and a current worker, a small and a
large reservation. Two of each kind, with one more where a third is passed over
(four selections, three frames), show every order of them. Generations and
serials only grow and are compared for equality or order, so 2 or 3 values meet
every case; each cap (`MaxGen`, `MaxSerial`, `MaxJobs`, `MaxRequests`,
`MaxStats`, `MaxDocuments`, `MaxPublished`, `MaxPosted`, `MaxCollections`,
`MaxCalls`) is a guard of the action that counts. The scheduler has no counter:
a job that is settled may be submitted again, so its runs hold streams of jobs
that never end. The queue cap of 2 makes
merging, eviction and refusal all happen; a cache of 2 images with a checkpoint
every 2 frames makes eviction of a checkpoint happen. `AnimationController` has
no counter at all: a worker records whether it carries the present serial, so
its run covers behaviours of any length. In `gui` a behaviour follows the
traces, the views or the statistics (`follow`): the first two are driven by the
same documents and frames but do not read each other's pages, the third shares
nothing with them, and following one keeps the run small. A second frame is
published only where the traces are followed, and the static image was not chosen
and no replay threw in between. `CHECK_DEADLOCK FALSE` is in the runs whose system may stop: the caps
are used up, no document is open and nobody acts, or the sample is drawn.
Symmetry (interchangeable workers, frames) is used only in runs without liveness
properties.

*Libraries: bounds and why they are enough.* The widths of the formats are
constants, so that their limits lie within reach: bytes of 4 bits, a window of
5, length and distance codes with and without extra bits, an alphabet of two
literals, stored blocks of 3 bytes at most. What the code treats as a special
case at its own widths is a special case at these: a refill of the bit reader
that ends inside a code, a distance that reaches the window or passes it, a
match longer than its distance, an over-full and an incomplete code, a budget
that ends inside a token, a cancellation and a failed read at each of the places
where the code asks. Files are four lists of chunks, with any one chunk removed,
doubled, moved or replaced by an odd one, cut at many places and under small
limits; layouts are those of every size up to 17 by 17, plain and interlaced,
images of 1 by 1 to 5 by 5 (all seven passes are met) of every color and depth; a
stream has up to three blocks. The store
has three keys of sizes 1, 2 and 4 under a budget of 3, so that an entry never
fits, two do or one evicts another; its clock is bounded by `MaxClock`. The
files of the cache have two pieces, so that half of one exists, and two calls of
two processes in four inodes. Words that wrap (`Word`, `CountMax`) are as small
as the samples need.

The exactness properties are properties of the *step that draws* the sample, and
those of the largest computations are stored as functions of the sample
(`ScansExactly`, `CountsExactly`, `ExportsExactly`): TLC then evaluates each
once, and without expanding it in its statistics.

*Fairness.* A started thread runs on and a wait that was notified takes the
mutex: weak fairness of each worker's steps in JobScheduler, of the pool and of a
call in progress in QueryCoordinator. The event loop handles what is posted: weak
fairness of the signals in AnimationController, and of the timer tick after the
frame's time, since the timer is periodic and the clock monotonic. No user
action and no new call is ever assumed. Where the condition variable wakes one
thread, the fairness is per thread and not of the pool, which is what
NoLostWakeup and JobsSettle need to be hard.

Fairness of the threads does not make the scheduler fair to jobs. A worker prefers
a more urgent job, and passes over one that does not fit beside the running ones
(`job_scheduler.cpp:119-123`): a stream of small jobs that never ends keeps a large
one waiting for ever. JobsSettle therefore promises two things. Once nothing more
is submitted, every accepted job is delivered or dropped. While submissions never
end, a job leaves the queue that no other may pass, that is, than which none is
more urgent or smaller. Asked of any other job of the run (`small` beside
`urgent`, or `big`), the second half fails.

## 5. What is proved

`JobScheduler_proofs` proves, from `SchedulerAssumption` only (finite sets of
workers and jobs, a budget below half the word so that the sum in `runnable()`
does not wrap; all callers in the repository pass budgets far below), for any
number of workers, jobs, priorities and reservations:

- `TypeCorrect`: Spec => []TypeOK. TypeOK also says that a worker holds a job
  exactly between its pick and the end of its delivery, which the rest needs.
- `BudgetTheorem`, `LedgerTheorem`: the reserved bytes never exceed the budget, and
  `running_reserved_` is exactly their sum. Neither is inductive alone: the
  counter is only known to be small because it is the sum, and the sum is only
  known to be bounded because the guard read the counter. `BudgetInv` joins them
  with TypeOK and with the fact that every queued or held job fits the budget
  alone (`JobsFit`); the bytes a worker holds are a set of its own, so that the sum
  is a cardinality and the lemmas `HeldGrows` and `HeldShrinks` take the place of
  an induction over the workers.
- `SinkTheorem`: the generation cannot change while a result is being delivered;
  by the mutex that is kept through the sink.
- `OwnerTheorem`: an accepted job is queued, or owned by exactly one worker, or
  settled, never two of these; no job is lost or run twice.
- `WakeupTheorem`: while the mutex is free and a worker sleeps, the jobs that could
  start are no more than the woken workers, although `submit()` notifies only one.
  `WakeInv` adds who has the mutex (`HolderKnown`), and that a worker at the top of
  its loop with the mutex in hand has just notified all, so that nobody sleeps
  (`LockedAwake`): its next pick may leave jobs startable, but not beside a
  sleeper. It stands on `BudgetInv`, because what can start depends on the counter.
- `OvertakingTheorem`: no step picks a job before one that came earlier, has no
  lower priority and reserves no more, though small jobs may pass large ones: an
  action property, from the order the pick reads and the exact ledger.
- `ServiceTheorem`: JobScheduler implements `JobService`. `RefInv` adds to types,
  ledger and ownership that a pending job is queued or in the hands of a worker
  (`Kept`). Each section is then a step of the contract or a stutter; that the
  budget holds with the job that starts is a counting of bytes (a surjection from
  those of the workers to those of the running jobs).

`QueryCoordinator_proofs` proves, from `CoordinatorAssumption` (the marks for "no
stream" and "mixed bytes" are no streams), for any rows, documents, frame targets
and numbers of workers:

- `ReadyTheorem`: between calls a ready row has the bytes of the document opened
  last, although `open()` replaces source, anchors and rows under several locks
  while replays of the old document still run. There is one exception, which the
  theorem states and the code has: a static `open()` over a target's stream leaves
  that stream in place and replays prefer it, so that every ready row then holds
  bytes of the target cut with the anchors of the document (`Served`).
- `ReplayingTheorem`: between calls a row shown as replaying has a live job of the
  present generation, so that nobody waits for nothing.
- `StaleTheorem`: a sink that runs between calls with a job of an older generation
  changes no row.

The invariant `CoordinatorInv` follows the *current* jobs, those of the
scheduler's generation. `RowsFollowJobs`: there is one for a row at most, its row
is replaying, and there is none from the moment `open()` has seen no replaying
row; `ArgKnown` says so for each place inside a call. `MembersAgree`: the stream
that a replay reads and its anchors are of one document whenever a current job
exists, although they are set one after the other. `BytesFromOpened`: a result of
the present generation, on its way or arrived, holds what `Served` says; and
`over_target`, the mark of the last `open()`, says whether the stream it reads is
another's.
`JobsApart` and `Generations` tie the two generations and the two queues.

`TraceOrchestrator_proofs` proves, from `OrchestratorAssumption`, for any streams,
workers, generations and replays:

- `StreamTheorem`: `open()` never replaces the stream under a replay that is
  queued, running or on its way to the callback, although it looks at the queue
  and at the reservations under two locks. What makes it inductive is `CallFine`:
  between the looks nobody else submits, so an empty queue stays empty, and what
  is neither queued nor reserved is nowhere.
- `KeptTheorem`: no query is left behind in `completed_`. `KeptFine` adds the one
  moment in which a suppressed replay still has one: while `cancel()` that
  suppressed it is about to erase it.
- `ResultTheorem`: a replay that nobody cancelled, that no change of generation
  met and that did not throw is published. One that threw is not, and nobody is
  told: the exception is stated because the code has it (section 7). `ResultFine`
  says for every place on the way that its query is still kept and of the present
  generation; `LiveFine` ties a replay that is not settled to the open stream and
  to the scheduler's generation, which lags behind the orchestrator's in the
  middle of `setDocumentGeneration()`.

`FrameInspectionSession_proofs` proves, from `SessionAssumption`, for any frames,
requests and capacity of the queue. The priorities are the three of the enum
(`FrameAnalysisPriority`), so that a highest one exists, and the mark for a null
target is no ticket.

- `QueueTheorem`: the queue never exceeds `kQueueCap` and never has two jobs of one
  kind for one frame, however jobs are merged, evicted and refused.
- `FedTheorem`: while jobs wait, a completion of this document is on its way to
  the pump. Release, generation check and pump are separate sections that
  `clear()` and `selectTarget()` cut into; `Fed` has an owner for each entry in
  flight, and a pumper for a queue without one.
- `SettlesTheorem`: the session settles on the frame opened last. `LatestComes`
  says that its job is queued or with a worker, or that the ticket in place is as
  new.

What carries `SessionInv` is the life of a ticket: it is made once, with a serial
above all others of its document (`SerialsOrdered`), belongs to one open job at
most (`OpensApart`), and a worker whose ticket is still in use was started in this
document (`LiveAreNew`, `WorkersAged`). `QueueOrdered` gives the queue a first
job.

`DocumentSession_proofs` proves, from `SessionAssumption` (the null pointer and the
mark of a pane that loads are told from workers and serials; one collection at
least may be started), for any plain tasks and any numbers of documents,
selections and collections:

- `WholeTheorem`: results are of this document and of workers that have ended.
- `PublishedTheorem`: an animation is published once, whichever of the stages and
  the timeline comes first.
- `CollectionTheorem`: of two collections that run at once, one is of an earlier
  document and was told to stop.
- `DetailTheorem`: the chunk pane shows the selected chunk or waits for a worker
  that will fill it, and no pointer is to a deleted worker.
- `ForgottenTheorem`: when the threads are gone, nothing asked for is missing.

The handlers read the worker that a pointer names, not the one that reported.
`DocumentInv` therefore says of each kind whom the pointer can name:
`WorkersOrdered` (no worker is of a later document, and of this one only what was
started), `PrimaryPending`, `CollectionPending` and `DetailPending` (what is not
there yet has a pointer to a worker that has still to report), `CollectionOwned`
(an earlier document's collection was told to stop), `ResultsBounded`.

`AnimationController_proofs` proves, for any animation, stages, cache budget and
checkpoint distance:

- `OneWorkerTheorem`: two workers never use one replay, whose cache has no lock.
- `SettlesTheorem`: once no worker is left, the views show the frame and stage
  selected last, its error, or the static image.
- `CacheTheorem`: every image that is kept in the cache, composed by a worker or
  shown is what its frame's stage shows, wherever the replay was resumed and
  whatever was evicted.

The first two need no assumption and follow from `IInv`. Neither is inductive:
after the last worker has gone one must know that it served the selection, so the
invariant speaks of workers that still run. `WorkersFine` says that there is one
worker at most, of any document, and that one whose result will be taken was
started for the present selection and was not cancelled; `SelectionServed` that a
selection is shown, or pending behind a worker, or has such a worker whose result
is still to come; `PlaysAnimation` that a clock exists only with an animation.

The third is from `ReplayAssumption`, `PlaybackAssumption` and
`ControllerAssumption` (an animation has a frame, and its stages are those of the
replay). The reference (`Shows`) says cell by cell which frames are visible, from
the dispose and blend operations of all frames before; the code composes one frame
after the other from whatever image it resumed at. `ImageInv` says that the
canvas of a worker is what the frame before the next one leaves behind
(`WorkersExact`), that the cache has one image for a frame and stage and each is
exact (`Sound`), and that what is shown is (`ShownExact`). The step from one frame
to the next is a lemma on visibility; that the newest kept image before a frame
exists is a least-element argument on finite sets.

`Gui_proofs` proves, from `TraceAssumption` (the null pointer is no result, a frame
is not the static image, there is a pixel) and `StatisticsAssumption` (the null
pointer is no serial number), for any number of documents, frames, requests,
queries and collections:

- `LockTheorem`: the lock, the hover and the selection on the bus are of the image
  on show. Every operation of the selection keeps it (`GuiFine`) but the one that
  sets a document, which needs the bus emptied before: the order of the two calls
  in `openFile()`.
- `SettlesTheorem`: with no job and no result left, the pages show the answer of
  the last request, of its interval, image and document, cut from the stream that
  is open. Three exceptions are part of the statement. An `open()` that the
  orchestrator refused leaves the old stream under a new target (`refused`): the
  pages then show data of that stream, or turn the request down if it is another
  frame's, and this is the only case in which they do. A worker of the frame
  session may adopt a target after the document was cleared (`late`), and its
  analysis then puts an image of the earlier document on the pages. No answer
  comes for an image that is not on the pages, a row out of the index, and a
  replay that throws (`unanswered` names the reason). `StreamFine` and `Ours` are
  the first two parts, and need only what one handler knows. `TraceFine` says
  where that answer is: with the last job in the queue that runs for it
  (`JobComes`), as the last posted result that counts (`ResultComes`), or on the
  pages (`ResultShown`). A cancelled job need not be gone, and results of older
  requests may be in front; what matters is that nothing *after* the answer
  counts.
- `OneScanTheorem`: a scan that runs uncancelled is the one the controller holds,
  and of the document it shows. It needs `EndsAreOver`: the posted end of a thread,
  which may clear the pointer, is that of a scan that runs no more; otherwise a
  late end could drop the pointer to a scan that runs, and the next query would
  start a second one beside it.

`Stores_proofs` proves, from `StoreAssumption` (sizes and the budget are natural
numbers) and `CacheAssumption`, for any keys, sizes and budget, and for any number
of processes, pieces and calls and a stop at any step:

- `StoresTheorem`: the artifact store has counted the bytes it holds and holds no
  more than its budget after every call, and the files of the index cache are safe
  as below.
- `PinnedTheorem`: an entry that is pinned and has its data is changed by nothing
  but calls for its own key.
- `CacheSafeTheorem`: as long as no two processes were at work at once, the
  published file is whole, a stop half-way leaves it whole, and what is stored is
  found.

In the store the bytes are again a set, so that what one call changes is counted
by the lemma `Recounted` for the one key it changes. The loop of evictions is a
recursive function: `ChainExists` shows that there is one (a least length without
one cannot be), and `EvictedKeeps` follows it victim by victim: pinned entries
stay, the count stays exact, and either the bytes fit or there is a victim fewer
for each round. When no victim is left, what has its data is pinned and was there
before the call, so that it fits as it did then; that the new entry is never
pinned is what makes this so. For the files, `OneAtATime` gives the writer its
temporary name for itself; `NamesApart` says that the inode under that name has
what its writer wrote and is never the published one. What happens when processes
do overlap is told in section 7.

Only model-checked: every liveness property (JobsSettle, ShutdownReturns,
QueriesAnswered, PlaybackGoesOn), which the prover cannot reach; and the functions
of the libraries, on all samples. The induction theorems of the proof library
cannot be instantiated here, so that what a recursive function computes can only
be proved by a least counterexample on the naturals, as for the evictions above;
for the decoders, which recurse over bits, blocks and rows with large states, this
has not been attempted.

## 6. Findings

1. *A cleared target comes back* (`frame_inspection_session.cpp:405`, run
   `inspection_clear`): the generation is compared once, before the target is
   built; `frame_inspection_session.h:49-50` says that completions never touch
   the session again.
2. *A frame comes back over the static image* (`animation_controller.cpp:484`, run
   `gui_static`): the static fallback leaves the frame session's target in place,
   so that an analysis posted before it sets the frame's identity and stages
   again; the comment at 482-483 says that the complete static context is
   restored.
3. *An access point inside a byte cannot be resumed* (`access_points.cpp:150`, run
   `access_points`): it stores the bits before the boundary as the ones to prime
   and feeds the whole byte again; `access_points.h:28` says that they are the
   unused bits of that byte.

## 7. Divergences

Places where the code and a comment or document differ, or a promise is narrower
than it reads, that the models follow as the code is and no run refutes.

Scheduler, coordinator, orchestrator:

- A second `shutdown()` returns before the workers are joined
  (`job_scheduler.cpp:68`, against `job_scheduler.h:98-99`); the model has the
  early return.
- The in-flight guard of the coordinator's `open()` is blind after
  `setDocumentGeneration()`, which empties the rows while jobs run
  (`query_coordinator.cpp:60`, comment at 57-58). A generation set back to an
  earlier value would let an old replay in, so the clients' generations grow in
  the model as they do in the GUI.
- A static `open()` leaves the `target_stream_` of an earlier target open, and
  replays prefer it (`query_coordinator.cpp:71-79`, `166-169`, against
  `query_coordinator.h:64-65`). No caller in the repository opens in this order, but
  the interface allows it and the model has it; ReadyFromOpened says what the rows
  then hold.
- A large job may wait for ever behind small ones (`job_scheduler.cpp:119-123`), by
  design of the scan; JobsSettle says for which jobs this cannot happen.
- A replay that throws is caught by the scheduler (`job_scheduler.cpp:135-140`); the
  orchestrator finds no query for it and returns without a word
  (`trace_orchestrator.cpp:353-356`). In the GUI the page stays "replaying", and the
  same interval is not asked for again while it is the one on the page.
  ResultNotLost and SettlesOnRequest state this.
- `TraceOrchestrator::cancel()` may return true while the callback of the same
  replay is about to start (`trace_orchestrator.cpp:359-361`, against
  `trace_orchestrator.h:88-89`).

Sessions and controllers:

- A target that is adopted after a clear (finding 1) reaches the pages: its
  analysis sets the frame context of the next document
  (`frame_inspection_session.cpp:393-407`, `main_window.cpp`). `inspection.late` marks
  it, and SettlesOnRequest has it as an exception.
- Two completions of the frame session decode at once: the next job is pumped
  before the completion's own work (`frame_inspection_session.cpp:356-376` and
  `377-449`, against its header's 5-6 and the comment at 374).
- The publication gate is consulted before the signal is emitted and the GUI slot
  does not look again (`frame_inspection_session.cpp:517` and `533`,
  `animation_controller.cpp:349-356`).
- `evidenceAccepts` does not compare the parent scope
  (`frame_inspection_session.cpp:228-231`, against the header's 101-102).
- A full queue drops the oldest job of lower priority, not the one of lowest
  priority (`frame_inspection_session.cpp:289-293`, comment at 285).
- The destructor joins the threads it has listed and can miss one pumped by a
  worker thread (`frame_inspection_session.cpp:39-50`).
- A row status event carries no generation and may reach the inspector after a
  replacement (`document_session.cpp:124-132`, `main_window.cpp:444-450`,
  against `document_session.h:5-9`).
- A statistics request made between a cancellation and the finished signal is
  recorded and not started.
- `showing_static_` stays set when `play()` follows the static fallback; the next
  selection of the same stage then pauses the playback
  (`animation_controller.cpp:122-129`, `197-203`).

Trace pages and selection:

- `TraceController::setFrameContext` stores its new target although the
  orchestrator refused to open it (`trace_controller.cpp:244`, `261`), and 253
  then prevents a second attempt: the pages stay on the old stream.
  SettlesOnRequest states which stream then answers, and that nothing else turns a
  request down.
- The comment of the binding (`trace_inspector_binding.cpp:110-113`) says that old
  rows are not shown under a new frame, while `markReplaying` keeps the bundle.
- `replaceDocument` resets the pending coordinate (`trace_controller.cpp:158`), so
  that 194-199 is dead,
  against the header's "a committed-but-unreplayed coordinate is kept".
- A rejected submission leaves the page "replaying"; `onTraceResult` does not
  compare the interval; a request of a frame made before its target is dropped,
  stays "replaying", and the same row is not asked for again.
- `requestFor` takes the interval of a frame from the pixel times the bytes per
  pixel (356-392), which is wrong below 8 bits and for interlaced frames.
- `setDocument` and `clearDocument` of the selection controller leave
  `frame_stage_`, so that the hex view of a new document may show the bytes of the
  old one's frame (`selection_navigation_controller.cpp`, comment at 697-698).
- The hex tabs never set the frame stream as the source
  (`hex_source_tab_bar.cpp:75`, `101`, against its tooltip at 87).

Deflate and the indexes:

- A cancellation or a failed read inside dynamic tables is told as malformed
  (`token_decoder.cpp:926`, against the comment at 831); end-of-block facts of
  stored blocks are not held against the token budget; the literals may pass the
  output cap by one; an observer's stop counts the token but not its bytes.
- `store()` of the index cache uses one `.tmp` name for all processes; when the
  second rename fails, its fallback removes the file the other has published.
- `put()` of the artifact store forgets the pin of the key it replaces, and
  answers kOk when the new entry itself was evicted, against
  `artifact_store.h:37-38` (kTooLarge when no evictable space can be made).

Containers and images:

- The animation index lets a frame mix IDAT and fdAT, does not check blend and
  dispose values, and keeps or drops a last frame that is cut according to the
  kind of its data (against
  `docs/superpowers/plans/2026-09-08-wp-699-706-apng-implementation.md:43` and
  `212`).
- The byte after the last segment is mapped by `SegmentStream` and not by
  `VirtualIDATStream`.
- `native_samples.cpp:102` computes a bit offset in 32 bits, against "All
  arithmetic is checked" (3-4); rows of 512 MiB are out of the model's reach.
- The layout accepts invalid pairs of depth and color.

Statistics and queries:

- An overflow leaves part of the rejected sample in the totals
  (`statistics.cpp:131-138`, `288-296`, `311`), against the header's "verified
  prefix" (`statistics.h:202-207`). CountsAreExact says which part: `LeftBy` lists
  what each kind of sample has added before the sum that overflows. The total of a
  chunk scan that stopped in the middle still makes a ready overview
  (`statistics_collector.cpp:260`, `626`, against the comment at 602-605):
  CountsAreExact says that it counts what the scan had seen, and that this is the
  only total that is not of the whole. Further, zero-length IDAT and fdAT chunks
  are missed; an observer's cancellation is told as partial; the progress
  callbacks of frame statistics carry an empty snapshot.
- A "previous" occurrence after a failed read before the cursor is told as ready
  (only the budget is guarded, `statistics_occurrence_query.cpp:698`), though a nearer
  one may lie in what was not read; of
  consecutive empty blocks, which share an output offset, "next" skips all but the
  first; a frame whose data is in IDAT answers "not found" though the comment
  (837-842) says partial; the header span of an fdAT is told 4 bytes late.
  `OccurrenceExact` requires the nearest occurrence of all in the file, and states
  each of these as its exception, with the answer the code then gives.
- A cancelled frame analysis makes the canvas query an error, not "cancelled";
  `visited_steps` starts again at each page, against "cumulative".
- `pixel_provenance.cpp` (used by tests and the performance runner only) subtracts
  unsigned (213-216), so that every query with a left dependency ends in an error,
  and takes the first row of the pass for the row above, against
  `docs/development/trace-semantics.md:18-22`. ProvenanceExact says what the
  dependencies of a filter are (own byte, left, up, corner) and states both
  exceptions.
- `stage_pixel_process_view.cpp` takes the upper-left neighbour's boundary from the
  one above alone.

## 8. Faithfulness

Every definition that models code is mapped to its lines in `PROJECT.json`. A
critical section is an action; a handler that runs to its end on the GUI thread
is an action too, however many controllers it calls. What the code reads twice
under two locks is two actions. Where a step of a library may fail for a reason
outside (a read, an allocation) the failure is a choice, at each place where the
code looks. Hazards without a property of their own are those of the divergences
above: a second shutdown, the gate, the destructor, the row status, the callback
after a cancellation.

## 9. Not modelled

Formatting, painting and layout of widgets; the words of errors. Object lifetimes
and destructors (except the joins of shutdown and of replacing a document).
Thumbnails, playback speeds and durations. I/O and the external libraries (zlib,
libpng, Qt), whose failures are nondeterministic outcomes; zlib decodes a segment
evenly. The inspectors and the validation rules, which are functions of a
finished trace or index, are the next to model; the CLI runs the libraries in
order and prints. Allocation failures and sums that leave 64 bits are left out of
the library functions, except where a module says otherwise. `PROJECT.json` lists
each component with what is left out and why.

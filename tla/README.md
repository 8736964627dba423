# Verification of Phoenix Telemetry Edge

Phoenix Telemetry Edge (`phoenix-core`) is an OpenTelemetry collector with four
processors and an extension of its own. This directory holds TLA+ models of
them, the TLC configurations that check the models on small instances, and
TLAPS proofs of theorems about them for every value of the constants.

The reference is the Go code under `src/`. Every definition is a translation of
it; `PROJECT.json` (`map`) gives the lines of each.

Paths below are relative to `src/`; `R:` stands for
`internal/processor/reservoirsampler/processor.go`, `B:` for `trace_buffer.go`
next to it, `A:` for `internal/processor/adaptiveheadsampler/processor.go`,
`F:` for `internal/processor/fallbackprocparser/processor.go`, `T:` for
`internal/processor/topnprocfilter/processor.go`, `P:` for
`internal/extension/pidcontroller/pid_controller.go`.

## 1. Inventory

A collector pipeline calls a processor's `ConsumeTraces`, `ConsumeLogs` or
`ConsumeMetrics` from as many goroutines as there are requests. No processor
serialises these calls. Each also runs goroutines of its own (tickers, flushes,
a database), and the controller and the operator change tunables while it runs.

### reservoirsampler: trace buffers (modelled)

* **State** `traceBufferMap`: trace ID -> spans, root flag, update time; one
  mutex; a cleaner goroutine; two counters in the processor.
* **Operations** `addSpan` (takes a trace out once it is complete),
  `getCompletedAndTimedOutTraces`, `cleanup` on a ticker, `shutdown`;
  `processSpan` calls them in turn and gives what it took to `sampleTrace`;
  `reportTraceMetrics` swaps the two counters, one after the other, on a ticker.
* **Hard** Between two calls a goroutine holds traces that are in nobody's map;
  the cleaner and a consumer compete for a trace that timed out.
* **Correct when** every accepted span is in exactly one place, a trace leaves
  only for a reason, units hold spans of one trace and are counted once, and
  nothing stays for ever.

### reservoirsampler: window and reservoir (modelled)

* **State** atomics `n`, `t0`, `k` and the pointer `activeBuffer`; `sync.Pool`;
  `flushMu`; the goroutines that `flush` starts.
* **Operations** `ConsumeTraces`, `resetWindow`, `flush`, `sampleTrace`,
  `addSpanToReservoir`, `SetValue("k_size")`; `checkpoint` holds `flushMu` across
  its write to the database; a start may restore a buffer.
* **Hard** `activeBuffer` is loaded, appended to and stored without a lock, so a
  store may undo another one; Go slices share arrays; a flush reads a buffer it
  will pool; the test for the end of the window is not repeated under the lock.
* **Correct when** no header covers what was not written, none outgrows `k`, no
  buffer is owned twice as long as no store undoes another, every call returns.

### reservoirsampler: checkpoints, span cache, restart (modelled)

* **State** the LRU of full spans, the bolt file with counters and summaries.
* **Operations** `checkpoint`, `loadCheckpoint`, `Shutdown`, look-ups of `flush`.
* **Hard** a crash between any two steps; a checkpoint reads the counters and
  the buffer one after the other while spans are sampled; goroutines of
  `ConsumeTraces` hold a buffer they loaded while the window is reset; the LRU evicts.
* **Correct when** nothing is sent twice, a checkpoint is of one window.

### reservoirsampler: database compaction (modelled)

* **State** `p.db`, the bolt file at `checkpoint_path`, the temporary copy
  beside it, the cron scheduler.
* **Operations** `compactDatabaseWithDiskCheck` and `compactDatabase` (R:900-1036),
  begun by cron (`Start`) or by `SetValue("trigger_compaction")`; `checkpoint`,
  `Shutdown`, `newProcessor`.
* **Hard** a compaction closes the database, copies the file, renames the copy
  over it and opens it again, with no lock against anything; each call may fail,
  and the process may crash between any two.
* **Correct when** the file always holds the last acknowledged checkpoint, and a
  compaction that has closed the database opens it again.

### pidcontroller and tunableregistry (modelled)

* **State** `ewma`, `highCount`; the registry ID -> tunable.
* **Operations** `Register`, `Start`, `runControlCycle` on a ticker with its
  scrape of the collector's metrics.
* **Hard** failing scrapes and missing tunables between two high intervals; a
  multiplicative law with truncation, smoothing and clamps.
* **Correct when** the probability stays in range, never rises under pressure,
  aggressive drops are spaced, lasting load moves it to its bound.

### adaptiveheadsampler: probability, sampling of traces and logs (modelled)

* **State** the configuration, `currentP`, two counters, `stopCh`. The processor
  is a copy of the base that was registered.
* **Operations** `setProbability` clamps (also modelled with the controller);
  `ConsumeTraces` (A:605-672) decides per trace and scope; `processLogs`
  (A:997-1090) asks critical patterns, then content filters, then the hash of a
  record ID (A:1093-1220); `reportMetrics` swaps the counters on a ticker.
* **Hard** calls overlap, every decision loads the probability anew, and the
  order of patterns, filters and probability differs between the paths.
* **Correct when** every item is passed on or counted as rejected once, a scope
  decides once per trace, like records are decided alike, filters are obeyed.

### fallbackprocparser: fetches, caches, circuit breaker (modelled)

* **State** per kind of attribute a `sync.Map` of results with expiry and a
  circuit breaker under its own lock.
* **Operations** six fetch functions of one shape: cache, `allowOperation`, the
  operation on `/proc`, `recordOperationResult`, store.
* **Hard** calls overlap between all of these: an operation that was allowed
  before a trip ends after it; an expired entry is deleted by key.
* **Correct when** the circuit follows the results in the order they were
  recorded, sheds load, and closes once the machine is healthy.

### fallbackprocparser: enrichment of metrics (modelled)

* **State** the caches of command lines and paths by PID, of names by UID, and
  the time of the last warning by PID.
* **Operations** `processMetrics` (F:221-284) with strict mode,
  `enrichProcessAttributes`, the fetches, `shouldLogWarning`.
* **Hard** PIDs are reused behind the caches, and a call reads, and stores later;
  two calls may store and warn in any order.
* **Correct when** owners are never mixed up, what came with a resource stays, an
  incomplete resource is logged, a reused PID sheds its predecessor's values.

### fallbackprocparser: second breaker and optimized fetches (not modelled)

`processor_new.go` and `processor_optimized.go` define the functions of
`processor.go` again and do not compile together with it.

### topnprocfilter: filter and caches (modelled)

* **State** the process table (`sync.Map`), `n` under `mu`, the validity of the
  top N cache and the PID cache under `topNCacheMu`.
* **Operations** `processMetrics` (sequential and concurrent), `getTopNProcesses`,
  `updateTopNCache`, `isInTopN`, the cleaner, `setTopN`.
* **Hard** each of these pieces has a lock of its own; a batch updates the
  table, invalidates, recomputes and filters in separate steps.
* **Correct when** a batch filters by the current table.

### topnprocfilter: metric reporter (modelled)

* **State** counters of the filter, a bounded channel of updates, `stopCh`, a
  wait group, a worker with the batch it collects.
* **Operations** `reportMetrics` on a ticker, `submitMetricUpdate`,
  `processMetricsUpdates`, `processBatch`, `Start`, `Shutdown`.
* **Hard** the reporter sends without waiting; `Shutdown` closes `stopCh` and the
  channel while reporter and worker are anywhere.
* **Correct when** every filtered process is counted once, updates arrive in
  order and in the end, `Shutdown` returns.

### Not modelled

| Part | Why |
| --- | --- |
| reservoirsampler, fallbackprocparser: configuration, factories | plain validation; what `Validate` makes sure of is assumed of the constants |
| span serialisation (`span_utils.go`, generated protobuf code) | no state |
| `standalone_test` | tests and test doubles |
| `internal/metrics` | a registry of instruments that nothing reads back |
| `cmd`, examples, `deploy` | wiring and configuration |

### Interactions

* Trace buffers -> reservoir: `processSpan` calls `sampleTrace` with each trace it
  takes out. `TraceBufferMap` ends where `ReservoirWindow` starts: a `Unit` of
  the first is a member of `Units` of the second.
* Reservoir -> LRU and bolt file: `addSpanToReservoir` and `flush` use the LRU,
  `checkpoint` reads what the reservoir writes. `ReservoirDurability` takes the
  file for one register, written at once or not at all; `CheckpointStore` is that
  register, and `CheckpointDb` shows (and the proofs do) that the bolt file with
  its compactions is one, as long as compactions do not overlap.
* Controller -> registry -> samplers: `SetValue` on the registered base.
  `HeadSampling` takes the probability of each sampler as set from outside.
* Enrichment -> fetches: `FallbackEnrich` has several fetches of one resource and
  lets the breaker deny any of them; `AttributeFetch` has the breaker.
* Cleaner, tuner and batches of topnprocfilter share the table and its caches.

## 2. Modules

| Module | Models | Kind |
| --- | --- | --- |
| `TraceGrouping` | what the trace buffers promise: a span waits, then is delivered once in a unit of its trace or abandoned | abstract |
| `TraceBufferMap` | `trace_buffer.go` and `processSpan` | detailed; implements `TraceGrouping` |
| `TraceBufferMap_proofs` | | proofs |
| `WindowSampler` | what the reservoir promises: at most `Capacity` spans in the open window, each sent at most once or lost | abstract |
| `ReservoirWindow` | window, buffer, pool and flush on a heap of slices | detailed; implements `WindowSampler` until one store undoes another |
| `ReservoirWindow_proofs` | | proofs |
| `ReservoirDurability` | LRU, checkpoint, crash, restart, next to several consumers | detailed |
| `ReservoirDurability_proofs` | | proofs |
| `CheckpointStore` | what the bolt file promises: one register of checkpoints | abstract |
| `CheckpointDb` | the bolt file with its compactions, checkpoints, `Start` and `Shutdown` | detailed; implements `CheckpointStore` until compactions overlap |
| `CheckpointDb_proofs` | | proofs |
| `AttributeFetch` | a cached fetch and its breaker | detailed |
| `AttributeFetch_proofs` | | proofs |
| `AdaptiveControl` | controller, registry, the two probabilities of a sampler | detailed |
| `HeadSampling` | sampling of spans and log records | detailed |
| `AdaptiveHeadSampler_proofs` | theorems about `AdaptiveControl` and `HeadSampling` | proofs |
| `FallbackEnrich` | completing the attributes of process metrics | detailed |
| `FallbackEnrich_proofs` | | proofs |
| `TopNFilter` | table, caches, batches, cleaner, tuner | detailed |
| `MetricReporter` | the filter's reports about itself | detailed |
| `TopNProcFilter_proofs` | about `TopNFilter` and `MetricReporter` | proofs |
| `MC...` | values of the constants for TLC | instances |

Definitions called "faulty" in a module are what a plausible bug would make of
the definition that follows; `PROJECT.json` (`mutants`) pairs each with the
property that tells them apart.

### How state and actions correspond to the code

**TraceBufferMap.** All operations of the map hold `traceBufferMap.lock`, so each
is one action: `AddSpan` is `addSpan`, `Collect` is
`getCompletedAndTimedOutTraces`, `Cleanup` is `cleanup`. `SampleTrace` is the
counter and the call of `sampleTrace` for one trace; `taken[c]` is the local
variable with the traces still to be given. `ReportComplete`, `ReportTimedOut` and
`ReporterExit` are `reportTraceMetrics` and the end of its loop: each counter is
swapped to zero in a step of its own, and `reported` is the history of what was
read. (`UpdateCounter` returns no error, as both metrics are registered. What the
counters hold when the loop ends is never reported.) A timestamp is the age since it, and
stops at `BufferTTL + 1` because it is compared with `bufferTTL` only.
`sampled` and `expired` are history. `Shutdown` happens when no consumer is
inside `processSpan`, which is the collector's contract.

**ReservoirWindow.** `active`, `loaded[c]` and the buffers of `flushes` are slice
headers (array, length) over `mem`; `append` writes in place or allocates, as Go
does. `Begin` decides on the end of the window; `LockAndLoad`, `Swap`,
`ResetCounters`, `FreshBuffer` are the accesses of `resetWindow` and `flush` in
order; `LoadActive` and `StoreActive` those of `addSpanToReservoir`. `CheckpointLock`
and `CheckpointEnd` are `checkpoint`, which reads the active buffer and keeps `flushMu`
until its write to the database has ended; `SetK` is the third holder. The random
draw of `sampleTrace` is a choice of both outcomes where both are possible. A
pool may give back any buffer or a new one. The cut of a pooled buffer's length
in `FlushDone` is an unsynchronised write, and a consumer that loaded the
pointer may or may not see it. `Init` is a start without a checkpoint or with one of
`Checkpoints`, whose buffer has the capacity of its spans. Arrays that nobody reaches are
garbage and their names are used again, which keeps the state space finite.

Nothing serialises the consumers. `Overtake(c)` puts into `stale` every other consumer that
is between a read of the active buffer (or of its window) and the store that follows, when
`c` stores the buffer; `raced` becomes true when a stale consumer stores. From then on a
buffer may be in two hands and a span may be lost or sent twice, as the
counterexamples below show. What is claimed of ownership is claimed up to
that store (`NoAliasing`, `SamplerSpec`); `BuffersSound` and `ConsumeReturns` without it.

**ReservoirDurability.** The consumers of `ReservoirWindow`, with the value of a
buffer instead of slices on a heap: `Begin`, `LockAndLoad`, `Swap`, `ResetCounters`,
`FreshBuffer` and `LoadActive`, `AddToLRU`, `StoreActive` are steps of their own, and a
reset may fall between the steps of another consumer's sampling. `stale` and `raced` are as
above; a value does not stand for buffers that share an array, so again the
claims end with `raced`. `FlushLookup` and `FlushSend` are one goroutine
of `flush`; `CheckpointCounters` and `CheckpointWrite` hold `flushMu`
(`saving # Nil`), which excludes a reset and `SetK` and not sampling.
`Crash` loses memory, `Shutdown` writes a last checkpoint, `Restart` is
`newProcessor` with `loadCheckpoint`. A write may fail; `CheckpointDb` says when.

**CheckpointDb.** Files are inodes with the number of the checkpoint in them, and
a `bolt.DB` is a handle of an inode, so that a rename does not change what an open
handle reads. A compaction is `Begin`, `CloseDb`, `RemoveTemp`, `CompactBegin`,
`CompactEnd`, `Rename`, `OpenFile`, `Lock`, each with its failure: `CloseFails` returns
without opening anything (R:976-978), with the handle closed or not; all later
failures open the file again. Nothing keeps two compactions apart; `overlapped` is
history and says that one began while another was under way. A checkpoint is
`SaveBegin` (it loads `p.db`), `SaveTx`, `SaveCommit` or `SaveFails`. `Panic` is a
checkpoint or a compaction that finds `p.db` nil after a failed `Open`. Bolt is
external: the model has the transactions, the file lock and the waiting of
`Close` and `Open` that the code relies on. (The version of bolt in `go.mod` has no
`Compact`; the model follows how the code calls it.)

**AttributeFetch.** A call is `CheckCache`, `Evict`, `allowOperation`, `Operate`,
`recordOperationResult`, `StoreResult`; the two breaker functions are atomic
under its lock. Times are what is left of them. `HealthChanges` makes the
machine slow or fast. The history is kept apart from the breaker's own count:
`recent` are the last three results as they were recorded, `since` the time since
the third of three bad ones, `late` the operations that ended while the breaker
denied.

**AdaptiveControl.** `Build` registers the base and copies it. A tick is
`ScrapeFails`, `NoTunable` or `Adjust`. Probabilities are in thousandths,
utilizations in hundredths, rounded down where the code has floating point, and
the factors are fractions.

**HeadSampling.** `Begin` is the first part of a call (count, load the
probability, pass all at 1.0), `NextSpan` and `NextRecord` take one item, `End`
counts what was rejected and passes the rest on. `decisions` of a call is the
map of a scope. A hash is chosen when it is first asked for and kept in
`hash`, so the runs cover every hash function on the IDs that occur. Values and
patterns are short sequences of tokens; `matchPattern` is defined on these, the
end of a line included, and `createRecordID` gives a bag of values or, with
unequal weights, a sequence. `reportMetrics` is `ReportReceived` and
`ReportRejected`, of the trace sampler only: the factory passes neither `Start` nor
`Shutdown` of the log sampler on, so its counters are never reported. A batch
leaves out scopes without items, in which the code does nothing. `chosen`
is what the decisions say and `out` what is in the result; for spans that
is nothing, as `findOrCreateScope` copies into a `Traces` of its own.

**FallbackEnrich.** A call completes one resource: `Receive` is the first check,
then for each missing attribute `CheckCache`, `Evict`, `Denied` or `ReadProc`,
`StoreResult` (command line, path) or `ReadStatus`, `Resolve` (owner), then
`CheckAgain` and `Warn`. A value that was read is the number of the process it is
of. Names of UIDs may expire at any time, as a name never changes its UID.
`Ends` and `PidReused` are the machine. `during` (the processes that had the PID
while the call ran) and `sinceWarned` are history. The last check of strict mode
(F:259-268) can never be true after the first one was false, and the model
shows it as code does. Cached error entries are values like others.

**TopNFilter.** Every access of a batch to shared state is an action
(`StoreAbove`, `LoadLast`/`StoreBelow`, `Updated`, `CacheHit`/`CacheMiss`,
`Visit`, `Validate`, `Publish`), as are those of the cleaner and the tuner.
`disturbed[b]` is history: some other actor changed shared state since `b` began.
What is emitted is left out but for the PIDs that are kept. In the code a resource
without a PID always passes, and on the sequential path it is emitted twice, where it is
skipped (`processor_concurrent.go:258-263`) and where it is filtered (346); so is one
with a PID in the top N and without a process name. The shared state does not
depend on it.
Its definitions are named `Filter...`, so that one module of proofs can extend
both parts of topnprocfilter.

**MetricReporter.** A report of `reportMetrics` is `BeginReport`, `SubmitGauge` (it
stands for all gauges), `SwapCount`, `SubmitCount`; a `select` with several ready
cases is a choice (`BeginReport` and `ReporterExit`; `Receive`, `FlushBatch` and
`WorkerExit`). `Shutdown` is `CloseStopCh`, `CloseBuffer`, `Return`. A send on the
closed channel sets `panicked`, after which nothing happens. The circuit breaker
is left out: it opens on errors of the registry, which returns none
(`internal/metrics/metrics.go:150-195`).

## 3. What is checked

| Run | Instance | Shows |
| --- | --- | --- |
| `trace_safety` | 2 consumers, 3 traces (root and 2 children; root and child; orphan), TTL 1, the reporter | `ExactlyOnePlace`, `UnitsWellFormed`, `CountersMatchUnits`, `LeavesForAReason`; implements `TraceGrouping`; every buffered span leaves |
| `window_safety` | 2 consumers, 2 traces of a span, from an empty reservoir or a restored one without room, `k` in {1, 2}, checkpoints, 1 tick | `BuffersSound` (its parts are `TypeOK`, `SlicesSound`, `BuffersBounded`), `NoAliasing`; implements `WindowSampler`; `ConsumeReturns` |
| `durability_safety` | 2 consumers, 2 spans, LRU of 4, `k` in {1, 2}, 2 flushes at a time, 2 ticks | `AtMostOnce`, `CheckpointOfOneWindow` |
| `fetch_safety` | 3 callers on one key, TTL 1, cooldown 2 | `DenialIsDue`, `OnlyLateOperations`, `Recovers` |
| `control_safety` | 2 samplers, default factors, loads 0, 50, 100 | `DropsAreSpaced`, `NeverRaisedUnderPressure`, `ShedsLoad`, `ComesBack` |
| `reporter_safety` | channel and batch of 2, 3 reports, 3 filtered processes | `CountedOnce`, `InOrder`, `ShutdownReturns`, `UpdatesArrive` |
| `head_safety` | 2 callers; 4 spans in 3 scopes, or 4 records under three configurations | `Accounted`, `ScopeDecidesOnce`, `FollowsProbability`, `FiltersObeyed`, `LikeDecidesLike` |
| `db_safety` | 2 compactions, up to the first overlap, 2 files, 3 handles, 2 checkpoints, with faults | `Durable`, `AlwaysReopened`; implements `CheckpointStore` |
| `enrich_safety` | 2 calls on one PID, 2 processes, TTL and minute of 2 ticks | `OwnerIsCurrent`, `GivenIsKept`, `MissingIsLogged`, `ReuseIsNoticed` |
| `topn_safety` | 3 processes, ordered by CPU otherwise than by memory, one of them below both thresholds or the greatest by CPU; 2 batches, `n` in {1, 2} | `FilterTypeOK`, `UndisturbedIsRight` |

Type invariants: the runs check `SamplingTypeOK` of `HeadSampling`, `FilterTypeOK` of
`TopNFilter` and, inside `BuffersSound`, `TypeOK` of `ReservoirWindow`. Those of the
other modules are proved (section 4), so no run repeats them, and neither does
one repeat `RootNeverWaits`. Add `TypeOK` to the `INVARIANTS` of a configuration to see
it hold on the instance.

### Statements the code does not keep

Two runs are counterexamples to what a document says.

| Run | Statement | What happens |
| --- | --- | --- |
| `control_copied` | `README.md:23`: adjusts head sampling | the controller changes the registered base, the processor samples with a copy (A:589) |
| `window_short` | `WindowLasts` (`README.md:97`): a window lasts for its duration | two calls see the window over (R:245) and both reset it (R:473): the second ends at once what the first began, or moves `t0` back |

More statements of this kind are defined in the modules, each with a
configuration that shows its counterexample. TLC stops at the first statement it
finds violated; where a configuration has several, take that one out to see the next.

| Configuration | Statement |
| --- | --- |
| `TraceBufferMap_refuted` | `TimedOutTracesAreSampled` (R:261-262): `cleanup` (B:217) deletes them; only a `processSpan` that comes first samples them |
| `TraceBufferMap_refuted` | `SpansStayTogether`: a span after its root starts a second unit |
| `TraceBufferMap_refuted` | `EligibleAfterTimeout`: the timeout counts from the last span |
| `ReservoirWindow_emptied` | `ReservoirIsFull` with one consumer: a full buffer is replaced by one with a single span (R:461) |
| `ReservoirWindow_lostspan` | `ReservoirIsFull` with two consumers: both load the same `activeBuffer`, the second store undoes the first (R:448, 470) |
| `ReservoirWindow_torn` | `TracesAreWhole`: that happens within a trace too |
| `ReservoirDurability_tuned` | `ActiveInLRU`: `k_size` is raised, the LRU is not |
| `ReservoirDurability_restored` | `RestoredSpansAreFound`: a restart restores summaries, and the flush looks for spans in an LRU that starts empty |
| `ReservoirDurability_raced` | `SentOnce`: `AtMostOnce` with racing consumers: one stores back a buffer that another's reset has flushed, and it is sent again |
| `ReservoirDurability_raced` | `SpansOfOneWindow`: so its spans get into the next window and its checkpoints |
| `CheckpointDb_refuted` | `KeepsAcknowledged`: `Durable` beyond the first overlap: one compaction removes or renames the copy of another |
| `CheckpointDb_refuted` | `ClosedIsReopened` (`docs/BOLTDB_COMPACTION.md:63`): when `Close` fails the compaction returns without opening anything (R:976-978) |
| `CheckpointDb_refuted` | `FinalCheckpoint` (R:1260): the last checkpoint of `Shutdown` meets a database a compaction has closed |
| `CheckpointDb_refuted` | `ShutdownReleases` (R:1272): the compaction opens it again after `Shutdown` |
| `HeadSampling_refuted` | `ChosenArePassedOn` (`processor_test.go:107`): chosen spans are copied into a `Traces` nobody sends (A:735, 750) |
| `HeadSampling_refuted` | `RequiredHasDefault` (`config.go:87-88`): a record without a required field gets a random ID, whatever the default |
| `HeadSampling_refuted` | `WildcardMatchesAny` (A:760): `*` stops at the end of a line, and critical messages of several lines are missed |
| `FallbackEnrich_strict` | `StrictDrops` (`config.go:19`, F:243): the resource is skipped, not dropped |
| `FallbackEnrich_refuted` | `LogsOnce` (F:812): two calls that see the minute over both log |
| `FallbackEnrich_refuted` | `OneProcess`: the cached path of the last process with the owner of the next |
| `TopNFilter_refuted` | `FewAreAllKept` (T:338): `getTopNProcesses` returns before it fills `topNPIDCache`, and everything is filtered |
| `TopNFilter_refuted` | `BelowThresholdIsDropped` (`internal/processor/topnprocfilter/README.md:8, 23`; `config.go:15, 18`): the thresholds decide only when a process is idle, and one below both is kept if it is among the greatest |
| `TopNFilter_refuted` | `ValidCacheIsCurrent` (`internal/processor/topnprocfilter/README.md:40`): a batch validates what it computed before another one's updates and invalidation |
| `MetricReporter_refuted` | `SubmitsSafely` (`processor_metrics.go:296`): `Shutdown` closes the channel in the middle of a report; the next send panics |
| `MetricReporter_refuted` | `NothingLeftBehind`: the worker may see `stopCh` before it has emptied the channel |
| `AttributeFetch_refuted` | `ClosedAfterCooldown` (`docs/CIRCUIT_BREAKER.md:53`): the circuit stays open after the cooldown until a good result is recorded |
| `AttributeFetch_refuted` | `OpenForTheCooldown`: a late good result closes the circuit |
| `AttributeFetch_refuted` | `BadRunIsDenied`: a bad test after the cooldown starts no other cooldown |
| `AttributeFetch_refuted` | `ValidEntryStays`: a call deletes the entry another one has just stored |
| `AdaptiveControl_defaultid` | `ControllerFindsSampler`: the default IDs of controller and samplers differ |

### Bounds, and why they are enough

* *Spans, traces, consumers.* A race needs two actors; a third trace makes
  `Collect` return several. What is claimed of trace buffers is proved without bounds.
* *`MaxNow`, `WindowNS`, `BufferTTL`.* One tick separates "not yet" from "over".
  `window_safety` has a window that is over after a tick and two consumers that may each
  have decided to reset it, so it closes twice, its buffers go through a flush and the
  pool and come back into use. `durability_safety` has two ticks, so that a window that
  began after a race of resets ends too.
* *Two traces of a span, `k` in {1, 2}*: a slice is appended to in place, grown, and
  replaced when full. A restored buffer without room makes the first append
  allocate. With `Checkpoints <- OneRestored` it starts from a
  restored span instead; that passes too, with `KSizes = {2}` to keep it small.
* *`Arrays`* is larger than the number of arrays reachable at a time, or
  `NewArray` would have no value and TLC would stop.
* *`MaxFlushes = 2`*: a slow flush overlaps with the next; more of them add no
  kind of step.
* *`MaxCount = 4`*: the breaker tells 3 from more and nothing else, and
  `FetchAssumption` says so.
* *Three callers, one key*: three results trip, so all three of a bad run may
  come from different calls that overlap. Keys meet only in the breaker.
* *Loads* below `TargetLow`, between and above `TargetHigh`; `InitialP` outside
  its range, so that the first clamp is seen.
* *Three processes* and `n` in {1, 2}: one has the most memory and no CPU, one leads by
  CPU, and the third either overtakes it or is below both thresholds, so that "by CPU or
  by memory" keeps more than one order would, and a cut falls between them.
  `MaxMeasured = 1` per batch; batches measure the processes one after the other.
  `Ns = {0}` asks for a value that `setTopN` must raise. `InScope` keeps the run
  short: a process does not report the usage of another one, only the third grows
  idle, below the thresholds, a batch that brings no measurements runs alone,
  and the cleaner and the tuner are not under way at the same time. The proof has none
  of these bounds.

* *Channel and batch of 2*: a report makes two updates, so the channel is empty,
  partly full and full, and a batch is cut by its size and by the ticker.

* *Spans and records*: two of one trace in one scope, one of another trace, one in
  another batch; two records that agree, one with fewer fields and an error, one
  with a field of its own. `One = 2` gives hash values below, between and at the
  probabilities 0, 1/2 and 1. The configurations: equal weights without filters;
  unequal weights, a required field and a critical pattern; filters of each action,
  one of which would exclude what is critical.
* *Two compactions, three handles*: `db`, the handle a checkpoint still holds,
  and the one being opened. The second compaction begins from what the first left
  behind. `NotOverlapped` stops the run where it begins before the first has ended:
  `overlapped` is never reset and each property ends with it, so nothing that is claimed
  lies beyond.
* *Two processes* with different UIDs: one reuse, before, in and after a call;
  each call fetches a path and an owner. The command line is cached like the path.
  TTL and minute of 2 ticks tell a renewed entry from an old one.

Deadlock is checked in all runs but those of `MetricReporter`, whose process
ends with `Shutdown`.

### Fairness

* *Trace buffers*: a consumer inside `processSpan` goes on (no step waits), the
  ticker of the cleaner fires, the clock moves. Nothing is assumed of arrivals.
* *Window*: the same for a call of `ConsumeTraces`, and strong fairness for the
  acquisition of `flushMu`: a Go mutex hands over to a waiter that has starved
  for a millisecond. Flush goroutines end, and so does a checkpoint's write to the
  database, during which it holds the lock.
* *Fetches*: time passes, calls go on, and attributes are asked for again (the
  pipeline keeps scraping process metrics). No fairness for the machine's health.
* *Control*: the collector starts, and ticks on which the scrape succeeds recur
  (strong fairness, since any number of scrapes may fail in between).

* *Reporter*: a case of the worker's `select` that stays ready is taken some time
  (Go chooses at random), and a `Shutdown` that was called goes on.

* *Compaction*: one that has begun goes on, unless it waits for a file lock.
* *Enrichment*: calls go on and time passes.

`ReservoirDurability`, `TopNFilter` and `HeadSampling` have safety properties only.

## 4. What is proved

All for every value of the constants that satisfies the module's assumptions.

**TraceBufferMap_proofs** (assumes that every span has a trace and that the TTL
is a natural number; the sets may be infinite). The inductive invariant
`IInv == TypeOK /\ RootNeverWaits /\ UnitsWellFormed /\ ExactlyOnePlace`
is a conjunction of checked invariants, and none of them is inductive alone.
`ExactlyOnePlace` needs `RootNeverWaits`' second half (the spans in a buffer are
of its trace, so that two entries are disjoint), and so does `UnitsWellFormed`;
both need the types. The lemmas `...Moves` say which spans a step moves from
where to where; `...Safe` derive the invariant. `LeavesForAReason` and the
refinement `Spec => GroupingSpec` use `IInv` in each step. `CountersMatchUnits`
needs in addition that `sampled` is finite and that no unit is sampled twice,
which `ExactlyOnePlace` gives (`Counted`); a swap of the reporter moves a count from a
counter to `reported` and leaves their sum.

**ReservoirWindow_proofs** (assumes what `WindowAssumption` says of spans and
sizes, and infinitely many names of arrays, so that `NewArray` always has a
value). For any number of consumers `IInv` is `TypeOK`, `HeadersFit` (what a header
covers was written), `RoomInEach` (every array in use has room for a span) and
that finitely many arrays are reachable. Consumers that race may share arrays and
lose spans, and `BuffersSound` survives it: each store keeps every header fitting,
since it writes accepted spans only, into arrays at least as long. Nothing is assumed
of the number of consumers in what follows either; the invariant is `raced`, or
`Owned` and more. `Owned` says that no array has two owners (`Unshared`; what a checkpoint
reads counts as one, since its lock keeps a reset from giving it away), and that what a
consumer which nobody has overtaken loaded is what is active (`LoadedIsActive`). A
store either keeps this or is one of a stale consumer, which makes `raced` true.
From it follows `NoAliasing`. `Flow` adds where each accepted span is: in the active
buffer, in one unfinished flush, or sent (`Apart`, `BuffersApart`); `NotYetStored` says that
what is still to be stored was never stored, by any consumer (from the assumption that
no span is in two units, which is what the trace buffers guarantee). With these
`StoreActive` maps to `Take`, `Swap` to `Close`, `FlushSend` to `Finish`, all
else to a stutter, up to `raced` (`ImplementsSampler`). Beyond it neither holds.

**ReservoirDurability_proofs** (any spans, consumers, sizes and lengths of the run).
The invariant is `TypeOK /\ (raced \/ Orderly)`, and the types hold without regard to
races. `Undisturbed` ties what the consumers hold to the buffer: who has loaded it and is
not stale holds what it still is. `AtMostOnce` needs `Places`: a span is in
no more than one of the buffer, a flush and what a consumer is about to store, and there
once (`OnePlace`, `PendingIsNew`), and no LRU has what came from a checkpoint
(`RestoredNotCached`), so that a flush finds nothing to send for a restored summary.
`CheckpointOfOneWindow` needs `WindowOfBuffer`: the buffer is of the window `t0`,
unless a reset that was overtaken has yet to store, and so is a checkpoint that has
read its counters, for which `flushMu` keeps resets away.

**TopNProcFilter_proofs**, of `TopNFilter` (assumes finitely many processes, whose
usages are pairs of natural numbers, and a configured `top_n` of at least 1; any
number of batches, any values `top_n` is set to). `UndisturbedIsRight` speaks of the
last phase of a batch only. `FilterInv` says for each phase what an undisturbed
batch with measurements may rely on (`BatchSound`): it has invalidated the cache
when it looks, so that it computes; `limit` and `seen` are then copies of `n` and of
the visited part of the table (`Copied`), all of it when it publishes; and what it
publishes is right for the table as it is. Each step of another actor either
leaves all of that alone or sets `disturbed`, which is what `OtherBatchKeepsSound`
and `OtherKeepsSound` go through. `PublishRight` is the step that counts: it is
about cardinalities alone (`TopNKeeps`: whoever fewer than `k` rival is in every choice
of the `k` greatest, and nobody in it is beaten by `k`). Disturbed batches do filter
wrongly, so nothing stronger holds.

Of `MetricReporter` (any sizes of channel and batch, any number of reports and of
filtered processes). `InOrder` needs what is in three places at once:
`Line == reported \o batch \o buffer`. No step does more to it than append an update,
which the reporter makes after all that are in it (`Made`). `CountedOnce` needs
the same line: the worker moves a boundary in it, which keeps its sum
(`SumOfConcat`), and a submission adds to the sum what the reporter held or, if
the channel is full, to `discarded` (`BalanceSubmitted`). The sum of the counts is
the cardinality of a set of pairs (`CountedIn`), since nothing can be proved here
of a fold.

**FallbackEnrich_proofs** (any number of calls and processes). `Sound` says of each
call that what it fetches did not come with the resource and that an owner it
read is of a process that had the PID during the call, and `CachesSound` that a
name is cached for its own UID. `OwnerIsCurrent`, `GivenIsKept` and
`MissingIsLogged` follow from these for the one call a step moves.

**AttributeFetch_proofs** (assumes finitely many callers, and `MaxCount >= 3`).
`DenialIsDue` needs `CircuitTracks`: the count of the breaker is the length of
the run of bad results, as far as the last three tell (`CountsBadRun`); the circuit is open
when there are three; and the time left of its cooldown is what has not passed since
the third. `OnlyLateOperations`
needs `LateBound`: late operations plus those under way are fewer than the
callers. Every one that ends moves from one side to the other, and none
starts while the breaker denies; at the trip itself the caller that
records is not under way, which is why the bound is strict.

**AdaptiveHeadSampler_proofs**, of `AdaptiveControl` (assumes what the two
`Validate` functions check: a high threshold above the low one, reducing factors below 1, a minimum not above
the maximum). `IInv == TypeOK /\ RegisteredIsBuilt /\ RunIsYoungerThanDrop`.
`RegisteredIsBuilt` says that the controller finds only bases that have a probability;
`RunIsYoungerThanDrop` (`highCount <= sinceDrop`) is what spaces the
drops: a run of high intervals cannot be older than the drop it started after.
The lemmas on `\div` show that a factor below 1 does not raise a
probability and that smoothing stays a percentage.

**AdaptiveHeadSampler_proofs**, of `HeadSampling` (assumes finitely many callers,
probabilities within 0 and 1.0, and that no span or record is twice in the
batches, as each is an object of its own; any spans, records, traces, scopes,
fields, patterns, filters and hash function). The six properties of the run hold
for every value of the constants. None but `Accounted` looks at more than one
call, and none is inductive. `HeadInv` adds to `SamplingTypeOK` and `Accounted`:

* `CallSound`, what a call has done so far. `CallWellFormed` says that `rest` is the
  end of the batch (`IsRest`), so that the item at hand is new and its scope is
  known, that nothing undone is chosen, and that the probability of the moment is
  among those in force. `Remembered` says that `decisions` holds what was chosen of
  the scope at hand: without it nothing ties a second span of a trace to the
  first. `Followed` and `DecisionsFollow` say that a decision, and the one
  remembered for a trace, was `Allowed` by the hash and the probabilities in force;
  both survive that the hash becomes known and that probabilities are added
  (`AllowedStays`). A call that passed all has 1.0 among its probabilities, and
  is the other case of `Followed`. `Obeyed` is about the filters.
* `Apart`: the items of waiting batches, of calls and of what was delivered are
  apart. With it the sizes of `Accounted` add up.

`SpanSound` and `RecordSound` show that taking an item keeps a call sound,
`SoundStays` that whatever else happens does. `FirstMatchIs` (there is a least hit)
gives `FiltersObeyed`, and `AlikeHaveOneID` (the bag or sequence that
`createRecordID` makes depends on the configured fields only) gives
`LikeDecidesLike`.

**CheckpointDb_proofs** (any number of jobs, files and handles; nothing is assumed of
the order of compactions). The code has nothing that keeps two compactions apart, and
`CheckpointDb_refuted` shows that `Durable` does not survive an overlap beyond the step in which
it begins. So the claims end there: `IInv` is `TypeOK`, facts that hold always (`Base`), and
`overlapped \/ Sound`. `Durable` is not inductive: that a commit goes to the file at
the path needs that every open handle is of that file (`OpenAtPath`), which needs that the
source of a copy is that file and its target is not, that a copy that is to be renamed is
complete (`CopySound`), and that no transaction is open on what is being copied
(`ClosedMeanwhile`). `OneJob` holds until the step that sets `overlapped`. `StepsRefine` maps
`SaveCommit` to `Save`, `Restart` to `Load` and all else to a stutter. `TypeCorrect` holds with
overlapping compactions too.

**Model-checked only.** Liveness (`EverySpanLeaves`, `ConsumeReturns`, `Recovers`,
`ShedsLoad`, `ComesBack`, `ShutdownReturns`, `UpdatesArrive`,
`AlwaysReopened`, `ReuseIsNoticed`): TLAPS has no rules for `ENABLED`.

## 5. Plan

Every part with state of its own is modelled, and every safety invariant that a run
checks is proved. What is left are the hazards in `PROJECT.json` without a property. For
most of them the code has no property to prove: the statement it should keep is
refuted above. Two remain open:

* an initial probability out of its range (A:88), which the assumptions exclude;
* the counts that a full channel of the metric reporter loses
  (`processor_metrics.go:302`), which `CountedOnce` books as discarded.

What racing consumers may at most do to the reservoir (how many spans a lost store
drops, how often one is sent) is not stated; beyond `raced` only `BuffersSound` and
`ConsumeReturns` are.

## 6. Running

    tlc -workers 2 -config TraceBufferMap_safety.cfg MCTraceBufferMap
    tlapm TraceBufferMap_proofs.tla

Each run takes at most a few minutes, each proof module too.

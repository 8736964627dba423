---------------------------- MODULE MetricReporter ----------------------------
(***************************************************************************)
(* How the top-N filter reports about itself                               *)
(* (internal/processor/topnprocfilter/processor_metrics.go: reportMetrics, *)
(* submitMetricUpdate, processMetricsUpdates, processBatch, Start,         *)
(* Shutdown).                                                              *)
(*                                                                         *)
(* A reporter turns the counters of the filter into updates and puts them  *)
(* into a bounded channel; a worker takes them out and hands them to the   *)
(* metrics registry in batches; Shutdown closes stopCh and the channel and *)
(* waits for the worker.  A report makes several updates with the values   *)
(* of gauges, of which one is modelled, and one with the count of filtered *)
(* processes.                                                              *)
(*                                                                         *)
(* The circuit breaker of processBatch is left out: it opens when updates  *)
(* fail, and UpdateGauge and UpdateCounter of internal/metrics return nil  *)
(* whatever happens (metrics.go:150-195), so it is never open.             *)
(***************************************************************************)
EXTENDS Integers, SequencesExt

CONSTANTS
  BufferSize,   \* defaultMetricsBufferSize
  BatchSize,    \* defaultMetricsBatchSize
  MaxFiltered,  \* bound: how many processes are filtered
  MaxReports    \* bound: how often the reporting ticker fires

ASSUME ReporterAssumption ==
  /\ BufferSize \in Nat \ {0} /\ BatchSize \in Nat \ {0}
  /\ MaxFiltered \in Nat /\ MaxReports \in Nat

VARIABLES
  filteredCount,  \* filteredCount
  tick,           \* metricsTicker.C holds a tick
  reporter,       \* the goroutine of reportMetrics: where it is in a report
  report,         \* the number of the report, which stands for the gauge's value
  filtered,       \* its local variable
  buffer, closed, \* metricsBuffer, and whether it is closed
  worker,         \* the goroutine of processMetricsUpdates
  batch,          \* its local variable
  metricsWg,      \* the count of the wait group
  stopped,        \* stopCh is closed
  main,           \* where Shutdown is
  panicked,       \* a send on the closed channel ended the process
  filteredTotal,  \* history: how many processes were filtered
  discarded,      \* history: the filtered processes of discarded updates
  reported        \* history: the updates given to the registry

reporting == <<tick, reporter, report, filtered>>
working == <<worker, batch, metricsWg>>
stopping == <<stopped, closed, main>>
vars == <<filteredCount, reporting, buffer, working, stopping, panicked,
          filteredTotal, discarded, reported>>

(* An update; count is the number of filtered processes, 0 for a gauge.     *)
Update == [report : 1 .. MaxReports, count : 0 .. MaxFiltered]

(* Start has run. *)
Init ==
  /\ filteredCount = 0 /\ tick = FALSE
  /\ reporter = "idle" /\ report = 0 /\ filtered = 0
  /\ buffer = << >> /\ closed = FALSE
  /\ worker = "running" /\ batch = << >> /\ metricsWg = 1
  /\ stopped = FALSE /\ main = "running" /\ panicked = FALSE
  /\ filteredTotal = 0 /\ discarded = 0 /\ reported = << >>

-----------------------------------------------------------------------------
(* processMetrics filters a process; no batch is under way in Shutdown.     *)
FilterProcess ==
  /\ main = "running" /\ filteredTotal < MaxFiltered
  /\ filteredCount' = filteredCount + 1
  /\ filteredTotal' = filteredTotal + 1
  /\ UNCHANGED <<reporting, buffer, working, stopping, panicked, discarded, reported>>

(* The ticker drops ticks for a slow reader; Shutdown stops it, and leaves  *)
(* the tick that is in the channel.                                         *)
TickerFires ==
  /\ main = "running" /\ ~tick /\ report < MaxReports
  /\ tick' = TRUE
  /\ UNCHANGED <<filteredCount, reporter, report, filtered, buffer, working, stopping,
                 panicked, filteredTotal, discarded, reported>>

(* The select of reportMetrics: either case if both are ready.              *)
BeginReport ==
  /\ reporter = "idle" /\ tick
  /\ tick' = FALSE /\ reporter' = "gauge" /\ report' = report + 1
  /\ UNCHANGED <<filteredCount, filtered, buffer, working, stopping, panicked,
                 filteredTotal, discarded, reported>>

ReporterExit ==
  /\ reporter = "idle" /\ stopped
  /\ reporter' = "exited"
  /\ UNCHANGED <<filteredCount, tick, report, filtered, buffer, working, stopping,
                 panicked, filteredTotal, discarded, reported>>

HasRoom == Len(buffer) < BufferSize

(* submitMetricUpdate: a send that does not wait, and panics when Shutdown  *)
(* has closed the channel.                                                  *)
submitMetricUpdate(count) ==
  \/ /\ closed
     /\ panicked' = TRUE
     /\ UNCHANGED <<buffer, discarded>>
  \/ /\ ~closed /\ HasRoom
     /\ buffer' = Append(buffer, [report |-> report, count |-> count])
     /\ UNCHANGED <<panicked, discarded>>
  \/ /\ ~closed /\ ~HasRoom
     /\ discarded' = discarded + count
     /\ UNCHANGED <<panicked, buffer>>

SubmitGauge ==
  /\ reporter = "gauge"
  /\ submitMetricUpdate(0)
  /\ reporter' = "swap"
  /\ UNCHANGED <<filteredCount, tick, report, filtered, working, stopping,
                 filteredTotal, reported>>

(* A faulty variant: Load instead of Swap(0).                               *)
AfterLoad == filteredCount

AfterSwap == 0

SwapCount ==
  /\ reporter = "swap"
  /\ filtered' = filteredCount
  /\ filteredCount' = AfterSwap
  /\ reporter' = IF filteredCount > 0 THEN "counter" ELSE "idle"
  /\ UNCHANGED <<tick, report, buffer, working, stopping, panicked, filteredTotal,
                 discarded, reported>>

SubmitCount ==
  /\ reporter = "counter"
  /\ submitMetricUpdate(filtered)
  /\ reporter' = "idle" /\ filtered' = 0
  /\ UNCHANGED <<filteredCount, tick, report, working, stopping, filteredTotal, reported>>

-----------------------------------------------------------------------------
(* The worker *)

(* A faulty variant: the batch is kept.                                     *)
NotCleared(b) == b

Cleared(b) == << >>

(* processBatch, and an empty batch after it.                               *)
processBatch(b) ==
  /\ reported' = reported \o b
  /\ batch' = Cleared(b)

Receive ==
  /\ worker = "running" /\ buffer # << >>
  /\ buffer' = Tail(buffer)
  /\ LET b == Append(batch, Head(buffer))
     IN  \/ Len(b) >= BatchSize /\ processBatch(b)
         \/ Len(b) < BatchSize /\ batch' = b /\ UNCHANGED reported
  /\ UNCHANGED <<filteredCount, reporting, worker, metricsWg, stopping, panicked,
                 filteredTotal, discarded>>

(* A faulty variant: only a full batch is due.                              *)
DueWhenFull == Len(batch) >= BatchSize

Due == batch # << >>

(* The ticker of the worker.                                                *)
FlushBatch ==
  /\ worker = "running" /\ Due
  /\ processBatch(batch)
  /\ UNCHANGED <<filteredCount, reporting, buffer, worker, metricsWg, stopping, panicked,
                 filteredTotal, discarded>>

(* The channel is closed and empty, or stopCh is closed: the select takes   *)
(* either of the cases that are ready, so updates may be left in the buffer.*)
MayExit == stopped \/ (closed /\ buffer = << >>)

(* A faulty variant of the next action: metricsWg.Done is missing.          *)
WorkerExitNotDone ==
  /\ worker = "running" /\ MayExit
  /\ reported' = reported \o batch /\ batch' = << >>
  /\ worker' = "exited"
  /\ UNCHANGED <<filteredCount, reporting, buffer, metricsWg, stopping, panicked,
                 filteredTotal, discarded>>

WorkerExit ==
  /\ worker = "running" /\ MayExit
  /\ reported' = reported \o batch /\ batch' = << >>
  /\ worker' = "exited"
  /\ metricsWg' = metricsWg - 1
  /\ UNCHANGED <<filteredCount, reporting, buffer, stopping, panicked, filteredTotal,
                 discarded>>

-----------------------------------------------------------------------------
(* Shutdown: stop the ticker and close stopCh, close the channel, wait.     *)
CloseStopCh ==
  /\ main = "running"
  /\ main' = "closing" /\ stopped' = TRUE
  /\ UNCHANGED <<filteredCount, reporting, buffer, closed, working, panicked,
                 filteredTotal, discarded, reported>>

CloseBuffer ==
  /\ main = "closing"
  /\ main' = "waiting" /\ closed' = TRUE
  /\ UNCHANGED <<filteredCount, reporting, buffer, stopped, working, panicked,
                 filteredTotal, discarded, reported>>

Return ==
  /\ main = "waiting" /\ metricsWg = 0
  /\ main' = "down"
  /\ UNCHANGED <<filteredCount, reporting, buffer, stopped, closed, working, panicked,
                 filteredTotal, discarded, reported>>

Shutdown == CloseStopCh \/ CloseBuffer \/ Return

(* The collector exits when all its components are down.                    *)
Running == ~panicked /\ main # "down"

Next ==
  /\ Running
  /\ \/ FilterProcess \/ TickerFires
     \/ BeginReport \/ ReporterExit \/ SubmitGauge \/ SwapCount \/ SubmitCount
     \/ Receive \/ FlushBatch \/ WorkerExit
     \/ Shutdown

Spec == Init /\ [][Next]_vars

(* The worker's goroutine runs, its ticker fires, a case of a select that   *)
(* stays ready is taken in the end, and Shutdown, once called, goes on.     *)
Fairness ==
  /\ WF_vars(Running /\ Receive) /\ WF_vars(Running /\ FlushBatch)
  /\ WF_vars(Running /\ WorkerExit)
  /\ WF_vars(Running /\ (CloseBuffer \/ Return))

FairSpec == Spec /\ Fairness

-----------------------------------------------------------------------------
(* Type invariant; the channel keeps its capacity.                          *)
TypeOK ==
  /\ filteredCount \in 0 .. MaxFiltered /\ filteredTotal \in 0 .. MaxFiltered
  /\ tick \in BOOLEAN /\ filtered \in 0 .. MaxFiltered
  /\ reporter \in {"idle", "gauge", "swap", "counter", "exited"}
  /\ report \in 0 .. MaxReports
  /\ buffer \in Seq(Update) /\ Len(buffer) <= BufferSize
  /\ worker \in {"running", "exited"} /\ metricsWg \in 0 .. 1
  /\ batch \in Seq(Update) /\ Len(batch) < BatchSize
  /\ stopped \in BOOLEAN /\ closed \in BOOLEAN /\ panicked \in BOOLEAN
  /\ main \in {"running", "closing", "waiting", "down"}
  /\ discarded \in Nat /\ reported \in Seq(Update)

(* The processes that a line of updates counts, numbered within each.       *)
CountedIn(updates) ==
  {x \in (DOMAIN updates) \X (1 .. MaxFiltered) : x[2] <= updates[x[1]].count}

SumOf(updates) == Cardinality(CountedIn(updates))

(* Every filtered process is counted in exactly one place, from the filter  *)
(* through the reporter, the channel and the worker to the registry: none   *)
(* is reported twice, and only a full channel makes one go.                 *)
CountedOnce ==
  ~panicked =>
    filteredTotal = filteredCount + filtered + SumOf(buffer) + SumOf(batch)
                      + SumOf(reported) + discarded

(* The registry gets the updates in the order in which the reporter made    *)
(* them, each once, so a gauge does not go back to an older value.          *)
InOrder ==
  LET all == reported \o batch \o buffer
  IN  /\ IsInjective(all)
      /\ \A i, j \in 1 .. Len(all) : i < j => all[i].report <= all[j].report

(* Shutdown waits for the worker and gets an answer, whatever is in the     *)
(* channel and wherever worker and reporter are.                            *)
ShutdownReturns == main = "closing" ~> (main = "down" \/ panicked)

(* What is in the channel or in a batch is given to the registry, however   *)
(* few updates there are, unless the processor is shut down.                *)
UpdatesArrive ==
  \A u \in Update : u \in ToSet(buffer) ~> (u \in ToSet(reported) \/ stopped)

(* processor_metrics.go:296 "submitMetricUpdate safely submits a metric     *)
(* update to the buffer".  Violated: Shutdown closes the channel while the  *)
(* reporter may be in the middle of a report, and its next send panics.     *)
SubmitsSafely == ~panicked

(* processor_metrics.go:212 "Channel closed, process remaining updates and  *)
(* exit".  Violated: the worker may see stopCh first.                       *)
NothingLeftBehind == main = "down" => buffer = << >>
=============================================================================

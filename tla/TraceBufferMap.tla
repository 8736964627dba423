--------------------------- MODULE TraceBufferMap ---------------------------
(***************************************************************************)
(* The trace buffers of the trace-aware reservoir sampler                  *)
(* (internal/processor/reservoirsampler/trace_buffer.go and the part of    *)
(* processor.go that drives them).                                         *)
(*                                                                         *)
(* Consumers are the goroutines inside ConsumeTraces: each takes one span  *)
(* at a time through processSpan.  Every operation on the map runs under   *)
(* traceBufferMap.lock, so it is one step; between two of them a consumer  *)
(* holds buffers it has taken out of the map and has not sampled yet.      *)
(* Wall-clock time appears only as the age of a buffer.  time.Since(t) is  *)
(* compared with bufferTTL and with nothing else, so ages stop counting at *)
(* BufferTTL + 1.                                                          *)
(***************************************************************************)
EXTENDS Integers, FiniteSets

CONSTANTS
  Spans,      \* the spans that may arrive, each of them once
  Traces,     \* the trace IDs
  TraceID,    \* TraceID[s]: the trace of span s
  RootSpans,  \* the spans whose parent span ID is empty
  Consumers,  \* the goroutines that may be inside ConsumeTraces
  BufferTTL   \* traceBufferMap.bufferTTL, in ticks of the clock

ASSUME TraceAssumption ==
  /\ TraceID \in [Spans -> Traces]
  /\ RootSpans \subseteq Spans

ASSUME TTLAssumption == BufferTTL \in Nat

VARIABLES
  arrived,             \* the spans processSpan was called with
  buffers,             \* traceBufferMap.buffers, NoBuffer where there is no entry
  pc,                  \* where each consumer is in processSpan
  taken,               \* the traces a consumer took out of the map and has yet to sample
  sampled,             \* history: the units handed to sampleTrace
  expired,             \* history: the spans that left the map with cleanup()
  completeTraceCount,  \* reservoirSamplerProcessor.completeTraceCount
  timedOutTraceCount,  \* reservoirSamplerProcessor.timedOutTraceCount
  reported,            \* history: the sums of the two counter metrics' data points
  reporter,            \* the goroutine of reportMetrics, in reportTraceMetrics
  stopping,            \* traceBufferMap.stopCh is closed
  cleaner              \* the goroutine of periodicCleanup

vars == <<arrived, buffers, pc, taken, sampled, expired,
          completeTraceCount, timedOutTraceCount, reported, reporter,
          stopping, cleaner>>

-----------------------------------------------------------------------------
(* A traceBuffer: age is the time since updateTime, stay the time since     *)
(* creationTime (a field the code sets and never reads).                    *)

Clock == 0 .. BufferTTL + 1

TraceBuffer ==
  [spans : SUBSET Spans, hasRootSpan : BOOLEAN, age : Clock, stay : Clock]

(* newTraceBuffer; an entry of the map always holds the span it was made for,*)
(* so a buffer without spans stands for the absence of an entry.            *)
NoBuffer == [spans |-> {}, hasRootSpan |-> FALSE, age |-> 0, stay |-> 0]

(* A trace taken out of the map, as sampleTrace sees it. *)
Unit == [traceID : Traces, spans : SUBSET Spans, hasRootSpan : BOOLEAN]

UnitOf(t, b) ==
  [traceID |-> t, spans |-> b.spans, hasRootSpan |-> b.hasRootSpan]

\* Faulty variants, here and below, are what a plausible bug would make of the
\* definition that follows; the runs must tell them from the code.
isRootInverted(s) == s \notin RootSpans

isRoot(s) == s \in RootSpans

isCompleteWithChild(b) == b.hasRootSpan /\ Cardinality(b.spans) > 1

isComplete(b) == b.hasRootSpan

isTimedOutTooEarly(b) == b.age >= BufferTTL

isTimedOut(b) == b.age > BufferTTL

(* traceBuffer.addSpan *)
WithSpan(b, s) ==
  [b EXCEPT !.spans = @ \cup {s},
            !.hasRootSpan = @ \/ isRoot(s),
            !.age = 0]

Present == {t \in Traces : buffers[t].spans # {}}

WithoutDeleting(ts) == buffers

Without(ts) == [t \in Traces |-> IF t \in ts THEN NoBuffer ELSE buffers[t]]

-----------------------------------------------------------------------------
Init ==
  /\ arrived = {}
  /\ buffers = [t \in Traces |-> NoBuffer]
  /\ pc = [c \in Consumers |-> "idle"]
  /\ taken = [c \in Consumers |-> {}]
  /\ sampled = {}
  /\ expired = {}
  /\ completeTraceCount = 0
  /\ timedOutTraceCount = 0
  /\ reported = [complete |-> 0, timedOut |-> 0]
  /\ reporter = "idle"
  /\ stopping = FALSE
  /\ cleaner = "running"

(* processSpan, its first half: traceBufferMap.addSpan takes the trace out  *)
(* of the map in the same critical section if the span completes it.        *)
AddSpan(c, s) ==
  LET t == TraceID[s]
      b == WithSpan(buffers[t], s)
  IN  /\ ~stopping
      /\ pc[c] = "idle" /\ taken[c] = {}
      /\ s \notin arrived
      /\ arrived' = arrived \cup {s}
      /\ pc' = [pc EXCEPT ![c] = "added"]
      /\ \/ /\ isComplete(b)
            /\ buffers' = [buffers EXCEPT ![t] = NoBuffer]
            /\ taken' = [taken EXCEPT ![c] = {UnitOf(t, b)}]
         \/ /\ ~isComplete(b)
            /\ buffers' = [buffers EXCEPT ![t] = b]
            /\ UNCHANGED taken
      /\ UNCHANGED <<sampled, expired, completeTraceCount, timedOutTraceCount,
                     reported, reporter, stopping, cleaner>>

CountAsComplete(u) ==
  /\ completeTraceCount' = completeTraceCount + 1
  /\ UNCHANGED timedOutTraceCount

(* How a trace was completed goes into one of two counters. *)
Count(u) ==
  \/ /\ isComplete(u)
     /\ completeTraceCount' = completeTraceCount + 1
     /\ UNCHANGED timedOutTraceCount
  \/ /\ ~isComplete(u)
     /\ timedOutTraceCount' = timedOutTraceCount + 1
     /\ UNCHANGED completeTraceCount

(* The counters and the call of sampleTrace for one trace that was taken out *)
(* of the map.  The loop over the traces of Collect follows the order of a   *)
(* range over a Go map, which is any order.                                  *)
SampleTrace(c) ==
  \E u \in taken[c] :
    /\ taken' = [taken EXCEPT ![c] = @ \ {u}]
    /\ sampled' = sampled \cup {u}
    /\ Count(u)
    /\ UNCHANGED <<arrived, buffers, pc, expired, reported, reporter, stopping,
                   cleaner>>

(* getCompletedAndTimedOutTraces, called by processSpan once the trace that *)
(* the span completed has been sampled.                                     *)
Due == {t \in Present : isComplete(buffers[t]) \/ isTimedOut(buffers[t])}

Collect(c) ==
  /\ pc[c] = "added" /\ taken[c] = {}
  /\ pc' = [pc EXCEPT ![c] = "idle"]
  /\ taken' = [taken EXCEPT ![c] = {UnitOf(t, buffers[t]) : t \in Due}]
  /\ buffers' = Without(Due)
  /\ UNCHANGED <<arrived, sampled, expired, completeTraceCount,
                 timedOutTraceCount, reported, reporter, stopping, cleaner>>

(* cleanup, from the ticker of periodicCleanup: the expired buffers are     *)
(* deleted, nobody samples them.                                            *)
NothingExpires == {}

Expired == {t \in Present : isTimedOut(buffers[t])}

Cleanup ==
  /\ cleaner = "running"
  /\ Expired # {}
  /\ buffers' = Without(Expired)
  /\ expired' = expired \cup UNION {buffers[t].spans : t \in Expired}
  /\ UNCHANGED <<arrived, pc, taken, sampled, completeTraceCount,
                 timedOutTraceCount, reported, reporter, stopping, cleaner>>

(* The clock moves: every buffer in the map grows older. *)
Older(x) == IF x > BufferTTL THEN x ELSE x + 1

Tick ==
  /\ buffers' = [t \in Traces |->
                   IF t \in Present
                   THEN [buffers[t] EXCEPT !.age = Older(@), !.stay = Older(@)]
                   ELSE buffers[t]]
  /\ UNCHANGED <<arrived, pc, taken, sampled, expired, completeTraceCount,
                 timedOutTraceCount, reported, reporter, stopping, cleaner>>

(* traceBufferMap.shutdown, from the processor's Shutdown: the collector    *)
(* calls it once its receivers have stopped, hence once no consumer runs.   *)
Shutdown ==
  /\ ~stopping
  /\ \A c \in Consumers : pc[c] = "idle" /\ taken[c] = {}
  /\ stopping' = TRUE
  /\ UNCHANGED <<arrived, buffers, pc, taken, sampled, expired,
                 completeTraceCount, timedOutTraceCount, reported, reporter,
                 cleaner>>

(* The select of periodicCleanup sees the closed channel.  It may choose a  *)
(* tick that is ready at the same time, so Cleanup may still come first.    *)
CleanerExit ==
  /\ stopping
  /\ cleaner = "running"
  /\ cleaner' = "exited"
  /\ UNCHANGED <<arrived, buffers, pc, taken, sampled, expired,
                 completeTraceCount, timedOutTraceCount, reported, reporter,
                 stopping>>

(* reportTraceMetrics, on a tick of reportMetrics: each of the two counters  *)
(* is swapped to zero and its value handed to UpdateCounter, which appends   *)
(* it as a data point and, the metric being registered, does not fail.       *)
(* Consumers count between the two swaps, and before and after them.         *)
ReportCompleteByLoad ==
  /\ reporter = "idle"
  /\ reporter' = "between"
  /\ reported' = [reported EXCEPT !.complete = @ + completeTraceCount]
  /\ UNCHANGED <<arrived, buffers, pc, taken, sampled, expired,
                 completeTraceCount, timedOutTraceCount, stopping, cleaner>>

ReportComplete ==
  /\ reporter = "idle"
  /\ reporter' = "between"
  /\ reported' = [reported EXCEPT !.complete = @ + completeTraceCount]
  /\ completeTraceCount' = 0
  /\ UNCHANGED <<arrived, buffers, pc, taken, sampled, expired,
                 timedOutTraceCount, stopping, cleaner>>

ReportTimedOut ==
  /\ reporter = "between"
  /\ reporter' = "idle"
  /\ reported' = [reported EXCEPT !.timedOut = @ + timedOutTraceCount]
  /\ timedOutTraceCount' = 0
  /\ UNCHANGED <<arrived, buffers, pc, taken, sampled, expired,
                 completeTraceCount, stopping, cleaner>>

(* The select of reportMetrics sees the closed stop channel, or a tick that *)
(* is ready at the same time.  What the counters hold then stays in them.   *)
ReporterExit ==
  /\ stopping
  /\ reporter = "idle"
  /\ reporter' = "exited"
  /\ UNCHANGED <<arrived, buffers, pc, taken, sampled, expired,
                 completeTraceCount, timedOutTraceCount, reported, stopping,
                 cleaner>>

Next ==
  \/ \E c \in Consumers, s \in Spans : AddSpan(c, s)
  \/ \E c \in Consumers : SampleTrace(c)
  \/ \E c \in Consumers : Collect(c)
  \/ Cleanup
  \/ Tick
  \/ Shutdown
  \/ CleanerExit
  \/ ReportComplete
  \/ ReportTimedOut
  \/ ReporterExit

Spec == Init /\ [][Next]_vars

(* Consumers run to the end of processSpan, the clock moves, and the cleanup *)
(* ticker fires.  Nobody promises that a span arrives or that the processor  *)
(* is shut down.                                                             *)
Fairness ==
  /\ \A c \in Consumers : WF_vars(SampleTrace(c)) /\ WF_vars(Collect(c))
  /\ WF_vars(Cleanup)
  /\ WF_vars(Tick)
  /\ WF_vars(CleanerExit)

FairSpec == Spec /\ Fairness

-----------------------------------------------------------------------------
SpansOf(units) == UNION {u.spans : u \in units}

Resident == UNION {buffers[t].spans : t \in Traces}

Taken == UNION {SpansOf(taken[c]) : c \in Consumers}

Sampled == SpansOf(sampled)

(* Type invariant of the trace buffers. *)
TypeOK ==
  /\ arrived \subseteq Spans
  /\ buffers \in [Traces -> TraceBuffer]
  /\ pc \in [Consumers -> {"idle", "added"}]
  /\ taken \in [Consumers -> SUBSET Unit]
  /\ sampled \subseteq Unit
  /\ expired \subseteq Spans
  /\ completeTraceCount \in Nat
  /\ timedOutTraceCount \in Nat
  /\ reported \in [complete : Nat, timedOut : Nat]
  /\ reporter \in {"idle", "between", "exited"}
  /\ stopping \in BOOLEAN
  /\ cleaner \in {"running", "exited"}

(* A span that arrived is in exactly one place: a buffer of the map, one    *)
(* trace that one consumer has taken out of it, one sampled unit, or the    *)
(* spans cleanup() threw away.  Two consumers and the cleaner work on the   *)
(* map at once; none of them makes a span vanish or count twice.            *)
Disjoint(A, B) == A \cap B = {}

Partition ==
  /\ arrived = Resident \cup Taken \cup Sampled \cup expired
  /\ Disjoint(Resident, Taken) /\ Disjoint(Resident, Sampled)
  /\ Disjoint(Resident, expired) /\ Disjoint(Taken, Sampled)
  /\ Disjoint(Taken, expired) /\ Disjoint(Sampled, expired)

NoSharing ==
  /\ \A c, d \in Consumers : \A u \in taken[c], v \in taken[d] :
       Disjoint(u.spans, v.spans) \/ (c = d /\ u = v)
  /\ \A u, v \in sampled : u = v \/ Disjoint(u.spans, v.spans)

ExactlyOnePlace == Partition /\ NoSharing

(* A root span never waits and is never thrown away: the trace it belongs   *)
(* to leaves the map in the critical section that stored it.  What is left  *)
(* in the map is in the buffer of its own trace, without a root, and        *)
(* cleanup() can drop nothing else.                                         *)
RootNeverWaits ==
  /\ \A t \in Traces :
       /\ ~buffers[t].hasRootSpan
       /\ \A s \in buffers[t].spans : TraceID[s] = t /\ s \notin RootSpans
  /\ Disjoint(RootSpans, expired)

(* Every unit that reaches sampleTrace is part of one trace, is not empty,  *)
(* and is classified (complete or timed out) by what it really holds.       *)
WellFormed(u) ==
  /\ u.spans # {}
  /\ \A s \in u.spans : TraceID[s] = u.traceID
  /\ u.hasRootSpan = (u.spans \cap RootSpans # {})

UnitsWellFormed ==
  /\ \A u \in sampled : WellFormed(u)
  /\ \A c \in Consumers : \A u \in taken[c] : WellFormed(u)

(* The reporter swaps the two counters to zero one after the other while    *)
(* the consumers add to them.  What has been reported and what is still in  *)
(* a counter are together the numbers of units sampled with and without a   *)
(* root span: no unit is reported twice, missed, or in the other metric.    *)
CountersMatchUnits ==
  /\ reported.complete + completeTraceCount
       = Cardinality({u \in sampled : isComplete(u)})
  /\ reported.timedOut + timedOutTraceCount
       = Cardinality({u \in sampled : ~isComplete(u)})

(* A trace leaves the map only because its root has just arrived or because *)
(* no span of it arrived for longer than bufferTTL; a step that takes it    *)
(* out leaves nothing of it behind.                                         *)
LeavesForAReason ==
  [][\A t \in Traces :
       ~(buffers[t].spans \subseteq buffers'[t].spans)
         => /\ buffers'[t].spans = {}
            /\ \/ buffers[t].age > BufferTTL
               \/ \E s \in arrived' \ arrived : s \in RootSpans /\ TraceID[s] = t]_vars

(* The map does not accumulate abandoned traces (processor.go: "Memory      *)
(* doesn't grow unbounded with abandoned traces"): while the processor runs,*)
(* every span that arrived is sampled or thrown away in the end.            *)
EverySpanLeaves ==
  \A s \in Spans : s \in arrived ~> (s \in Sampled \cup expired \/ stopping)

(* The trace buffers implement TraceGrouping: a span waits while it is in   *)
(* the map or in a trace a consumer has taken out of it.                    *)
Grouping == INSTANCE TraceGrouping
  WITH waiting   <- Resident \cup Taken,
       delivered <- {u.spans : u \in sampled},
       abandoned <- expired

GroupingSpec == Grouping!Spec

-----------------------------------------------------------------------------
(* What the documentation says and the code does not do.                    *)

(* trace_buffer.go:32 "After a configurable timeout, incomplete traces are  *)
(* sampled anyway": no span is thrown away without reaching sampleTrace.    *)
TimedOutTracesAreSampled == expired = {}

(* processor.go:268 "Spans from the same trace stay together": one trace is *)
(* one unit of sampling.                                                    *)
SpansStayTogether ==
  \A u, v \in sampled : u.traceID = v.traceID => u = v

(* config.go:60 "When a trace has been in the buffer for longer than this   *)
(* timeout, it will be eligible for sampling".                              *)
EligibleAfterTimeout ==
  \A t \in Present : buffers[t].stay > BufferTTL => isTimedOut(buffers[t])

=============================================================================

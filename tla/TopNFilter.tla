------------------------------ MODULE TopNFilter ------------------------------
(***************************************************************************)
(* The top-N filter of process metrics                                     *)
(* (internal/processor/topnprocfilter/processor.go, processor_concurrent.go*)
(* processMetricsSequential and processMetricsConcurrent do the same to the*)
(* shared state, in the order of the batch and in any order).              *)
(*                                                                         *)
(* Batches, the cleaner and the tuner interleave at every access to the    *)
(* process table (a sync.Map), to n (under mu) and to the caches (under    *)
(* topNCacheMu).  topNCache itself is only ever compared with nil, and it  *)
(* is not nil when topNCacheValid; isInTopN always finds the PID cache,    *)
(* which newProcessor allocates, and asks nothing else.                    *)
(*                                                                         *)
(* What is emitted is left out but for the PIDs the filter keeps.  It adds *)
(* to that: a resource without a PID always passes, and the sequential     *)
(* path emits it twice, once where it skips it and once where it filters   *)
(* (processor_concurrent.go:258-263 and 346); so it does with a PID in the *)
(* top N that has no process name, and one without a name that is not in   *)
(* the top N it emits once.  None of this touches the shared state.        *)
(*                                                                         *)
(* Instead of the time a process was last above a threshold the table keeps*)
(* whether that is longer ago than IdleTTL; time makes it so at any moment.*)
(***************************************************************************)
EXTENDS Integers, FiniteSets, FiniteSetsExt, Functions

CONSTANTS
  PIDs,
  Batches,       \* goroutines that run processMetrics
  Usages,        \* pairs <<CPU, memory>> a process may report
  CPUThreshold, MemoryThreshold,
  Ns,            \* values "top_n" is set to
  InitialN,
  MaxMeasured,   \* bound: measured processes per batch
  Absent

(* What the table keeps of a process. *)
Entries == [usage : Usages, idle : BOOLEAN]

ASSUME TopNAssumption ==
  /\ IsFiniteSet(PIDs) /\ Usages \subseteq Nat \X Nat /\ Absent \notin Entries
  /\ Ns \subseteq Nat /\ InitialN \in Nat \ {0}

VARIABLES
  processes,   \* PID -> what was stored of it, or Absent
  n,
  topNCacheValid, topNPIDCache,
  phase,       \* batch -> what it does next
  input,       \* batch -> the measured usages it has still to store, by PID
  changed,     \* batch -> processesChanged
  todo,        \* batch -> PIDs Range has still to visit
  limit, seen, \* batch -> its copies of n and of the table
  disturbed,   \* history: whether shared state changed under a batch
  toRemove,    \* PIDs the cleaner is about to delete
  invalidators \* those of {"cleaner", "tuner"} that have yet to invalidate

table == <<processes, n, topNCacheValid, topNPIDCache>>
progress == <<phase, input, changed, todo, limit, seen>>
others == <<toRemove, invalidators>>
filterVars == <<table, progress, disturbed, others>>

Live == {p \in PIDs : processes[p] # Absent}

(* The components of a usage. *)
CPU == 1
Memory == 2

FilterInit ==
  /\ processes = [p \in PIDs |-> Absent]
  /\ n = InitialN
  /\ topNCacheValid = FALSE /\ topNPIDCache = {}
  /\ phase = [b \in Batches |-> "idle"]
  /\ input = [b \in Batches |-> <<>>]
  /\ changed = [b \in Batches |-> FALSE]
  /\ todo = [b \in Batches |-> {}]
  /\ limit = [b \in Batches |-> 0]
  /\ seen = [b \in Batches |-> <<>>]
  /\ disturbed = [b \in Batches |-> FALSE]
  /\ toRemove = {} /\ invalidators = {}

Put(f, p, value) == [q \in DOMAIN f \cup {p} |-> IF q = p THEN value ELSE f[q]]

(* Shared state changed under every batch but b. *)
DisturbsOthers(b) ==
  disturbed' = [c \in Batches |-> IF c = b THEN disturbed[c] ELSE phase[c] # "idle"]

DisturbsAll ==
  disturbed' = [c \in Batches |-> phase[c] # "idle"]

-----------------------------------------------------------------------------
Begin(b, in) ==
  /\ phase[b] = "idle"
  /\ phase' = [phase EXCEPT ![b] = "update"]
  /\ input' = [input EXCEPT ![b] = in]
  /\ UNCHANGED <<table, changed, todo, limit, seen, disturbed, others>>

IsAbove(usage) == usage[CPU] >= CPUThreshold \/ usage[Memory] >= MemoryThreshold

(* One update: above a threshold the entry is stored at once; otherwise the *)
(* time it was last above is loaded first (LoadLast) and stored after.  A   *)
(* process that was never above has been idle since 1970.                   *)
StoreAbove(b, p) ==
  /\ phase[b] = "update" /\ p \in DOMAIN input[b] /\ IsAbove(input[b][p])
  /\ processes' = [processes EXCEPT ![p] = [usage |-> input[b][p], idle |-> FALSE]]
  /\ input' = [input EXCEPT ![b] = Restrict(@, DOMAIN @ \ {p})]
  /\ changed' = [changed EXCEPT ![b] = TRUE]
  /\ DisturbsOthers(b)
  /\ UNCHANGED <<n, topNCacheValid, topNPIDCache, phase, todo, limit, seen, others>>

LoadLast(b, p) ==
  /\ phase[b] = "update" /\ p \in DOMAIN input[b] /\ ~IsAbove(input[b][p])
  /\ phase' = [phase EXCEPT ![b] = "store"]
  /\ seen' = [seen EXCEPT ![b] =
       Put(<<>>, p, [usage |-> input[b][p],
                     idle |-> processes[p] = Absent \/ processes[p].idle])]
  /\ UNCHANGED <<table, input, changed, todo, limit, disturbed, others>>

StoreBelow(b, p) ==
  /\ phase[b] = "store" /\ p \in DOMAIN seen[b]
  /\ processes' = [processes EXCEPT ![p] = seen[b][p]]
  /\ phase' = [phase EXCEPT ![b] = "update"]
  /\ input' = [input EXCEPT ![b] = Restrict(@, DOMAIN @ \ {p})]
  /\ changed' = [changed EXCEPT ![b] = TRUE]
  /\ seen' = [seen EXCEPT ![b] = <<>>]
  /\ DisturbsOthers(b)
  /\ UNCHANGED <<n, topNCacheValid, topNPIDCache, todo, limit, others>>

(* Faulty: an invalidation is left to the cleaner. *)
NeverInvalidates(b) == FALSE

MustInvalidate(b) == changed[b]

(* All updates are in the table: invalidateTopNCache, if there were any.    *)
Updated(b) ==
  /\ phase[b] = "update" /\ input[b] = <<>>
  /\ phase' = [phase EXCEPT ![b] = "look"]
  /\ IF MustInvalidate(b)
     THEN topNCacheValid' = FALSE /\ DisturbsOthers(b)
     ELSE UNCHANGED <<topNCacheValid, disturbed>>
  /\ UNCHANGED <<processes, n, topNPIDCache, input, changed, todo, limit, seen, others>>

(* getTopNProcesses: a valid cache is used.                                 *)
CacheHit(b) ==
  /\ phase[b] = "look" /\ topNCacheValid
  /\ phase' = [phase EXCEPT ![b] = "filter"]
  /\ UNCHANGED <<table, input, changed, todo, limit, seen, disturbed, others>>

(* Otherwise n is read right after; a change of n in between commutes with  *)
(* the look at topNCacheValid, so both are one step.                        *)
CacheMiss(b) ==
  /\ phase[b] = "look" /\ ~topNCacheValid
  /\ phase' = [phase EXCEPT ![b] = "range"]
  /\ limit' = [limit EXCEPT ![b] = n]
  /\ todo' = [todo EXCEPT ![b] = PIDs]
  /\ UNCHANGED <<table, input, changed, seen, disturbed, others>>

(* processes.Range visits the entries one by one, in any order.             *)
Visit(b, p) ==
  /\ phase[b] = "range" /\ p \in todo[b]
  /\ todo' = [todo EXCEPT ![b] = @ \ {p}]
  /\ seen' = [seen EXCEPT ![b] =
       IF processes[p] = Absent THEN @ ELSE Put(@, p, processes[p].usage)]
  /\ UNCHANGED <<table, phase, input, changed, limit, disturbed, others>>

(* getTopNByMetricOptimized, for a metric: k processes that no other        *)
(* process beats; among equals the order of the heap decides.               *)
TopN(k, usages, metric) ==
  {T \in kSubset(k, DOMAIN usages) :
     \A p \in T, q \in DOMAIN usages \ T : usages[p][metric] >= usages[q][metric]}

FitsIn(usages, k) == Cardinality(DOMAIN usages) <= k

(* updateTopNCache.  If there are no more than n processes the function     *)
(* returns here, and the PID cache stays what it was.                       *)
Validate(b) ==
  /\ phase[b] = "range" /\ todo[b] = {}
  /\ topNCacheValid' = TRUE
  /\ phase' = [phase EXCEPT ![b] = IF FitsIn(seen[b], limit[b]) THEN "filter" ELSE "publish"]
  /\ seen' = [seen EXCEPT ![b] = IF FitsIn(@, limit[b]) THEN <<>> ELSE @]
  /\ limit' = [limit EXCEPT ![b] = IF FitsIn(seen[b], @) THEN 0 ELSE @]
  /\ DisturbsOthers(b)
  /\ UNCHANGED <<processes, n, topNPIDCache, input, changed, todo, others>>

Publish(b) ==
  /\ phase[b] = "publish"
  /\ \E byCPU \in TopN(limit[b], seen[b], CPU), byMemory \in TopN(limit[b], seen[b], Memory) :
       topNPIDCache' = byCPU \cup byMemory
  /\ phase' = [phase EXCEPT ![b] = "filter"]
  /\ seen' = [seen EXCEPT ![b] = <<>>]
  /\ limit' = [limit EXCEPT ![b] = 0]
  /\ DisturbsOthers(b)
  /\ UNCHANGED <<processes, n, topNCacheValid, input, changed, todo, others>>

(* Every resource of the batch was looked up in the PID cache.              *)
End(b) ==
  /\ phase[b] = "filter"
  /\ phase' = [phase EXCEPT ![b] = "idle"]
  /\ changed' = [changed EXCEPT ![b] = FALSE]
  /\ disturbed' = [disturbed EXCEPT ![b] = FALSE]
  /\ UNCHANGED <<table, input, todo, limit, seen, others>>

-----------------------------------------------------------------------------
(* Faulty: no lower bound. *)
NotBounded(value) == value

(* setTopN, with its lower bound, then invalidateTopNCache.                 *)
AtLeastOne(value) == IF value < 1 THEN 1 ELSE value

SetTopN(value) ==
  /\ "tuner" \notin invalidators /\ AtLeastOne(value) # n
  /\ n' = AtLeastOne(value)
  /\ invalidators' = invalidators \cup {"tuner"}
  /\ DisturbsAll
  /\ UNCHANGED <<processes, topNCacheValid, topNPIDCache, progress, toRemove>>

Invalidate(who) ==
  /\ who \in invalidators /\ (who = "cleaner" => toRemove = {})
  /\ topNCacheValid' = FALSE
  /\ invalidators' = invalidators \ {who}
  /\ DisturbsAll
  /\ UNCHANGED <<processes, n, topNPIDCache, progress, toRemove>>

(* runCleanupCycle: collect, delete one by one, then invalidate.            *)
CollectIdle ==
  /\ "cleaner" \notin invalidators
  /\ toRemove' = {p \in Live : processes[p].idle} /\ toRemove' # {}
  /\ invalidators' = invalidators \cup {"cleaner"}
  /\ UNCHANGED <<table, progress, disturbed>>

Delete(p) ==
  /\ p \in toRemove
  /\ processes' = [processes EXCEPT ![p] = Absent]
  /\ toRemove' = toRemove \ {p}
  /\ DisturbsAll
  /\ UNCHANGED <<n, topNCacheValid, topNPIDCache, progress, invalidators>>

(* IdleTTL goes by; no batch can tell.                                      *)
GrowsIdle(p) ==
  /\ p \in Live /\ ~processes[p].idle
  /\ processes' = [processes EXCEPT ![p].idle = TRUE]
  /\ UNCHANGED <<n, topNCacheValid, topNPIDCache, progress, disturbed, others>>

Inputs ==
  UNION {[S -> Usages] : S \in {T \in SUBSET PIDs : Cardinality(T) <= MaxMeasured}}

FilterNext ==
  \/ \E b \in Batches :
       \/ \E in \in Inputs : Begin(b, in)
       \/ \E p \in PIDs : StoreAbove(b, p) \/ LoadLast(b, p) \/ StoreBelow(b, p) \/ Visit(b, p)
       \/ Updated(b) \/ CacheHit(b) \/ CacheMiss(b) \/ Validate(b) \/ Publish(b)
       \/ End(b)
  \/ \E value \in Ns : SetTopN(value)
  \/ \E who \in {"cleaner", "tuner"} : Invalidate(who)
  \/ CollectIdle
  \/ \E p \in PIDs : Delete(p) \/ GrowsIdle(p)

FilterSpec == FilterInit /\ [][FilterNext]_filterVars

-----------------------------------------------------------------------------
(* Functions on some of the processes. *)
Partial(S) == UNION {[D -> S] : D \in SUBSET PIDs}

(* What a batch keeps in seen depends on where it is. *)
SeenTyped(b) ==
  /\ phase[b] = "store" => seen[b] \in Partial(Entries)
  /\ phase[b] \in {"range", "publish"} => seen[b] \in Partial(Usages)
  /\ phase[b] \notin {"store", "range", "publish"} => seen[b] = <<>>

StateTyped ==
  /\ processes \in [PIDs -> Entries \cup {Absent}]
  /\ n \in Nat \ {0}
  /\ topNCacheValid \in BOOLEAN /\ topNPIDCache \subseteq PIDs
  /\ phase \in [Batches -> {"idle", "update", "store", "look", "range",
                            "publish", "filter"}]
  /\ input \in [Batches -> Partial(Usages)]
  /\ DOMAIN seen = Batches
  /\ changed \in [Batches -> BOOLEAN] /\ disturbed \in [Batches -> BOOLEAN]
  /\ todo \in [Batches -> SUBSET PIDs] /\ limit \in [Batches -> Nat]
  /\ toRemove \subseteq PIDs /\ invalidators \subseteq {"cleaner", "tuner"}

(* Type invariant.  n is never 0: setTopN says "Ensure we keep at least 1   *)
(* process".                                                                *)
FilterTypeOK == StateTyped /\ \A b \in Batches : SeenTyped(b)

(* p is among the n greatest of the table whatever the order of equals.     *)
Beaten(p, metric) ==
  Cardinality({q \in Live : processes[q].usage[metric] > processes[p].usage[metric]})

Rivals(p, metric) ==
  Cardinality({q \in Live \ {p} :
                 processes[q].usage[metric] >= processes[p].usage[metric]})

(* topnprocfilter/README.md:24 "Only the top N processes by CPU or memory   *)
(* usage are retained": a batch that brought measurements and under which   *)
(* nobody changed shared state filters by the current table, whatever races *)
(* and lost invalidations went before: it keeps every process that fewer    *)
(* than n rival, by CPU or by memory, and none that n others beat by both.  *)
(* Of a batch under which state did change nothing is said; a stale cache   *)
(* that such batches leave behind (ValidCacheIsCurrent below) is replaced   *)
(* by the next batch this property speaks of.                               *)
UndisturbedIsRight ==
  \A b \in Batches :
    phase[b] = "filter" /\ ~disturbed[b] /\ changed[b] /\ Cardinality(Live) > n =>
      /\ topNPIDCache \subseteq Live /\ Cardinality(topNPIDCache) <= 2 * n
      /\ \A p \in Live :
           /\ Rivals(p, CPU) < n \/ Rivals(p, Memory) < n => p \in topNPIDCache
           /\ p \in topNPIDCache => Beaten(p, CPU) < n \/ Beaten(p, Memory) < n

-----------------------------------------------------------------------------
(* What does not hold. *)

(* processor.go:338 "Return all if we have fewer than N": such a batch      *)
(* keeps every process of the table when there are no more than n.          *)
(* Violated: getTopNProcesses returns before it fills the PID cache.        *)
FewAreAllKept ==
  \A b \in Batches :
    phase[b] = "filter" /\ ~disturbed[b] /\ changed[b] /\ Cardinality(Live) <= n =>
      Live \subseteq topNPIDCache

(* topnprocfilter/README.md:23 "Processes below the configured thresholds   *)
(* are filtered out" (so too README.md:8; config.go:15 and 18 call them the *)
(* minimum "for inclusion").  Violated: the thresholds only decide when a   *)
(* process counts as idle, and one below both of them is kept when it is    *)
(* among the n greatest.  README.md:3 says "or".                            *)
BelowThresholdIsDropped ==
  \A b \in Batches :
    phase[b] = "filter" /\ ~disturbed[b] /\ changed[b] =>
      \A p \in topNPIDCache \cap Live : IsAbove(processes[p].usage)

(* topnprocfilter/README.md:40 "Cache is invalidated when process metrics   *)
(* are updated": a cache that is valid when nothing is under way is that of *)
(* the current table.  Violated: a batch that ranged over the table before  *)
(* another's updates and invalidation validates its own cache after them.   *)
Quiet == invalidators = {} /\ \A b \in Batches : phase[b] = "idle"

ValidCacheIsCurrent ==
  Quiet /\ topNCacheValid /\ Cardinality(Live) > n =>
    /\ topNPIDCache \subseteq Live
    /\ \A p \in Live : Rivals(p, CPU) < n \/ Rivals(p, Memory) < n => p \in topNPIDCache
=============================================================================

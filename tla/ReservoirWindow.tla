--------------------------- MODULE ReservoirWindow ---------------------------
(***************************************************************************)
(* The reservoir of the sampler and its window                             *)
(* (internal/processor/reservoirsampler/processor.go: ConsumeTraces,       *)
(* sampleTrace, addTraceToReservoir, addSpanToReservoir, resetWindow,      *)
(* flush, checkpoint's use of flushMu, loadCheckpoint, SetValue).          *)
(*                                                                         *)
(* The consumers are the goroutines inside ConsumeTraces.  They share the  *)
(* atomic counters n and t0 and the atomic pointer activeBuffer, and they  *)
(* load, append and store that pointer in separate steps; flushMu keeps    *)
(* resetWindow, checkpoint and SetValue apart, and no step of sampling     *)
(* takes it.  A buffer is a Go slice: a header (array, length) over an     *)
(* array in mem that other headers may share.  sync.Pool may give back any *)
(* buffer that was put or make a new one.                                  *)
(*                                                                         *)
(* Nothing serialises the consumers, so one may store activeBuffer over    *)
(* what another stored since the first had read it.  Two history variables *)
(* say when that happens: stale, the consumers that hold an overtaken view *)
(* of activeBuffer, and raced, whether one of them has stored it.  What    *)
(* the code promises about buffers it keeps until the first such store.    *)
(*                                                                         *)
(* A trace arrives here as a unit, the spans of one traceBuffer in the     *)
(* order of addTraceToReservoir.  What the flush goroutine finds in the    *)
(* span LRU and whether the next consumer accepts it is left open: it      *)
(* sends some of the spans of its buffer.                                  *)
(***************************************************************************)
EXTENDS Integers, Sequences

CONSTANTS
  Spans,      \* the spans of all units
  Units,      \* the traces that reach sampleTrace, each of them once
  SpansOf,    \* SpansOf[u]: the spans of a unit, in order
  Consumers,  \* the goroutines that may be inside ConsumeTraces
  Saver,      \* the goroutine that is inside checkpoint()
  KSizes,     \* the values of k_size: the configured one and those tuned to
  InitialK,   \* Config.SizeK
  WindowNS,   \* windowNS, in ticks of the clock
  MaxNow,     \* bound: the clock stops here
  Checkpoints,\* the checkpoints a start may find: records of n and spans
  Arrays,     \* bound: the names for the arrays under the slices
  Nil         \* an element of an array that was never written

(* A slice.                                                                 *)
Header == [arr : Arrays, len : Nat]

(* A unit has a span, no span is in two units or in a unit and a checkpoint, *)
(* the values of k_size have a greatest one, and an earlier run that wrote a *)
(* checkpoint had the same values.                                           *)
ASSUME WindowAssumption ==
  /\ SpansOf \in [Units -> Seq(Spans)] /\ \A u \in Units : SpansOf[u] # << >>
  /\ \A u, v \in Units : \A i \in DOMAIN SpansOf[u], j \in DOMAIN SpansOf[v] :
       SpansOf[u][i] = SpansOf[v][j] => u = v /\ i = j
  /\ KSizes \subseteq Nat \ {0} /\ InitialK \in KSizes
  /\ \E m \in KSizes : \A x \in KSizes : x <= m
  /\ WindowNS \in Nat /\ MaxNow \in Nat /\ Arrays \subseteq Nat
  /\ \A cp \in Checkpoints :
       /\ cp.n \in Nat /\ cp.spans \in Seq(Spans)
       /\ \E m \in KSizes : Len(cp.spans) <= m
       /\ \A i \in DOMAIN cp.spans, u \in Units : \A j \in DOMAIN SpansOf[u] :
            cp.spans[i] # SpansOf[u][j]
  /\ Nil \notin Spans \cup Consumers /\ Nil \notin Header
  /\ Saver \notin Consumers \cup {Nil}

VARIABLES
  now,       \* time.Now().UnixNano()
  k,         \* p.k
  n,         \* p.n
  t0,        \* p.t0
  active,    \* *p.activeBuffer.Load(), a slice header
  mem,       \* the arrays under the slices, as sequences as long as their capacity
  pool,      \* p.pool: how many empty buffers over each array are in it
  flushMu,   \* who holds p.flushMu, a consumer or the Saver, or Nil
  ckpt,      \* the buffer checkpoint() is reading, or Nil
  pc, batchNow, loaded, todo,  \* per consumer: program counter and local variables
  flushes,   \* the goroutines started by flush that have not ended
  epoch,     \* history: how many windows were closed
  offered,   \* history: the units sampleTrace was called with
  stored,    \* history: the spans addSpanToReservoir was called with
  emitted,   \* history: how often the next consumer was given a span
  stale,     \* history: the consumers somebody overtook, see Overtake
  raced      \* history: one of them has stored activeBuffer

shared == <<k, n, t0, active, mem, pool, flushMu, ckpt>>
local == <<pc, batchNow, loaded, todo>>
races == <<stale, raced>>
history == <<offered, stored, emitted, races>>
vars == <<now, shared, local, flushes, epoch, history>>

-----------------------------------------------------------------------------
(* Slices *)

Elements(h) == {mem[h.arr][i] : i \in 1 .. h.len}

(* The arrays somebody can still reach; the others are garbage. *)
Reachable ==
  {active.arr} \cup {a \in Arrays : pool[a] > 0} \cup {f.buf.arr : f \in flushes}
    \cup {h.arr : h \in {ckpt} \ {Nil}}
    \cup {loaded[c].arr : c \in {d \in Consumers : loaded[d] # Nil}}

NewArray ==
  CHOOSE a \in Arrays \ Reachable : \A b \in Arrays \ Reachable : a <= b

Blank(cap) == [i \in 1 .. cap |-> Nil]

(* make([]SpanWithSummary, 0, k), over a blank array.                       *)
Made == [arr |-> NewArray, len |-> 0]

(* append(buffer, s): in place if the capacity allows, else into a larger    *)
(* array.  growslice doubles a small array, and makes one of one element     *)
(* from none.                                                                *)
Grown(old, s) ==
  [i \in 1 .. (IF Len(old) = 0 THEN 1 ELSE 2 * Len(old)) |->
     IF i <= Len(old) THEN old[i] ELSE IF i = Len(old) + 1 THEN s ELSE Nil]

(* A buffer takes no more when it holds k spans, whatever its capacity.      *)
IsFullTooLate(h) == h.len > k

IsFull(h) == h.len >= k

(* A faulty variant: append into the array whatever its capacity.            *)
StoreOverflowing(h, s) ==
  /\ mem' = [mem EXCEPT ![h.arr] = [i \in DOMAIN @ |-> IF i = h.len + 1 THEN s ELSE @[i]]]
  /\ active' = [h EXCEPT !.len = @ + 1]

StoreAppended(h, s) ==
  \/ /\ h.len < Len(mem[h.arr])
     /\ mem' = [mem EXCEPT ![h.arr][h.len + 1] = s]
     /\ active' = [h EXCEPT !.len = @ + 1]
  \/ /\ h.len >= Len(mem[h.arr])
     /\ mem' = [mem EXCEPT ![NewArray] = Grown(mem[h.arr], s)]
     /\ active' = [arr |-> NewArray, len |-> h.len + 1]

(* pool.Get() and a first append; the buffer that comes out of the pool is   *)
(* empty because it was cut to length 0 when it was put.                     *)
FromPool(a) == pool[a] > 0

StoreSingleton(s) ==
  \/ \E a \in Arrays :
       /\ FromPool(a)
       /\ pool' = [pool EXCEPT ![a] = @ - 1]
       /\ StoreAppended([arr |-> a, len |-> 0], s)
  \/ /\ mem' = [mem EXCEPT ![NewArray] = [Blank(k) EXCEPT ![1] = s]]
     /\ active' = [arr |-> NewArray, len |-> 1]
     /\ UNCHANGED pool

-----------------------------------------------------------------------------
(* newProcessor: a window without spans, or what loadCheckpoint found, in a  *)
(* slice without room for more.  The clock counts from t0, and may have got  *)
(* ahead of a restored one before anything is consumed.                      *)
Fresh(a) ==
  /\ now = 0 /\ n = 0 /\ stored = {}
  /\ active = [arr |-> a, len |-> 0]
  /\ mem = [b \in Arrays |-> IF b = a THEN Blank(InitialK) ELSE << >>]

Restored(a, cp) ==
  /\ now = 0 /\ n = cp.n
  /\ stored = {cp.spans[i] : i \in 1 .. Len(cp.spans)}
  /\ active = [arr |-> a, len |-> Len(cp.spans)]
  /\ mem = [b \in Arrays |-> IF b = a THEN cp.spans ELSE << >>]

Init ==
  /\ LET first == CHOOSE a \in Arrays : \A b \in Arrays : a <= b
     IN  Fresh(first) \/ \E cp \in Checkpoints : Restored(first, cp)
  /\ t0 = 0 /\ k = InitialK
  /\ pool = [a \in Arrays |-> 0] /\ flushMu = Nil /\ ckpt = Nil
  /\ pc = [c \in Consumers |-> "idle"]
  /\ batchNow = [c \in Consumers |-> 0]
  /\ loaded = [c \in Consumers |-> Nil]
  /\ todo = [c \in Consumers |-> << >>]
  /\ flushes = {} /\ epoch = 0
  /\ offered = {} /\ emitted = [s \in Spans |-> 0]
  /\ stale = {} /\ raced = FALSE

Goto(c, from, to) == pc[c] = from /\ pc' = [pc EXCEPT ![c] = to]

(* Consumer c stores activeBuffer.  A consumer watches it from the load on   *)
(* until it has stored what it made of it, resetWindow until its last store. *)
(* The others that watch are overtaken; if c was, one store undoes another,  *)
(* and from then on nobody keeps score.                                      *)
Watches(c) == pc[c] \in {"swap", "counters", "fresh", "store"}

Overtake(c) ==
  /\ raced' = (raced \/ c \in stale)
  /\ stale' = IF raced' THEN {}
              ELSE (stale \ {c}) \cup {d \in Consumers \ {c} : Watches(d)}

WindowOverEarly == now - t0 >= WindowNS

WindowOver == now - t0 > WindowNS

(* ConsumeTraces: read the clock and t0 and decide whether the window is    *)
(* over.  Nothing is locked between this and resetWindow.                   *)
Begin(c) ==
  /\ \/ /\ WindowOver
        /\ Goto(c, "idle", "reset")
        /\ batchNow' = [batchNow EXCEPT ![c] = now]
     \/ /\ ~WindowOver
        /\ Goto(c, "idle", "batch")
        /\ UNCHANGED batchNow
  /\ UNCHANGED <<now, shared, loaded, todo, flushes, epoch, history>>

(* resetWindow: take flushMu; flush: load the active buffer. *)
LockAndLoad(c) ==
  /\ Goto(c, "reset", "swap")
  /\ flushMu = Nil
  /\ flushMu' = c
  /\ loaded' = [loaded EXCEPT ![c] = active]
  /\ UNCHANGED <<now, k, n, t0, active, mem, pool, ckpt, batchNow, todo, flushes,
                 epoch, history>>

Put(p, a) == [p EXCEPT ![a] = @ + 1]

(* flush: an empty buffer goes back at once, another one when it was sent.  *)
ReleaseAtOnce(p, h) == Put(p, h.arr)

Release(p, h) == IF h.len = 0 THEN Put(p, h.arr) ELSE p

(* flush: store a buffer of the pool in place of the one that was loaded,   *)
(* put that one back if it is empty, else start the goroutine that sends it.*)
Swap(c) ==
  LET old == loaded[c]
  IN  /\ Goto(c, "swap", "counters")
      /\ \/ \E a \in Arrays :
              /\ FromPool(a)
              /\ active' = [arr |-> a, len |-> 0]
              /\ pool' = Release([pool EXCEPT ![a] = @ - 1], old)
              /\ UNCHANGED mem
         \/ /\ active' = Made
            /\ mem' = [mem EXCEPT ![NewArray] = Blank(k)]
            /\ pool' = Release(pool, old)
      /\ flushes' = flushes \cup
           (IF old.len = 0 THEN {} ELSE {[id |-> epoch, buf |-> old, done |-> FALSE]})
      /\ epoch' = epoch + 1
      /\ loaded' = [loaded EXCEPT ![c] = Nil]
      /\ Overtake(c)
      /\ UNCHANGED <<now, k, n, t0, flushMu, ckpt, batchNow, todo, offered, stored,
                     emitted>>

(* resetWindow: n.Store(0), t0.Store(now) with the time of the batch. *)
ResetCounters(c) ==
  /\ Goto(c, "counters", "fresh")
  /\ n' = 0
  /\ t0' = batchNow[c]
  /\ batchNow' = [batchNow EXCEPT ![c] = 0]
  /\ UNCHANGED <<now, k, active, mem, pool, flushMu, ckpt, loaded, todo, flushes,
                 epoch, history>>

(* resetWindow: a second new buffer; the one flush stored is dropped. *)
FreshBuffer(c) ==
  /\ Goto(c, "fresh", "batch")
  /\ active' = Made
  /\ mem' = [mem EXCEPT ![NewArray] = Blank(k)]
  /\ flushMu' = Nil
  /\ Overtake(c)
  /\ UNCHANGED <<now, k, n, t0, pool, ckpt, batchNow, loaded, todo, flushes, epoch,
                 offered, stored, emitted>>

MayBeRejected(i) == i > k

(* sampleTrace: n.Add(1) gives i; the first k units are accepted, a later   *)
(* one if the random r in 0 .. i - 1 is below k, which may go either way.   *)
Sample(c, u) ==
  /\ pc[c] = "batch" /\ todo[c] = << >>
  /\ u \notin offered
  /\ offered' = offered \cup {u}
  /\ n' = n + 1
  /\ \/ /\ pc' = [pc EXCEPT ![c] = "add"]
        /\ todo' = [todo EXCEPT ![c] = SpansOf[u]]
     \/ /\ MayBeRejected(n + 1)
        /\ UNCHANGED <<pc, todo>>
  /\ UNCHANGED <<now, k, t0, active, mem, pool, flushMu, ckpt, batchNow, loaded,
                 flushes, epoch, stored, emitted, races>>

(* addSpanToReservoir: load the active buffer. *)
LoadActive(c) ==
  /\ Goto(c, "add", "store")
  /\ loaded' = [loaded EXCEPT ![c] = active]
  /\ UNCHANGED <<now, shared, batchNow, todo, flushes, epoch, history>>

(* addSpanToReservoir: store what the loaded buffer becomes.  A buffer with *)
(* room is appended to; a full one is replaced by a buffer that holds only  *)
(* the new span.                                                            *)
StoreActive(c) ==
  /\ pc[c] = "store"
  /\ pc' = [pc EXCEPT ![c] = IF Len(todo[c]) = 1 THEN "batch" ELSE "add"]
  /\ \/ IsFull(loaded[c]) /\ StoreSingleton(Head(todo[c]))
     \/ ~IsFull(loaded[c]) /\ StoreAppended(loaded[c], Head(todo[c])) /\ UNCHANGED pool
  /\ todo' = [todo EXCEPT ![c] = Tail(@)]
  /\ loaded' = [loaded EXCEPT ![c] = Nil]
  /\ stored' = stored \cup {Head(todo[c])}
  /\ Overtake(c)
  /\ UNCHANGED <<now, k, n, t0, flushMu, ckpt, batchNow, flushes, epoch, offered,
                 emitted>>

(* ConsumeTraces returns. *)
EndBatch(c) ==
  /\ Goto(c, "batch", "idle")
  /\ UNCHANGED <<now, shared, batchNow, loaded, todo, flushes, epoch, history>>

(* The goroutine of flush reads its buffer and sends what it could find. *)
FlushSend(f) ==
  /\ ~f.done
  /\ \E S \in SUBSET Elements(f.buf) :
       emitted' = [s \in Spans |-> IF s \in S THEN emitted[s] + 1 ELSE emitted[s]]
  /\ flushes' = (flushes \ {f}) \cup {[f EXCEPT !.done = TRUE]}
  /\ UNCHANGED <<now, shared, local, epoch, offered, stored, races>>

(* Its deferred function cuts the buffer to length 0 and puts it back.  The *)
(* cut writes through the pointer that was active: a consumer that loaded   *)
(* that pointer and has not read through it yet finds the length 0.         *)
FlushDone(f) ==
  /\ f.done
  /\ pool' = Put(pool, f.buf.arr)
  /\ flushes' = flushes \ {f}
  /\ LET late == {c \in Consumers : pc[c] = "store" /\ loaded[c] = f.buf}
     IN  \E cut \in SUBSET late :
           loaded' = [c \in Consumers |->
                        IF c \in cut THEN [f.buf EXCEPT !.len = 0] ELSE loaded[c]]
  /\ UNCHANGED <<now, k, n, t0, active, mem, flushMu, ckpt, pc, batchNow, todo,
                 epoch, history>>

(* checkpoint: take flushMu and load the active buffer, which is read and    *)
(* written to the database before the deferred unlock, whether db.Update     *)
(* returns an error or not.                                                  *)
CheckpointLock ==
  /\ flushMu = Nil
  /\ flushMu' = Saver
  /\ ckpt' = active
  /\ UNCHANGED <<now, k, n, t0, active, mem, pool, local, flushes, epoch, history>>

(* A faulty variant: the error path of the next action returns locked.       *)
CheckpointEndStillLocked ==
  /\ ckpt # Nil
  /\ ckpt' = Nil
  /\ flushMu' \in {Saver, Nil}
  /\ UNCHANGED <<now, k, n, t0, active, mem, pool, local, flushes, epoch, history>>

CheckpointEnd ==
  /\ ckpt # Nil
  /\ ckpt' = Nil
  /\ flushMu' = Nil
  /\ UNCHANGED <<now, k, n, t0, active, mem, pool, local, flushes, epoch, history>>

(* SetValue("k_size"): takes and releases flushMu, which its readers do not. *)
SetK(newK) ==
  /\ flushMu = Nil
  /\ k # newK
  /\ k' = newK
  /\ UNCHANGED <<now, n, t0, active, mem, pool, flushMu, ckpt, local, flushes,
                 epoch, history>>

Tick ==
  /\ now < MaxNow
  /\ now' = now + 1
  /\ UNCHANGED <<shared, local, flushes, epoch, history>>

Consume(c) ==
  \/ Begin(c) \/ LockAndLoad(c) \/ Swap(c) \/ ResetCounters(c) \/ FreshBuffer(c)
  \/ LoadActive(c) \/ StoreActive(c) \/ EndBatch(c)
  \/ \E u \in Units : Sample(c, u)

Next ==
  \/ \E c \in Consumers : Consume(c)
  \/ \E f \in flushes : FlushSend(f) \/ FlushDone(f)
  \/ CheckpointLock
  \/ CheckpointEnd
  \/ \E newK \in KSizes : SetK(newK)
  \/ Tick

Spec == Init /\ [][Next]_vars

(* A goroutine inside ConsumeTraces runs on, and flushMu, a Go mutex, does   *)
(* not starve a waiter; the goroutines of flush end, and a write to the      *)
(* database returns.                                                        *)
Fairness ==
  /\ \A c \in Consumers : WF_vars(Consume(c)) /\ SF_vars(LockAndLoad(c))
  /\ WF_vars(\E f \in flushes : FlushSend(f) \/ FlushDone(f))
  /\ WF_vars(CheckpointEnd)

FairSpec == Spec /\ Fairness

-----------------------------------------------------------------------------
MaxK == CHOOSE m \in KSizes : \A x \in KSizes : x <= m

(* Type invariant. *)
TypeOK ==
  /\ now \in 0 .. MaxNow /\ t0 \in 0 .. MaxNow
  /\ k \in KSizes /\ n \in Nat
  /\ active \in Header
  /\ mem \in [Arrays -> Seq(Spans \cup {Nil})]
  /\ pool \in [Arrays -> Nat]
  /\ flushMu \in Consumers \cup {Saver, Nil}
  /\ ckpt \in Header \cup {Nil}
  /\ pc \in [Consumers -> {"idle", "reset", "swap", "counters", "fresh",
                           "batch", "add", "store"}]
  /\ batchNow \in [Consumers -> 0 .. MaxNow]
  /\ loaded \in [Consumers -> Header \cup {Nil}]
  /\ todo \in [Consumers -> Seq(Spans)]
  /\ flushes \subseteq [id : Nat, buf : Header, done : BOOLEAN]
  /\ epoch \in Nat
  /\ offered \subseteq Units /\ stored \subseteq Spans
  /\ emitted \in [Spans -> Nat]
  /\ raced \in BOOLEAN /\ stale \subseteq {c \in Consumers : Watches(c)}
  /\ ckpt # Nil <=> flushMu = Saver
  /\ \A c \in Consumers :
       /\ loaded[c] # Nil <=> pc[c] \in {"swap", "store"}
       /\ todo[c] # << >> <=> pc[c] \in {"add", "store"}
       /\ flushMu = c <=> pc[c] \in {"swap", "counters", "fresh"}

(* The slices are sound: no header is longer than its array, and whatever    *)
(* a header covers was written, with a span that sampling accepted.  This    *)
(* holds for racing consumers too, even where they share an array.           *)
Headers == {active} \cup {f.buf : f \in flushes} \cup ({ckpt} \ {Nil})
             \cup {loaded[c] : c \in {d \in Consumers : loaded[d] # Nil}}

SlicesSound ==
  \A h \in Headers :
    /\ h.len <= Len(mem[h.arr])
    /\ Elements(h) \subseteq stored

(* README.md:96 "Maximum number of spans in the reservoir per window": no    *)
(* buffer ever holds more spans than the largest k_size in force.            *)
BuffersBounded == \A h \in Headers : h.len <= MaxK

(* Whatever races on activeBuffer and k_size, every slice header that flush, *)
(* checkpoint or addSpanToReservoir holds is one that they may use: it is    *)
(* well typed, covers written elements only, and is bounded.                 *)
BuffersSound == TypeOK /\ SlicesSound /\ BuffersBounded

(* Until one consumer's store undoes another's, two owners never share an    *)
(* array: the active buffer, every buffer a flush is still reading and every *)
(* buffer in the pool are different, so nobody overwrites the spans another  *)
(* one is about to send; and what checkpoint() is reading under flushMu was  *)
(* neither flushed nor pooled, although sampling goes on meanwhile.          *)
NoAliasing == raced \/
  /\ \A a \in Arrays : pool[a] <= 1
  /\ pool[active.arr] = 0
  /\ \A f \in flushes : pool[f.buf.arr] = 0 /\ f.buf.arr # active.arr
  /\ \A f, g \in flushes : f.buf.arr = g.buf.arr => f = g
  /\ ckpt # Nil => /\ pool[ckpt.arr] = 0
                   /\ \A f \in flushes : f.buf.arr # ckpt.arr

(* Every call of ConsumeTraces returns: nobody is left waiting for flushMu,  *)
(* which another call, a checkpoint on its way to the disk or SetValue holds.*)
ConsumeReturns == \A c \in Consumers : pc[c] # "idle" ~> pc[c] = "idle"

(* The reservoir implements WindowSampler: a span waits in the active        *)
(* buffer, moves to a flush when its window closes, and is sent at most once *)
(* or lost.  However many consumers there are, every step up to the first    *)
(* store that undoes another one is a step of WindowSampler.                 *)
Closing == UNION {Elements(f.buf) : f \in {g \in flushes : ~g.done}}

Sent == {s \in Spans : emitted[s] > 0}

Sampler == INSTANCE WindowSampler
  WITH Capacity <- MaxK,
       open     <- Elements(active),
       closing  <- Closing,
       sent     <- Sent,
       lost     <- stored \ (Elements(active) \cup Closing \cup Sent)

SamplerSpec == Sampler!Init /\ [][Sampler!Next \/ raced']_(Sampler!wvars)

-----------------------------------------------------------------------------
(* What the documentation says and the code does not do.                    *)

(* README.md:97 "Window size in seconds": t0 only moves when more than       *)
(* windowNS has passed since the start of the window it ends, so it never    *)
(* moves back either.  The check of the window is made without flushMu, and  *)
(* resetWindow does not make it again.                                       *)
WindowLasts == [][t0' # t0 => t0' - t0 > WindowNS]_vars

(* Nobody is between two steps of sampling or of resetting. *)
Quiet == \A c \in Consumers : pc[c] \in {"idle", "batch"}

SpanSet(u) == {SpansOf[u][i] : i \in 1 .. Len(SpansOf[u])}

(* Algorithm R (processor.go:361-364) on units of one span: the reservoir    *)
(* holds min(n, k) of the n units of the window.                             *)
ReservoirIsFull == Quiet => active.len = IF n < k THEN n ELSE k

(* processor.go:266 "If a trace is selected for the reservoir, all its spans *)
(* are added": the reservoir holds a unit whole or not at all.               *)
TracesAreWhole ==
  Quiet => \A u \in Units : \/ SpanSet(u) \subseteq Elements(active)
                            \/ SpanSet(u) \cap Elements(active) = {}

=============================================================================

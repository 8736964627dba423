------------------------- MODULE ReservoirDurability -------------------------
(***************************************************************************)
(* What of the reservoir survives the cache and the process                *)
(* (internal/processor/reservoirsampler/processor.go: the span LRU,        *)
(* checkpoint, loadCheckpoint, flush, newProcessor, Shutdown).             *)
(*                                                                         *)
(* Several goroutines may be inside ConsumeTraces: as in ReservoirWindow,  *)
(* which has the heap under the buffer where this module has its value,    *)
(* they load and store the buffer in separate steps and only resetWindow   *)
(* takes flushMu; stale and raced are the histories of that module, raced  *)
(* being TRUE from the first store that undoes another one.  From then on  *)
(* buffers may share an array, for which a value does not stand, and what  *)
(* is claimed here is claimed until then.  Next to the consumers run the   *)
(* goroutines that flush started, the checkpoint loop and SetValue, and the*)
(* process may crash between any two steps.  Full spans are only in the    *)
(* LRU; the buffer and the checkpoint hold summaries, and a flush sends    *)
(* what it still finds in the LRU.                                         *)
(*                                                                         *)
(* A unit is a single span here.  disk is the register of CheckpointStore, *)
(* which CheckpointDb implements with a bolt file: a checkpoint is written *)
(* whole or not at all, and may fail, as it does while a compaction has the*)
(* database closed.                                                        *)
(***************************************************************************)
EXTENDS Integers, SequencesExt

CONSTANTS
  Spans,      \* the spans that reach the sampler, each of them once
  Consumers,  \* the goroutines that may be inside ConsumeTraces
  SizeK,      \* Config.SizeK
  KSizes,     \* the values of k_size
  WindowNS,   \* windowNS, in ticks
  MaxNow,     \* bound: the clock stops here
  MaxFlushes, \* bound: how many flush goroutines are alive at a time
  Nil         \* no span, no checkpoint

ASSUME DurabilityAssumption ==
  /\ KSizes \subseteq Nat \ {0} /\ SizeK \in KSizes
  /\ WindowNS \in Nat /\ MaxNow \in Nat /\ MaxFlushes \in Nat \ {0}
  /\ Nil \notin Spans

VARIABLES
  now,       \* time.Now()
  up,        \* whether the process runs
  k, n, t0,  \* p.k, p.n, p.t0
  buffer,    \* *p.activeBuffer.Load()
  pc,        \* per consumer: where in ConsumeTraces it is
  batchNow,  \* per consumer: the time its batch came
  pending,   \* per consumer: the span addSpanToReservoir is called with, or Nil
  loaded,    \* per consumer: the buffer it has loaded
  lru,       \* p.spanLRU, the most recently used span first
  flushes,   \* the goroutines of flush: their window, what they have to look up, found
  saving,    \* the checkpoint under way: the n and t0 it has read, or Nil
  disk,      \* the checkpoint in the bolt file: n, t0 and spans, or Nil
  arrived,   \* history: the spans sampleTrace was called with
  windowOf,  \* history: the start of the window in which a span was stored
  restored,  \* history: the spans loadCheckpoint put into the buffer
  missing,   \* history: the spans a flush did not find in the LRU
  emitted,   \* history: how often the next consumer was given a span
  stale,     \* history: the consumers whose view of the buffer was overtaken
  raced      \* history: one of them has stored the buffer

counters == <<k, n, t0>>
local == <<pc, batchNow, pending, loaded>>
races == <<stale, raced>>
history == <<arrived, windowOf, restored, missing, emitted>>
vars == <<now, up, counters, buffer, local, lru, flushes, saving, disk, history, races>>

-----------------------------------------------------------------------------
LRUSize == 2 * SizeK

(* simplelru: Add and Get move a key to the front, Add evicts the last one.  *)
PositionOf(s) == CHOOSE i \in DOMAIN lru : lru[i] = s

Touched(s) ==
  <<s>> \o IF s \in ToSet(lru) THEN RemoveAt(lru, PositionOf(s)) ELSE lru

Added(s) ==
  IF Len(Touched(s)) > LRUSize THEN Front(Touched(s)) ELSE Touched(s)

(* loadCheckpoint: counters and summaries as they were saved, no full spans; *)
(* newProcessor starts the clock of the first window if there is no file.    *)
LoadedLRUFull == IF disk = Nil THEN << >> ELSE disk.spans

LoadedLRU == << >>

loadCheckpoint ==
  /\ \/ /\ disk = Nil
        /\ n' = 0 /\ t0' = now /\ buffer' = << >>
     \/ /\ disk # Nil
        /\ n' = disk.n /\ t0' = disk.t0 /\ buffer' = disk.spans
  /\ restored' = restored \cup ToSet(buffer')
  /\ lru' = LoadedLRU

Init ==
  /\ now = 0 /\ up = TRUE
  /\ k = SizeK /\ n = 0 /\ t0 = 0
  /\ pc = [c \in Consumers |-> "idle"] /\ batchNow = [c \in Consumers |-> 0]
  /\ pending = [c \in Consumers |-> Nil] /\ loaded = [c \in Consumers |-> << >>]
  /\ buffer = << >> /\ lru = << >>
  /\ flushes = {} /\ saving = Nil /\ disk = Nil
  /\ arrived = {} /\ windowOf = [s \in Spans |-> Nil]
  /\ restored = {} /\ missing = {} /\ emitted = [s \in Spans |-> 0]
  /\ stale = {} /\ raced = FALSE

-----------------------------------------------------------------------------
(* The consumers *)

Goto(c, from, to) == up /\ pc[c] = from /\ pc' = [pc EXCEPT ![c] = to]

(* As in ReservoirWindow: a store overtakes the others that have loaded the  *)
(* buffer or are resetting it, and races if its own view was overtaken.      *)
InReset(c) == pc[c] \in {"swap", "counters", "fresh"}

Watches(c) == InReset(c) \/ pc[c] \in {"cache", "store"}

Overtake(c) ==
  /\ raced' = (raced \/ c \in stale)
  /\ stale' = IF raced' THEN {}
              ELSE (stale \ {c}) \cup {d \in Consumers \ {c} : Watches(d)}

(* flushMu is held by resetWindow and by checkpoint. *)
FreeOfResets == \A c \in Consumers : ~InReset(c)

flushMuFree == saving = Nil /\ \A c \in Consumers : ~InReset(c)

(* ConsumeTraces: the window is checked once for the batch. *)
Begin(c) ==
  /\ \/ /\ now - t0 > WindowNS
        /\ Goto(c, "idle", "reset")
        /\ batchNow' = [batchNow EXCEPT ![c] = now]
     \/ /\ now - t0 <= WindowNS
        /\ Goto(c, "idle", "batch")
        /\ UNCHANGED batchNow
  /\ UNCHANGED <<now, up, counters, buffer, pending, loaded, lru, flushes, saving, disk,
                 history, races>>

(* resetWindow and flush, under flushMu: load the buffer, *)
LockAndLoad(c) ==
  /\ Goto(c, "reset", "swap")
  /\ flushMuFree
  /\ loaded' = [loaded EXCEPT ![c] = buffer]
  /\ UNCHANGED <<now, up, counters, buffer, batchNow, pending, lru, flushes, saving, disk,
                 history, races>>

(* store an empty one and start the goroutine that sends the spans,          *)
Swap(c) ==
  /\ Goto(c, "swap", "counters")
  /\ Cardinality(flushes) < MaxFlushes
  /\ flushes' = flushes \cup
       (IF loaded[c] = << >> THEN {} ELSE {[window |-> t0, rest |-> loaded[c], found |-> {}]})
  /\ buffer' = << >>
  /\ loaded' = [loaded EXCEPT ![c] = << >>]
  /\ Overtake(c)
  /\ UNCHANGED <<now, up, counters, batchNow, pending, lru, saving, disk, history>>

(* reset the counters, *)
ResetCounters(c) ==
  /\ Goto(c, "counters", "fresh")
  /\ n' = 0 /\ t0' = batchNow[c]
  /\ batchNow' = [batchNow EXCEPT ![c] = 0]
  /\ UNCHANGED <<now, up, k, buffer, pending, loaded, lru, flushes, saving, disk, history,
                 races>>

(* and store a second empty buffer.                                          *)
FreshBuffer(c) ==
  /\ Goto(c, "fresh", "batch")
  /\ buffer' = << >>
  /\ Overtake(c)
  /\ UNCHANGED <<now, up, counters, batchNow, pending, loaded, lru, flushes, saving, disk,
                 history>>

(* sampleTrace: the span is counted, and accepted or not. *)
Sample(c, s) ==
  /\ up /\ pc[c] = "batch" /\ s \notin arrived
  /\ arrived' = arrived \cup {s}
  /\ n' = n + 1
  /\ \/ pc' = [pc EXCEPT ![c] = "load"] /\ pending' = [pending EXCEPT ![c] = s]
     \/ n + 1 > k /\ UNCHANGED <<pc, pending>>
  /\ UNCHANGED <<now, up, k, t0, buffer, batchNow, loaded, lru, flushes, saving, disk,
                 windowOf, restored, missing, emitted, races>>

(* addSpanToReservoir: load the buffer, *)
LoadActive(c) ==
  /\ Goto(c, "load", "cache")
  /\ loaded' = [loaded EXCEPT ![c] = buffer]
  /\ UNCHANGED <<now, up, counters, buffer, batchNow, pending, lru, flushes, saving, disk,
                 history, races>>

(* put the span into the LRU, *)
AddToLRU(c) ==
  /\ Goto(c, "cache", "store")
  /\ lru' = Added(pending[c])
  /\ UNCHANGED <<now, up, counters, buffer, batchNow, pending, loaded, flushes, saving, disk,
                 history, races>>

(* and store the buffer with the span, which is alone in it if it was full.  *)
StoreActive(c) ==
  /\ Goto(c, "store", "batch")
  /\ \/ Len(loaded[c]) >= k /\ buffer' = <<pending[c]>>
     \/ Len(loaded[c]) < k /\ buffer' = Append(loaded[c], pending[c])
  /\ windowOf' = [windowOf EXCEPT ![pending[c]] = t0]
  /\ pending' = [pending EXCEPT ![c] = Nil]
  /\ loaded' = [loaded EXCEPT ![c] = << >>]
  /\ Overtake(c)
  /\ UNCHANGED <<now, up, counters, batchNow, lru, flushes, saving, disk, arrived, restored,
                 missing, emitted>>

EndBatch(c) ==
  /\ Goto(c, "batch", "idle")
  /\ UNCHANGED <<now, up, counters, buffer, batchNow, pending, loaded, lru, flushes, saving,
                 disk, history, races>>

Consume(c) ==
  \/ Begin(c) \/ LockAndLoad(c) \/ Swap(c) \/ ResetCounters(c) \/ FreshBuffer(c)
  \/ LoadActive(c) \/ AddToLRU(c) \/ StoreActive(c) \/ EndBatch(c)
  \/ \E s \in Spans : Sample(c, s)

-----------------------------------------------------------------------------
(* The goroutines of flush *)

FlushLookup(f) ==
  /\ f.rest # << >>
  /\ LET s == Head(f.rest)
         hit == s \in ToSet(lru)
     IN  /\ lru' = IF hit THEN Touched(s) ELSE lru
         /\ missing' = IF hit THEN missing ELSE missing \cup {s}
         /\ flushes' = (flushes \ {f}) \cup
              {[f EXCEPT !.rest = Tail(@), !.found = IF hit THEN @ \cup {s} ELSE @]}
  /\ UNCHANGED <<now, up, counters, buffer, local, saving, disk, arrived, windowOf,
                 restored, emitted, races>>

(* The next consumer takes the spans, or fails and they are gone. *)
FlushSend(f) ==
  /\ f.rest = << >>
  /\ \/ emitted' = [s \in Spans |-> IF s \in f.found THEN emitted[s] + 1 ELSE emitted[s]]
     \/ UNCHANGED emitted
  /\ flushes' = flushes \ {f}
  /\ UNCHANGED <<now, up, counters, buffer, local, lru, saving, disk, arrived, windowOf,
                 restored, missing, races>>

-----------------------------------------------------------------------------
(* checkpoint, under flushMu, which a consumer does not take to sample: the  *)
(* counters are read before the buffer, and the lock is kept until the write *)
(* has succeeded or failed.                                                  *)
CheckpointCounters ==
  /\ up /\ flushMuFree
  /\ saving' = [n |-> n, t0 |-> t0]
  /\ UNCHANGED <<now, up, counters, buffer, local, lru, flushes, disk, history, races>>

CheckpointWrite ==
  /\ up /\ saving # Nil
  /\ \/ disk' = [n |-> saving.n, t0 |-> saving.t0, spans |-> buffer]
     \/ UNCHANGED disk
  /\ saving' = Nil
  /\ UNCHANGED <<now, up, counters, buffer, local, lru, flushes, history, races>>

(* SetValue("k_size"), under flushMu; the LRU keeps its size. *)
SetK(newK) ==
  /\ up /\ flushMuFree /\ k # newK
  /\ k' = newK
  /\ UNCHANGED <<now, up, n, t0, buffer, local, lru, flushes, saving, disk, history, races>>

-----------------------------------------------------------------------------
(* What is in memory when the process ends is gone. *)
Gone ==
  /\ up' = FALSE
  /\ k' = SizeK /\ n' = 0 /\ t0' = 0 /\ buffer' = << >>
  /\ pc' = [c \in Consumers |-> "idle"] /\ batchNow' = [c \in Consumers |-> 0]
  /\ pending' = [c \in Consumers |-> Nil] /\ loaded' = [c \in Consumers |-> << >>]
  /\ stale' = {} /\ lru' = << >> /\ flushes' = {} /\ saving' = Nil

Crash == up /\ Gone /\ UNCHANGED <<now, disk, history, raced>>

(* Shutdown, when nobody consumes any more: a last checkpoint, no flush.     *)
Shutdown ==
  /\ up /\ flushMuFree /\ \A c \in Consumers : pc[c] = "idle"
  /\ \/ disk' = [n |-> n, t0 |-> t0, spans |-> buffer]
     \/ UNCHANGED disk
  /\ Gone
  /\ UNCHANGED <<now, history, raced>>

Restart ==
  /\ ~up
  /\ up' = TRUE
  /\ loadCheckpoint
  /\ UNCHANGED <<now, k, local, flushes, saving, disk, arrived, windowOf, missing, emitted,
                 races>>

Tick ==
  /\ now < MaxNow
  /\ now' = now + 1
  /\ UNCHANGED <<up, counters, buffer, local, lru, flushes, saving, disk, history, races>>

Next ==
  \/ \E c \in Consumers : Consume(c)
  \/ \E f \in flushes : FlushLookup(f) \/ FlushSend(f)
  \/ CheckpointCounters
  \/ CheckpointWrite
  \/ \E newK \in KSizes : SetK(newK)
  \/ Crash
  \/ Shutdown
  \/ Restart
  \/ Tick

Spec == Init /\ [][Next]_vars

-----------------------------------------------------------------------------
(* Type invariant; the LRU keeps its size, whatever the consumers undo of    *)
(* each other, and one of them at most is in resetWindow.                    *)
TypeOK ==
  /\ now \in 0 .. MaxNow /\ up \in BOOLEAN
  /\ k \in KSizes /\ n \in Nat /\ t0 \in 0 .. now
  /\ buffer \in Seq(Spans)
  /\ pc \in [Consumers -> {"idle", "reset", "swap", "counters", "fresh", "batch",
                           "load", "cache", "store"}]
  /\ batchNow \in [Consumers -> 0 .. now]
  /\ pending \in [Consumers -> Spans \cup {Nil}]
  /\ loaded \in [Consumers -> Seq(Spans)]
  /\ lru \in Seq(Spans) /\ Len(lru) <= LRUSize
  /\ flushes \subseteq [window : 0 .. now, rest : Seq(Spans), found : SUBSET Spans]
  /\ saving # Nil => saving \in [n : Nat, t0 : 0 .. now] /\ FreeOfResets
  /\ disk # Nil => disk \in [n : Nat, t0 : 0 .. now, spans : Seq(Spans)]
  /\ arrived \subseteq Spans /\ restored \subseteq Spans /\ missing \subseteq Spans
  /\ windowOf \in [Spans -> 0 .. now \cup {Nil}]
  /\ emitted \in [Spans -> Nat]
  /\ stale \subseteq Consumers /\ raced \in BOOLEAN
  /\ \A c \in Consumers :
       /\ pending[c] # Nil <=> pc[c] \in {"load", "cache", "store"}
       /\ \A d \in Consumers \ {c} : ~(InReset(c) /\ InReset(d))

SentOnce == \A s \in Spans : emitted[s] <= 1

SpansOfOneWindow ==
  disk # Nil => \A s \in ToSet(disk.spans) : windowOf[s] = disk.t0

(* Until one consumer's store undoes another's, no crash, restart, checkpoint*)
(* or flush makes a span go out twice: a span that was sent may still be in  *)
(* the checkpoint and come back into the buffer, but only the LRU of its own *)
(* process has it to send.                                                   *)
AtMostOnce == raced \/ SentOnce

(* Until then, a checkpoint is of one window: the spans in it were stored in *)
(* the window that started at its t0, although resetWindow moves the buffer, *)
(* t0 and the buffer again in separate steps, and other consumers go on      *)
(* sampling while a checkpoint is taken or a window is reset.                *)
CheckpointOfOneWindow == raced \/ SpansOfOneWindow

-----------------------------------------------------------------------------
(* What does not hold.  SentOnce and SpansOfOneWindow fail once a consumer   *)
(* stores a buffer that it had loaded before another one's reset.            *)

(* The LRU is large enough (newProcessor, "2x size of reservoir to allow     *)
(* some buffer"): a span in the buffer is in the LRU unless it came from a   *)
(* checkpoint, whatever a flush looks up and thereby keeps in the cache.     *)
(* It needs a k_size that is never above size_k and no two flushes at a time.*)
ActiveInLRU == ToSet(buffer) \ restored \subseteq ToSet(lru)

(* README.md:12 "persistence for [...] sampling state": what a restart       *)
(* brought back is not lost by the flush of its window.  Violated: the       *)
(* checkpoint has summaries only, and no flush finds their spans.            *)
RestoredSpansAreFound == missing \cap restored = {}
=============================================================================

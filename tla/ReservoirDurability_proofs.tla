--------------------- MODULE ReservoirDurability_proofs ---------------------
(***************************************************************************)
(* Proofs about ReservoirDurability, for any number of consumers, any set  *)
(* of spans, any sizes and any number of flushes, crashes and checkpoints. *)
(* AtMostOnce is not inductive.  Until a race it needs that a consumer     *)
(* that was not overtaken has loaded what is in the buffer, that within a  *)
(* process a span is in one place only, and that what came from a          *)
(* checkpoint, the only way a span comes twice, is never in the LRU.       *)
(***************************************************************************)
EXTENDS ReservoirDurability, SequenceTheorems, TLAPS

DownIsEmpty ==
  ~up => /\ \A c \in Consumers : pc[c] = "idle"
         /\ saving = Nil /\ flushes = {} /\ buffer = << >> /\ lru = << >>

(* What a consumer has made of the buffer is still true of it, unless       *)
(* another one has stored it since.                                         *)
Undisturbed ==
  \A c \in Consumers \ stale :
    /\ pc[c] \in {"swap", "cache", "store"} => loaded[c] = buffer
    /\ pc[c] \in {"counters", "fresh"} => buffer = << >>

(* The spans a flush has to look up, and those it is to send. *)
Held(f) == ToSet(f.rest) \cup f.found

AllArrived ==
  /\ \A c \in Consumers : pending[c] # Nil => pending[c] \in arrived
  /\ ToSet(buffer) \subseteq arrived /\ ToSet(lru) \subseteq arrived
  /\ restored \subseteq arrived
  /\ \A f \in flushes : Held(f) \subseteq arrived
  /\ disk # Nil => ToSet(disk.spans) \subseteq arrived
  /\ \A s \in Spans \ arrived : emitted[s] = 0

(* What a consumer is about to store is nowhere else. *)
IsNew(s) ==
  /\ emitted[s] = 0
  /\ s \notin ToSet(buffer) /\ s \notin restored
  /\ \A f \in flushes : s \notin Held(f)
  /\ disk # Nil => s \notin ToSet(disk.spans)

PendingIsNew ==
  \A c \in Consumers : pending[c] # Nil =>
    /\ IsNew(pending[c])
    /\ \A d \in Consumers \ {c} : pending[d] # pending[c]

OnePlace ==
  /\ IsInjective(buffer)
  /\ \A f \in flushes :
       /\ IsInjective(f.rest) /\ ToSet(f.rest) \cap f.found = {}
       /\ Held(f) \cap ToSet(buffer) = {}
  /\ \A f, g \in flushes : f # g => Held(f) \cap Held(g) = {}
  /\ disk # Nil => IsInjective(disk.spans)

(* No LRU has what came from a checkpoint, so no flush has found it. *)
RestoredNotCached ==
  /\ ToSet(lru) \cap restored = {}
  /\ \A f \in flushes : f.found \cap restored = {}

Unsent ==
  /\ \A s \in ToSet(buffer) \ restored : emitted[s] = 0
  /\ \A f \in flushes : \A s \in Held(f) \ restored : emitted[s] = 0

Places ==
  AllArrived /\ PendingIsNew /\ OnePlace /\ RestoredNotCached /\ Unsent /\ SentOnce

(* Somebody was overtaken in resetWindow: its next store will be a race, if  *)
(* no crash comes before.                                                    *)
ResetOvertaken == \E c \in stale : pc[c] \in {"counters", "fresh"}

(* What a checkpoint writes is of the window in which it began. *)
WindowOfBuffer ==
  /\ ~ResetOvertaken => \A s \in ToSet(buffer) : windowOf[s] = t0
  /\ saving # Nil => saving.t0 = t0

OneWindow == WindowOfBuffer /\ SpansOfOneWindow

Orderly == DownIsEmpty /\ Undisturbed /\ Places /\ OneWindow

IInv == TypeOK /\ (raced \/ Orderly)

-----------------------------------------------------------------------------
(* Sequences *)

LEMMA AppendFacts ==
  ASSUME NEW s \in Seq(Spans), NEW e \in Spans
  PROVE  /\ Append(s, e) \in Seq(Spans)
         /\ ToSet(Append(s, e)) = ToSet(s) \cup {e}
         /\ IsInjective(s) /\ e \notin ToSet(s) => IsInjective(Append(s, e))
<1>1. /\ Append(s, e) \in Seq(Spans) /\ DOMAIN Append(s, e) = 1 .. Len(s) + 1
      /\ DOMAIN s = 1 .. Len(s) /\ Len(s) \in Nat
      /\ \A i \in 1 .. Len(s) : Append(s, e)[i] = s[i]
      /\ Append(s, e)[Len(s) + 1] = e
  OBVIOUS
<1>2. ToSet(Append(s, e)) = ToSet(s) \cup {e}
  BY <1>1 DEF ToSet
<1>3. ASSUME IsInjective(s), e \notin ToSet(s) PROVE IsInjective(Append(s, e))
  BY <1>1, <1>3 DEF ToSet, IsInjective
<1>4. QED
  BY <1>1, <1>2, <1>3

LEMMA TailFacts ==
  ASSUME NEW s \in Seq(Spans), s # << >>
  PROVE  /\ Head(s) \in Spans /\ Tail(s) \in Seq(Spans)
         /\ ToSet(s) = ToSet(Tail(s)) \cup {Head(s)}
         /\ IsInjective(s) => IsInjective(Tail(s)) /\ Head(s) \notin ToSet(Tail(s))
<1>1. /\ Head(s) = s[1] /\ Head(s) \in Spans /\ Tail(s) \in Seq(Spans)
      /\ DOMAIN s = 1 .. Len(s) /\ Len(s) \in Nat \ {0}
      /\ DOMAIN Tail(s) = 1 .. Len(s) - 1
      /\ \A i \in 1 .. Len(s) - 1 : Tail(s)[i] = s[i + 1]
  OBVIOUS
<1>2. ToSet(s) \subseteq ToSet(Tail(s)) \cup {Head(s)}
  <2> SUFFICES ASSUME NEW i \in 1 .. Len(s), i # 1 PROVE s[i] \in ToSet(Tail(s))
    BY <1>1 DEF ToSet
  <2>1. i - 1 \in 1 .. Len(s) - 1 /\ s[i] = Tail(s)[i - 1]
    BY <1>1
  <2>2. QED
    BY <1>1, <2>1 DEF ToSet
<1>3. ToSet(Tail(s)) \cup {Head(s)} \subseteq ToSet(s)
  <2>1. \A i \in 1 .. Len(s) - 1 : i + 1 \in 1 .. Len(s) /\ 1 \in 1 .. Len(s)
    BY <1>1
  <2>2. QED
    BY <1>1, <2>1 DEF ToSet
<1>4. ASSUME IsInjective(s) PROVE IsInjective(Tail(s)) /\ Head(s) \notin ToSet(Tail(s))
  <2>1. \A i \in 1 .. Len(s) - 1 : i + 1 \in 1 .. Len(s) /\ i + 1 # 1
    BY <1>1
  <2>2. IsInjective(Tail(s))
    BY <1>1, <1>4, <2>1 DEF IsInjective
  <2>3. Head(s) \notin ToSet(Tail(s))
    BY <1>1, <1>4, <2>1 DEF IsInjective, ToSet
  <2>4. QED
    BY <2>2, <2>3
<1>5. QED
  BY <1>1, <1>2, <1>3, <1>4

LEMMA ConcatFacts ==
  ASSUME NEW s \in Seq(Spans), NEW t \in Seq(Spans)
  PROVE  /\ s \o t \in Seq(Spans) /\ Len(s \o t) = Len(s) + Len(t)
         /\ ToSet(s \o t) \subseteq ToSet(s) \cup ToSet(t)
<1>1. /\ s \o t \in Seq(Spans) /\ Len(s \o t) = Len(s) + Len(t)
      /\ \A i \in 1 .. Len(s) + Len(t) :
           (s \o t)[i] = IF i <= Len(s) THEN s[i] ELSE t[i - Len(s)]
  BY ConcatProperties
<1>2. /\ DOMAIN (s \o t) = 1 .. Len(s) + Len(t)
      /\ DOMAIN s = 1 .. Len(s) /\ DOMAIN t = 1 .. Len(t)
      /\ Len(s) \in Nat /\ Len(t) \in Nat
  BY <1>1, LenProperties
<1>3. ASSUME NEW i \in 1 .. Len(s) + Len(t)
      PROVE  \/ i \in 1 .. Len(s) /\ (s \o t)[i] = s[i]
             \/ i - Len(s) \in 1 .. Len(t) /\ (s \o t)[i] = t[i - Len(s)]
  BY <1>1, <1>2
<1>4. QED
  BY <1>1, <1>2, <1>3 DEF ToSet

LEMMA SubSeqFacts ==
  ASSUME NEW s \in Seq(Spans), NEW first \in 1 .. Len(s) + 1, NEW last \in 0 .. Len(s),
         first <= last + 1
  PROVE  /\ SubSeq(s, first, last) \in Seq(Spans)
         /\ Len(SubSeq(s, first, last)) = last - first + 1
         /\ ToSet(SubSeq(s, first, last)) \subseteq ToSet(s)
<1>1. Len(s) \in Nat /\ DOMAIN s = 1 .. Len(s) /\ \A i \in 1 .. Len(s) : s[i] \in Spans
  BY LenProperties
<1>2. \A i \in first .. last : s[i] \in Spans
  BY <1>1
<1>3. /\ SubSeq(s, first, last) \in Seq(Spans)
      /\ Len(SubSeq(s, first, last)) = IF first <= last THEN last - first + 1 ELSE 0
      /\ \A i \in 1 .. last - first + 1 : SubSeq(s, first, last)[i] = s[first + i - 1]
  BY <1>1, <1>2, SubSeqProperties
<1>4. Len(SubSeq(s, first, last)) = last - first + 1
  BY <1>1, <1>3
<1>5. DOMAIN SubSeq(s, first, last) = 1 .. last - first + 1
  BY <1>3, <1>4, LenProperties
<1>6. \A i \in 1 .. last - first + 1 : first + i - 1 \in 1 .. Len(s)
  BY <1>1
<1>7. QED
  BY <1>1, <1>3, <1>4, <1>5, <1>6 DEF ToSet

LEMMA EmptyFacts == << >> \in Seq(Spans) /\ ToSet(<< >>) = {} /\ IsInjective(<< >>) /\ Len(<< >>) = 0
  BY DEF ToSet, IsInjective

LEMMA OneFacts ==
  ASSUME NEW s \in Spans
  PROVE  /\ <<s>> \in Seq(Spans) /\ Len(<<s>>) = 1
         /\ ToSet(<<s>>) = {s} /\ IsInjective(<<s>>)
  BY DEF ToSet, IsInjective

(* A look-up or an addition brings nothing into the LRU but its span. *)
LEMMA TouchedFacts ==
  ASSUME lru \in Seq(Spans), NEW s \in Spans
  PROVE  /\ Touched(s) \in Seq(Spans)
         /\ ToSet(Touched(s)) \subseteq ToSet(lru) \cup {s}
         /\ Len(Touched(s)) <= Len(lru) + 1
         /\ s \in ToSet(lru) => Len(Touched(s)) = Len(lru)
<1>1. /\ <<s>> \in Seq(Spans) /\ Len(<<s>>) = 1 /\ ToSet(<<s>>) = {s}
      /\ Len(lru) \in Nat /\ DOMAIN lru = 1 .. Len(lru)
  BY OneFacts, LenProperties
<1>2. CASE s \notin ToSet(lru)
  <2>1. Touched(s) = <<s>> \o lru
    BY <1>2 DEF Touched
  <2>2. /\ <<s>> \o lru \in Seq(Spans) /\ Len(<<s>> \o lru) = Len(<<s>>) + Len(lru)
        /\ ToSet(<<s>> \o lru) \subseteq ToSet(<<s>>) \cup ToSet(lru)
    BY <1>1, ConcatFacts, Zenon
  <2> DEFINE q == Touched(s)
  <2>3. /\ q \in Seq(Spans) /\ Len(q) = 1 + Len(lru)
        /\ ToSet(q) \subseteq ToSet(lru) \cup {s}
    BY <1>1, <2>1, <2>2, Zenon
  <2> HIDE DEF q
  <2>4. Len(q) <= Len(lru) + 1
    BY <1>1, <2>3
  <2>5. QED
    BY <1>2, <2>3, <2>4, Zenon DEF q
<1>3. CASE s \in ToSet(lru)
  <2> DEFINE p == PositionOf(s)
             before == SubSeq(lru, 1, p - 1)
             after == SubSeq(lru, p + 1, Len(lru))
  <2>1. \E i \in DOMAIN lru : lru[i] = s
    BY <1>3 DEF ToSet
  <2>2. p \in 1 .. Len(lru)
    BY <1>1, <2>1, Zenon DEF PositionOf
  <2>3. Touched(s) = <<s>> \o (before \o after)
    BY <1>3 DEF Touched, RemoveAt
  <2> HIDE DEF p
  <2>4. /\ 1 \in 1 .. Len(lru) + 1 /\ p - 1 \in 0 .. Len(lru) /\ 1 <= p - 1 + 1
        /\ p + 1 \in 1 .. Len(lru) + 1 /\ Len(lru) \in 0 .. Len(lru) /\ p + 1 <= Len(lru) + 1
    BY <1>1, <2>2
  <2>5. /\ before \in Seq(Spans) /\ Len(before) = p - 1 - 1 + 1 /\ ToSet(before) \subseteq ToSet(lru)
        /\ after \in Seq(Spans) /\ Len(after) = Len(lru) - (p + 1) + 1 /\ ToSet(after) \subseteq ToSet(lru)
    BY <2>4, SubSeqFacts
  <2> HIDE DEF before, after
  <2>6. /\ before \o after \in Seq(Spans) /\ Len(before \o after) = Len(before) + Len(after)
        /\ ToSet(before \o after) \subseteq ToSet(before) \cup ToSet(after)
    BY <2>5, ConcatFacts, Zenon
  <2> DEFINE rest == before \o after
             q == Touched(s)
  <2>7. /\ <<s>> \o rest \in Seq(Spans) /\ Len(<<s>> \o rest) = Len(<<s>>) + Len(rest)
        /\ ToSet(<<s>> \o rest) \subseteq ToSet(<<s>>) \cup ToSet(rest)
    BY <1>1, <2>6, ConcatFacts, Zenon
  <2>8. /\ q \in Seq(Spans) /\ Len(q) = 1 + Len(rest)
        /\ ToSet(q) \subseteq ToSet(rest) \cup {s}
    BY <1>1, <2>3, <2>7, Zenon
  <2> HIDE DEF q, rest
  <2>9. ToSet(rest) \subseteq ToSet(lru) /\ Len(rest) = Len(before) + Len(after)
    BY <2>5, <2>6, Zenon DEF rest
  <2>10. Len(rest) = Len(lru) - 1
    BY <1>1, <2>2, <2>5, <2>9
  <2>11. Len(q) = Len(lru) /\ Len(q) <= Len(lru) + 1
    BY <1>1, <2>8, <2>10
  <2>12. ToSet(q) \subseteq ToSet(lru) \cup {s}
    BY <2>8, <2>9, Zenon
  <2>13. QED
    BY <2>8, <2>11, <2>12, Zenon DEF q
<1>4. QED
  BY <1>2, <1>3

LEMMA AddedFacts ==
  ASSUME lru \in Seq(Spans), Len(lru) <= LRUSize, LRUSize \in Nat, NEW s \in Spans
  PROVE  /\ Added(s) \in Seq(Spans) /\ Len(Added(s)) <= LRUSize
         /\ ToSet(Added(s)) \subseteq ToSet(lru) \cup {s}
<1> DEFINE q == Touched(s)
<1>1. /\ q \in Seq(Spans) /\ ToSet(q) \subseteq ToSet(lru) \cup {s} /\ Len(q) <= Len(lru) + 1
      /\ Len(q) \in Nat /\ Len(lru) \in Nat
  BY TouchedFacts, LenProperties
<1>2. CASE Len(q) <= LRUSize
  BY <1>1, <1>2 DEF Added
<1>3. CASE Len(q) > LRUSize
  <2>1. Added(s) = SubSeq(q, 1, Len(q) - 1)
    BY <1>3 DEF Added, Front
  <2> HIDE DEF q
  <2>2. 1 \in 1 .. Len(q) + 1 /\ Len(q) - 1 \in 0 .. Len(q) /\ 1 <= Len(q) - 1 + 1
    BY <1>1, <1>3
  <2>3. /\ SubSeq(q, 1, Len(q) - 1) \in Seq(Spans)
        /\ Len(SubSeq(q, 1, Len(q) - 1)) = Len(q) - 1 - 1 + 1
        /\ ToSet(SubSeq(q, 1, Len(q) - 1)) \subseteq ToSet(q)
    BY <1>1, <2>2, SubSeqFacts
  <2>4. QED
    BY <1>1, <2>1, <2>3
<1>4. QED
  BY <1>1, <1>2, <1>3

-----------------------------------------------------------------------------
(* Types *)

LEMMA SizeIsNat == LRUSize \in Nat
  BY DurabilityAssumption DEF LRUSize

LEMMA InitInv == Init => IInv
<1> SUFFICES ASSUME Init PROVE IInv
  OBVIOUS
<1> USE DurabilityAssumption DEF Init
<1>1. TypeOK
  <2>1. buffer \in Seq(Spans) /\ lru \in Seq(Spans) /\ Len(lru) <= LRUSize
    BY EmptyFacts, SizeIsNat
  <2>2. loaded \in [Consumers -> Seq(Spans)]
    BY EmptyFacts
  <2>3. now \in 0 .. MaxNow /\ t0 \in 0 .. now /\ k \in KSizes /\ batchNow \in [Consumers -> 0 .. now]
    BY DEF DurabilityAssumption
  <2>4. windowOf \in [Spans -> 0 .. now \cup {Nil}] /\ emitted \in [Spans -> Nat]
    OBVIOUS
  <2>5. QED
    BY <2>1, <2>2, <2>3, <2>4 DEF TypeOK, InReset
<1>2. Places
  BY EmptyFacts DEF Places, AllArrived, PendingIsNew, OnePlace, RestoredNotCached, Unsent,
                    SentOnce
<1>3. DownIsEmpty /\ Undisturbed /\ OneWindow
  BY EmptyFacts DEF DownIsEmpty, Undisturbed, OneWindow, WindowOfBuffer, SpansOfOneWindow
<1>4. QED
  BY <1>1, <1>2, <1>3 DEF IInv, Orderly

LEMMA GoneTypes ==
  ASSUME TypeOK, Gone, now' = now
  PROVE  /\ up' \in BOOLEAN /\ k' \in KSizes /\ n' \in Nat /\ t0' \in 0 .. now'
         /\ buffer' \in Seq(Spans) /\ lru' \in Seq(Spans) /\ Len(lru') <= LRUSize
         /\ flushes' = {} /\ saving' = Nil /\ stale' = {}
         /\ batchNow' \in [Consumers -> 0 .. now'] /\ loaded' \in [Consumers -> Seq(Spans)]
         /\ pc' = [c \in Consumers |-> "idle"] /\ pending' = [c \in Consumers |-> Nil]
<1>1. buffer' = << >> /\ lru' = << >>
  BY DEF Gone
<1>2. buffer' \in Seq(Spans) /\ lru' \in Seq(Spans) /\ Len(lru') = 0
  BY <1>1, EmptyFacts, Zenon
<1>3. Len(lru') <= LRUSize
  BY <1>2, SizeIsNat
<1>4. loaded' \in [Consumers -> Seq(Spans)]
  BY EmptyFacts DEF Gone
<1>5. k' \in KSizes /\ n' \in Nat /\ t0' \in 0 .. now' /\ batchNow' \in [Consumers -> 0 .. now']
  BY DurabilityAssumption DEF Gone, TypeOK
<1>6. QED
  BY <1>2, <1>3, <1>4, <1>5 DEF Gone

(* What the steps of one consumer leave of the types. *)
LEMMA OvertakeTypes ==
  ASSUME TypeOK, NEW c \in Consumers, Overtake(c)
  PROVE  stale' \subseteq Consumers /\ raced' \in BOOLEAN
  BY DEF Overtake, TypeOK

LEMMA ConsumeTypes ==
  ASSUME TypeOK, NEW c \in Consumers, Consume(c)
  PROVE  TypeOK'
<1> USE DurabilityAssumption DEF TypeOK
<1>1. CASE Begin(c)
  <2>1. now \in 0 .. now
    OBVIOUS
  <2>2. pc[c] = "idle" /\ UNCHANGED <<now, up, k, n, t0, buffer, pending, loaded, lru, flushes,
          saving, disk, arrived, windowOf, restored, missing, emitted, stale, raced>>
    BY <1>1 DEF Begin, Goto, counters, history, races
  <2>3. \/ pc' = [pc EXCEPT ![c] = "reset"] /\ batchNow' = [batchNow EXCEPT ![c] = now]
        \/ pc' = [pc EXCEPT ![c] = "batch"] /\ batchNow' = batchNow
    BY <1>1 DEF Begin, Goto
  <2>4. batchNow' \in [Consumers -> 0 .. now]
    <3> DEFINE times == 0 .. now
    <3>1. now \in times /\ batchNow \in [Consumers -> times]
      BY <2>1
    <3> HIDE DEF times
    <3>2. batchNow' \in [Consumers -> times]
      BY <2>3, <3>1, Zenon
    <3>3. QED
      BY <3>2 DEF times
  <2>5. pc' \in [Consumers -> {"idle", "reset", "swap", "counters", "fresh", "batch",
                              "load", "cache", "store"}]
    BY <2>3
  <2>6. \A d \in Consumers : (pending[d] # Nil <=> pc'[d] \in {"load", "cache", "store"})
                              /\ (InReset(d)' => InReset(d))
    BY <2>2, <2>3 DEF InReset
  <2>7. QED
    BY <2>2, <2>4, <2>5, <2>6 DEF FreeOfResets
<1>2. CASE LockAndLoad(c)
  BY <1>2 DEF LockAndLoad, Goto, counters, history, races, InReset, FreeOfResets, flushMuFree
<1>3. CASE Swap(c)
  <2>1. flushes' \subseteq [window : 0 .. now, rest : Seq(Spans), found : SUBSET Spans]
    BY <1>3 DEF Swap
  <2>2. buffer' \in Seq(Spans) /\ loaded' \in [Consumers -> Seq(Spans)]
    BY <1>3, EmptyFacts DEF Swap
  <2>3. QED
    BY <1>3, <2>1, <2>2, OvertakeTypes
       DEF Swap, Goto, counters, history, InReset, FreeOfResets
<1>4. CASE ResetCounters(c)
  BY <1>4 DEF ResetCounters, Goto, history, races, InReset, FreeOfResets
<1>5. CASE FreshBuffer(c)
  BY <1>5, EmptyFacts, OvertakeTypes
     DEF FreshBuffer, Goto, counters, history, InReset, FreeOfResets
<1>6. CASE LoadActive(c)
  BY <1>6 DEF LoadActive, Goto, counters, history, races, InReset, FreeOfResets
<1>7. CASE AddToLRU(c)
  <2>1. pending[c] \in Spans
    BY <1>7 DEF AddToLRU, Goto
  <2>2. lru' \in Seq(Spans) /\ Len(lru') <= LRUSize
    BY <1>7, <2>1, AddedFacts, SizeIsNat DEF AddToLRU
  <2>3. QED
    BY <1>7, <2>2 DEF AddToLRU, Goto, counters, history, races, InReset, FreeOfResets
<1>8. CASE StoreActive(c)
  <2>1. pending[c] \in Spans /\ loaded[c] \in Seq(Spans)
    BY <1>8 DEF StoreActive, Goto
  <2>2. buffer' = <<pending[c]>> \/ buffer' = Append(loaded[c], pending[c])
    BY <1>8 DEF StoreActive
  <2>3. buffer' \in Seq(Spans)
    <3>1. <<pending[c]>> \in Seq(Spans) /\ Append(loaded[c], pending[c]) \in Seq(Spans)
      BY <2>1
    <3>2. QED
      BY <2>2, <3>1
  <2>4. loaded' \in [Consumers -> Seq(Spans)]
    BY <1>8, EmptyFacts DEF StoreActive
  <2>5. windowOf' \in [Spans -> 0 .. now \cup {Nil}] /\ pending' \in [Consumers -> Spans \cup {Nil}]
    BY <1>8, <2>1 DEF StoreActive
  <2>6. pc' = [pc EXCEPT ![c] = "batch"] /\ pc[c] = "store" /\ pending' = [pending EXCEPT ![c] = Nil]
    BY <1>8 DEF StoreActive, Goto
  <2>7. stale' \subseteq Consumers /\ raced' \in BOOLEAN
    BY <1>8, OvertakeTypes DEF StoreActive
  <2>8. UNCHANGED <<now, up, k, n, t0, batchNow, lru, flushes, saving, disk, arrived, restored,
                    missing, emitted>>
    BY <1>8 DEF StoreActive, counters
  <2> HIDE DEF TypeOK
  <2>9. \A d \in Consumers : (pending'[d] # Nil <=> pc'[d] \in {"load", "cache", "store"})
                              /\ (InReset(d)' => InReset(d))
    BY <2>6 DEF TypeOK, InReset
  <2>10. QED
    BY <2>3, <2>4, <2>5, <2>6, <2>7, <2>8, <2>9 DEF TypeOK, FreeOfResets
<1>9. CASE EndBatch(c)
  BY <1>9 DEF EndBatch, Goto, counters, history, races, InReset, FreeOfResets
<1>10. ASSUME NEW s \in Spans, Sample(c, s) PROVE TypeOK'
  <2>1. CASE pc' = [pc EXCEPT ![c] = "load"] /\ pending' = [pending EXCEPT ![c] = s]
    BY <1>10, <2>1 DEF Sample, races, InReset, FreeOfResets
  <2>2. CASE UNCHANGED <<pc, pending>>
    BY <1>10, <2>2 DEF Sample, races, InReset, FreeOfResets
  <2>3. QED
    BY <1>10, <2>1, <2>2 DEF Sample
<1>11. QED
  BY <1>1, <1>2, <1>3, <1>4, <1>5, <1>6, <1>7, <1>8, <1>9, <1>10 DEF Consume

LEMMA LookupTypes ==
  ASSUME TypeOK, NEW f \in flushes, FlushLookup(f)
  PROVE  TypeOK'
<1> USE DEF TypeOK
<1>1. /\ f \in [window : 0 .. now, rest : Seq(Spans), found : SUBSET Spans]
      /\ f.rest # << >>
  BY DEF FlushLookup
<1> DEFINE s == Head(f.rest)
           g == [f EXCEPT !.rest = Tail(@), !.found = IF s \in ToSet(lru) THEN @ \cup {s} ELSE @]
<1>2. s \in Spans /\ Tail(f.rest) \in Seq(Spans)
  BY <1>1, TailFacts
<1>3. g \in [window : 0 .. now, rest : Seq(Spans), found : SUBSET Spans]
  BY <1>1, <1>2
<1>4. flushes' \subseteq [window : 0 .. now, rest : Seq(Spans), found : SUBSET Spans]
  BY <1>3 DEF FlushLookup
<1>5. lru' \in Seq(Spans) /\ Len(lru') <= LRUSize
  BY <1>2, TouchedFacts DEF FlushLookup
<1>6. missing' \subseteq Spans
  BY <1>2 DEF FlushLookup
<1>7. QED
  BY <1>4, <1>5, <1>6 DEF FlushLookup, counters, local, races, InReset, FreeOfResets

LEMMA NextType == TypeOK /\ [Next]_vars => TypeOK'
<1> SUFFICES ASSUME TypeOK, [Next]_vars PROVE TypeOK'
  OBVIOUS
<1> USE DurabilityAssumption DEF TypeOK
<1>1. ASSUME NEW f \in flushes, FlushSend(f) PROVE TypeOK'
  <2>1. emitted' \in [Spans -> Nat]
    <3>1. CASE emitted' = [s \in Spans |-> IF s \in f.found THEN emitted[s] + 1 ELSE emitted[s]]
      BY <3>1
    <3>2. QED
      BY <1>1, <3>1 DEF FlushSend
  <2>2. flushes' = flushes \ {f} /\ UNCHANGED <<now, up, counters, buffer, local, lru, saving,
          disk, arrived, windowOf, restored, missing, races>>
    BY <1>1 DEF FlushSend
  <2>3. QED
    BY <2>1, <2>2 DEF counters, local, races, InReset, FreeOfResets
<1>2. CASE CheckpointCounters
  BY <1>2 DEF CheckpointCounters, counters, local, history, races, flushMuFree, InReset, FreeOfResets
<1>3. CASE CheckpointWrite
  BY <1>3 DEF CheckpointWrite, counters, local, history, races, InReset, FreeOfResets
<1>4. ASSUME NEW newK \in KSizes, SetK(newK) PROVE TypeOK'
  BY <1>4 DEF SetK, local, history, races, InReset, FreeOfResets
<1>5. CASE Crash
  BY <1>5, GoneTypes DEF Crash, history, InReset, FreeOfResets
<1>6. CASE Shutdown
  <2>1. disk' # Nil => disk' \in [n : Nat, t0 : 0 .. now, spans : Seq(Spans)]
    BY <1>6 DEF Shutdown
  <2>2. QED
    BY <1>6, <2>1, GoneTypes DEF Shutdown, history, InReset, FreeOfResets
<1>7. CASE Restart
  <2>1. n' \in Nat /\ t0' \in 0 .. now /\ buffer' \in Seq(Spans) /\ ToSet(buffer') \subseteq Spans
    <3>1. CASE disk = Nil
      BY <1>7, <3>1, EmptyFacts DEF Restart, loadCheckpoint
    <3>2. CASE disk # Nil
      BY <1>7, <3>2 DEF Restart, loadCheckpoint, ToSet
    <3>3. QED
      BY <3>1, <3>2
  <2>2. lru' \in Seq(Spans) /\ Len(lru') <= LRUSize
    BY <1>7, EmptyFacts, SizeIsNat DEF Restart, loadCheckpoint, LoadedLRU
  <2>3. restored' \subseteq Spans
    BY <1>7, <2>1 DEF Restart, loadCheckpoint
  <2>4. QED
    BY <1>7, <2>1, <2>2, <2>3 DEF Restart, local, races, InReset, FreeOfResets
<1>8. CASE Tick
  BY <1>8 DEF Tick, counters, local, history, races, InReset, FreeOfResets
<1>9. CASE UNCHANGED vars
  BY <1>9 DEF vars, counters, local, history, races, InReset, FreeOfResets
<1>10. QED
  BY <1>1, <1>2, <1>3, <1>4, <1>5, <1>6, <1>7, <1>8, <1>9, ConsumeTypes, LookupTypes DEF Next

-----------------------------------------------------------------------------
(* What the consumers have loaded *)

LEMMA RacedForEver == TypeOK /\ [Next]_vars /\ raced => raced'
<1> SUFFICES ASSUME TypeOK, [Next]_vars, raced PROVE raced'
  OBVIOUS
<1>1. ASSUME NEW c \in Consumers, Consume(c) PROVE raced'
  BY <1>1 DEF Consume, Begin, LockAndLoad, Swap, ResetCounters, FreshBuffer, LoadActive,
              AddToLRU, StoreActive, EndBatch, Sample, Overtake, races
<1>2. ASSUME NEW f \in flushes, FlushLookup(f) \/ FlushSend(f) PROVE raced'
  BY <1>2 DEF FlushLookup, FlushSend, races
<1>3. CASE CheckpointCounters \/ CheckpointWrite \/ \E newK \in KSizes : SetK(newK)
  BY <1>3 DEF CheckpointCounters, CheckpointWrite, SetK, races
<1>4. CASE Crash \/ Shutdown \/ Restart \/ Tick \/ UNCHANGED vars
  BY <1>4 DEF Crash, Shutdown, Restart, Tick, races, vars
<1>5. QED
  BY <1>1, <1>2, <1>3, <1>4 DEF Next

(* Who stores without a race stores in place of what it knows. *)
LEMMA StoreIsOwn ==
  ASSUME TypeOK, Undisturbed, NEW c \in Consumers, ~raced',
         Swap(c) \/ FreshBuffer(c) \/ StoreActive(c)
  PROVE  /\ c \notin stale
         /\ Swap(c) \/ StoreActive(c) => loaded[c] = buffer
         /\ FreshBuffer(c) => buffer = << >>
<1>1. c \notin stale
  BY DEF Swap, FreshBuffer, StoreActive, Overtake
<1>2. QED
  BY <1>1 DEF Undisturbed, Swap, FreshBuffer, StoreActive, Goto

(* It overtakes all the others that have something to lose. *)
LEMMA StoreOvertakes ==
  ASSUME TypeOK, NEW c \in Consumers, Overtake(c), ~raced'
  PROVE  \A d \in Consumers \ {c} : d \notin stale' => ~Watches(d)
  BY DEF Overtake

LEMMA ConsumeViews ==
  ASSUME TypeOK, DownIsEmpty, Undisturbed, NEW c \in Consumers, Consume(c), ~raced'
  PROVE  DownIsEmpty' /\ Undisturbed'
<1> USE DEF TypeOK
<1>1. up /\ UNCHANGED up
  BY DEF Consume, Begin, LockAndLoad, Swap, ResetCounters, FreshBuffer, LoadActive, AddToLRU,
         StoreActive, EndBatch, Sample, Goto
<1>2. DownIsEmpty'
  BY <1>1 DEF DownIsEmpty
<1>3. ASSUME UNCHANGED <<buffer, stale, loaded>>,
             \A d \in Consumers : \/ pc'[d] = pc[d]
                                  \/ pc'[d] \in {"idle", "reset", "batch", "load"}
                                  \/ pc[d] = "counters" /\ pc'[d] = "fresh"
                                  \/ pc[d] = "cache" /\ pc'[d] = "store"
      PROVE  Undisturbed'
  BY <1>3 DEF Undisturbed
<1>4. CASE Begin(c) \/ ResetCounters(c) \/ AddToLRU(c) \/ EndBatch(c)
  <2>1. \E to : /\ pc' = [pc EXCEPT ![c] = to]
                /\ \/ to \in {"idle", "reset", "batch"}
                   \/ pc[c] = "counters" /\ to = "fresh"
                   \/ pc[c] = "cache" /\ to = "store"
    BY <1>4 DEF Begin, ResetCounters, AddToLRU, EndBatch, Goto
  <2>2. UNCHANGED <<buffer, stale, loaded>>
    BY <1>4 DEF Begin, ResetCounters, AddToLRU, EndBatch, races
  <2>3. DOMAIN pc = Consumers
    BY DEF TypeOK
  <2>4. QED
    BY <1>2, <1>3, <2>1, <2>2, <2>3
<1>5. ASSUME NEW s \in Spans, Sample(c, s) PROVE Undisturbed'
  BY <1>3, <1>5 DEF Sample, races
<1>6. CASE LockAndLoad(c) \/ LoadActive(c)
  <2>1. loaded'[c] = buffer /\ pc'[c] \in {"swap", "cache"} /\ UNCHANGED <<buffer, stale>>
    BY <1>6 DEF LockAndLoad, LoadActive, Goto, races
  <2>2. \A d \in Consumers \ {c} : loaded'[d] = loaded[d] /\ pc'[d] = pc[d]
    BY <1>6 DEF LockAndLoad, LoadActive, Goto
  <2>3. QED
    BY <1>2, <2>1, <2>2 DEF Undisturbed
<1>7. CASE Swap(c) \/ FreshBuffer(c) \/ StoreActive(c)
  <2>1. \A d \in Consumers \ {c} : d \notin stale' => ~Watches(d) /\ pc'[d] = pc[d]
    BY <1>7, StoreOvertakes DEF Swap, FreshBuffer, StoreActive, Goto
  <2>2. \/ pc'[c] = "counters" /\ buffer' = << >>
        \/ pc'[c] = "batch"
    BY <1>7 DEF Swap, FreshBuffer, StoreActive, Goto
  <2>3. \A d \in Consumers \ {c} : d \notin stale' =>
          pc'[d] \notin {"swap", "counters", "fresh", "cache", "store"}
    BY <2>1 DEF Watches, InReset
  <2>4. QED
    BY <1>2, <2>2, <2>3 DEF Undisturbed
<1>8. QED
  BY <1>2, <1>4, <1>5, <1>6, <1>7 DEF Consume

LEMMA NextViews ==
  ASSUME TypeOK, DownIsEmpty, Undisturbed, [Next]_vars, ~raced'
  PROVE  DownIsEmpty' /\ Undisturbed'
<1> USE DEF TypeOK
<1>1. ASSUME NEW f \in flushes, FlushLookup(f) \/ FlushSend(f) PROVE DownIsEmpty' /\ Undisturbed'
  BY <1>1 DEF FlushLookup, FlushSend, local, races, DownIsEmpty, Undisturbed
<1>2. CASE CheckpointCounters \/ CheckpointWrite \/ \E newK \in KSizes : SetK(newK)
  BY <1>2 DEF CheckpointCounters, CheckpointWrite, SetK, local, races, DownIsEmpty, Undisturbed
<1>3. CASE Crash \/ Shutdown
  BY <1>3 DEF Crash, Shutdown, Gone, DownIsEmpty, Undisturbed
<1>4. CASE Restart
  BY <1>4 DEF Restart, local, races, DownIsEmpty, Undisturbed
<1>5. CASE Tick \/ UNCHANGED vars
  BY <1>5 DEF Tick, vars, local, races, DownIsEmpty, Undisturbed
<1>6. QED
  BY <1>1, <1>2, <1>3, <1>4, <1>5, ConsumeViews DEF Next

-----------------------------------------------------------------------------
(* Nothing is sent twice *)

PlacesVars == <<pending, flushes, buffer, lru, arrived, disk, emitted, restored>>

LEMMA PlacesUnchanged == Places /\ UNCHANGED PlacesVars => Places'
<1> SUFFICES ASSUME Places, UNCHANGED PlacesVars PROVE Places'
  OBVIOUS
<1> USE DEF Places, PlacesVars
<1>1. AllArrived' /\ OnePlace'
  BY DEF AllArrived, OnePlace, Held
<1>2. PendingIsNew'
  BY DEF PendingIsNew, IsNew, Held
<1>3. RestoredNotCached' /\ Unsent' /\ SentOnce'
  BY DEF RestoredNotCached, Unsent, SentOnce, Held
<1>4. QED
  BY <1>1, <1>2, <1>3

LEMMA SwapPlaces ==
  ASSUME TypeOK, Undisturbed, Places, NEW c \in Consumers, Swap(c), ~raced'
  PROVE  Places'
<1> USE DEF Places
<1> DEFINE new == [window |-> t0, rest |-> buffer, found |-> {}]
<1>1. /\ flushes' \subseteq flushes \cup {new} /\ buffer' = << >>
      /\ UNCHANGED <<pending, lru, arrived, disk, emitted, restored>>
  BY StoreIsOwn DEF Swap, history
<1>2. new.rest = buffer /\ new.found = {} /\ Held(new) = ToSet(buffer)
  BY DEF Held
<1>3. ToSet(buffer') = {} /\ IsInjective(buffer')
  BY <1>1, EmptyFacts, Zenon
<1> HIDE DEF new
<1>4. PendingIsNew'
  BY <1>1, <1>2, <1>3 DEF PendingIsNew, IsNew, Held
<1>5. AllArrived'
  BY <1>1, <1>2, <1>3 DEF AllArrived, Held
<1>6. OnePlace'
  BY <1>1, <1>2, <1>3 DEF OnePlace, Held
<1>7. RestoredNotCached' /\ Unsent' /\ SentOnce'
  BY <1>1, <1>2, <1>3 DEF RestoredNotCached, Unsent, SentOnce, Held
<1>8. QED
  BY <1>4, <1>5, <1>6, <1>7

LEMMA FreshPlaces ==
  ASSUME TypeOK, Undisturbed, Places, NEW c \in Consumers, FreshBuffer(c), ~raced'
  PROVE  Places'
  BY StoreIsOwn, PlacesUnchanged DEF FreshBuffer, history, PlacesVars

LEMMA SamplePlaces ==
  ASSUME TypeOK, Places, NEW c \in Consumers, NEW s \in Spans, Sample(c, s)
  PROVE  Places'
<1> USE DEF Places
<1>1. /\ s \notin arrived /\ arrived' = arrived \cup {s} /\ s # Nil
      /\ pc[c] = "batch" /\ pending[c] = Nil
      /\ pending' = pending \/ pending' = [pending EXCEPT ![c] = s]
      /\ UNCHANGED <<flushes, buffer, lru, disk, emitted, restored>>
  BY DurabilityAssumption DEF Sample, TypeOK
<1>2. \A d \in Consumers : pending'[d] = pending[d] \/ (d = c /\ pending'[d] = s)
  BY <1>1 DEF TypeOK
<1>3. AllArrived'
  BY <1>1, <1>2 DEF AllArrived, Held
<1>4. IsNew(s) /\ \A d \in Consumers : pending[d] # s
  BY <1>1 DEF IsNew, AllArrived, Held, TypeOK
<1>5. PendingIsNew'
  BY <1>1, <1>2, <1>4 DEF PendingIsNew, IsNew, Held
<1>6. OnePlace' /\ RestoredNotCached' /\ Unsent' /\ SentOnce'
  BY <1>1 DEF OnePlace, RestoredNotCached, Unsent, SentOnce, Held
<1>7. QED
  BY <1>3, <1>5, <1>6

LEMMA AddPlaces ==
  ASSUME TypeOK, Places, NEW c \in Consumers, AddToLRU(c)
  PROVE  Places'
<1> USE DEF Places
<1>1. /\ pending[c] # Nil /\ pending[c] \in Spans
      /\ UNCHANGED <<pending, flushes, buffer, arrived, disk, emitted, restored>>
  BY DEF AddToLRU, Goto, history, TypeOK
<1>2. ToSet(lru') \subseteq ToSet(lru) \cup {pending[c]}
  BY <1>1, AddedFacts, SizeIsNat DEF AddToLRU, TypeOK
<1>3. pending[c] \in arrived /\ pending[c] \notin restored
  BY <1>1 DEF AllArrived, PendingIsNew, IsNew
<1>4. AllArrived' /\ RestoredNotCached'
  BY <1>1, <1>2, <1>3 DEF AllArrived, RestoredNotCached, Held
<1>5. PendingIsNew' /\ OnePlace'
  BY <1>1 DEF PendingIsNew, IsNew, OnePlace, Held
<1>6. Unsent' /\ SentOnce'
  BY <1>1 DEF Unsent, SentOnce, Held
<1>7. QED
  BY <1>4, <1>5, <1>6

(* What the buffer is after a store. *)
LEMMA StoreFacts ==
  ASSUME TypeOK, Undisturbed, NEW c \in Consumers, StoreActive(c), ~raced'
  PROVE  /\ pending[c] # Nil /\ pending[c] \in Spans
         /\ ToSet(buffer') \subseteq ToSet(buffer) \cup {pending[c]}
         /\ IsInjective(buffer) /\ pending[c] \notin ToSet(buffer) => IsInjective(buffer')
<1>1. pending[c] # Nil /\ pending[c] \in Spans /\ buffer \in Seq(Spans)
  BY DEF StoreActive, Goto, TypeOK
<1>2. buffer' = <<pending[c]>> \/ buffer' = Append(buffer, pending[c])
  BY StoreIsOwn DEF StoreActive
<1>3. /\ ToSet(<<pending[c]>>) = {pending[c]} /\ IsInjective(<<pending[c]>>)
      /\ ToSet(Append(buffer, pending[c])) = ToSet(buffer) \cup {pending[c]}
      /\ IsInjective(buffer) /\ pending[c] \notin ToSet(buffer)
           => IsInjective(Append(buffer, pending[c]))
  BY <1>1, AppendFacts, OneFacts, Zenon
<1>4. CASE buffer' = <<pending[c]>>
  BY <1>1, <1>3, <1>4, Zenon
<1>5. CASE buffer' = Append(buffer, pending[c])
  BY <1>1, <1>3, <1>5, Zenon
<1>6. QED
  BY <1>2, <1>4, <1>5

LEMMA StorePlaces ==
  ASSUME TypeOK, Undisturbed, Places, NEW c \in Consumers, StoreActive(c), ~raced'
  PROVE  Places'
<1> USE DEF Places
<1>1. /\ pending[c] # Nil /\ pending[c] \in Spans
      /\ ToSet(buffer') \subseteq ToSet(buffer) \cup {pending[c]}
      /\ IsInjective(buffer) /\ pending[c] \notin ToSet(buffer) => IsInjective(buffer')
  BY StoreFacts
<1>2. /\ \A d \in Consumers : pending'[d] = IF d = c THEN Nil ELSE pending[d]
      /\ UNCHANGED <<flushes, lru, arrived, disk, emitted, restored>>
  BY DEF StoreActive, TypeOK
<1>3. pending[c] \in arrived /\ IsNew(pending[c])
      /\ \A d \in Consumers \ {c} : pending[d] # pending[c]
  BY <1>1 DEF AllArrived, PendingIsNew
<1>4. AllArrived'
  BY <1>1, <1>2, <1>3 DEF AllArrived, Held
<1>5. PendingIsNew'
  BY <1>1, <1>2, <1>3 DEF PendingIsNew, IsNew, Held
<1>6. OnePlace'
  BY <1>1, <1>2, <1>3 DEF OnePlace, IsNew, Held
<1>7. RestoredNotCached' /\ Unsent' /\ SentOnce'
  BY <1>1, <1>2, <1>3 DEF RestoredNotCached, Unsent, SentOnce, IsNew, Held
<1>8. QED
  BY <1>4, <1>5, <1>6, <1>7

LEMMA ConsumePlaces ==
  ASSUME TypeOK, Undisturbed, Places, NEW c \in Consumers, Consume(c), ~raced'
  PROVE  Places'
<1>1. CASE Begin(c) \/ LockAndLoad(c) \/ ResetCounters(c) \/ LoadActive(c) \/ EndBatch(c)
  BY <1>1, PlacesUnchanged
     DEF Begin, LockAndLoad, ResetCounters, LoadActive, EndBatch, history, PlacesVars
<1>2. QED
  BY <1>1, SwapPlaces, FreshPlaces, SamplePlaces, AddPlaces, StorePlaces DEF Consume

(* A flush finds a span of its window in the LRU, and so it is neither      *)
(* restored nor sent.                                                       *)
LEMMA LookupPlaces ==
  ASSUME TypeOK, Places, NEW f \in flushes, FlushLookup(f)
  PROVE  Places'
<1> USE DEF Places
<1> DEFINE s == Head(f.rest)
           hit == s \in ToSet(lru)
           g == [f EXCEPT !.rest = Tail(@), !.found = IF hit THEN @ \cup {s} ELSE @]
<1>1. /\ f \in [window : 0 .. now, rest : Seq(Spans), found : SUBSET Spans]
      /\ f.rest # << >> /\ flushes' = (flushes \ {f}) \cup {g}
      /\ lru' = IF hit THEN Touched(s) ELSE lru
      /\ UNCHANGED <<pending, buffer, arrived, disk, emitted, restored>>
  BY DEF FlushLookup, TypeOK, local
<1>2. /\ s \in Spans /\ ToSet(f.rest) = ToSet(Tail(f.rest)) \cup {s}
      /\ IsInjective(f.rest) => IsInjective(Tail(f.rest)) /\ s \notin ToSet(Tail(f.rest))
  BY <1>1, TailFacts
<1>3. g.rest = Tail(f.rest) /\ g.found = IF hit THEN f.found \cup {s} ELSE f.found
  BY <1>1
<1>4. ToSet(lru') \subseteq ToSet(lru)
  BY <1>1, <1>2, TouchedFacts DEF TypeOK
<1>5. Held(g) \subseteq Held(f) /\ s \in Held(f)
  BY <1>2, <1>3 DEF Held
<1>6. IsInjective(g.rest) /\ ToSet(g.rest) \cap g.found = {}
  BY <1>2, <1>3 DEF OnePlace
<1>7. g.found \cap restored = {}
  BY <1>3 DEF RestoredNotCached
<1> HIDE DEF g, s
<1>8. AllArrived'
  <2>1. \A h \in flushes' : Held(h) \subseteq arrived
    BY <1>1, <1>5 DEF AllArrived
  <2>2. QED
    BY <1>1, <1>4, <2>1 DEF AllArrived, Held
<1>9. PendingIsNew'
  <2>1. \A c \in Consumers : pending[c] # Nil => \A h \in flushes' : pending[c] \notin Held(h)
    BY <1>1, <1>5 DEF PendingIsNew, IsNew
  <2>2. QED
    BY <1>1, <2>1 DEF PendingIsNew, IsNew, Held
<1>10. OnePlace'
  <2>1. \A h \in flushes' : /\ IsInjective(h.rest) /\ ToSet(h.rest) \cap h.found = {}
                            /\ Held(h) \cap ToSet(buffer) = {}
    BY <1>1, <1>5, <1>6 DEF OnePlace
  <2>2. \A h, i \in flushes' : h # i => Held(h) \cap Held(i) = {}
    BY <1>1, <1>5 DEF OnePlace
  <2>3. QED
    BY <1>1, <2>1, <2>2 DEF OnePlace, Held
<1>11. RestoredNotCached'
  BY <1>1, <1>4, <1>7 DEF RestoredNotCached
<1>12. Unsent' /\ SentOnce'
  <2>1. \A h \in flushes' : \A x \in Held(h) \ restored : emitted[x] = 0
    BY <1>1, <1>5 DEF Unsent
  <2>2. QED
    BY <1>1, <2>1 DEF Unsent, SentOnce, Held
<1>13. QED
  BY <1>8, <1>9, <1>10, <1>11, <1>12

(* What is sent now was in no other place and had not been sent.            *)
LEMMA SendPlaces ==
  ASSUME TypeOK, Places, NEW f \in flushes, FlushSend(f)
  PROVE  Places'
<1> USE DEF Places
<1>1. /\ flushes' = flushes \ {f}
      /\ \A s \in Spans : \/ emitted'[s] = emitted[s]
                          \/ s \in f.found /\ emitted'[s] = emitted[s] + 1
      /\ UNCHANGED <<pending, buffer, lru, arrived, disk, restored>>
  <2>1. \/ emitted' = [s \in Spans |-> IF s \in f.found THEN emitted[s] + 1 ELSE emitted[s]]
        \/ emitted' = emitted
    BY DEF FlushSend
  <2>2. ASSUME NEW s \in Spans
        PROVE  \/ emitted'[s] = emitted[s]
               \/ s \in f.found /\ emitted'[s] = emitted[s] + 1
    BY <2>1
  <2>3. QED
    BY <2>2 DEF FlushSend, local
<1>2. f.found \subseteq Held(f) /\ f.found \cap restored = {}
  BY DEF Held, RestoredNotCached
<1>3. \A s \in f.found : emitted[s] = 0 /\ s \in arrived
  BY <1>2 DEF Unsent, AllArrived
<1>4. f.found \subseteq Spans /\ ToSet(buffer) \subseteq Spans /\ arrived \subseteq Spans
  BY <1>3 DEF TypeOK, AllArrived
<1>5. AllArrived'
  BY <1>1, <1>3 DEF AllArrived, Held
<1>6. PendingIsNew'
  <2>1. ASSUME NEW c \in Consumers, pending[c] # Nil PROVE IsNew(pending[c])'
    <3>1. IsNew(pending[c]) /\ pending[c] \in Spans /\ pending[c] \notin f.found
      BY <1>2, <2>1 DEF PendingIsNew, IsNew, TypeOK
    <3>2. QED
      BY <1>1, <3>1 DEF IsNew, Held
  <2>2. QED
    BY <1>1, <2>1 DEF PendingIsNew
<1>7. OnePlace' /\ RestoredNotCached'
  BY <1>1 DEF OnePlace, RestoredNotCached, Held
<1>8. Unsent'
  <2>1. \A s \in ToSet(buffer) \ restored : emitted'[s] = 0
    BY <1>1, <1>2, <1>4 DEF Unsent, OnePlace
  <2>2. ASSUME NEW h \in flushes', NEW s \in Held(h) \ restored PROVE emitted'[s] = 0
    <3>1. h \in flushes /\ h # f /\ s \in Spans /\ s \notin f.found
      BY <1>1, <1>2, <1>4, <2>2 DEF OnePlace, AllArrived
    <3>2. QED
      BY <1>1, <3>1 DEF Unsent
  <2>3. QED
    BY <1>1, <2>1, <2>2 DEF Unsent, Held
<1>9. SentOnce'
  BY <1>1, <1>3 DEF SentOnce
<1>10. QED
  BY <1>5, <1>6, <1>7, <1>8, <1>9

(* The end of a process, after which only the disk and the history are left. *)
LEMMA GonePlaces ==
  ASSUME TypeOK, Places, Gone, UNCHANGED <<arrived, emitted, restored>>,
         disk' = disk \/ disk'.spans = buffer
  PROVE  Places'
<1> USE DEF Places
<1>1. /\ buffer' = << >> /\ lru' = << >> /\ flushes' = {}
      /\ \A c \in Consumers : pending'[c] = Nil
  BY DEF Gone
<1>2. ToSet(buffer') = {} /\ ToSet(lru') = {} /\ IsInjective(buffer')
  BY <1>1, EmptyFacts, Zenon
<1>3. AllArrived'
  BY <1>1, <1>2 DEF AllArrived
<1>4. PendingIsNew' /\ OnePlace'
  BY <1>1, <1>2 DEF PendingIsNew, OnePlace
<1>5. RestoredNotCached' /\ Unsent' /\ SentOnce'
  BY <1>1, <1>2 DEF RestoredNotCached, Unsent, SentOnce
<1>6. QED
  BY <1>3, <1>4, <1>5

LEMMA RestartPlaces ==
  ASSUME TypeOK, DownIsEmpty, Places, Restart
  PROVE  Places'
<1> USE DEF Places
<1>1. /\ flushes = {} /\ \A c \in Consumers : pending'[c] = Nil
      /\ restored' = restored \cup ToSet(buffer') /\ lru' = << >>
      /\ UNCHANGED <<flushes, disk, arrived, emitted>>
  BY DEF Restart, loadCheckpoint, LoadedLRU, DownIsEmpty, local, TypeOK
<1>2. ToSet(lru') = {}
  BY <1>1, EmptyFacts, Zenon
<1>3. ToSet(buffer') \subseteq arrived /\ IsInjective(buffer')
  <2>1. CASE disk = Nil
    <3>1. buffer' = << >>
      BY <2>1 DEF Restart, loadCheckpoint
    <3>2. QED
      BY <3>1, EmptyFacts, Zenon
  <2>2. CASE disk # Nil
    BY <2>2 DEF Restart, loadCheckpoint, AllArrived, OnePlace
  <2>3. QED
    BY <2>1, <2>2
<1>4. AllArrived'
  BY <1>1, <1>2, <1>3 DEF AllArrived
<1>5. PendingIsNew' /\ OnePlace'
  BY <1>1, <1>3 DEF PendingIsNew, OnePlace
<1>6. RestoredNotCached' /\ Unsent' /\ SentOnce'
  BY <1>1, <1>2 DEF RestoredNotCached, Unsent, SentOnce
<1>7. QED
  BY <1>4, <1>5, <1>6

LEMMA NextPlaces ==
  ASSUME TypeOK, DownIsEmpty, Undisturbed, Places, [Next]_vars, ~raced'
  PROVE  Places'
<1>1. CASE CheckpointWrite
  <2>1. /\ UNCHANGED <<pending, flushes, buffer, lru, arrived, emitted, restored>>
        /\ disk' = disk \/ disk'.spans = buffer
    BY <1>1 DEF CheckpointWrite, history, local
  <2>2. AllArrived' /\ PendingIsNew'
    BY <2>1 DEF Places, AllArrived, PendingIsNew, IsNew, Held
  <2>3. OnePlace' /\ RestoredNotCached' /\ Unsent' /\ SentOnce'
    BY <2>1 DEF Places, OnePlace, RestoredNotCached, Unsent, SentOnce, Held
  <2>4. QED
    BY <2>2, <2>3 DEF Places
<1>2. CASE CheckpointCounters \/ \E newK \in KSizes : SetK(newK)
  BY <1>2, PlacesUnchanged DEF CheckpointCounters, SetK, history, local, PlacesVars
<1>3. CASE Crash \/ Shutdown
  BY <1>3, GonePlaces DEF Crash, Shutdown, history
<1>4. CASE Tick \/ UNCHANGED vars
  BY <1>4, PlacesUnchanged DEF Tick, vars, history, local, PlacesVars
<1>5. QED
  BY <1>1, <1>2, <1>3, <1>4, ConsumePlaces, LookupPlaces, SendPlaces, RestartPlaces DEF Next

-----------------------------------------------------------------------------
(* A checkpoint is of one window *)

LEMMA ConsumeWindow ==
  ASSUME TypeOK, Undisturbed, Places, OneWindow, NEW c \in Consumers, Consume(c), ~raced'
  PROVE  OneWindow'
<1> USE DEF OneWindow, WindowOfBuffer, SpansOfOneWindow
<1>1. ASSUME UNCHANGED <<t0, buffer, saving, disk, windowOf, stale>>,
             \A d \in Consumers : pc'[d] \in {"counters", "fresh"} => pc[d] \in {"counters", "fresh"},
             pc[c] \notin {"counters", "fresh"} \/ pc'[c] \in {"counters", "fresh"},
             \A d \in Consumers \ {c} : pc'[d] = pc[d]
      PROVE  OneWindow'
  BY <1>1 DEF ResetOvertaken, TypeOK
<1>2. CASE Begin(c) \/ LockAndLoad(c) \/ LoadActive(c) \/ AddToLRU(c) \/ EndBatch(c)
  <2>1. \E to \in {"reset", "batch", "swap", "cache", "store", "idle"} : pc' = [pc EXCEPT ![c] = to]
    BY <1>2 DEF Begin, LockAndLoad, LoadActive, AddToLRU, EndBatch, Goto
  <2>2. pc[c] \notin {"counters", "fresh"} /\ UNCHANGED <<t0, buffer, saving, disk, windowOf, stale>>
    BY <1>2 DEF Begin, LockAndLoad, LoadActive, AddToLRU, EndBatch, Goto, counters, history, races
  <2>3. QED
    BY <1>1, <2>1, <2>2 DEF TypeOK
<1>3. ASSUME NEW s \in Spans, Sample(c, s) PROVE OneWindow'
  <2>1. pc' = pc \/ pc' = [pc EXCEPT ![c] = "load"]
    BY <1>3 DEF Sample
  <2>2. pc[c] \notin {"counters", "fresh"} /\ UNCHANGED <<t0, buffer, saving, disk, windowOf, stale>>
    BY <1>3 DEF Sample, races
  <2>3. QED
    BY <1>1, <2>1, <2>2 DEF TypeOK
<1>4. CASE Swap(c) \/ FreshBuffer(c)
  <2>1. buffer' = << >> /\ UNCHANGED <<t0, saving, disk, windowOf>>
    BY <1>4 DEF Swap, FreshBuffer, counters, history
  <2>2. ToSet(buffer') = {}
    BY <2>1, EmptyFacts, Zenon
  <2>3. QED
    BY <2>1, <2>2
<1>5. CASE ResetCounters(c)
  <2>1. /\ pc[c] = "counters" /\ saving = Nil
        /\ UNCHANGED <<buffer, saving, disk, windowOf, stale>>
        /\ pc'[c] = "fresh"
    BY <1>5 DEF ResetCounters, Goto, history, races, TypeOK, FreeOfResets, InReset
  <2>2. CASE c \in stale
    BY <2>1, <2>2 DEF ResetOvertaken
  <2>3. CASE c \notin stale
    <3>1. buffer' = << >>
      BY <2>1, <2>3 DEF Undisturbed
    <3>2. ToSet(buffer') = {}
      BY <3>1, EmptyFacts, Zenon
    <3>3. QED
      BY <2>1, <3>2
  <2>4. QED
    BY <2>2, <2>3
<1>6. CASE StoreActive(c)
  <2>1. /\ pending[c] # Nil /\ pending[c] \in Spans
        /\ ToSet(buffer') \subseteq ToSet(buffer) \cup {pending[c]}
    BY <1>6, StoreFacts
  <2>2. /\ windowOf' = [windowOf EXCEPT ![pending[c]] = t0]
        /\ UNCHANGED <<t0, saving, disk>>
    BY <1>6 DEF StoreActive, counters
  <2>3. windowOf'[pending[c]] = t0 /\ \A s \in Spans \ {pending[c]} : windowOf'[s] = windowOf[s]
    BY <2>1, <2>2 DEF TypeOK
  <2>4. ToSet(buffer) \subseteq Spans /\ (disk # Nil => ToSet(disk.spans) \subseteq Spans \ {pending[c]})
    BY <2>1 DEF Places, AllArrived, PendingIsNew, IsNew, TypeOK
  <2>5. ~ResetOvertaken' => ~ResetOvertaken
    <3> SUFFICES ASSUME NEW d \in Consumers, pc[d] \in {"counters", "fresh"} PROVE ResetOvertaken'
      BY DEF ResetOvertaken, TypeOK
    <3>1. d # c /\ pc'[d] = pc[d]
      BY <1>6 DEF StoreActive, Goto
    <3>2. d \in stale'
      BY <1>6, <3>1, StoreOvertakes DEF StoreActive, Watches, InReset
    <3>3. QED
      BY <3>1, <3>2 DEF ResetOvertaken
  <2>6. WindowOfBuffer'
    BY <2>1, <2>2, <2>3, <2>4, <2>5
  <2>7. SpansOfOneWindow'
    BY <2>2, <2>3, <2>4
  <2>8. QED
    BY <2>6, <2>7
<1>7. QED
  BY <1>2, <1>3, <1>4, <1>5, <1>6 DEF Consume

LEMMA NextWindow ==
  ASSUME TypeOK, DownIsEmpty, Undisturbed, Places, OneWindow, [Next]_vars, ~raced'
  PROVE  OneWindow'
<1> USE DEF OneWindow, WindowOfBuffer, SpansOfOneWindow, ResetOvertaken
<1>1. ASSUME UNCHANGED <<t0, buffer, saving, disk, windowOf, stale, pc>> PROVE OneWindow'
  BY <1>1
<1>2. ASSUME flushMuFree \/ saving # Nil PROVE \A s \in ToSet(buffer) : windowOf[s] = t0
  BY <1>2 DEF flushMuFree, FreeOfResets, InReset, TypeOK
<1>3. CASE CheckpointCounters
  BY <1>3 DEF CheckpointCounters, counters, local, history, races
<1>4. CASE CheckpointWrite
  BY <1>2, <1>4 DEF CheckpointWrite, counters, local, history, races
<1>5. ASSUME NEW f \in flushes, FlushLookup(f) \/ FlushSend(f) PROVE OneWindow'
  BY <1>1, <1>5 DEF FlushLookup, FlushSend, counters, local, races
<1>6. ASSUME NEW newK \in KSizes, SetK(newK) PROVE OneWindow'
  BY <1>1, <1>6 DEF SetK, local, history, races
<1>7. ASSUME Gone, UNCHANGED windowOf, SpansOfOneWindow' PROVE OneWindow'
  <2>1. ToSet(buffer') = {} /\ saving' = Nil
    BY <1>7, EmptyFacts, Zenon DEF Gone
  <2>2. QED
    BY <1>7, <2>1
<1>8. CASE Crash
  BY <1>7, <1>8 DEF Crash, history
<1>9. CASE Shutdown
  <2>1. SpansOfOneWindow'
    BY <1>2, <1>9 DEF Shutdown, history
  <2>2. QED
    BY <1>7, <1>9, <2>1 DEF Shutdown, history
<1>10. CASE Restart
  <2>1. saving' = Nil /\ UNCHANGED <<disk, windowOf>>
    BY <1>10 DEF Restart, DownIsEmpty
  <2>2. CASE disk = Nil
    <3>1. ToSet(buffer') = {}
      BY <1>10, <2>2, EmptyFacts, Zenon DEF Restart, loadCheckpoint
    <3>2. QED
      BY <2>1, <2>2, <3>1
  <2>3. CASE disk # Nil
    BY <1>10, <2>1, <2>3 DEF Restart, loadCheckpoint
  <2>4. QED
    BY <2>2, <2>3
<1>11. CASE Tick \/ UNCHANGED vars
  BY <1>1, <1>11 DEF Tick, vars, counters, local, history, races
<1>12. QED
  BY <1>3, <1>4, <1>5, <1>6, <1>8, <1>9, <1>10, <1>11, ConsumeWindow DEF Next

-----------------------------------------------------------------------------
THEOREM Invariance == Spec => []IInv
<1>1. Init => IInv
  BY InitInv
<1>2. IInv /\ [Next]_vars => IInv'
  <2> SUFFICES ASSUME IInv, [Next]_vars PROVE IInv'
    OBVIOUS
  <2>1. TypeOK'
    BY NextType DEF IInv
  <2>2. CASE raced'
    BY <2>1, <2>2 DEF IInv
  <2>3. CASE ~raced'
    <3>1. Orderly
      BY <2>3, RacedForEver DEF IInv
    <3>2. Orderly'
      BY <2>3, <3>1, NextViews, NextPlaces, NextWindow DEF IInv, Orderly
    <3>3. QED
      BY <2>1, <3>2 DEF IInv
  <2>4. QED
    BY <2>2, <2>3
<1>3. QED
  BY <1>1, <1>2, PTL DEF Spec

(* Every variable keeps its type, the LRU keeps its size, and no two        *)
(* consumers are in resetWindow, whatever they undo of each other's work in *)
(* addSpanToReservoir.                                                      *)
THEOREM TypeCorrect == Spec => []TypeOK
<1>1. IInv => TypeOK
  BY DEF IInv
<1>2. QED
  BY <1>1, Invariance, PTL

(* Until a consumer undoes another one's store (processor.go:448-512), no   *)
(* span is sent twice, however flushes, checkpoints, crashes, failed writes *)
(* and restarts follow on each other and the consumers' steps interleave.   *)
THEOREM NothingSentTwice == Spec => []AtMostOnce
<1>1. IInv => AtMostOnce
  BY DEF IInv, Orderly, Places, AtMostOnce
<1>2. QED
  BY <1>1, Invariance, PTL

(* Until then, the spans of a checkpoint are of the window that started at  *)
(* its t0.                                                                  *)
THEOREM CheckpointsAreOfOneWindow == Spec => []CheckpointOfOneWindow
<1>1. IInv => CheckpointOfOneWindow
  BY DEF IInv, Orderly, OneWindow, CheckpointOfOneWindow
<1>2. QED
  BY <1>1, Invariance, PTL
=============================================================================

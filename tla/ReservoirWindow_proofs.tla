----------------------- MODULE ReservoirWindow_proofs -----------------------
(***************************************************************************)
(* Proofs about ReservoirWindow, for any number of consumers that race on  *)
(* the active buffer and on the end of the window, any units, sizes and    *)
(* length of the run.  Every slice header that somebody holds stays sound, *)
(* although several of them may cover one array: what a step writes into   *)
(* an array that is in use is an accepted span, and its length stays.      *)
(*                                                                         *)
(* The names of arrays must not run out, so there are infinitely many.     *)
(***************************************************************************)
EXTENDS ReservoirWindow, NaturalsInduction, WellFoundedInduction, FiniteSetTheorems,
        SequenceTheorems, TLAPS

Memory == [Arrays -> Seq(Spans \cup {Nil})]

(* A header that may be used with the memory m and the accepted spans st.    *)
Fits(m, st, h) ==
  /\ h.len <= Len(m[h.arr]) /\ h.len <= MaxK
  /\ \A i \in 1 .. h.len : m[h.arr][i] \in st

HeadersFit == \A h \in Headers : Fits(mem, stored, h)

IInv == TypeOK /\ HeadersFit /\ IsFiniteSet(Reachable)

-----------------------------------------------------------------------------
LEMMA LeastElement ==
  ASSUME NEW S \in SUBSET Nat, S # {}
  PROVE  \E i \in S : \A j \in S : i <= j
<1>1. \E i \in S : \A j \in S : ~(<<j, i>> \in OpToRel(<, Nat))
  BY NatLessThanWellFounded, WFMin
<1>2. \A i, j \in Nat : j < i => <<j, i>> \in OpToRel(<, Nat)
  BY DEF OpToRel
<1>3. \E i \in S : \A j \in S : ~(j < i)
  BY <1>1, <1>2, Zenon
<1>4. QED
  BY <1>3

(* There is always a name for a new array. *)
LEMMA NewArrayIsFree ==
  ASSUME ~IsFiniteSet(Arrays), IsFiniteSet(Reachable)
  PROVE  NewArray \in Arrays \ Reachable
<1>1. Arrays \ Reachable # {}
  <2>1. SUFFICES ASSUME Arrays \ Reachable = {} PROVE FALSE
    OBVIOUS
  <2>2. Arrays \subseteq Reachable
    BY <2>1
  <2>3. QED
    BY <2>2, FS_Subset
<1>2. Arrays \ Reachable \in SUBSET Nat
  BY WindowAssumption
<1>3. \E a \in Arrays \ Reachable : \A b \in Arrays \ Reachable : a <= b
  BY <1>1, <1>2, LeastElement
<1>4. QED
  BY <1>3, Zenon DEF NewArray

LEMMA MaxKBounds == MaxK \in Nat \ {0} /\ \A x \in KSizes : x <= MaxK
<1>1. MaxK \in KSizes /\ \A x \in KSizes : x <= MaxK
  BY WindowAssumption, Zenon DEF MaxK
<1>2. QED
  BY <1>1, WindowAssumption

LEMMA BlankIsArray ==
  ASSUME NEW cap \in Nat
  PROVE  Blank(cap) \in Seq(Spans \cup {Nil}) /\ Len(Blank(cap)) = cap
  BY DEF Blank

(* The last part of the type invariant, of one consumer. *)
Placed(c) ==
  /\ loaded[c] # Nil <=> pc[c] \in {"swap", "store"}
  /\ todo[c] # << >> <=> pc[c] \in {"add", "store"}
  /\ flushMu = c <=> pc[c] \in {"swap", "counters", "fresh"}
  /\ c \in stale => Watches(c)

LEMMA OthersStayPlaced ==
  ASSUME TypeOK, NEW c \in Consumers, Placed(c)',
         \A d \in Consumers \ {c} :
           /\ loaded'[d] = loaded[d] /\ pc'[d] = pc[d] /\ todo'[d] = todo[d]
           /\ flushMu' = d <=> flushMu = d
           /\ d \in stale' => Watches(d)
  PROVE  \A d \in Consumers : Placed(d)'
<1>1. ASSUME NEW d \in Consumers \ {c} PROVE Placed(d)'
  <2>1. Placed(d)
    BY DEF TypeOK, Placed
  <2>2. QED
    BY <2>1 DEF Placed, Watches
<1>2. QED
  BY <1>1

(* The rest of the type invariant, when only consumers move. *)
LEMMA TypesStay ==
  ASSUME TypeOK, \A d \in Consumers : Placed(d)',
         stale' \subseteq Consumers, raced' \in BOOLEAN, ckpt' = ckpt,
         flushMu' \in {flushMu, Nil} \cup Consumers,
         flushMu' # flushMu => ckpt = Nil,
         now' = now, k' = k, n' \in Nat, t0' \in 0 .. MaxNow, active' \in Header,
         mem' \in Memory, pool' \in [Arrays -> Nat],
         pc' \in [Consumers -> {"idle", "reset", "swap", "counters", "fresh",
                                "batch", "add", "store"}],
         batchNow' \in [Consumers -> 0 .. MaxNow],
         loaded' \in [Consumers -> Header \cup {Nil}],
         todo' \in [Consumers -> Seq(Spans)],
         flushes' \subseteq [id : Nat, buf : Header, done : BOOLEAN], epoch' \in Nat,
         offered' \subseteq Units, stored' \subseteq Spans, emitted' \in [Spans -> Nat]
  PROVE  TypeOK'
<1>1. stale' \subseteq {c \in Consumers : Watches(c)'}
  BY DEF Placed
<1>2. flushMu' \in Consumers \cup {Saver, Nil} /\ (ckpt' # Nil <=> flushMu' = Saver)
  BY WindowAssumption DEF TypeOK
<1>3. now' \in 0 .. MaxNow /\ k' \in KSizes /\ ckpt' \in Header \cup {Nil}
  BY DEF TypeOK
<1>4. QED
  BY <1>1, <1>2, <1>3, Zenon DEF Placed, Memory, TypeOK

(* The consumer that stores is overtaken no more, the others that watch are. *)
LEMMA OvertakeMarks ==
  ASSUME TypeOK, NEW c \in Consumers, Overtake(c)
  PROVE  /\ raced' \in BOOLEAN /\ stale' \subseteq Consumers /\ c \notin stale'
         /\ \A d \in Consumers : d \in stale' => Watches(d)
         /\ ~raced' => /\ ~raced /\ c \notin stale
                       /\ \A d \in Consumers \ {c} : Watches(d) => d \in stale'
<1>1. stale \subseteq {d \in Consumers : Watches(d)}
  BY DEF TypeOK
<1>2. CASE raced'
  <2>1. raced' \in BOOLEAN /\ stale' = {}
    BY <1>2, Zenon DEF Overtake
  <2>2. QED
    BY <1>2, <2>1, Zenon
<1>3. CASE ~raced'
  <2>1. stale' = (stale \ {c}) \cup {d \in Consumers \ {c} : Watches(d)}
    BY <1>3, Zenon DEF Overtake
  <2>2. raced' \in BOOLEAN /\ ~raced /\ c \notin stale
    BY <1>3, Zenon DEF Overtake
  <2>3. QED
    BY <1>1, <1>3, <2>1, <2>2, Zenon
<1>4. QED
  BY <1>2, <1>3

LEMMA HeadersTyped ==
  ASSUME TypeOK
  PROVE  Headers \subseteq Header /\ Reachable \subseteq Arrays
         /\ \A h \in Headers : h.arr \in Reachable
  BY DEF TypeOK, Headers, Reachable, Header

-----------------------------------------------------------------------------
(* A step may allocate an array, and write accepted spans into one in use. *)
MemStep ==
  \A a \in Reachable :
    /\ Len(mem'[a]) = Len(mem[a])
    /\ \A i \in 1 .. Len(mem[a]) : mem'[a][i] = mem[a][i] \/ mem'[a][i] \in stored'

LEMMA OldHeadersFit ==
  ASSUME IInv, MemStep, stored \subseteq stored', NEW h \in Headers
  PROVE  Fits(mem', stored', h)
<1>1. Fits(mem, stored, h) /\ h \in Header /\ h.arr \in Reachable /\ mem[h.arr] \in Seq(Spans \cup {Nil})
  BY HeadersTyped DEF IInv, HeadersFit, TypeOK
<1>2. h.len \in Nat /\ Len(mem[h.arr]) \in Nat
  BY <1>1 DEF Header
<1>3. Len(mem'[h.arr]) = Len(mem[h.arr])
  BY <1>1 DEF MemStep
<1>4. ASSUME NEW i \in 1 .. h.len PROVE mem'[h.arr][i] \in stored'
  <2>1. i \in 1 .. Len(mem[h.arr]) /\ mem[h.arr][i] \in stored
    BY <1>1, <1>2 DEF Fits
  <2>2. mem'[h.arr][i] = mem[h.arr][i] \/ mem'[h.arr][i] \in stored'
    BY <1>1, <2>1 DEF MemStep
  <2>3. QED
    BY <2>1, <2>2
<1>5. QED
  BY <1>1, <1>3, <1>4 DEF Fits

(* What has to be seen of a step: the types, and what becomes reachable. *)
LEMMA StepKeeps ==
  ASSUME IInv, TypeOK', MemStep, stored \subseteq stored', NEW a,
         Reachable' \subseteq Reachable \cup {a},
         \A h \in Headers' : h \in Headers \/ Fits(mem', stored', h)
  PROVE  IInv'
<1>1. HeadersFit'
  BY OldHeadersFit DEF HeadersFit
<1>2. IsFiniteSet(Reachable')
  <2>1. IsFiniteSet(Reachable \cup {a})
    BY FS_AddElement DEF IInv
  <2>2. QED
    BY <2>1, FS_Subset
<1>3. QED
  BY <1>1, <1>2 DEF IInv

(* A step that leaves the arrays, and reaches no other ones. *)
LEMMA NothingWritten ==
  ASSUME IInv, TypeOK', mem' = mem, stored' = stored,
         Reachable' \subseteq Reachable, Headers' \subseteq Headers
  PROVE  IInv'
<1>1. MemStep
  BY DEF MemStep
<1>2. active.arr \in Reachable
  BY DEF Reachable
<1>3. QED
  BY <1>1, <1>2, StepKeeps

-----------------------------------------------------------------------------
LEMMA InitInv == ~IsFiniteSet(Arrays) /\ Init => IInv
<1> SUFFICES ASSUME ~IsFiniteSet(Arrays), Init PROVE IInv
  OBVIOUS
<1> DEFINE first == CHOOSE a \in Arrays : \A b \in Arrays : a <= b
<1>1. first \in Arrays
  <2>1. Arrays # {}
    BY FS_EmptySet
  <2>2. \E a \in Arrays : \A b \in Arrays : a <= b
    BY <2>1, LeastElement, WindowAssumption
  <2>3. QED
    BY <2>2, Zenon
<1>2. InitialK \in Nat \ {0} /\ InitialK \in KSizes /\ Seq(Spans) \subseteq Seq(Spans \cup {Nil})
  BY WindowAssumption
<1> DEFINE Starts(len, array) ==
      /\ active = [arr |-> first, len |-> len] /\ len <= Len(array) /\ len <= MaxK
      /\ mem = [b \in Arrays |-> IF b = first THEN array ELSE << >>]
      /\ \A i \in 1 .. len : array[i] \in stored
      /\ now = 0 /\ n \in Nat /\ stored \subseteq Spans
<1>3. \E len \in Nat, array \in Seq(Spans \cup {Nil}) : Starts(len, array)
  <2>1. CASE Fresh(first)
    <3>1. Blank(InitialK) \in Seq(Spans \cup {Nil}) /\ Len(Blank(InitialK)) = InitialK
      BY <1>2, BlankIsArray
    <3>2. 0 <= Len(Blank(InitialK)) /\ 0 <= MaxK /\ \A i \in 1 .. 0 : FALSE
      BY <1>2, <3>1, MaxKBounds
    <3>3. Starts(0, Blank(InitialK))
      BY <2>1, <3>2 DEF Fresh
    <3>4. QED
      BY <3>1, <3>3
  <2>2. ASSUME NEW cp \in Checkpoints, Restored(first, cp)
        PROVE  \E len \in Nat, array \in Seq(Spans \cup {Nil}) : Starts(len, array)
    <3>1. /\ cp.n \in Nat /\ cp.spans \in Seq(Spans) /\ \E m \in KSizes : Len(cp.spans) <= m
      BY WindowAssumption
    <3>2. PICK array \in Seq(Spans) : array = cp.spans
      BY <3>1
    <3>3. Len(array) \in Nat /\ Len(array) <= MaxK
      BY <3>1, <3>2, MaxKBounds, WindowAssumption
    <3>4. \A i \in 1 .. Len(array) : array[i] \in Spans
      BY ElementOfSeq
    <3>5. Starts(Len(array), array)
      BY <2>2, <3>1, <3>2, <3>3, <3>4 DEF Restored
    <3>6. QED
      BY <1>2, <3>3, <3>5
  <2>3. QED
    BY <2>1, <2>2 DEF Init
<1>4. PICK len \in Nat, array \in Seq(Spans \cup {Nil}) : Starts(len, array)
  BY <1>3
<1>5. mem \in Memory /\ mem[first] = array
  BY <1>1, <1>4 DEF Memory
<1> HIDE DEF first
<1>6. active \in Header /\ active.arr = first /\ active.len = len
  BY <1>1, <1>4 DEF Header
<1>7. TypeOK
  <2>1. /\ now \in 0 .. MaxNow /\ t0 \in 0 .. MaxNow /\ k \in KSizes /\ n \in Nat
        /\ stored \subseteq Spans
    BY <1>2, <1>4, WindowAssumption DEF Init
  <2>2. stale = {} /\ raced = FALSE /\ flushMu = Nil /\ ckpt = Nil
    BY DEF Init
  <2>3. \A c \in Consumers : loaded[c] = Nil /\ pc[c] = "idle" /\ todo[c] = << >> /\ flushMu # c
    BY <2>2, WindowAssumption DEF Init
  <2>4. /\ pool \in [Arrays -> Nat]
        /\ pc \in [Consumers -> {"idle", "reset", "swap", "counters", "fresh",
                                 "batch", "add", "store"}]
        /\ batchNow \in [Consumers -> 0 .. MaxNow] /\ loaded \in [Consumers -> Header \cup {Nil}]
        /\ todo \in [Consumers -> Seq(Spans)] /\ epoch \in Nat
        /\ flushes \subseteq [id : Nat, buf : Header, done : BOOLEAN]
        /\ offered \subseteq Units /\ emitted \in [Spans -> Nat]
    BY WindowAssumption DEF Init
  <2>5. \A c \in Consumers :
          /\ loaded[c] # Nil <=> pc[c] \in {"swap", "store"}
          /\ todo[c] # << >> <=> pc[c] \in {"add", "store"}
          /\ flushMu = c <=> pc[c] \in {"swap", "counters", "fresh"}
    BY <2>3
  <2>6. /\ raced \in BOOLEAN /\ stale \subseteq {c \in Consumers : Watches(c)}
        /\ flushMu \in Consumers \cup {Saver, Nil} /\ ckpt \in Header \cup {Nil}
        /\ ckpt # Nil <=> flushMu = Saver
    BY <2>2, WindowAssumption
  <2>7. QED
    BY <1>5, <1>6, <2>1, <2>4, <2>5, <2>6, Zenon DEF TypeOK, Memory
<1>8. Headers = {active} /\ Reachable = {first}
  <2>1. /\ flushes = {} /\ {ckpt} \ {Nil} = {} /\ \A d \in Consumers : loaded[d] = Nil
        /\ \A a \in Arrays : ~(pool[a] > 0)
    BY DEF Init
  <2>2. {d \in Consumers : loaded[d] # Nil} = {} /\ {a \in Arrays : pool[a] > 0} = {}
    BY <2>1
  <2>3. /\ {f.buf : f \in flushes} = {} /\ {f.buf.arr : f \in flushes} = {}
        /\ {h.arr : h \in {ckpt} \ {Nil}} = {}
        /\ {loaded[c] : c \in {d \in Consumers : loaded[d] # Nil}} = {}
        /\ {loaded[c].arr : c \in {d \in Consumers : loaded[d] # Nil}} = {}
    BY <2>1, <2>2
  <2>4. Headers = {active}
    BY <2>1, <2>3, Zenon DEF Headers
  <2>5. Reachable = {first}
    BY <1>6, <2>2, <2>3, Zenon DEF Reachable
  <2>6. QED
    BY <2>4, <2>5
<1>9. HeadersFit
  BY <1>4, <1>5, <1>6, <1>8 DEF HeadersFit, Fits
<1>10. QED
  BY <1>7, <1>8, <1>9, FS_Singleton DEF IInv

-----------------------------------------------------------------------------
(* The steps that write no array. *)
LEMMA BeginKeeps ==
  ASSUME IInv, NEW c \in Consumers, Begin(c) \/ ResetCounters(c) \/ EndBatch(c)
  PROVE  IInv'
<1>1. TypeOK'
  <2>1. Placed(c)
    BY DEF IInv, TypeOK, Placed
  <2>2. \A d \in Consumers : Placed(d)'
    <3>1. /\ loaded' = loaded /\ todo' = todo /\ flushMu' = flushMu /\ stale' = stale
          /\ pc'[c] \in {"reset", "batch", "fresh", "idle"}
          /\ pc[c] \in {"idle", "counters", "batch"}
          /\ pc[c] = "counters" <=> pc'[c] = "fresh"
          /\ \A d \in Consumers \ {c} : pc'[d] = pc[d]
      BY DEF Begin, ResetCounters, EndBatch, Goto, shared, history, races, IInv, TypeOK
    <3>2. Placed(c)'
      BY <2>1, <3>1 DEF Placed, Watches
    <3>3. \A d \in Consumers : d \in stale' => Watches(d)
      BY <3>1 DEF IInv, TypeOK
    <3>4. QED
      BY <3>1, <3>2, <3>3, OthersStayPlaced DEF IInv
  <2>3. /\ UNCHANGED <<now, k, active, mem, pool, flushMu, ckpt, loaded, todo, flushes, epoch>>
        /\ UNCHANGED <<offered, stored, emitted, stale, raced>>
    BY DEF Begin, ResetCounters, EndBatch, shared, history, races
  <2>4. pc' \in [Consumers -> {"idle", "reset", "swap", "counters", "fresh",
                              "batch", "add", "store"}]
    BY DEF Begin, ResetCounters, EndBatch, Goto, IInv, TypeOK
  <2>5. batchNow' \in [Consumers -> 0 .. MaxNow] /\ n' \in Nat /\ t0' \in 0 .. MaxNow
    <3>1. /\ \/ batchNow' = [batchNow EXCEPT ![c] = now] \/ batchNow' = batchNow
             \/ batchNow' = [batchNow EXCEPT ![c] = 0]
          /\ n' = 0 \/ n' = n
          /\ t0' = batchNow[c] \/ t0' = t0
      BY DEF Begin, ResetCounters, EndBatch, shared
    <3>2. batchNow[c] \in 0 .. MaxNow /\ now \in 0 .. MaxNow /\ 0 \in 0 .. MaxNow
      BY WindowAssumption DEF IInv, TypeOK
    <3>3. batchNow' \in [Consumers -> 0 .. MaxNow]
      BY <3>1, <3>2 DEF IInv, TypeOK
    <3>4. QED
      BY <3>1, <3>2, <3>3 DEF IInv, TypeOK
  <2>6. QED
    BY <2>2, <2>3, <2>4, <2>5, TypesStay DEF IInv, TypeOK, Memory
<1>2. /\ mem' = mem /\ stored' = stored
      /\ Reachable' \subseteq Reachable /\ Headers' \subseteq Headers
  BY DEF Begin, ResetCounters, EndBatch, shared, history, Reachable, Headers
<1>3. QED
  BY <1>1, <1>2, NothingWritten

LEMMA LoadKeeps ==
  ASSUME IInv, NEW c \in Consumers, LockAndLoad(c) \/ LoadActive(c)
  PROVE  IInv'
<1>1. active \in Header /\ active # Nil
  BY WindowAssumption DEF IInv, TypeOK
<1>2. TypeOK'
  <2>1. Placed(c)
    BY DEF IInv, TypeOK, Placed
  <2>2. \A d \in Consumers : Placed(d)'
    <3>1. /\ todo' = todo /\ loaded'[c] = active /\ stale' = stale
          /\ \/ pc[c] = "reset" /\ pc'[c] = "swap" /\ flushMu = Nil /\ flushMu' = c
             \/ pc[c] = "add" /\ pc'[c] = "store" /\ flushMu' = flushMu
          /\ \A d \in Consumers \ {c} : pc'[d] = pc[d] /\ loaded'[d] = loaded[d]
      BY DEF LockAndLoad, LoadActive, Goto, shared, history, races, IInv, TypeOK
    <3>2. Placed(c)'
      BY <1>1, <2>1, <3>1 DEF Placed, Watches
    <3>3. \A d \in Consumers \ {c} : flushMu' = d <=> flushMu = d
      BY <3>1, WindowAssumption
    <3>4. \A d \in Consumers : d \in stale' => Watches(d)
      BY <3>1 DEF IInv, TypeOK
    <3>5. QED
      BY <3>1, <3>2, <3>3, <3>4, OthersStayPlaced DEF IInv
  <2>3. /\ UNCHANGED <<now, k, n, t0, active, mem, pool, ckpt, batchNow, todo, flushes, epoch>>
        /\ UNCHANGED <<offered, stored, emitted, stale, raced>>
        /\ loaded' = [loaded EXCEPT ![c] = active]
        /\ flushMu' = flushMu \/ (flushMu = Nil /\ flushMu' = c)
    BY DEF LockAndLoad, LoadActive, shared, history, races
  <2>4. loaded' \in [Consumers -> Header \cup {Nil}]
    BY <1>1, <2>3 DEF IInv, TypeOK
  <2>5. pc' \in [Consumers -> {"idle", "reset", "swap", "counters", "fresh",
                              "batch", "add", "store"}]
    BY DEF LockAndLoad, LoadActive, Goto, IInv, TypeOK
  <2>6. flushMu' \in {flushMu, Nil} \cup Consumers /\ (flushMu' # flushMu => ckpt = Nil)
    BY <2>3, WindowAssumption DEF IInv, TypeOK
  <2>7. QED
    BY <2>2, <2>3, <2>4, <2>5, <2>6, TypesStay DEF IInv, TypeOK, Memory
<1>3. /\ mem' = mem /\ stored' = stored /\ loaded' = [loaded EXCEPT ![c] = active]
      /\ active' = active /\ pool' = pool /\ flushes' = flushes /\ ckpt' = ckpt
  BY DEF LockAndLoad, LoadActive, shared, history
<1>4. \A d \in Consumers : loaded'[d] = loaded[d] \/ loaded'[d] = active
  BY <1>3 DEF IInv, TypeOK
<1>5. Reachable' \subseteq Reachable /\ Headers' \subseteq Headers
  BY <1>3, <1>4 DEF Reachable, Headers
<1>6. QED
  BY <1>2, <1>3, <1>5, NothingWritten

LEMMA SampleKeeps ==
  ASSUME IInv, NEW c \in Consumers, NEW u \in Units, Sample(c, u)
  PROVE  IInv'
<1>1. SpansOf[u] \in Seq(Spans) /\ SpansOf[u] # << >>
  BY WindowAssumption
<1>2. TypeOK'
  <2>1. Placed(c)
    BY DEF IInv, TypeOK, Placed
  <2>2. \A d \in Consumers : Placed(d)'
    <3>1. /\ loaded' = loaded /\ flushMu' = flushMu /\ pc[c] = "batch" /\ stale' = stale
          /\ \/ pc'[c] = "add" /\ todo'[c] # << >>
             \/ pc'[c] = pc[c] /\ todo'[c] = todo[c]
          /\ \A d \in Consumers \ {c} : pc'[d] = pc[d] /\ todo'[d] = todo[d]
      BY <1>1 DEF Sample, races, IInv, TypeOK
    <3>2. Placed(c)'
      BY <2>1, <3>1 DEF Placed, Watches
    <3>3. \A d \in Consumers : d \in stale' => Watches(d)
      BY <3>1 DEF IInv, TypeOK
    <3>4. QED
      BY <3>1, <3>2, <3>3, OthersStayPlaced DEF IInv
  <2>3. todo' = [todo EXCEPT ![c] = SpansOf[u]] \/ todo' = todo
    BY DEF Sample
  <2>4. todo' \in [Consumers -> Seq(Spans)]
    BY <1>1, <2>3 DEF IInv, TypeOK
  <2>5. pc' \in [Consumers -> {"idle", "reset", "swap", "counters", "fresh",
                              "batch", "add", "store"}]
    BY DEF Sample, IInv, TypeOK
  <2>6. /\ UNCHANGED <<now, k, t0, active, mem, pool, flushMu, ckpt, batchNow, loaded, flushes>>
        /\ UNCHANGED <<epoch, stored, emitted, stale, raced>>
        /\ n' \in Nat /\ offered' \subseteq Units
    BY DEF Sample, races, IInv, TypeOK
  <2>7. QED
    BY <2>2, <2>4, <2>5, <2>6, TypesStay DEF IInv, TypeOK, Memory
<1>3. /\ mem' = mem /\ stored' = stored
      /\ Reachable' \subseteq Reachable /\ Headers' \subseteq Headers
  BY DEF Sample, Reachable, Headers
<1>4. QED
  BY <1>2, <1>3, NothingWritten

LEMMA SetKKeeps ==
  ASSUME IInv, (\E newK \in KSizes : SetK(newK)) \/ Tick
  PROVE  IInv'
<1>1. TypeOK'
  <2>1. now' \in 0 .. MaxNow /\ k' \in KSizes
    BY WindowAssumption DEF SetK, Tick, shared, IInv, TypeOK
  <2>2. UNCHANGED <<n, t0, active, mem, pool, flushMu, ckpt, pc, batchNow, loaded, todo, flushes,
                    epoch, offered, stored, emitted, stale, raced>>
    BY DEF SetK, Tick, shared, local, history, races
  <2>3. QED
    BY <2>1, <2>2 DEF IInv, TypeOK, Watches
<1>2. /\ mem' = mem /\ stored' = stored
      /\ Reachable' \subseteq Reachable /\ Headers' \subseteq Headers
  BY DEF SetK, Tick, shared, local, history, Reachable, Headers
<1>3. QED
  BY <1>1, <1>2, NothingWritten

LEMMA CheckpointKeeps ==
  ASSUME IInv, CheckpointLock \/ CheckpointEnd
  PROVE  IInv'
<1>1. active \in Header /\ active # Nil /\ Saver # Nil /\ Saver \notin Consumers
  BY WindowAssumption DEF IInv, TypeOK
<1>2. UNCHANGED <<now, k, n, t0, active, mem, pool, pc, batchNow, loaded, todo, flushes,
                  epoch, offered, stored, emitted, stale, raced>>
  BY DEF CheckpointLock, CheckpointEnd, local, history, races
<1>3. \/ flushMu = Nil /\ flushMu' = Saver /\ ckpt' = active
      \/ flushMu = Saver /\ flushMu' = Nil /\ ckpt' = Nil
  BY DEF CheckpointLock, CheckpointEnd, IInv, TypeOK
<1>4. TypeOK'
  <2>1. \A d \in Consumers : flushMu' # d /\ flushMu # d
    BY <1>1, <1>3, WindowAssumption
  <2>2. /\ flushMu' \in Consumers \cup {Saver, Nil} /\ ckpt' \in Header \cup {Nil}
        /\ ckpt' # Nil <=> flushMu' = Saver
    BY <1>1, <1>3
  <2>3. QED
    BY <1>2, <2>1, <2>2 DEF IInv, TypeOK, Watches
<1>5. Reachable' \subseteq Reachable /\ Headers' \subseteq Headers
  BY <1>2, <1>3 DEF Reachable, Headers
<1>6. QED
  BY <1>2, <1>4, <1>5, NothingWritten

LEMMA FlushSendKeeps ==
  ASSUME IInv, NEW f \in flushes, FlushSend(f)
  PROVE  IInv'
<1>1. [f EXCEPT !.done = TRUE] \in [id : Nat, buf : Header, done : BOOLEAN]
      /\ [f EXCEPT !.done = TRUE].buf = f.buf
  BY DEF IInv, TypeOK
<1>2. emitted' \in [Spans -> Nat]
  BY DEF FlushSend, IInv, TypeOK
<1>3. TypeOK'
  <2>1. UNCHANGED <<now, k, n, t0, active, mem, pool, flushMu, ckpt, pc, batchNow, loaded, todo,
                    epoch, offered, stored, stale, raced>>
    BY DEF FlushSend, shared, local, races
  <2>2. flushes' \subseteq [id : Nat, buf : Header, done : BOOLEAN]
    BY <1>1 DEF FlushSend, IInv, TypeOK
  <2>3. QED
    BY <1>2, <2>1, <2>2 DEF IInv, TypeOK, Watches
<1>4. {g.buf : g \in flushes'} \subseteq {g.buf : g \in flushes}
  BY <1>1 DEF FlushSend
<1>5. {g.buf.arr : g \in flushes'} \subseteq {g.buf.arr : g \in flushes}
  BY <1>1 DEF FlushSend
<1>6. /\ mem' = mem /\ stored' = stored
      /\ Reachable' \subseteq Reachable /\ Headers' \subseteq Headers
  BY <1>4, <1>5 DEF FlushSend, shared, local, Reachable, Headers
<1>7. QED
  BY <1>3, <1>6, NothingWritten

(* Whoever had loaded the buffer may find it empty. *)
LEMMA FlushDoneKeeps ==
  ASSUME IInv, NEW f \in flushes, FlushDone(f)
  PROVE  IInv'
<1>1. f.buf \in Header /\ f.buf \in Headers /\ f.buf.arr \in Reachable /\ f.buf.arr \in Arrays
  BY DEF IInv, TypeOK, Headers, Reachable, Header
<1> DEFINE empty == [f.buf EXCEPT !.len = 0]
<1>2. empty \in Header /\ empty # Nil /\ empty.arr = f.buf.arr /\ empty.len = 0
  BY <1>1, WindowAssumption DEF Header
<1> HIDE DEF empty
<1>3. PICK cut \in SUBSET {c \in Consumers : pc[c] = "store" /\ loaded[c] = f.buf} :
        loaded' = [c \in Consumers |-> IF c \in cut THEN empty ELSE loaded[c]]
  BY DEF FlushDone, empty
<1>4. \A c \in Consumers :
        \/ loaded'[c] = loaded[c]
        \/ pc[c] = "store" /\ loaded[c] # Nil /\ loaded'[c] = empty
  BY <1>1, <1>3, WindowAssumption
<1>5. pool' \in [Arrays -> Nat] /\ \A a \in Arrays : pool'[a] > 0 => pool[a] > 0 \/ a = f.buf.arr
  BY <1>1 DEF FlushDone, Put, IInv, TypeOK
<1>6. TypeOK'
  <2>1. loaded' \in [Consumers -> Header \cup {Nil}]
    BY <1>2, <1>3, <1>4 DEF IInv, TypeOK
  <2>2. \A c \in Consumers : loaded'[c] # Nil <=> pc[c] \in {"swap", "store"}
    BY <1>2, <1>4 DEF IInv, TypeOK
  <2>3. /\ UNCHANGED <<now, k, n, t0, active, mem, flushMu, ckpt, pc, batchNow, todo, epoch>>
        /\ UNCHANGED <<offered, stored, emitted, stale, raced>> /\ flushes' \subseteq flushes
    BY DEF FlushDone, history, races
  <2>4. QED
    BY <1>5, <2>1, <2>2, <2>3 DEF IInv, TypeOK, Watches
<1>7. /\ mem' = mem /\ stored' = stored /\ active' = active /\ flushes' \subseteq flushes
      /\ ckpt' = ckpt
  BY DEF FlushDone, history
<1>8. \A c \in Consumers : loaded'[c] # Nil => loaded'[c] = loaded[c] \/ loaded'[c] = empty
  BY <1>4
<1>9. \A h \in Headers' : h \in Headers \/ h = empty
  BY <1>2, <1>4, <1>7 DEF Headers
<1>10. Fits(mem', stored', empty)
  BY <1>1, <1>2, <1>7, MaxKBounds DEF Fits, IInv, TypeOK
<1>11. Reachable' \subseteq Reachable
  <2>1. {a \in Arrays : pool'[a] > 0} \subseteq {a \in Arrays : pool[a] > 0} \cup {f.buf.arr}
    BY <1>5
  <2>2. {loaded'[c].arr : c \in {d \in Consumers : loaded'[d] # Nil}}
          \subseteq {loaded[c].arr : c \in {d \in Consumers : loaded[d] # Nil}} \cup {f.buf.arr}
    BY <1>2, <1>4
  <2>3. QED
    BY <1>1, <1>7, <2>1, <2>2 DEF Reachable
<1>12. MemStep
  BY <1>7 DEF MemStep
<1>13. QED
  BY <1>1, <1>6, <1>7, <1>9, <1>10, <1>11, <1>12, StepKeeps

-----------------------------------------------------------------------------
(* The steps that allocate an array or write into one. *)
LEMMA Allocation ==
  ASSUME ~IsFiniteSet(Arrays), IInv, NEW new \in Seq(Spans \cup {Nil}),
         mem' = [mem EXCEPT ![NewArray] = new]
  PROVE  /\ mem' \in Memory /\ MemStep /\ mem'[NewArray] = new
         /\ NewArray \in Arrays /\ \A b \in Reachable : mem'[b] = mem[b]
<1>1. NewArray \in Arrays \ Reachable /\ mem \in Memory
  BY NewArrayIsFree DEF IInv, TypeOK, Memory
<1>2. PICK a \in Arrays \ Reachable : a = NewArray
  BY <1>1
<1>3. mem' = [mem EXCEPT ![a] = new]
  BY <1>2
<1>4. mem' \in Memory /\ mem'[a] = new /\ \A b \in Arrays \ {a} : mem'[b] = mem[b]
  BY <1>1, <1>3 DEF Memory
<1>5. \A b \in Reachable : mem'[b] = mem[b]
  BY <1>2, <1>4, HeadersTyped DEF IInv
<1>6. QED
  BY <1>2, <1>4, <1>5 DEF MemStep

LEMMA WriteInPlace ==
  ASSUME IInv, NEW a \in Arrays, NEW i \in 1 .. Len(mem[a]), NEW s \in Spans, s \in stored',
         mem' = [mem EXCEPT ![a][i] = s]
  PROVE  /\ mem' \in Memory /\ MemStep /\ Len(mem'[a]) = Len(mem[a]) /\ mem'[a][i] = s
         /\ \A j \in 1 .. Len(mem[a]) : j # i => mem'[a][j] = mem[a][j]
<1>1. mem[a] \in Seq(Spans \cup {Nil}) /\ mem \in Memory
  BY DEF IInv, TypeOK, Memory
<1>2. PICK old \in Seq(Spans \cup {Nil}) : old = mem[a]
  BY <1>1
<1> DEFINE new == [old EXCEPT ![i] = s]
<1>3. /\ new \in Seq(Spans \cup {Nil}) /\ Len(new) = Len(old) /\ new[i] = s
      /\ \A j \in 1 .. Len(old) : j # i => new[j] = old[j]
  BY <1>2, ExceptSeq
<1>4. mem' = [mem EXCEPT ![a] = new]
  BY <1>2
<1> HIDE DEF new
<1>5. mem' \in Memory /\ mem'[a] = new /\ \A b \in Arrays \ {a} : mem'[b] = mem[b]
  BY <1>1, <1>3, <1>4 DEF Memory
<1>6. MemStep
  <2>1. ASSUME NEW b \in Reachable
        PROVE  /\ Len(mem'[b]) = Len(mem[b])
               /\ \A j \in 1 .. Len(mem[b]) : mem'[b][j] = mem[b][j] \/ mem'[b][j] \in stored'
    <3>1. CASE b = a
      BY <1>2, <1>3, <1>5, <3>1
    <3>2. CASE b # a
      BY <1>5, <3>2, HeadersTyped DEF IInv
    <3>3. QED
      BY <3>1, <3>2
  <2>2. QED
    BY <2>1 DEF MemStep
<1>7. QED
  BY <1>2, <1>3, <1>5, <1>6

LEMMA SwapKeeps ==
  ASSUME ~IsFiniteSet(Arrays), IInv, NEW c \in Consumers, Swap(c)
  PROVE  IInv'
<1>1. PICK old : old = loaded[c]
  OBVIOUS
<1>2. old \in Header /\ old \in Headers /\ old.arr \in Reachable /\ old.arr \in Arrays /\ Placed(c)
  BY <1>1, WindowAssumption DEF Swap, Goto, IInv, TypeOK, Placed, Headers, Reachable, Header
<1>3. k \in Nat /\ k >= 1 /\ k \in KSizes
  BY WindowAssumption DEF IInv, TypeOK
<1>4. PICK a \in Arrays :
        /\ active' = [arr |-> a, len |-> 0]
        /\ mem' \in Memory /\ MemStep
        /\ pool' \in [Arrays -> Nat]
        /\ \A b \in Arrays : pool'[b] > 0 => pool[b] > 0 \/ b = old.arr
  <2>1. CASE \E a \in Arrays : /\ FromPool(a)
                              /\ active' = [arr |-> a, len |-> 0]
                              /\ pool' = Release([pool EXCEPT ![a] = @ - 1], old)
                              /\ UNCHANGED mem
    <3>1. PICK a \in Arrays : /\ FromPool(a)
                              /\ active' = [arr |-> a, len |-> 0]
                              /\ pool' = Release([pool EXCEPT ![a] = @ - 1], old)
                              /\ UNCHANGED mem
      BY <2>1
    <3>3. pool' \in [Arrays -> Nat] /\ \A b \in Arrays : pool'[b] > 0 => pool[b] > 0 \/ b = old.arr
      <4> DEFINE p == [pool EXCEPT ![a] = @ - 1]
      <4>1. p \in [Arrays -> Nat] /\ \A b \in Arrays : p[b] > 0 => pool[b] > 0
        BY <3>1 DEF FromPool, IInv, TypeOK
      <4>2. pool' = Release(p, old)
        BY <3>1
      <4> HIDE DEF p
      <4>3. pool' = p \/ pool' = [p EXCEPT ![old.arr] = @ + 1]
        BY <4>2 DEF Release, Put
      <4>4. QED
        BY <1>2, <4>1, <4>3
    <3>4. mem' \in Memory /\ MemStep
      BY <3>1 DEF MemStep, Memory, IInv, TypeOK
    <3>5. QED
      BY <3>1, <3>3, <3>4
  <2>2. CASE active' = Made /\ mem' = [mem EXCEPT ![NewArray] = Blank(k)] /\ pool' = Release(pool, old)
    <3>1. Blank(k) \in Seq(Spans \cup {Nil})
      BY <1>3, BlankIsArray
    <3>2. mem' \in Memory /\ MemStep /\ NewArray \in Arrays
      <4>1. PICK new \in Seq(Spans \cup {Nil}) : new = Blank(k)
        BY <3>1
      <4>2. QED
        BY <2>2, <3>1, <4>1, Allocation
    <3>3. pool' \in [Arrays -> Nat] /\ \A b \in Arrays : pool'[b] > 0 => pool[b] > 0 \/ b = old.arr
      BY <1>2, <2>2 DEF Release, Put, IInv, TypeOK
    <3>4. active' = [arr |-> NewArray, len |-> 0]
      BY <2>2 DEF Made
    <3>5. QED
      BY <3>2, <3>3, <3>4
  <2>3. QED
    BY <1>1, <2>1, <2>2 DEF Swap
<1> DEFINE new == [id |-> epoch, buf |-> old, done |-> FALSE]
<1>5. /\ flushes' \subseteq flushes \cup {new} /\ new.buf = old
      /\ new \in [id : Nat, buf : Header, done : BOOLEAN]
  BY <1>1, <1>2 DEF Swap, IInv, TypeOK
<1> HIDE DEF new
<1>6. /\ loaded' = [loaded EXCEPT ![c] = Nil] /\ stored' = stored
      /\ pc[c] = "swap" /\ pc' = [pc EXCEPT ![c] = "counters"]
      /\ todo' = todo /\ flushMu' = flushMu /\ ckpt' = ckpt
  BY DEF Swap, Goto
<1>7. \A d \in Consumers : Placed(d)'
  <2>1. /\ loaded'[c] = Nil /\ pc'[c] = "counters"
        /\ \A d \in Consumers \ {c} : loaded'[d] = loaded[d] /\ pc'[d] = pc[d]
    BY <1>6 DEF IInv, TypeOK
  <2>2. c \notin stale' /\ \A d \in Consumers : d \in stale' => Watches(d)
    BY OvertakeMarks DEF Swap, IInv
  <2>3. Placed(c)'
    BY <1>2, <1>6, <2>1, <2>2 DEF Placed
  <2>4. QED
    BY <1>6, <2>1, <2>2, <2>3, OthersStayPlaced DEF IInv
<1>8. TypeOK'
  <2>1. active' \in Header
    BY <1>4 DEF Header
  <2>2. loaded' \in [Consumers -> Header \cup {Nil}]
    BY <1>6 DEF IInv, TypeOK
  <2>3. pc' \in [Consumers -> {"idle", "reset", "swap", "counters", "fresh",
                              "batch", "add", "store"}]
    BY <1>6 DEF IInv, TypeOK
  <2>4. flushes' \subseteq [id : Nat, buf : Header, done : BOOLEAN] /\ epoch' \in Nat
    BY <1>5 DEF Swap, IInv, TypeOK
  <2>5. UNCHANGED <<now, k, n, t0, flushMu, ckpt, batchNow, todo, offered, stored, emitted>>
    BY DEF Swap
  <2>6. stale' \subseteq Consumers /\ raced' \in BOOLEAN
    BY OvertakeMarks DEF Swap, IInv
  <2>7. QED
    BY <1>4, <1>7, <2>1, <2>2, <2>3, <2>4, <2>5, <2>6, TypesStay DEF IInv, TypeOK
<1>9. \A d \in Consumers : loaded'[d] # Nil => loaded'[d] = loaded[d]
  BY <1>6 DEF IInv, TypeOK
<1>10. \A h \in Headers' : h \in Headers \/ h = active'
  BY <1>2, <1>5, <1>6, <1>9 DEF Headers
<1>11. Fits(mem', stored', active')
  <2>1. Len(mem'[active'.arr]) \in Nat /\ active'.len = 0
    BY <1>4 DEF Memory
  <2>2. QED
    BY <2>1, MaxKBounds DEF Fits
<1>12. Reachable' \subseteq Reachable \cup {active'.arr}
  <2>1. {b \in Arrays : pool'[b] > 0} \subseteq Reachable
    BY <1>2, <1>4 DEF Reachable
  <2>2. {g.buf.arr : g \in flushes'} \subseteq Reachable
    BY <1>2, <1>5 DEF Reachable
  <2>3. {loaded'[d].arr : d \in {e \in Consumers : loaded'[e] # Nil}} \subseteq Reachable
    BY <1>9 DEF Reachable
  <2>4. QED
    BY <1>6, <2>1, <2>2, <2>3 DEF Reachable
<1>13. active'.arr = a
  BY <1>4
<1>14. QED
  BY <1>4, <1>6, <1>8, <1>10, <1>11, <1>12, <1>13, StepKeeps

LEMMA FreshBufferKeeps ==
  ASSUME ~IsFiniteSet(Arrays), IInv, NEW c \in Consumers, FreshBuffer(c)
  PROVE  IInv'
<1>1. PICK new \in Seq(Spans \cup {Nil}) : new = Blank(k)
  BY BlankIsArray, WindowAssumption DEF IInv, TypeOK
<1>2. mem' \in Memory /\ MemStep /\ mem'[NewArray] = new /\ NewArray \in Arrays
  BY <1>1, Allocation DEF FreshBuffer
<1>3. active' \in Header /\ active'.arr = NewArray /\ active'.len = 0
  BY <1>2 DEF FreshBuffer, Made, Header
<1>4. /\ UNCHANGED <<now, k, n, t0, pool, ckpt, batchNow, loaded, todo, flushes, epoch,
                     offered, stored, emitted>>
      /\ pc[c] = "fresh" /\ pc' = [pc EXCEPT ![c] = "batch"] /\ flushMu' = Nil
  BY DEF FreshBuffer, Goto
<1>5. \A d \in Consumers : Placed(d)'
  <2>1. Placed(c)
    BY DEF IInv, TypeOK, Placed
  <2>2. pc'[c] = "batch" /\ \A d \in Consumers \ {c} : pc'[d] = pc[d]
    BY <1>4 DEF IInv, TypeOK
  <2>3. flushMu = c /\ flushMu' \notin Consumers
    BY <1>4, <2>1, WindowAssumption DEF Placed
  <2>4. c \notin stale' /\ \A d \in Consumers : d \in stale' => Watches(d)
    BY OvertakeMarks DEF FreshBuffer, IInv
  <2>5. Placed(c)'
    BY <1>4, <2>1, <2>2, <2>3, <2>4 DEF Placed
  <2>6. QED
    BY <1>4, <2>2, <2>3, <2>4, <2>5, OthersStayPlaced DEF IInv
<1>6. TypeOK'
  <2>1. pc' \in [Consumers -> {"idle", "reset", "swap", "counters", "fresh",
                              "batch", "add", "store"}]
    BY <1>4 DEF IInv, TypeOK
  <2>2. stale' \subseteq Consumers /\ raced' \in BOOLEAN
    BY OvertakeMarks DEF FreshBuffer, IInv
  <2>3. ckpt = Nil
    <3>1. flushMu = c /\ c # Saver
      BY <1>4, WindowAssumption DEF IInv, TypeOK
    <3>2. QED
      BY <3>1 DEF IInv, TypeOK
  <2>4. QED
    BY <1>2, <1>3, <1>4, <1>5, <2>1, <2>2, <2>3, TypesStay DEF IInv, TypeOK
<1>7. \A h \in Headers' : h \in Headers \/ h = active'
  BY <1>4 DEF Headers
<1>8. Fits(mem', stored', active')
  BY <1>1, <1>2, <1>3, MaxKBounds DEF Fits
<1>9. Reachable' \subseteq Reachable \cup {NewArray}
  BY <1>3, <1>4 DEF Reachable
<1>10. PICK a : a = NewArray
  OBVIOUS
<1>11. QED
  BY <1>1, <1>2, <1>4, <1>6, <1>7, <1>8, <1>9, <1>10, StepKeeps

(* What StoreActive does to the arrays, in each of its four cases: the active *)
(* buffer covers what the loaded one did and the new span, or that alone.    *)
Stores(a) ==
  /\ mem' \in Memory /\ MemStep /\ \A b \in Reachable \ {a} : mem'[b] = mem[b]
  /\ pool' \in [Arrays -> Nat] /\ \A b \in Arrays : pool'[b] > 0 => pool[b] > 0
  /\ active' \in Header /\ active'.arr = a
  /\ Fits(mem', stored', active')

LEMMA OneElement ==
  ASSUME active'.len = 1, NEW s, mem'[active'.arr][1] = s
  PROVE  Elements(active)' = {s}
<1>1. 1 .. active'.len = {1}
  OBVIOUS
<1>2. Elements(active)' = {mem'[active'.arr][i] : i \in 1 .. active'.len}
  BY DEF Elements
<1>3. Elements(active)' = {mem'[active'.arr][i] : i \in {1}}
  BY <1>1, <1>2
<1>4. QED
  BY <1>3

LEMMA AppendedStores ==
  ASSUME ~IsFiniteSet(Arrays), IInv, NEW h \in Header, h.arr \in Reachable,
         Fits(mem, stored, h), h.len < k,
         NEW s \in Spans, s \in stored', stored \subseteq stored', StoreAppended(h, s),
         pool' \in [Arrays -> Nat], \A b \in Arrays : pool'[b] > 0 => pool[b] > 0
  PROVE  (\E a \in Arrays : Stores(a)) /\ Elements(active)' = Elements(h) \cup {s}
<1>1. PICK old \in Seq(Spans \cup {Nil}) : old = mem[h.arr]
  BY DEF IInv, TypeOK, Header
<1>2. /\ h.arr \in Arrays /\ h.arr \in Reachable /\ h.len \in Nat /\ Len(old) \in Nat
      /\ h.len <= Len(old) /\ \A i \in 1 .. h.len : old[i] \in stored
  BY <1>1 DEF Fits, Header
<1>3. h.len + 1 <= MaxK
  BY <1>2, MaxKBounds, WindowAssumption DEF IInv, TypeOK
<1>5. CASE /\ h.len < Len(mem[h.arr])
           /\ mem' = [mem EXCEPT ![h.arr][h.len + 1] = s]
           /\ active' = [h EXCEPT !.len = @ + 1]
  <2>1. h.len + 1 \in 1 .. Len(mem[h.arr])
    BY <1>1, <1>2, <1>5
  <2>2. /\ mem' \in Memory /\ MemStep /\ Len(mem'[h.arr]) = Len(old) /\ mem'[h.arr][h.len + 1] = s
        /\ \A j \in 1 .. Len(old) : j # h.len + 1 => mem'[h.arr][j] = old[j]
        /\ \A b \in Arrays \ {h.arr} : mem'[b] = mem[b]
    <3>1. PICK a \in Arrays : a = h.arr
      BY <1>2
    <3>2. PICK j \in 1 .. Len(mem[a]) : j = h.len + 1
      BY <2>1, <3>1
    <3>3. mem' = [mem EXCEPT ![a][j] = s]
      BY <1>5, <3>1, <3>2
    <3>4. /\ mem' \in Memory /\ MemStep /\ Len(mem'[a]) = Len(mem[a]) /\ mem'[a][j] = s
          /\ \A i \in 1 .. Len(mem[a]) : i # j => mem'[a][i] = mem[a][i]
      BY <3>3, WriteInPlace
    <3>5. \A b \in Arrays \ {a} : mem'[b] = mem[b]
      BY <3>3 DEF IInv, TypeOK
    <3>6. QED
      BY <1>1, <3>1, <3>2, <3>4, <3>5
  <2>3. active' \in Header /\ active'.arr = h.arr /\ active'.len = h.len + 1
    BY <1>5 DEF Header
  <2>4. ASSUME NEW i \in 1 .. h.len + 1 PROVE mem'[h.arr][i] \in stored'
    <3>1. CASE i = h.len + 1
      BY <2>2, <3>1
    <3>2. CASE i # h.len + 1
      <4>1. i \in 1 .. h.len /\ i \in 1 .. Len(old)
        BY <1>2, <3>2
      <4>2. QED
        BY <1>2, <2>2, <3>2, <4>1
    <3>3. QED
      BY <3>1, <3>2
  <2>5. Fits(mem', stored', active')
    BY <1>1, <1>2, <1>3, <2>1, <2>2, <2>3, <2>4 DEF Fits
  <2>6. Elements(active)' = Elements(h) \cup {s}
    <3>1. \A i \in 1 .. h.len : mem'[h.arr][i] = mem[h.arr][i]
      <4>1. \A i \in 1 .. h.len : i \in 1 .. Len(old) /\ i # h.len + 1
        BY <1>2
      <4>2. QED
        BY <1>1, <2>2, <4>1
    <3>2. \A i \in 1 .. h.len + 1 : i \in 1 .. h.len \/ i = h.len + 1
      BY <1>2
    <3>3. 1 .. h.len \subseteq 1 .. h.len + 1 /\ h.len + 1 \in 1 .. h.len + 1
      BY <1>2
    <3>4. Elements(active)' = {mem'[h.arr][i] : i \in 1 .. h.len + 1}
      BY <2>3 DEF Elements
    <3>5. mem'[h.arr][h.len + 1] = s
      BY <2>2
    <3>6. ASSUME NEW x PROVE x \in Elements(active)' <=> x \in Elements(h) \cup {s}
      <4>1. x \in Elements(active)' <=> \E i \in 1 .. h.len + 1 : x = mem'[h.arr][i]
        BY <3>4
      <4>2. x \in Elements(h) <=> \E i \in 1 .. h.len : x = mem[h.arr][i]
        BY DEF Elements
      <4>3. QED
        BY <3>1, <3>2, <3>3, <3>5, <4>1, <4>2, Zenon
    <3>7. QED
      BY <3>6
  <2>7. \A b \in Reachable \ {h.arr} : mem'[b] = mem[b]
    BY <2>2, HeadersTyped DEF IInv
  <2>8. QED
    BY <1>2, <2>2, <2>3, <2>5, <2>6, <2>7 DEF Stores
<1>6. CASE /\ h.len >= Len(mem[h.arr])
           /\ mem' = [mem EXCEPT ![NewArray] = Grown(mem[h.arr], s)]
           /\ active' = [arr |-> NewArray, len |-> h.len + 1]
  <2>1. h.len = Len(old)
    BY <1>1, <1>2, <1>6
  <2> DEFINE grown == Grown(old, s)
  <2> DEFINE room == IF Len(old) = 0 THEN 1 ELSE 2 * Len(old)
  <2>2. /\ grown \in Seq(Spans \cup {Nil}) /\ Len(grown) = room /\ room >= Len(old) + 1
        /\ \A i \in 1 .. room :
             grown[i] = IF i <= Len(old) THEN old[i] ELSE IF i = Len(old) + 1 THEN s ELSE Nil
    <3>1. room \in Nat /\ room >= Len(old) + 1
      BY <1>2
    <3>2. \A i \in 1 .. Len(old) : old[i] \in Spans \cup {Nil}
      BY ElementOfSeq
    <3>3. grown = [i \in 1 .. room |->
                     IF i <= Len(old) THEN old[i] ELSE IF i = Len(old) + 1 THEN s ELSE Nil]
      BY DEF Grown
    <3> HIDE DEF grown, room
    <3>4. \A i \in 1 .. room :
            (IF i <= Len(old) THEN old[i] ELSE IF i = Len(old) + 1 THEN s ELSE Nil) \in Spans \cup {Nil}
      BY <1>2, <3>1, <3>2
    <3>5. grown \in Seq(Spans \cup {Nil}) /\ Len(grown) = room
      BY <3>1, <3>3, <3>4
    <3>6. QED
      BY <3>1, <3>3, <3>5
  <2>3. PICK new \in Seq(Spans \cup {Nil}) : new = grown
    BY <2>2
  <2>4. /\ mem' \in Memory /\ MemStep /\ mem'[NewArray] = new /\ NewArray \in Arrays
        /\ \A b \in Reachable : mem'[b] = mem[b]
    BY <1>1, <1>6, <2>3, Allocation
  <2>5. active' \in Header /\ active'.arr = NewArray /\ active'.len = h.len + 1
    BY <1>2, <1>6, <2>4 DEF Header
  <2>6. Len(new) >= h.len + 1 /\ \A i \in 1 .. h.len + 1 : new[i] \in stored'
    BY <1>2, <2>1, <2>2, <2>3
  <2>7. Fits(mem', stored', active')
    BY <1>3, <2>4, <2>5, <2>6 DEF Fits
  <2>9. Elements(active)' = Elements(h) \cup {s}
    <3>1. \A i \in 1 .. h.len : new[i] = mem[h.arr][i]
      BY <1>1, <1>2, <2>1, <2>2, <2>3
    <3>2. new[h.len + 1] = s
      BY <1>2, <2>1, <2>2, <2>3
    <3>3. \A i \in 1 .. h.len + 1 : i \in 1 .. h.len \/ i = h.len + 1
      BY <1>2
    <3>4. 1 .. h.len \subseteq 1 .. h.len + 1 /\ h.len + 1 \in 1 .. h.len + 1
      BY <1>2
    <3>5. Elements(active)' = {new[i] : i \in 1 .. h.len + 1}
      BY <2>4, <2>5 DEF Elements
    <3>6. QED
      BY <3>1, <3>2, <3>3, <3>4, <3>5 DEF Elements
  <2>10. QED
    BY <2>4, <2>5, <2>7, <2>9 DEF Stores
<1>7. QED
  BY <1>5, <1>6 DEF StoreAppended

LEMMA SingletonStores ==
  ASSUME ~IsFiniteSet(Arrays), IInv, NEW s \in Spans, s \in stored', stored \subseteq stored',
         StoreSingleton(s)
  PROVE  (\E a \in Arrays : Stores(a)) /\ Elements(active)' = {s}
<1>1. CASE \E a \in Arrays :
             /\ FromPool(a)
             /\ pool' = [pool EXCEPT ![a] = @ - 1]
             /\ StoreAppended([arr |-> a, len |-> 0], s)
  <2>1. PICK a \in Arrays :
             /\ FromPool(a)
             /\ pool' = [pool EXCEPT ![a] = @ - 1]
             /\ StoreAppended([arr |-> a, len |-> 0], s)
    BY <1>1
  <2>2. PICK h \in Header : h = [arr |-> a, len |-> 0]
    BY DEF Header
  <2>3. h.arr \in Reachable /\ h.arr \in Arrays /\ h.len = 0
    BY <2>1, <2>2 DEF FromPool, Reachable
  <2>4. Fits(mem, stored, h) /\ h.len < k
    <3>1. Len(mem[h.arr]) \in Nat
      BY <2>3 DEF IInv, TypeOK
    <3>2. k >= 1 /\ k \in Nat
      BY WindowAssumption DEF IInv, TypeOK
    <3>3. QED
      BY <2>3, <3>1, <3>2, MaxKBounds DEF Fits
  <2>5. pool' \in [Arrays -> Nat] /\ \A b \in Arrays : pool'[b] > 0 => pool[b] > 0
    BY <2>1 DEF FromPool, IInv, TypeOK
  <2>6. (\E b \in Arrays : Stores(b)) /\ Elements(active)' = Elements(h) \cup {s}
    BY <2>1, <2>2, <2>3, <2>4, <2>5, AppendedStores
  <2>7. Elements(h) = {}
    <3>1. 1 .. h.len = {}
      BY <2>3
    <3>2. QED
      BY <3>1 DEF Elements
  <2>8. QED
    BY <2>6, <2>7
<1>2. CASE /\ mem' = [mem EXCEPT ![NewArray] = [Blank(k) EXCEPT ![1] = s]]
           /\ active' = [arr |-> NewArray, len |-> 1]
           /\ UNCHANGED pool
  <2>1. Blank(k) \in Seq(Spans \cup {Nil}) /\ Len(Blank(k)) = k /\ k \in Nat /\ k >= 1
    BY BlankIsArray, WindowAssumption DEF IInv, TypeOK
  <2>2. PICK old \in Seq(Spans \cup {Nil}) : old = Blank(k) /\ 1 \in 1 .. Len(old) /\ Len(old) >= 1
    BY <2>1
  <2>3. PICK new \in Seq(Spans \cup {Nil}) :
          new = [Blank(k) EXCEPT ![1] = s] /\ Len(new) >= 1 /\ new[1] = s
    <3>1. /\ [old EXCEPT ![1] = s] \in Seq(Spans \cup {Nil})
          /\ Len([old EXCEPT ![1] = s]) = Len(old) /\ [old EXCEPT ![1] = s][1] = s
      BY <2>2, ExceptSeq
    <3>2. QED
      BY <2>2, <3>1
  <2>4. /\ mem' \in Memory /\ MemStep /\ mem'[NewArray] = new /\ NewArray \in Arrays
        /\ \A b \in Reachable : mem'[b] = mem[b]
    BY <1>2, <2>3, Allocation
  <2>5. active' \in Header /\ active'.arr = NewArray /\ active'.len = 1
    BY <1>2, <2>4 DEF Header
  <2>6. Fits(mem', stored', active')
    <3>1. \A i \in 1 .. 1 : mem'[NewArray][i] \in stored'
      BY <2>3, <2>4
    <3>2. Len(mem'[NewArray]) >= 1 /\ 1 <= MaxK
      BY <2>3, <2>4, MaxKBounds
    <3>3. QED
      BY <2>5, <3>1, <3>2 DEF Fits
  <2>7. pool' \in [Arrays -> Nat] /\ \A b \in Arrays : pool'[b] > 0 => pool[b] > 0
    BY <1>2 DEF IInv, TypeOK
  <2>8. Elements(active)' = {s}
    BY <2>3, <2>4, <2>5, OneElement
  <2>9. QED
    BY <2>3, <2>4, <2>5, <2>6, <2>7, <2>8 DEF Stores
<1>3. QED
  BY <1>1, <1>2 DEF StoreSingleton

LEMMA StoreActiveStores ==
  ASSUME ~IsFiniteSet(Arrays), IInv, NEW c \in Consumers, StoreActive(c)
  PROVE  /\ \E a \in Arrays : Stores(a)
         /\ \/ Elements(active)' = {Head(todo[c])}
            \/ Elements(active)' = Elements(loaded[c]) \cup {Head(todo[c])}
<1>1. /\ loaded[c] \in Header /\ loaded[c] \in Headers /\ todo[c] \in Seq(Spans) /\ todo[c] # << >>
  BY DEF StoreActive, IInv, TypeOK, Headers
<1>2. PICK h \in Header, s \in Spans : h = loaded[c] /\ s = Head(todo[c])
  BY <1>1, HeadTailProperties
<1>3. s \in stored' /\ stored \subseteq stored'
  BY <1>2 DEF StoreActive
<1>4. CASE IsFull(loaded[c]) /\ StoreSingleton(Head(todo[c]))
  BY <1>2, <1>3, <1>4, SingletonStores
<1>5. CASE ~IsFull(loaded[c]) /\ StoreAppended(loaded[c], Head(todo[c])) /\ UNCHANGED pool
  <2>1. /\ ~IsFull(h) /\ StoreAppended(h, s) /\ pool' = pool
        /\ h.arr \in Reachable /\ Fits(mem, stored, h)
    BY <1>1, <1>2, <1>5, HeadersTyped DEF IInv, HeadersFit
  <2>2. /\ pool' \in [Arrays -> Nat] /\ \A b \in Arrays : pool'[b] > 0 => pool[b] > 0
        /\ h.len < k
    BY <2>1, WindowAssumption DEF IsFull, Header, IInv, TypeOK
  <2>4. (\E a \in Arrays : Stores(a)) /\ Elements(active)' = Elements(h) \cup {s}
    BY <1>3, <2>1, <2>2, AppendedStores
  <2>3. QED
    BY <1>2, <2>4
<1>6. QED
  BY <1>4, <1>5 DEF StoreActive

LEMMA StoreActiveKeeps ==
  ASSUME ~IsFiniteSet(Arrays), IInv, NEW c \in Consumers, StoreActive(c)
  PROVE  IInv'
<1>1. /\ Placed(c) /\ pc[c] = "store"
      /\ loaded[c] \in Header /\ loaded[c] # Nil /\ loaded[c] \in Headers
      /\ todo[c] \in Seq(Spans) /\ todo[c] # << >>
  BY DEF StoreActive, IInv, TypeOK, Placed, Headers
<1>2. PICK h \in Header, s \in Spans : h = loaded[c] /\ s = Head(todo[c])
  BY <1>1, HeadTailProperties
<1>3. /\ UNCHANGED <<now, k, n, t0, flushMu, ckpt, batchNow, flushes, epoch, offered, emitted>>
      /\ loaded' = [loaded EXCEPT ![c] = Nil] /\ todo' = [todo EXCEPT ![c] = Tail(@)]
      /\ stored' = stored \cup {s}
      /\ pc' = [pc EXCEPT ![c] = IF Len(todo[c]) = 1 THEN "batch" ELSE "add"]
  BY <1>2 DEF StoreActive
<1>4. PICK a \in Arrays : Stores(a)
  BY StoreActiveStores
<1>5. /\ Tail(todo[c]) \in Seq(Spans)
      /\ Len(todo[c]) = 1 <=> Tail(todo[c]) = << >>
  <2>1. Len(todo[c]) \in Nat \ {0} /\ Tail(todo[c]) \in Seq(Spans) /\ Len(Tail(todo[c])) = Len(todo[c]) - 1
    BY <1>1, HeadTailProperties, EmptySeq, LenProperties
  <2>2. Tail(todo[c]) = << >> <=> Len(Tail(todo[c])) = 0
    BY <2>1, EmptySeq
  <2>3. QED
    BY <2>1, <2>2
<1>6. \A d \in Consumers : Placed(d)'
  <2>1. /\ loaded'[c] = Nil /\ todo'[c] = Tail(todo[c])
        /\ pc'[c] = IF Len(todo[c]) = 1 THEN "batch" ELSE "add"
        /\ \A d \in Consumers \ {c} :
             loaded'[d] = loaded[d] /\ pc'[d] = pc[d] /\ todo'[d] = todo[d]
    BY <1>3 DEF IInv, TypeOK
  <2>2. Placed(c)'
    <3>1. flushMu' # c /\ pc'[c] \in {"batch", "add"}
      BY <1>1, <1>3, <2>1 DEF Placed
    <3>2. todo'[c] # << >> <=> pc'[c] = "add"
      BY <1>5, <2>1
    <3>3. c \notin stale'
      BY OvertakeMarks DEF StoreActive, IInv
    <3>4. QED
      BY <2>1, <3>1, <3>2, <3>3 DEF Placed
  <2>3. \A d \in Consumers : d \in stale' => Watches(d)
    BY OvertakeMarks DEF StoreActive, IInv
  <2>4. QED
    BY <1>3, <2>1, <2>2, <2>3, OthersStayPlaced DEF IInv
<1>7. TypeOK'
  <2>1. loaded' \in [Consumers -> Header \cup {Nil}]
    BY <1>3 DEF IInv, TypeOK
  <2>2. pc' \in [Consumers -> {"idle", "reset", "swap", "counters", "fresh",
                              "batch", "add", "store"}]
    BY <1>3 DEF IInv, TypeOK
  <2>3. todo' \in [Consumers -> Seq(Spans)]
    BY <1>3, <1>5 DEF IInv, TypeOK
  <2>4. stale' \subseteq Consumers /\ raced' \in BOOLEAN
    BY OvertakeMarks DEF StoreActive, IInv
  <2>5. stored' \subseteq Spans /\ active' \in Header /\ mem' \in Memory /\ pool' \in [Arrays -> Nat]
    BY <1>3, <1>4 DEF Stores, IInv, TypeOK
  <2>6. QED
    BY <1>3, <1>6, <2>1, <2>2, <2>3, <2>4, <2>5, TypesStay DEF IInv, TypeOK
<1>8. \A d \in Consumers : loaded'[d] # Nil => loaded'[d] = loaded[d]
  BY <1>3 DEF IInv, TypeOK
<1>9. \A g \in Headers' : g \in Headers \/ g = active'
  BY <1>3, <1>8 DEF Headers
<1>10. Reachable' \subseteq Reachable \cup {a}
  BY <1>3, <1>4, <1>8 DEF Stores, Reachable
<1>11. QED
  BY <1>3, <1>4, <1>7, <1>9, <1>10, StepKeeps DEF Stores

-----------------------------------------------------------------------------
LEMMA NextInv ==
  ~IsFiniteSet(Arrays) /\ IInv /\ [Next]_vars => IInv'
<1> SUFFICES ASSUME ~IsFiniteSet(Arrays), IInv, [Next]_vars PROVE IInv'
  OBVIOUS
<1>1. ASSUME NEW c \in Consumers, Consume(c) PROVE IInv'
  BY <1>1, BeginKeeps, LoadKeeps, SampleKeeps, SwapKeeps, FreshBufferKeeps, StoreActiveKeeps
     DEF Consume
<1>2. ASSUME NEW f \in flushes, FlushSend(f) \/ FlushDone(f) PROVE IInv'
  BY <1>2, FlushSendKeeps, FlushDoneKeeps
<1>3. CASE (\E newK \in KSizes : SetK(newK)) \/ Tick \/ CheckpointLock \/ CheckpointEnd
  BY <1>3, SetKKeeps, CheckpointKeeps
<1>4. CASE UNCHANGED vars
  <2>1. UNCHANGED <<now, k, n, t0, active, mem, pool, flushMu, ckpt, pc, batchNow, loaded, todo,
                    flushes, epoch, offered, stored, emitted, stale, raced>>
    BY <1>4 DEF vars, shared, local, history, races
  <2>2. TypeOK' /\ Reachable' = Reachable /\ Headers' = Headers
    BY <2>1 DEF TypeOK, Watches, Reachable, Headers, IInv
  <2>3. QED
    BY <2>1, <2>2, NothingWritten
<1>5. QED
  BY <1>1, <1>2, <1>3, <1>4 DEF Next

(* The invariant that the theorems below rest on. *)
THEOREM Invariance == ASSUME ~IsFiniteSet(Arrays) PROVE Spec => []IInv
<1>1. Init => IInv
  BY InitInv
<1>2. IInv /\ [Next]_vars => IInv'
  BY NextInv
<1>3. QED
  BY <1>1, <1>2, PTL DEF Spec

(* resetWindow, flush, addSpanToReservoir: however many consumers race on the *)
(* active buffer, every slice header somebody holds is typed, covers accepted *)
(* spans of its array only, and is no longer than the greatest k_size.       *)
THEOREM RacingBuffersAreSound == ASSUME ~IsFiniteSet(Arrays) PROVE Spec => []BuffersSound
<1>1. IInv => BuffersSound
  <2> SUFFICES ASSUME IInv PROVE BuffersSound
    OBVIOUS
  <2>1. \A h \in Headers : Fits(mem, stored, h)
    BY DEF IInv, HeadersFit
  <2>2. SlicesSound /\ BuffersBounded
    BY <2>1 DEF Fits, SlicesSound, BuffersBounded, Elements
  <2>3. QED
    BY <2>2 DEF IInv, BuffersSound
<1>2. QED
  BY <1>1, Invariance, PTL

-----------------------------------------------------------------------------
(* Until a store undoes another one, no array is in two places, and what a    *)
(* consumer nobody overtook has loaded is the active buffer.                 *)
Unshared ==
  /\ \A a \in Arrays : pool[a] <= 1
  /\ pool[active.arr] = 0
  /\ \A f \in flushes : pool[f.buf.arr] = 0 /\ f.buf.arr # active.arr
  /\ \A f, g \in flushes : f.buf.arr = g.buf.arr => f = g
  /\ ckpt # Nil => /\ pool[ckpt.arr] = 0
                   /\ \A f \in flushes : f.buf.arr # ckpt.arr

LoadedIsActive ==
  \A c \in Consumers \ stale : pc[c] \in {"swap", "store"} => loaded[c] = active

Owned == Unshared /\ LoadedIsActive

LEMMA OwnedSteps ==
  ASSUME IInv, Owned, NEW c \in Consumers,
         \/ Begin(c) \/ LockAndLoad(c) \/ ResetCounters(c) \/ LoadActive(c) \/ EndBatch(c)
         \/ \E u \in Units : Sample(c, u)
  PROVE  Owned'
<1>1. active' = active /\ flushes' = flushes /\ pool' = pool /\ ckpt' = ckpt /\ stale' = stale
  BY DEF Begin, LockAndLoad, ResetCounters, LoadActive, EndBatch, Sample, shared, history, races
<1>2. Unshared'
  BY <1>1 DEF Owned, Unshared
<1>3. \A d \in Consumers \ {c} : pc'[d] = pc[d] /\ loaded'[d] = loaded[d]
  BY DEF Begin, LockAndLoad, ResetCounters, LoadActive, EndBatch, Sample, Goto, shared, IInv, TypeOK
<1>4. pc'[c] \in {"swap", "store"} => loaded'[c] = active
  BY DEF Begin, LockAndLoad, ResetCounters, LoadActive, EndBatch, Sample, Goto, IInv, TypeOK
<1>5. QED
  BY <1>1, <1>2, <1>3, <1>4 DEF Owned, LoadedIsActive

(* The consumer that stores resets under flushMu, or it is adding a span.    *)
LEMMA OthersOvertaken ==
  ASSUME IInv, Owned, ~raced', NEW c \in Consumers, Overtake(c), pc'[c] \notin {"swap", "store"},
         \A d \in Consumers \ {c} : pc'[d] = pc[d]
  PROVE  c \notin stale /\ LoadedIsActive'
<1>1. c \notin stale /\ \A d \in Consumers \ {c} : Watches(d) => d \in stale'
  BY OvertakeMarks DEF IInv
<1>2. \A d \in Consumers \ stale' : pc'[d] \notin {"swap", "store"}
  BY <1>1 DEF Watches
<1>3. QED
  BY <1>1, <1>2 DEF LoadedIsActive

LEMMA NoCheckpointInReset ==
  ASSUME IInv, NEW c \in Consumers, pc[c] \in {"swap", "counters", "fresh"}
  PROVE  ckpt = Nil
<1>1. flushMu = c /\ c # Saver
  BY WindowAssumption DEF IInv, TypeOK
<1>2. QED
  BY <1>1 DEF IInv, TypeOK

LEMMA OwnedSwap ==
  ASSUME ~IsFiniteSet(Arrays), IInv, Owned, ~raced', NEW c \in Consumers, Swap(c)
  PROVE  Owned' /\ loaded[c] = active
<1>0. c \notin stale /\ LoadedIsActive'
  <2>1. pc'[c] = "counters" /\ \A d \in Consumers \ {c} : pc'[d] = pc[d]
    BY DEF Swap, Goto, IInv, TypeOK
  <2>2. QED
    BY <2>1, OthersOvertaken DEF Swap
<1>1. loaded[c] = active /\ ckpt = Nil /\ ckpt' = Nil
  BY <1>0, NoCheckpointInReset DEF Swap, Goto, Owned, LoadedIsActive
<1>2. PICK old \in Header : old = active
  BY DEF IInv, TypeOK
<1>3. old.arr \in Arrays /\ pool[old.arr] = 0 /\ \A f \in flushes : f.buf.arr # old.arr
  BY <1>2 DEF Owned, Unshared, Header
<1>4. PICK a \in Arrays :
        /\ a # old.arr /\ \A f \in flushes : f.buf.arr # a
        /\ active'.arr = a
        /\ pool' \in [Arrays -> Nat] /\ pool'[a] = 0
        /\ \A b \in Arrays : pool'[b] <= 1
        /\ \A b \in Arrays \ {old.arr} : pool'[b] <= pool[b]
        /\ old.len # 0 => pool'[old.arr] = 0
  <2>1. CASE \E a \in Arrays : /\ FromPool(a)
                              /\ active' = [arr |-> a, len |-> 0]
                              /\ pool' = Release([pool EXCEPT ![a] = @ - 1], old)
    <3>1. PICK a \in Arrays : /\ FromPool(a)
                              /\ active' = [arr |-> a, len |-> 0]
                              /\ pool' = Release([pool EXCEPT ![a] = @ - 1], old)
      BY <2>1
    <3>2. pool[a] = 1 /\ a # old.arr /\ \A f \in flushes : f.buf.arr # a
      BY <1>3, <3>1 DEF FromPool, Owned, Unshared, IInv, TypeOK
    <3> DEFINE p == [pool EXCEPT ![a] = @ - 1]
    <3>3. /\ p \in [Arrays -> Nat] /\ p[a] = 0 /\ p[old.arr] = 0
          /\ \A b \in Arrays : p[b] <= pool[b] /\ p[b] <= 1
      BY <1>3, <3>2 DEF Owned, Unshared, IInv, TypeOK
    <3>4. pool' = Release(p, old)
      BY <3>1
    <3> HIDE DEF p
    <3>5. IF old.len = 0 THEN pool' = [p EXCEPT ![old.arr] = @ + 1] ELSE pool' = p
      BY <3>4 DEF Release, Put
    <3>6. /\ pool' \in [Arrays -> Nat] /\ pool'[a] = 0 /\ \A b \in Arrays : pool'[b] <= 1
          /\ \A b \in Arrays \ {old.arr} : pool'[b] <= pool[b]
          /\ old.len # 0 => pool'[old.arr] = 0
      BY <1>3, <3>2, <3>3, <3>5
    <3>7. QED
      BY <3>1, <3>2, <3>6
  <2>2. CASE active' = Made /\ pool' = Release(pool, old)
    <3>1. PICK a \in Arrays \ Reachable : a = NewArray
      BY NewArrayIsFree DEF IInv
    <3>2. /\ a # old.arr /\ pool[a] = 0 /\ \A f \in flushes : f.buf.arr # a
          /\ active'.arr = a
      BY <1>2, <2>2, <3>1 DEF Reachable, Made, IInv, TypeOK
    <3>3. IF old.len = 0 THEN pool' = [pool EXCEPT ![old.arr] = @ + 1] ELSE pool' = pool
      BY <2>2 DEF Release, Put
    <3>4. /\ pool \in [Arrays -> Nat] /\ \A b \in Arrays : pool[b] <= 1
      BY DEF Owned, Unshared, IInv, TypeOK
    <3>5. /\ pool' \in [Arrays -> Nat] /\ pool'[a] = 0 /\ \A b \in Arrays : pool'[b] <= 1
          /\ \A b \in Arrays \ {old.arr} : pool'[b] <= pool[b]
          /\ old.len # 0 => pool'[old.arr] = 0
      BY <1>3, <3>2, <3>3, <3>4
    <3>6. QED
      BY <3>1, <3>2, <3>5
  <2>3. QED
    BY <1>1, <1>2, <2>1, <2>2 DEF Swap
<1>5. \/ flushes' = flushes
      \/ old.len # 0 /\ \E new : new.buf = old /\ flushes' = flushes \cup {new}
  BY <1>1, <1>2 DEF Swap
<1>6. Unshared'
  <2>1. \A f \in flushes : f.buf.arr \in Arrays /\ pool'[f.buf.arr] = 0 /\ f.buf.arr # active'.arr
    BY <1>3, <1>4 DEF Owned, Unshared, IInv, TypeOK, Header
  <2>2. CASE flushes' = flushes
    BY <1>1, <1>4, <2>1, <2>2 DEF Owned, Unshared
  <2>3. CASE old.len # 0 /\ \E new : new.buf = old /\ flushes' = flushes \cup {new}
    <3>1. PICK new : new.buf = old /\ flushes' = flushes \cup {new}
      BY <2>3
    <3>2. pool'[old.arr] = 0 /\ old.arr # active'.arr
      BY <1>4, <2>3
    <3>3. \A f, g \in flushes' : f.buf.arr = g.buf.arr => f = g
      BY <1>3, <3>1 DEF Owned, Unshared
    <3>4. QED
      BY <1>1, <1>4, <2>1, <3>1, <3>2, <3>3 DEF Unshared
  <2>4. QED
    BY <1>5, <2>2, <2>3
<1>7. QED
  BY <1>0, <1>1, <1>6 DEF Owned

LEMMA OwnedFreshBuffer ==
  ASSUME ~IsFiniteSet(Arrays), IInv, Owned, ~raced', NEW c \in Consumers, FreshBuffer(c)
  PROVE  Owned' /\ c \notin stale
<1>1. PICK a \in Arrays \ Reachable : a = NewArray
  BY NewArrayIsFree DEF IInv
<1>2. /\ pool[a] = 0 /\ \A f \in flushes : f.buf.arr # a
  BY <1>1 DEF Reachable, IInv, TypeOK
<1>3. active'.arr = a /\ pool' = pool /\ flushes' = flushes /\ ckpt = Nil /\ ckpt' = Nil
  BY <1>1, NoCheckpointInReset DEF FreshBuffer, Goto, Made
<1>4. Unshared'
  BY <1>2, <1>3 DEF Owned, Unshared
<1>5. c \notin stale /\ LoadedIsActive'
  <2>1. pc'[c] = "batch" /\ \A d \in Consumers \ {c} : pc'[d] = pc[d]
    BY DEF FreshBuffer, Goto, IInv, TypeOK
  <2>2. QED
    BY <2>1, OthersOvertaken DEF FreshBuffer
<1>6. QED
  BY <1>4, <1>5 DEF Owned

LEMMA OwnedStoreActive ==
  ASSUME ~IsFiniteSet(Arrays), IInv, Owned, ~raced', NEW c \in Consumers, StoreActive(c)
  PROVE  Owned' /\ loaded[c] = active
<1>0. c \notin stale /\ LoadedIsActive'
  <2>1. pc'[c] \in {"batch", "add"} /\ \A d \in Consumers \ {c} : pc'[d] = pc[d]
    BY DEF StoreActive, IInv, TypeOK
  <2>2. QED
    BY <2>1, OthersOvertaken DEF StoreActive
<1>1. loaded[c] = active /\ flushes' = flushes /\ ckpt' = ckpt
  BY <1>0 DEF StoreActive, Owned, LoadedIsActive
<1>2. PICK a \in Arrays :
        /\ active'.arr = a /\ \A f \in flushes : f.buf.arr # a
        /\ pool' \in [Arrays -> Nat] /\ pool'[a] = 0 /\ \A b \in Arrays : pool'[b] <= pool[b]
  <2>1. CASE \E a \in Arrays : /\ FromPool(a)
                              /\ pool' = [pool EXCEPT ![a] = @ - 1]
                              /\ active'.arr \in {a, NewArray}
    <3>1. PICK a \in Arrays : /\ FromPool(a)
                              /\ pool' = [pool EXCEPT ![a] = @ - 1]
                              /\ active'.arr \in {a, NewArray}
      BY <2>1
    <3>2. pool[a] = 1 /\ \A f \in flushes : f.buf.arr # a
      BY <3>1 DEF FromPool, Owned, Unshared, IInv, TypeOK
    <3>3. pool' \in [Arrays -> Nat] /\ pool'[a] = 0 /\ \A b \in Arrays : pool'[b] <= pool[b]
      BY <3>1, <3>2 DEF IInv, TypeOK
    <3>4. CASE active'.arr = a
      BY <3>2, <3>3, <3>4
    <3>5. CASE active'.arr = NewArray
      <4>1. PICK b \in Arrays \ Reachable : b = NewArray
        BY NewArrayIsFree DEF IInv
      <4>2. /\ pool[b] = 0 /\ \A f \in flushes : f.buf.arr # b
        BY <4>1 DEF Reachable, IInv, TypeOK
      <4>3. pool'[b] = 0
        BY <3>3, <4>1, <4>2
      <4>4. QED
        BY <3>3, <3>5, <4>1, <4>2, <4>3
    <3>6. QED
      BY <3>1, <3>4, <3>5
  <2>2. CASE active'.arr = NewArray /\ pool' = pool
    <3>1. PICK a \in Arrays \ Reachable : a = NewArray
      BY NewArrayIsFree DEF IInv
    <3>2. /\ pool[a] = 0 /\ \A f \in flushes : f.buf.arr # a
      BY <3>1 DEF Reachable, IInv, TypeOK
    <3>3. QED
      BY <2>2, <3>1, <3>2 DEF IInv, TypeOK
  <2>3. CASE active' = [active EXCEPT !.len = @ + 1] /\ pool' = pool
    <3>1. PICK a \in Arrays : a = active.arr
      BY DEF IInv, TypeOK, Header
    <3>2. active'.arr = a
      BY <2>3, <3>1 DEF IInv, TypeOK, Header
    <3>3. QED
      BY <2>3, <3>1, <3>2 DEF Owned, Unshared, IInv, TypeOK
  <2>4. CASE StoreSingleton(Head(todo[c]))
    <3>1. CASE \E a \in Arrays : /\ FromPool(a)
                                 /\ pool' = [pool EXCEPT ![a] = @ - 1]
                                 /\ StoreAppended([arr |-> a, len |-> 0], Head(todo[c]))
      <4>1. PICK a \in Arrays : /\ FromPool(a)
                                /\ pool' = [pool EXCEPT ![a] = @ - 1]
                                /\ StoreAppended([arr |-> a, len |-> 0], Head(todo[c]))
        BY <3>1
      <4>2. PICK h : h = [arr |-> a, len |-> 0]
        OBVIOUS
      <4>3. active' = [h EXCEPT !.len = @ + 1] \/ active'.arr = NewArray
        BY <4>1, <4>2 DEF StoreAppended
      <4>4. active'.arr \in {a, NewArray}
        BY <4>2, <4>3
      <4>5. QED
        BY <2>1, <4>1, <4>4
    <3>2. CASE active' = [arr |-> NewArray, len |-> 1] /\ UNCHANGED pool
      BY <2>2, <3>2
    <3>3. QED
      BY <2>4, <3>1, <3>2 DEF StoreSingleton
  <2>5. CASE StoreAppended(loaded[c], Head(todo[c])) /\ UNCHANGED pool
    BY <1>1, <2>2, <2>3, <2>5 DEF StoreAppended
  <2>6. QED
    BY <2>4, <2>5 DEF StoreActive
<1>3. Unshared'
  <2>1. (\A f \in flushes : f.buf.arr \in Arrays) /\ (ckpt # Nil => ckpt.arr \in Arrays)
    BY DEF IInv, TypeOK, Header
  <2>2. \A b \in Arrays : pool'[b] <= 1 /\ (pool[b] = 0 => pool'[b] = 0)
    BY <1>2 DEF Owned, Unshared, IInv, TypeOK
  <2>3. QED
    BY <1>1, <1>2, <2>1, <2>2 DEF Owned, Unshared
<1>4. QED
  BY <1>0, <1>1, <1>3 DEF Owned

LEMMA OwnedFlush ==
  ASSUME IInv, Owned, NEW f \in flushes, FlushSend(f) \/ FlushDone(f)
  PROVE  Owned'
<1>1. /\ f.buf.arr \in Arrays /\ pool[f.buf.arr] = 0 /\ f.buf.arr # active.arr
      /\ \A g \in flushes : g.buf.arr = f.buf.arr => g = f
  BY DEF Owned, Unshared, IInv, TypeOK, Header
<1>2. UNCHANGED <<active, pc, ckpt, stale>>
  BY DEF FlushSend, FlushDone, shared, local, history, races
<1>3. CASE FlushSend(f)
  <2>1. pool' = pool /\ loaded' = loaded
    BY <1>3 DEF FlushSend, shared, local
  <2>2. PICK sent : sent = [f EXCEPT !.done = TRUE]
    OBVIOUS
  <2>3. sent.buf = f.buf /\ flushes' = (flushes \ {f}) \cup {sent}
    BY <1>3, <2>2 DEF FlushSend, IInv, TypeOK
  <2>4. Unshared'
    BY <1>1, <1>2, <2>1, <2>3 DEF Owned, Unshared
  <2>5. QED
    BY <1>2, <2>1, <2>4 DEF Owned, LoadedIsActive
<1>4. CASE FlushDone(f)
  <2>1. pool' = [pool EXCEPT ![f.buf.arr] = @ + 1] /\ flushes' = flushes \ {f}
    BY <1>4 DEF FlushDone, Put
  <2>2. \A c \in Consumers \ stale : ~(pc[c] = "store" /\ loaded[c] = f.buf)
    BY <1>1 DEF Owned, LoadedIsActive
  <2>3. \A c \in Consumers \ stale : loaded'[c] = loaded[c]
    BY <1>4, <2>2 DEF FlushDone
  <2>4. LoadedIsActive'
    BY <1>2, <2>3 DEF Owned, LoadedIsActive
  <2>5. Unshared'
    <3>1. /\ pool'[f.buf.arr] = 1
          /\ \A b \in Arrays \ {f.buf.arr} : pool'[b] = pool[b]
      BY <1>1, <2>1 DEF IInv, TypeOK
    <3>2. /\ active.arr \in Arrays /\ \A g \in flushes : g.buf.arr \in Arrays
          /\ ckpt # Nil => ckpt.arr \in Arrays
      BY DEF IInv, TypeOK, Header
    <3>3. QED
      BY <1>1, <1>2, <2>1, <3>1, <3>2 DEF Owned, Unshared
  <2>6. QED
    BY <2>4, <2>5 DEF Owned
<1>5. QED
  BY <1>3, <1>4

LEMMA OwnedCheckpoint ==
  ASSUME IInv, Owned, CheckpointLock \/ CheckpointEnd
  PROVE  Owned'
<1>1. UNCHANGED <<active, pool, flushes, pc, loaded, stale>> /\ (ckpt' = active \/ ckpt' = Nil)
  BY DEF CheckpointLock, CheckpointEnd, local, history, races
<1>2. QED
  BY <1>1 DEF Owned, Unshared, LoadedIsActive

LEMMA OwnedNext ==
  ASSUME ~IsFiniteSet(Arrays), IInv, Owned, ~raced', [Next]_vars
  PROVE  Owned'
<1>1. ASSUME NEW c \in Consumers, Consume(c) PROVE Owned'
  BY <1>1, OwnedSteps, OwnedSwap, OwnedFreshBuffer, OwnedStoreActive DEF Consume
<1>2. ASSUME NEW f \in flushes, FlushSend(f) \/ FlushDone(f) PROVE Owned'
  BY <1>2, OwnedFlush
<1>3. CASE UNCHANGED <<active, pool, flushes, ckpt, pc, loaded, stale>>
  BY <1>3 DEF Owned, Unshared, LoadedIsActive
<1>4. QED
  BY <1>1, <1>2, <1>3, OwnedCheckpoint DEF Next, SetK, Tick, vars, shared, local, history, races

(* Once a store has undone another one, that remains so.                     *)
LEMMA RacedForEver == IInv /\ [Next]_vars /\ ~raced' => ~raced
<1> SUFFICES ASSUME IInv, [Next]_vars, ~raced' PROVE ~raced
  OBVIOUS
<1>1. ASSUME NEW c \in Consumers, Overtake(c) PROVE ~raced
  BY <1>1, OvertakeMarks DEF IInv
<1>2. CASE UNCHANGED raced
  BY <1>2, Zenon
<1>3. QED
  BY <1>1, <1>2
     DEF Next, Consume, Begin, LockAndLoad, Swap, ResetCounters, FreshBuffer, Sample, LoadActive,
         StoreActive, EndBatch, FlushSend, FlushDone, CheckpointLock, CheckpointEnd, SetK, Tick,
         vars, history, races

LEMMA OwnedInit == IInv /\ Init => Owned
<1> SUFFICES ASSUME IInv, Init PROVE Owned
  OBVIOUS
<1>1. active.arr \in Arrays
  BY DEF IInv, TypeOK, Header
<1>2. /\ pool = [a \in Arrays |-> 0] /\ flushes = {} /\ ckpt = Nil
      /\ pc = [c \in Consumers |-> "idle"]
  BY DEF Init
<1>3. QED
  BY <1>1, <1>2 DEF Owned, Unshared, LoadedIsActive

LEMMA OwnedAlways == ASSUME ~IsFiniteSet(Arrays) PROVE Spec => [](raced \/ Owned)
<1>1. Init => raced \/ Owned
  BY InitInv, OwnedInit
<1>2. IInv /\ (raced \/ Owned) /\ [Next]_vars => (raced \/ Owned)'
  BY OwnedNext, RacedForEver
<1>3. QED
  BY <1>1, <1>2, Invariance, PTL DEF Spec

(* flush, sync.Pool, checkpoint: however many consumers there are, until one  *)
(* of them stores activeBuffer over what another stored since it had loaded   *)
(* it, nobody overwrites the spans that a flush is about to send.            *)
THEOREM BuffersAreNotShared ==
  ASSUME ~IsFiniteSet(Arrays) PROVE Spec => []NoAliasing
<1>1. raced \/ Owned => NoAliasing
  BY DEF Owned, Unshared, NoAliasing
<1>2. QED
  BY <1>1, OwnedAlways, PTL

-----------------------------------------------------------------------------
(* Where each accepted span is.  It was not accepted before, and, until a     *)
(* store undoes another one, nobody else has it.                             *)
Apart ==
  /\ Sent \subseteq stored
  /\ Elements(active) \cap Closing = {} /\ Elements(active) \cap Sent = {}
  /\ Closing \cap Sent = {}

BuffersApart ==
  \A f, g \in flushes :
    ~f.done /\ ~g.done /\ f # g => Elements(f.buf) \cap Elements(g.buf) = {}

EmptyInReset ==
  \A c \in Consumers \ stale : pc[c] \in {"counters", "fresh"} => active.len = 0

NotYetStored ==
  /\ \A c \in Consumers : \A i \in 1 .. Len(todo[c]) :
       /\ todo[c][i] \notin stored
       /\ \A d \in Consumers : \A j \in 1 .. Len(todo[d]) :
            todo[c][i] = todo[d][j] => c = d /\ i = j
       /\ \A u \in Units \ offered : todo[c][i] \notin SpanSet(u)
  /\ \A u \in Units \ offered : SpanSet(u) \cap stored = {}

Flow == Apart /\ BuffersApart /\ EmptyInReset

LEMMA HeldAreStored ==
  ASSUME IInv
  PROVE  Elements(active) \subseteq stored /\ Closing \subseteq stored
<1>1. ASSUME NEW h \in Headers PROVE Elements(h) \subseteq stored
  BY DEF IInv, HeadersFit, Fits, Elements
<1>2. Elements(active) \subseteq stored
  BY <1>1 DEF Headers
<1>3. \A f \in flushes : Elements(f.buf) \subseteq stored
  BY <1>1 DEF Headers
<1>4. QED
  BY <1>2, <1>3 DEF Closing

LEMMA FewElements ==
  ASSUME NEW m, NEW h \in Header, h.len <= MaxK, NEW S, S = {m[h.arr][i] : i \in 1 .. h.len}
  PROVE  Sampler!AtMost(S, MaxK)
<1> DEFINE number == [x \in S |-> CHOOSE i \in 1 .. h.len : m[h.arr][i] = x]
<1>1. 1 .. h.len \subseteq 1 .. MaxK
  BY MaxKBounds DEF Header
<1>2. ASSUME NEW x \in S
      PROVE  number[x] \in 1 .. h.len /\ m[h.arr][number[x]] = x
  <2>1. \E i \in 1 .. h.len : m[h.arr][i] = x
    OBVIOUS
  <2>2. number[x] = CHOOSE i \in 1 .. h.len : m[h.arr][i] = x
    OBVIOUS
  <2>3. QED
    BY <2>1, <2>2, Zenon
<1> HIDE DEF number
<1>3. \A x, y \in S : number[x] = number[y] => x = y
  BY <1>2
<1>4. number \in [S -> 1 .. MaxK]
  BY <1>1, <1>2 DEF number
<1>5. QED
  BY <1>3, <1>4 DEF Sampler!AtMost

LEMMA UnitsAreDisjoint ==
  ASSUME NEW u \in Units
  PROVE  /\ SpansOf[u] \in Seq(Spans)
         /\ \A i, j \in 1 .. Len(SpansOf[u]) : SpansOf[u][i] = SpansOf[u][j] => i = j
         /\ \A v \in Units \ {u}, i \in 1 .. Len(SpansOf[u]) : SpansOf[u][i] \notin SpanSet(v)
<1>1. \A v \in Units : SpansOf[v] \in Seq(Spans) /\ DOMAIN SpansOf[v] = 1 .. Len(SpansOf[v])
  BY WindowAssumption
<1>2. QED
  BY <1>1, WindowAssumption DEF SpanSet

LEMMA SampleOffers ==
  ASSUME IInv, NotYetStored, NEW c \in Consumers, NEW u \in Units, Sample(c, u)
  PROVE  NotYetStored'
<1>1. /\ u \notin offered /\ offered' = offered \cup {u} /\ stored' = stored
      /\ todo \in [Consumers -> Seq(Spans)]
      /\ todo' = todo \/ (todo[c] = << >> /\ todo' = [todo EXCEPT ![c] = SpansOf[u]])
  BY DEF Sample, IInv, TypeOK
<1>2. \A v \in Units \ offered' : v \in Units \ offered /\ v # u
  BY <1>1
<1>3. CASE todo' = todo
  BY <1>1, <1>2, <1>3 DEF NotYetStored
<1>4. CASE todo' = [todo EXCEPT ![c] = SpansOf[u]]
  <2>1. todo'[c] = SpansOf[u] /\ \A d \in Consumers \ {c} : todo'[d] = todo[d]
    BY <1>1, <1>4
  <2>2. \A i \in 1 .. Len(SpansOf[u]) : SpansOf[u][i] \notin stored /\ SpansOf[u][i] \in SpanSet(u)
    BY <1>1 DEF NotYetStored, SpanSet
  <2>3. ASSUME NEW d \in Consumers, NEW i \in 1 .. Len(todo'[d])
        PROVE  /\ todo'[d][i] \notin stored
               /\ \A v \in Units \ offered' : todo'[d][i] \notin SpanSet(v)
               /\ d # c => todo'[d][i] \notin SpanSet(u)
    BY <1>1, <1>2, <2>1, <2>2, UnitsAreDisjoint DEF NotYetStored
  <2>4. ASSUME NEW d \in Consumers, NEW i \in 1 .. Len(todo'[d]),
               NEW e \in Consumers, NEW j \in 1 .. Len(todo'[e]), todo'[d][i] = todo'[e][j]
        PROVE  d = e /\ i = j
    <3>1. CASE d = c /\ e = c
      BY <2>1, <2>4, <3>1, UnitsAreDisjoint
    <3>2. CASE d = c /\ e # c
      BY <2>1, <2>2, <2>3, <2>4, <3>2
    <3>3. CASE d # c /\ e = c
      BY <2>1, <2>2, <2>3, <2>4, <3>3
    <3>4. CASE d # c /\ e # c
      BY <2>1, <2>4, <3>4 DEF NotYetStored
    <3>5. QED
      BY <3>1, <3>2, <3>3, <3>4
  <2>5. QED
    BY <1>1, <1>2, <2>3, <2>4 DEF NotYetStored
<1>5. QED
  BY <1>1, <1>3, <1>4

LEMMA StoreIsNew ==
  ASSUME IInv, NotYetStored, NEW c \in Consumers, StoreActive(c)
  PROVE  Head(todo[c]) \in Spans \ stored /\ NotYetStored'
<1>1. /\ offered' = offered /\ stored' = stored \cup {Head(todo[c])}
      /\ todo \in [Consumers -> Seq(Spans)] /\ todo[c] # << >>
      /\ todo' = [todo EXCEPT ![c] = Tail(todo[c])]
  BY DEF StoreActive, IInv, TypeOK
<1>2. PICK q \in Seq(Spans) : q = todo[c]
  BY <1>1
<1>3. /\ Len(q) \in Nat /\ Len(q) >= 1 /\ Head(q) = q[1] /\ q[1] \in Spans /\ Tail(q) \in Seq(Spans)
      /\ Len(Tail(q)) = Len(q) - 1 /\ \A i \in 1 .. Len(Tail(q)) : Tail(q)[i] = q[i + 1]
  BY <1>1, <1>2, HeadTailProperties, LenProperties
<1>4. 1 \in 1 .. Len(q) /\ \A i \in 1 .. Len(Tail(q)) : i + 1 \in 1 .. Len(q) /\ i + 1 # 1
  BY <1>3
<1>5. todo'[c] = Tail(q) /\ stored' = stored \cup {q[1]} /\ \A d \in Consumers \ {c} : todo'[d] = todo[d]
  BY <1>1, <1>2, <1>3
(* What is left to add was there before, one place further for c. *)
<1> DEFINE was(d, i) == IF d = c THEN i + 1 ELSE i
<1>6. ASSUME NEW d \in Consumers, NEW i \in 1 .. Len(todo'[d])
      PROVE  was(d, i) \in 1 .. Len(todo[d]) /\ todo'[d][i] = todo[d][was(d, i)]
             /\ (d = c => was(d, i) # 1)
  BY <1>2, <1>3, <1>4, <1>5
<1> HIDE DEF was
<1>7. ASSUME NEW d \in Consumers, NEW i \in 1 .. Len(todo'[d])
      PROVE  /\ todo'[d][i] \notin stored'
             /\ \A u \in Units \ offered' : todo'[d][i] \notin SpanSet(u)
  <2>1. todo[d][was(d, i)] # todo[c][1]
    BY <1>2, <1>4, <1>6 DEF NotYetStored
  <2>2. QED
    BY <1>1, <1>2, <1>5, <1>6, <2>1 DEF NotYetStored
<1>8. ASSUME NEW d \in Consumers, NEW i \in 1 .. Len(todo'[d]),
             NEW e \in Consumers, NEW j \in 1 .. Len(todo'[e]), todo'[d][i] = todo'[e][j]
      PROVE  d = e /\ i = j
  <2>1. d = e /\ was(d, i) = was(e, j)
    <3>1. was(d, i) \in 1 .. Len(todo[d]) /\ was(e, j) \in 1 .. Len(todo[e])
      BY <1>6
    <3>2. todo[d][was(d, i)] = todo[e][was(e, j)]
      BY <1>6, <1>8
    <3>3. QED
      BY <3>1, <3>2 DEF NotYetStored
  <2>2. i \in Int /\ j \in Int
    OBVIOUS
  <2>3. QED
    BY <2>1, <2>2 DEF was
<1>9. \A u \in Units \ offered : SpanSet(u) \cap (stored \cup {q[1]}) = {}
  BY <1>2, <1>4 DEF NotYetStored
<1>10. NotYetStored'
  BY <1>1, <1>5, <1>7, <1>8, <1>9 DEF NotYetStored
<1>11. QED
  BY <1>2, <1>3, <1>4, <1>10 DEF NotYetStored

(* The buffers of the flushes, when some of them end and none is written to. *)
LEMMA FlushesKept ==
  ASSUME BuffersApart, flushes' \subseteq flushes, \A f \in flushes \ flushes' : f.done,
         \A f \in flushes : mem'[f.buf.arr] = mem[f.buf.arr]
  PROVE  Closing' = Closing /\ BuffersApart'
<1>1. \A f \in flushes : {mem'[f.buf.arr][i] : i \in 1 .. f.buf.len} = Elements(f.buf)
  BY DEF Elements
<1>2. BuffersApart'
  BY <1>1 DEF BuffersApart, Elements
<1>3. ASSUME NEW x PROVE x \in Closing' <=> x \in Closing
  <2>1. x \in Closing' <=> \E f \in flushes' :
          ~f.done /\ x \in {mem'[f.buf.arr][i] : i \in 1 .. f.buf.len}
    BY DEF Closing, Elements
  <2>2. x \in Closing <=> \E f \in flushes : ~f.done /\ x \in Elements(f.buf)
    BY DEF Closing
  <2>3. QED
    BY <1>1, <2>1, <2>2
<1>4. QED
  BY <1>2, <1>3

(* A step that stutters. *)
LEMMA NothingMoves ==
  ASSUME IInv, Apart, BuffersApart, flushes' \subseteq flushes,
         \A f \in flushes \ flushes' : f.done,
         \A b \in Reachable : mem'[b] = mem[b],
         active' = active \/ (active.len = 0 /\ active'.len = 0),
         emitted' = emitted, stored' = stored
  PROVE  UNCHANGED Sampler!wvars /\ Apart' /\ BuffersApart'
<1>1. \A f \in flushes : mem'[f.buf.arr] = mem[f.buf.arr]
  BY DEF Reachable
<1>2. Closing' = Closing /\ BuffersApart'
  BY <1>1, FlushesKept
<1>3. Elements(active)' = Elements(active)
  <2>1. CASE active' = active
    BY <2>1 DEF Elements, Reachable
  <2>2. CASE active.len = 0 /\ active'.len = 0
    <3>1. 1 .. active.len = {} /\ 1 .. active'.len = {}
      BY <2>2
    <3>2. QED
      BY <3>1 DEF Elements
  <2>3. QED
    BY <2>1, <2>2
<1>4. Sent' = Sent
  BY DEF Sent
<1>5. QED
  BY <1>2, <1>3, <1>4 DEF Sampler!wvars, Apart

(* The new span is in no other place, and the spans it replaces are lost.    *)
LEMMA StoreTakes ==
  ASSUME ~IsFiniteSet(Arrays), IInv, Owned, Owned', Flow, NotYetStored, ~raced',
         NEW c \in Consumers, StoreActive(c)
  PROVE  Sampler!Next /\ Apart' /\ BuffersApart'
<1>1. PICK s \in Spans \ stored : s = Head(todo[c])
  BY StoreIsNew
<1>2. /\ loaded[c] = active /\ flushes' = flushes /\ emitted' = emitted
      /\ stored' = stored \cup {s}
  BY <1>1, OwnedStoreActive DEF StoreActive
<1>3. /\ \E a \in Arrays : Stores(a)
      /\ Elements(active)' = {s} \/ Elements(active)' = Elements(active) \cup {s}
  BY <1>1, <1>2, StoreActiveStores
<1>4. PICK a \in Arrays : Stores(a)
  BY <1>3
<1>5. \A f \in flushes : f.buf.arr # a /\ mem'[f.buf.arr] = mem[f.buf.arr]
  BY <1>2, <1>4 DEF Stores, Owned, Unshared, Reachable
<1>6. Closing' = Closing /\ BuffersApart'
  BY <1>2, <1>5, FlushesKept DEF Flow
<1>7. Sent' = Sent
  BY <1>2 DEF Sent
<1>8. Sampler!AtMost(Elements(active)', MaxK)
  <2>0. active' \in Header /\ active'.len <= MaxK
    BY <1>4 DEF Stores, Fits
  <2>1. PICK m, h : m = mem' /\ h = active' /\ h \in Header /\ h.len <= MaxK
    BY <2>0
  <2>2. h \in Header /\ h.len <= MaxK
    BY <2>1
  <2>3. PICK S : S = {m[h.arr][i] : i \in 1 .. h.len}
    OBVIOUS
  <2>4. Sampler!AtMost(S, MaxK)
    BY <2>2, <2>3, FewElements, Zenon
  <2>5. Elements(active)' = S
    BY <2>1, <2>3 DEF Elements
  <2>6. QED
    BY <2>4, <2>5
<1>9. /\ Elements(active) \subseteq stored /\ Closing \subseteq stored /\ Sent \subseteq stored
      /\ Elements(active) \cap Closing = {} /\ Elements(active) \cap Sent = {}
      /\ Closing \cap Sent = {}
  BY HeldAreStored DEF Flow, Apart
<1>10. Apart'
  BY <1>1, <1>2, <1>3, <1>6, <1>7, <1>9 DEF Apart
<1>11. CASE Elements(active)' = {s}
  <2>1. Sampler!Take(s, Elements(active))
    BY <1>1, <1>2, <1>6, <1>7, <1>8, <1>9, <1>11 DEF Sampler!Take
  <2>2. QED
    BY <1>6, <1>10, <2>1 DEF Sampler!Next
<1>12. CASE Elements(active)' = Elements(active) \cup {s}
  <2>1. Sampler!Take(s, {})
    BY <1>1, <1>2, <1>6, <1>7, <1>8, <1>9, <1>12 DEF Sampler!Take
  <2>2. QED
    BY <1>6, <1>10, <2>1 DEF Sampler!Next
<1>13. QED
  BY <1>3, <1>11, <1>12

(* The spans of the window are set aside, all of them.                       *)
LEMMA SwapCloses ==
  ASSUME ~IsFiniteSet(Arrays), IInv, Owned, Flow, ~raced', NEW c \in Consumers, Swap(c)
  PROVE  Sampler!Close /\ Apart' /\ BuffersApart' /\ active'.len = 0
<1>1. /\ loaded[c] = active /\ active.arr \in Reachable /\ active \in Header
      /\ emitted' = emitted /\ stored' = stored
  BY OwnedSwap DEF Swap, Goto, Reachable, IInv, TypeOK
<1>2. \A b \in Reachable : mem'[b] = mem[b]
  <2>1. PICK blank \in Seq(Spans \cup {Nil}) : blank = Blank(k)
    BY BlankIsArray, WindowAssumption DEF IInv, TypeOK
  <2>2. CASE mem' = [mem EXCEPT ![NewArray] = Blank(k)]
    BY <2>1, <2>2, Allocation
  <2>3. QED
    BY <2>2 DEF Swap
<1>3. active'.len = 0 /\ Elements(active)' = {}
  <2>1. active'.len = 0
    <3>1. (\E a \in Arrays : active' = [arr |-> a, len |-> 0])
            \/ active' = [arr |-> NewArray, len |-> 0]
      BY DEF Swap, Made
    <3>2. QED
      BY <3>1
  <2>2. 1 .. active'.len = {}
    BY <2>1
  <2>3. QED
    BY <2>1, <2>2 DEF Elements
<1>4. \A f \in flushes : {mem'[f.buf.arr][i] : i \in 1 .. f.buf.len} = Elements(f.buf)
  BY <1>2 DEF Elements, Reachable
<1>5. {mem'[active.arr][i] : i \in 1 .. active.len} = Elements(active)
  BY <1>1, <1>2 DEF Elements
<1>6. Sent' = Sent
  BY <1>1 DEF Sent
<1>7. Closing' = Closing \cup Elements(active) /\ BuffersApart'
  <2>1. CASE active.len = 0
    <3>1. flushes' = flushes
      BY <1>1, <2>1 DEF Swap
    <3>2. Closing' = Closing /\ BuffersApart'
      BY <1>2, <3>1, FlushesKept DEF Flow, Reachable
    <3>3. 1 .. active.len = {}
      BY <2>1
    <3>4. Elements(active) = {}
      BY <3>3 DEF Elements
    <3>5. QED
      BY <3>2, <3>4
  <2>2. CASE active.len # 0
    <3>1. PICK new : new.buf = active /\ ~new.done /\ flushes' = flushes \cup {new}
      BY <1>1, <2>2 DEF Swap
    <3>2. \A f \in flushes : ~f.done => Elements(f.buf) \cap Elements(active) = {}
      BY DEF Flow, Apart, Closing
    <3>3. ASSUME NEW x PROVE x \in Closing' <=> x \in Closing \cup Elements(active)
      <4>1. x \in Closing' <=> \E f \in flushes' :
              ~f.done /\ x \in {mem'[f.buf.arr][i] : i \in 1 .. f.buf.len}
        BY DEF Closing, Elements
      <4>2. x \in Closing <=> \E f \in flushes : ~f.done /\ x \in Elements(f.buf)
        BY DEF Closing
      <4>3. QED
        BY <1>4, <1>5, <3>1, <4>1, <4>2
    <3>4. BuffersApart'
      <4>1. ASSUME NEW f \in flushes', NEW g \in flushes', ~f.done, ~g.done, f # g
            PROVE  {mem'[f.buf.arr][i] : i \in 1 .. f.buf.len}
                     \cap {mem'[g.buf.arr][i] : i \in 1 .. g.buf.len} = {}
        <5>1. CASE f \in flushes /\ g \in flushes
          BY <1>4, <4>1, <5>1 DEF Flow, BuffersApart
        <5>2. CASE f \in flushes /\ g = new
          BY <1>4, <1>5, <3>1, <3>2, <4>1, <5>2
        <5>3. CASE f = new /\ g \in flushes
          BY <1>4, <1>5, <3>1, <3>2, <4>1, <5>3
        <5>4. QED
          BY <3>1, <4>1, <5>1, <5>2, <5>3
      <4>2. QED
        BY <4>1 DEF BuffersApart, Elements
    <3>5. QED
      BY <3>3, <3>4
  <2>3. QED
    BY <2>1, <2>2
<1>8. Apart'
  BY <1>1, <1>3, <1>6, <1>7 DEF Apart, Flow
<1>9. QED
  BY <1>1, <1>3, <1>6, <1>7, <1>8 DEF Sampler!Close

(* A flush sends some of its spans, each for the first time; the others are   *)
(* lost.                                                                     *)
LEMMA FlushSendFinishes ==
  ASSUME IInv, Flow, NEW f \in flushes, FlushSend(f)
  PROVE  Sampler!Next /\ Apart' /\ BuffersApart'
<1>1. PICK S \in SUBSET Elements(f.buf) :
        emitted' = [s \in Spans |-> IF s \in S THEN emitted[s] + 1 ELSE emitted[s]]
  BY DEF FlushSend
<1>2. PICK g : g = [f EXCEPT !.done = TRUE]
  OBVIOUS
<1>3. /\ g.done /\ flushes' = (flushes \ {f}) \cup {g} /\ ~f.done
      /\ active' = active /\ mem' = mem /\ stored' = stored
  BY <1>2 DEF FlushSend, shared, IInv, TypeOK
<1>4. Elements(active)' = Elements(active)
  BY <1>3 DEF Elements
<1>5. Elements(f.buf) \subseteq Closing /\ Closing \subseteq stored /\ stored \subseteq Spans
  BY <1>3, HeldAreStored DEF Closing, IInv, TypeOK
<1>6. Sent' = Sent \cup S
  BY <1>1, <1>5 DEF Sent, IInv, TypeOK
<1>7. Closing' = Closing \ Elements(f.buf)
  <2>1. \A h \in flushes \ {f} : ~h.done => Elements(h.buf) \cap Elements(f.buf) = {}
    BY <1>3 DEF Flow, BuffersApart
  <2>2. ASSUME NEW x PROVE x \in Closing' <=> x \in Closing /\ x \notin Elements(f.buf)
    <3>1. x \in Closing' <=> \E h \in flushes' : ~h.done /\ x \in Elements(h.buf)
      BY <1>3 DEF Closing, Elements
    <3>2. x \in Closing <=> \E h \in flushes : ~h.done /\ x \in Elements(h.buf)
      BY DEF Closing
    <3>3. QED
      BY <1>3, <2>1, <3>1, <3>2
  <2>3. QED
    BY <2>2
<1>8. BuffersApart'
  <2>1. \A h \in flushes' : ~h.done => h \in flushes
    BY <1>3
  <2>2. \A h \in flushes : {mem'[h.buf.arr][i] : i \in 1 .. h.buf.len} = Elements(h.buf)
    BY <1>3 DEF Elements
  <2>3. ASSUME NEW h \in flushes', NEW i \in flushes', ~h.done, ~i.done, h # i
        PROVE  {mem'[h.buf.arr][j] : j \in 1 .. h.buf.len}
                 \cap {mem'[i.buf.arr][j] : j \in 1 .. i.buf.len} = {}
    BY <2>1, <2>2, <2>3 DEF Flow, BuffersApart
  <2>4. QED
    BY <2>3 DEF BuffersApart, Elements
<1>9. Apart'
  BY <1>3, <1>4, <1>5, <1>6, <1>7 DEF Flow, Apart
<1>10. PICK T \in SUBSET (Closing \ S) : T = Elements(f.buf) \ S
  BY <1>5
<1>11. Sampler!Finish(S, T)
  BY <1>1, <1>3, <1>4, <1>5, <1>6, <1>7, <1>10 DEF Sampler!Finish, Flow, Apart
<1>12. QED
  BY <1>5, <1>8, <1>9, <1>10, <1>11 DEF Sampler!Next

LEMMA OthersStutter ==
  ASSUME ~IsFiniteSet(Arrays), IInv, Owned, Flow, ~raced', NEW c \in Consumers,
         \/ Begin(c) \/ LockAndLoad(c) \/ ResetCounters(c) \/ FreshBuffer(c)
         \/ LoadActive(c) \/ EndBatch(c) \/ \E u \in Units : Sample(c, u)
  PROVE  UNCHANGED Sampler!wvars /\ Apart' /\ BuffersApart'
<1>1. flushes' = flushes /\ emitted' = emitted /\ stored' = stored
  BY DEF Begin, LockAndLoad, ResetCounters, FreshBuffer, LoadActive, EndBatch, Sample, history
<1>2. CASE FreshBuffer(c)
  <2>1. PICK blank \in Seq(Spans \cup {Nil}) : blank = Blank(k)
    BY BlankIsArray, WindowAssumption DEF IInv, TypeOK
  <2>2. \A b \in Reachable : mem'[b] = mem[b]
    BY <1>2, <2>1, Allocation DEF FreshBuffer
  <2>3. active.len = 0 /\ active'.len = 0
    BY <1>2, OwnedFreshBuffer DEF FreshBuffer, Goto, Made, Flow, EmptyInReset
  <2>4. QED
    BY <1>1, <2>2, <2>3, NothingMoves DEF Flow
<1>3. CASE \/ Begin(c) \/ LockAndLoad(c) \/ ResetCounters(c)
           \/ LoadActive(c) \/ EndBatch(c) \/ \E u \in Units : Sample(c, u)
  <2>1. active' = active /\ mem' = mem
    BY <1>3 DEF Begin, LockAndLoad, ResetCounters, LoadActive, EndBatch, Sample, shared
  <2>2. QED
    BY <1>1, <2>1, NothingMoves DEF Flow
<1>4. QED
  BY <1>2, <1>3

(* Each step takes, closes, finishes or stutters, and keeps spans apart.     *)
LEMMA SamplerStep ==
  ASSUME ~IsFiniteSet(Arrays), IInv, Owned, Owned', Flow, NotYetStored, ~raced', [Next]_vars
  PROVE  [Sampler!Next]_Sampler!wvars /\ Apart' /\ BuffersApart'
<1>1. ASSUME NEW c \in Consumers, Consume(c)
      PROVE  [Sampler!Next]_Sampler!wvars /\ Apart' /\ BuffersApart'
  <2>1. CASE Swap(c)
    BY <2>1, SwapCloses DEF Sampler!Next
  <2>2. CASE StoreActive(c)
    BY <2>2, StoreTakes
  <2>3. CASE ~Swap(c) /\ ~StoreActive(c)
    BY <1>1, <2>3, OthersStutter DEF Consume
  <2>4. QED
    BY <2>1, <2>2, <2>3
<1>2. ASSUME NEW f \in flushes, FlushSend(f)
      PROVE  Sampler!Next /\ Apart' /\ BuffersApart'
  BY <1>2, FlushSendFinishes
<1>3. ASSUME NEW f \in flushes, FlushDone(f)
      PROVE  UNCHANGED Sampler!wvars /\ Apart' /\ BuffersApart'
  <2>1. /\ f.done /\ flushes' = flushes \ {f}
        /\ active' = active /\ mem' = mem /\ emitted' = emitted /\ stored' = stored
    BY <1>3 DEF FlushDone, history
  <2>2. QED
    BY <2>1, NothingMoves DEF Flow
<1>4. CASE UNCHANGED <<active, mem, flushes, emitted, stored>>
  BY <1>4, NothingMoves DEF Flow
<1>5. QED
  BY <1>1, <1>2, <1>3, <1>4
     DEF Next, SetK, Tick, CheckpointLock, CheckpointEnd, vars, shared, history

(* In a reset that nobody overtook the active buffer is the one it stored.   *)
LEMMA ResetStaysEmpty ==
  ASSUME ~IsFiniteSet(Arrays), IInv, Owned, Flow, ~raced', [Next]_vars
  PROVE  EmptyInReset'
<1>1. ASSUME NEW c \in Consumers, Swap(c) \/ FreshBuffer(c) \/ StoreActive(c)
      PROVE  EmptyInReset'
  <2>1. /\ \A d \in Consumers \ {c} : pc'[d] = pc[d]
        /\ pc'[c] \in {"counters", "fresh"} => active'.len = 0
    <3>1. CASE Swap(c)
      BY <3>1, SwapCloses DEF Swap, Goto, IInv, TypeOK
    <3>2. CASE FreshBuffer(c) \/ StoreActive(c)
      BY <3>2 DEF FreshBuffer, StoreActive, Goto, IInv, TypeOK
    <3>3. QED
      BY <1>1, <3>1, <3>2
  <2>2. Overtake(c)
    BY <1>1 DEF Swap, FreshBuffer, StoreActive
  <2>3. \A d \in Consumers \ {c} : Watches(d) => d \in stale'
    BY <2>2, OvertakeMarks DEF IInv
  <2>4. \A d \in Consumers \ stale' : pc'[d] \in {"counters", "fresh"} => d = c
    BY <2>1, <2>3 DEF Watches
  <2>5. QED
    BY <2>1, <2>4 DEF EmptyInReset
<1>2. ASSUME NEW c \in Consumers,
             \/ Begin(c) \/ LockAndLoad(c) \/ ResetCounters(c) \/ LoadActive(c) \/ EndBatch(c)
             \/ \E u \in Units : Sample(c, u)
      PROVE  EmptyInReset'
  <2>1. active' = active /\ stale' = stale
    BY <1>2 DEF Begin, LockAndLoad, ResetCounters, LoadActive, EndBatch, Sample, shared, history, races
  <2>2. /\ \A d \in Consumers \ {c} : pc'[d] = pc[d]
        /\ pc'[c] \in {"counters", "fresh"} => pc[c] \in {"counters", "fresh"}
    BY <1>2 DEF Begin, LockAndLoad, ResetCounters, LoadActive, EndBatch, Sample, Goto, IInv, TypeOK
  <2>3. QED
    BY <2>1, <2>2 DEF EmptyInReset, Flow
<1>3. CASE UNCHANGED <<active, pc, stale>>
  BY <1>3 DEF EmptyInReset, Flow
<1>4. QED
  BY <1>1, <1>2, <1>3
     DEF Next, Consume, FlushSend, FlushDone, CheckpointLock, CheckpointEnd, SetK, Tick, vars,
         shared, local, history, races

LEMMA NotYetStoredNext == IInv /\ NotYetStored /\ [Next]_vars => NotYetStored'
<1> SUFFICES ASSUME IInv, NotYetStored, [Next]_vars PROVE NotYetStored'
  OBVIOUS
<1>1. ASSUME NEW c \in Consumers, StoreActive(c) \/ \E u \in Units : Sample(c, u)
      PROVE  NotYetStored'
  BY <1>1, SampleOffers, StoreIsNew
<1>2. CASE UNCHANGED <<todo, stored, offered>>
  BY <1>2 DEF NotYetStored
<1>3. QED
  BY <1>1, <1>2 DEF Next, Consume, Begin, LockAndLoad, Swap, ResetCounters, FreshBuffer,
                    LoadActive, EndBatch, FlushSend, FlushDone, CheckpointLock, CheckpointEnd,
                    SetK, Tick, vars, local, history

(* What an earlier run had in its reservoir is not in a unit of this one.    *)
LEMMA FlowInit == IInv /\ Init => Flow /\ NotYetStored /\ Sampler!Init
<1> SUFFICES ASSUME IInv, Init PROVE Flow /\ NotYetStored /\ Sampler!Init
  OBVIOUS
<1>1. /\ flushes = {} /\ emitted = [s \in Spans |-> 0]
      /\ todo = [c \in Consumers |-> << >>] /\ pc = [c \in Consumers |-> "idle"]
  BY DEF Init
<1>2. Closing = {} /\ Sent = {}
  BY <1>1 DEF Closing, Sent
<1>3. PICK first \in Arrays :
        Fresh(first) \/ \E cp \in Checkpoints : Restored(first, cp)
  <2>1. active.arr \in Arrays
    BY DEF IInv, TypeOK, Header
  <2>2. PICK a : Fresh(a) \/ \E cp \in Checkpoints : Restored(a, cp)
    BY Zenon DEF Init
  <2>3. active.arr = a
    BY <2>2 DEF Fresh, Restored
  <2>4. QED
    BY <2>1, <2>2, <2>3
<1>4. Elements(active) = stored /\ \A u \in Units : SpanSet(u) \cap stored = {}
  <2>1. CASE Fresh(first)
    <3>1. active.len = 0 /\ stored = {}
      BY <2>1 DEF Fresh
    <3>2. 1 .. active.len = {}
      BY <3>1
    <3>3. QED
      BY <3>1, <3>2 DEF Elements
  <2>2. ASSUME NEW cp \in Checkpoints, Restored(first, cp)
        PROVE  Elements(active) = stored /\ \A u \in Units : SpanSet(u) \cap stored = {}
    <3>1. /\ active.arr = first /\ active.len = Len(cp.spans) /\ mem[first] = cp.spans
          /\ stored = {cp.spans[i] : i \in 1 .. Len(cp.spans)}
      BY <2>2 DEF Restored
    <3>2. Elements(active) = stored
      BY <3>1 DEF Elements
    <3>3. cp.spans \in Seq(Spans) /\ \A u \in Units : SpansOf[u] \in Seq(Spans)
      BY WindowAssumption
    <3>4. DOMAIN cp.spans = 1 .. Len(cp.spans) /\ \A u \in Units : DOMAIN SpansOf[u] = 1 .. Len(SpansOf[u])
      BY <3>3
    <3>5. ASSUME NEW u \in Units, NEW i \in 1 .. Len(cp.spans), NEW j \in 1 .. Len(SpansOf[u])
          PROVE  cp.spans[i] # SpansOf[u][j]
      BY <3>4, WindowAssumption
    <3>6. QED
      BY <3>1, <3>2, <3>5 DEF SpanSet
  <2>3. QED
    BY <1>3, <2>1, <2>2
<1>5. NotYetStored
  <2>1. \A c \in Consumers : 1 .. Len(todo[c]) = {}
    BY <1>1
  <2>2. QED
    BY <1>4, <2>1 DEF NotYetStored
<1>6. Sampler!AtMost(Elements(active), MaxK)
  <2>1. active \in Header /\ active.len <= MaxK
    BY DEF IInv, TypeOK, HeadersFit, Headers, Fits
  <2>2. PICK m, h : m = mem /\ h = active /\ h \in Header /\ h.len <= MaxK
    BY <2>1
  <2>3. h \in Header /\ h.len <= MaxK
    BY <2>2
  <2>4. PICK S : S = {m[h.arr][i] : i \in 1 .. h.len}
    OBVIOUS
  <2>5. Sampler!AtMost(S, MaxK)
    BY <2>3, <2>4, FewElements, Zenon
  <2>6. Elements(active) = S
    BY <2>2, <2>4 DEF Elements
  <2>7. QED
    BY <2>5, <2>6
<1>7. Elements(active) \subseteq Spans
  BY <1>4 DEF IInv, TypeOK
<1>8. QED
  BY <1>1, <1>2, <1>4, <1>5, <1>6, <1>7 DEF Flow, Apart, BuffersApart, EmptyInReset, Sampler!Init

(* ConsumeTraces, addSpanToReservoir, flush, loadCheckpoint: however many     *)
(* consumers there are, until a store undoes another one the slices, the pool *)
(* and the goroutines of flush do what the reservoir promises.               *)
THEOREM ImplementsSampler ==
  ASSUME ~IsFiniteSet(Arrays) PROVE Spec => SamplerSpec
<1> DEFINE Good == NotYetStored /\ (raced \/ (Owned /\ Flow))
<1>1. Init => Good /\ Sampler!Init
  BY InitInv, OwnedInit, FlowInit
<1>2. IInv /\ Good /\ [Next]_vars => Good' /\ [Sampler!Next \/ raced']_Sampler!wvars
  <2> SUFFICES ASSUME IInv, Good, [Next]_vars
               PROVE  Good' /\ [Sampler!Next \/ raced']_Sampler!wvars
    OBVIOUS
  <2>1. NotYetStored'
    BY NotYetStoredNext
  <2>2. CASE raced'
    BY <2>1, <2>2
  <2>3. CASE ~raced'
    <3>1. Owned /\ Flow
      BY <2>3, RacedForEver
    <3>2. Owned'
      BY <2>3, <3>1, OwnedNext
    <3>3. [Sampler!Next]_Sampler!wvars /\ Apart' /\ BuffersApart'
      BY <2>3, <3>1, <3>2, SamplerStep
    <3>4. EmptyInReset'
      BY <2>3, <3>1, ResetStaysEmpty
    <3>5. QED
      BY <2>1, <3>2, <3>3, <3>4 DEF Flow
  <2>4. QED
    BY <2>2, <2>3
<1> HIDE DEF Good
<1>3. QED
  BY <1>1, <1>2, Invariance, PTL DEF Spec, SamplerSpec
=============================================================================

------------------------ MODULE TopNProcFilter_proofs ------------------------
(***************************************************************************)
(* Proofs about topnprocfilter: its filter (TopNFilter), for any number of *)
(* processes, batches and values of n, and its reports about itself        *)
(* (MetricReporter), for channels and batches of any size.  The two share  *)
(* no state.                                                               *)
(***************************************************************************)
EXTENDS TopNFilter, MetricReporter, FiniteSetTheorems, FunctionTheorems,
        SequenceTheorems, TLAPS

-----------------------------------------------------------------------------
(* The filter.  A batch works with copies of n and of the table, and with   *)
(* a cache that others change.  While nobody disturbs it its copies are up  *)
(* to date, and once it has invalidated the cache only it can fill it.      *)

(* What is asked of the PID cache. *)
Right ==
  Cardinality(Live) > n =>
    /\ topNPIDCache \subseteq Live /\ Cardinality(topNPIDCache) <= 2 * n
    /\ \A p \in Live :
         /\ Rivals(p, CPU) < n \/ Rivals(p, Memory) < n => p \in topNPIDCache
         /\ p \in topNPIDCache => Beaten(p, CPU) < n \/ Beaten(p, Memory) < n

(* The copies of n and of what was visited of the table are up to date.     *)
Copied(b) ==
  /\ limit[b] = n
  /\ DOMAIN seen[b] = Live \ todo[b]
  /\ \A p \in DOMAIN seen[b] : seen[b][p] = processes[p].usage

(* What an undisturbed batch with measurements may rely on. *)
BatchSound(b) ==
  ~disturbed[b] /\ changed[b] =>
    /\ phase[b] = "look" => ~topNCacheValid
    /\ phase[b] \in {"range", "publish"} => Copied(b)
    /\ phase[b] = "publish" => todo[b] = {}
    /\ phase[b] = "filter" => Right

FilterInv == FilterTypeOK /\ \A b \in Batches : BatchSound(b)

-----------------------------------------------------------------------------
(* Functions on processes *)

LEMMA PartialIs ==
  ASSUME NEW S, NEW f
  PROVE  f \in Partial(S) <=> \E D \in SUBSET PIDs : f \in [D -> S]
  BY DEF Partial

LEMMA PartialHas ==
  ASSUME NEW S, NEW f \in Partial(S)
  PROVE  DOMAIN f \subseteq PIDs /\ f \in [DOMAIN f -> S]
  BY DEF Partial

LEMMA EmptyPartial ==
  ASSUME NEW S
  PROVE  <<>> \in Partial(S) /\ DOMAIN <<>> = {}
<1>1. <<>> \in [{} -> S] /\ DOMAIN <<>> = {}
  OBVIOUS
<1>2. QED
  BY <1>1, PartialIs

LEMMA RestrictPartial ==
  ASSUME NEW S, NEW f \in Partial(S), NEW p
  PROVE  Restrict(f, DOMAIN f \ {p}) \in Partial(S)
<1>1. Restrict(f, DOMAIN f \ {p}) \in [DOMAIN f \ {p} -> S]
  BY PartialHas DEF Restrict
<1>2. DOMAIN f \ {p} \in SUBSET PIDs
  BY PartialHas
<1>3. QED
  BY <1>1, <1>2, PartialIs, Zenon

LEMMA PutPartial ==
  ASSUME NEW S, NEW f \in Partial(S), NEW p \in PIDs, NEW e \in S
  PROVE  /\ Put(f, p, e) \in Partial(S)
         /\ DOMAIN Put(f, p, e) = DOMAIN f \cup {p} /\ Put(f, p, e)[p] = e
         /\ \A q \in DOMAIN f \ {p} : Put(f, p, e)[q] = f[q]
<1>1. Put(f, p, e) \in [DOMAIN f \cup {p} -> S]
  BY PartialHas DEF Put
<1>2. DOMAIN f \cup {p} \in SUBSET PIDs
  BY PartialHas
<1>3. QED
  BY <1>1, <1>2, PartialIs DEF Put

LEMMA FilterInitInv == FilterInit => FilterInv
<1> SUFFICES ASSUME FilterInit PROVE FilterInv
  OBVIOUS
<1>1. StateTyped
  BY EmptyPartial, TopNAssumption DEF FilterInit, StateTyped
<1>2. \A b \in Batches : SeenTyped(b) /\ BatchSound(b)
  BY DEF FilterInit, SeenTyped, BatchSound
<1>3. QED
  BY <1>1, <1>2 DEF FilterInv, FilterTypeOK

(* The steps of a batch, and the others. *)
BatchStep(b) ==
  \/ \E in \in Inputs : Begin(b, in)
  \/ \E p \in PIDs : StoreAbove(b, p) \/ LoadLast(b, p) \/ StoreBelow(b, p) \/ Visit(b, p)
  \/ Updated(b) \/ CacheHit(b) \/ CacheMiss(b) \/ Validate(b) \/ Publish(b) \/ End(b)

OtherStep ==
  \/ \E value \in Ns : SetTopN(value)
  \/ \E who \in {"cleaner", "tuner"} : Invalidate(who)
  \/ CollectIdle
  \/ \E p \in PIDs : Delete(p) \/ GrowsIdle(p)

LEMMA FilterSteps ==
  FilterNext <=> (\E b \in Batches : BatchStep(b)) \/ OtherStep
  BY Zenon DEF FilterNext, BatchStep, OtherStep

(* Nothing of another batch is touched.  *)
Alone(b) ==
  \A c \in Batches \ {b} :
    UNCHANGED <<phase[c], input[c], changed[c], todo[c], limit[c], seen[c]>>

LEMMA BatchStepAlone ==
  ASSUME StateTyped, NEW b \in Batches, BatchStep(b)
  PROVE  Alone(b)
  BY DEF StateTyped, BatchStep, Alone, Begin, StoreAbove, LoadLast, StoreBelow, Visit, Updated,
         CacheHit, CacheMiss, Validate, Publish, End, table, progress, others

LEMMA OtherTypes ==
  ASSUME StateTyped, OtherStep
  PROVE  StateTyped'
<1> USE TopNAssumption DEF StateTyped
<1>1. CASE \E value \in Ns : SetTopN(value)
  BY <1>1 DEF SetTopN, AtLeastOne, DisturbsAll, progress
<1>2. CASE \E who \in {"cleaner", "tuner"} : Invalidate(who)
  BY <1>2 DEF Invalidate, DisturbsAll, progress
<1>3. CASE CollectIdle
  BY <1>3 DEF CollectIdle, Live, table, progress
<1>4. CASE \E p \in PIDs : Delete(p)
  BY <1>4 DEF Delete, DisturbsAll, progress
<1>5. CASE \E p \in PIDs : GrowsIdle(p)
  <2>1. PICK p \in PIDs : GrowsIdle(p)
    BY <1>5
  <2>2. processes[p] \in Entries
    BY <2>1 DEF GrowsIdle, Live
  <2>3. processes' \in [PIDs -> Entries \cup {Absent}]
    BY <2>1, <2>2 DEF GrowsIdle, Entries
  <2>4. QED
    BY <2>1, <2>3 DEF GrowsIdle, progress, others
<1>6. QED
  BY <1>1, <1>2, <1>3, <1>4, <1>5 DEF OtherStep

LEMMA DisturbedTyped ==
  ASSUME NEW b, disturbed \in [Batches -> BOOLEAN], DisturbsOthers(b)
  PROVE  disturbed' \in [Batches -> BOOLEAN]
  BY DEF DisturbsOthers

LEMMA PartialAt ==
  ASSUME NEW S, NEW f \in Partial(S), NEW p \in DOMAIN f
  PROVE  f[p] \in S
  BY PartialHas

LEMMA BatchTypes ==
  ASSUME FilterTypeOK, NEW b \in Batches, BatchStep(b)
  PROVE  StateTyped' /\ SeenTyped(b)'
<1> USE DEF StateTyped
<1>1. /\ StateTyped /\ SeenTyped(b) /\ input[b] \in Partial(Usages)
  BY DEF FilterTypeOK
<1>2. \A S : <<>> \in Partial(S)
  BY EmptyPartial
<1>3. CASE \E in \in Inputs : Begin(b, in)
  <2>1. PICK in \in Inputs : Begin(b, in)
    BY <1>3
  <2>2. in \in Partial(Usages)
    BY DEF Inputs, Partial
  <2>3. QED
    BY <1>1, <2>1, <2>2 DEF Begin, SeenTyped, table, others
<1>4. ASSUME NEW p \in PIDs, StoreAbove(b, p)
      PROVE  StateTyped' /\ SeenTyped(b)'
  <2>1. input[b][p] \in Usages /\ Restrict(input[b], DOMAIN input[b] \ {p}) \in Partial(Usages)
    <3>1. PICK f \in Partial(Usages) : f = input[b]
      BY <1>1
    <3>2. p \in DOMAIN f
      BY <1>4, <3>1 DEF StoreAbove
    <3>3. f[p] \in Usages /\ Restrict(f, DOMAIN f \ {p}) \in Partial(Usages)
      BY <3>2, PartialAt, RestrictPartial, Zenon
    <3>4. QED
      BY <3>1, <3>3, Zenon
  <2>2. processes' \in [PIDs -> Entries \cup {Absent}]
    BY <1>1, <1>4, <2>1 DEF StoreAbove, Entries
  <2>3. input' \in [Batches -> Partial(Usages)]
    BY <1>1, <1>4, <2>1 DEF StoreAbove
  <2>4. disturbed' \in [Batches -> BOOLEAN] /\ changed' \in [Batches -> BOOLEAN]
    BY <1>1, <1>4, DisturbedTyped DEF StoreAbove
  <2>5. QED
    BY <1>1, <1>4, <2>2, <2>3, <2>4 DEF StoreAbove, SeenTyped, others
<1>5. ASSUME NEW p \in PIDs, LoadLast(b, p)
      PROVE  StateTyped' /\ SeenTyped(b)'
  <2> DEFINE e == [usage |-> input[b][p], idle |-> processes[p] = Absent \/ processes[p].idle]
  <2>1. input[b][p] \in Usages
    BY <1>1, <1>5, PartialHas DEF LoadLast
  <2>2. (processes[p] = Absent \/ processes[p].idle) \in BOOLEAN
    BY <1>1 DEF Entries
  <2>3. e \in Entries
    BY <2>1, <2>2 DEF Entries
  <2>4. Put(<<>>, p, e) \in Partial(Entries)
    BY <1>2, <2>3, PutPartial
  <2>5. seen' = [seen EXCEPT ![b] = Put(<<>>, p, e)] /\ phase' = [phase EXCEPT ![b] = "store"]
    BY <1>5 DEF LoadLast
  <2> HIDE DEF e
  <2>6. DOMAIN seen' = Batches /\ SeenTyped(b)'
    BY <1>1, <2>4, <2>5 DEF SeenTyped
  <2>7. QED
    BY <1>1, <1>5, <2>5, <2>6 DEF LoadLast, table, others
<1>6. ASSUME NEW p \in PIDs, StoreBelow(b, p)
      PROVE  StateTyped' /\ SeenTyped(b)'
  <2>1. seen[b][p] \in Entries /\ Restrict(input[b], DOMAIN input[b] \ {p}) \in Partial(Usages)
    <3>1. PICK f \in Partial(Usages) : f = input[b]
      BY <1>1
    <3>2. PICK g \in Partial(Entries) : g = seen[b]
      BY <1>1, <1>6 DEF StoreBelow, SeenTyped
    <3>3. p \in DOMAIN g
      BY <1>6, <3>2 DEF StoreBelow
    <3>4. g[p] \in Entries /\ Restrict(f, DOMAIN f \ {p}) \in Partial(Usages)
      BY <3>3, PartialAt, RestrictPartial, Zenon
    <3>5. QED
      BY <3>1, <3>2, <3>4, Zenon
  <2>2. processes' \in [PIDs -> Entries \cup {Absent}]
    BY <1>1, <1>6, <2>1 DEF StoreBelow
  <2>3. input' \in [Batches -> Partial(Usages)]
    BY <1>1, <1>6, <2>1 DEF StoreBelow
  <2>4. disturbed' \in [Batches -> BOOLEAN] /\ changed' \in [Batches -> BOOLEAN]
    BY <1>1, <1>6, DisturbedTyped DEF StoreBelow
  <2>5. DOMAIN seen' = Batches /\ SeenTyped(b)'
    BY <1>1, <1>2, <1>6 DEF StoreBelow, SeenTyped
  <2>6. QED
    BY <1>1, <1>6, <2>2, <2>3, <2>4, <2>5 DEF StoreBelow, others
<1>7. ASSUME NEW p \in PIDs, Visit(b, p)
      PROVE  StateTyped' /\ SeenTyped(b)'
  <2>1. seen[b] \in Partial(Usages) /\ processes[p] # Absent => processes[p].usage \in Usages
    BY <1>1, <1>7 DEF Visit, SeenTyped, Entries
  <2>2. processes[p] # Absent => Put(seen[b], p, processes[p].usage) \in Partial(Usages)
    BY <1>1, <1>7, <2>1, PutPartial DEF Visit, SeenTyped, Entries
  <2>3. DOMAIN seen' = Batches /\ SeenTyped(b)'
    BY <1>1, <1>7, <2>1, <2>2 DEF Visit, SeenTyped
  <2>4. QED
    BY <1>1, <1>7, <2>3 DEF Visit, table, others
<1>8. CASE Updated(b)
  <2>1. disturbed' \in [Batches -> BOOLEAN] /\ topNCacheValid' \in BOOLEAN
    BY <1>1, <1>8, DisturbedTyped DEF Updated
  <2>2. QED
    BY <1>1, <1>8, <2>1 DEF Updated, SeenTyped, others
<1>9. CASE CacheHit(b) \/ CacheMiss(b)
  <2>1. phase[b] = "look" /\ phase' = [phase EXCEPT ![b] = phase'[b]]
          /\ phase'[b] \in {"filter", "range"} /\ seen' = seen
    BY <1>1, <1>9 DEF CacheHit, CacheMiss
  <2>2. SeenTyped(b)'
    BY <1>1, <1>2, <2>1 DEF SeenTyped
  <2>3. CASE CacheHit(b)
    BY <1>1, <2>2, <2>3 DEF CacheHit, table, others
  <2>4. CASE CacheMiss(b)
    BY <1>1, <2>2, <2>4 DEF CacheMiss, table, others
  <2>5. QED
    BY <1>9, <2>3, <2>4
<1>10. CASE Validate(b)
  <2>1. disturbed' \in [Batches -> BOOLEAN]
    BY <1>1, <1>10, DisturbedTyped DEF Validate
  <2>2. DOMAIN seen' = Batches /\ SeenTyped(b)'
    BY <1>1, <1>2, <1>10 DEF Validate, SeenTyped
  <2>3. QED
    BY <1>1, <1>10, <2>1, <2>2 DEF Validate, others
<1>11. CASE Publish(b)
  <2>1. disturbed' \in [Batches -> BOOLEAN]
    BY <1>1, <1>11, DisturbedTyped DEF Publish
  <2>2. DOMAIN seen' = Batches /\ SeenTyped(b)'
    BY <1>1, <1>2, <1>11 DEF Publish, SeenTyped
  <2>3. DOMAIN seen[b] \subseteq PIDs
    BY <1>1, <1>11, PartialHas DEF Publish, SeenTyped
  <2>4. topNPIDCache' \subseteq PIDs
    BY <1>11, <2>3 DEF Publish, TopN, kSubset
  <2>5. QED
    BY <1>1, <1>11, <2>1, <2>2, <2>4 DEF Publish, others
<1>12. CASE End(b)
  BY <1>1, <1>12 DEF End, SeenTyped, table, others
<1>13. QED
  BY <1>3, <1>4, <1>5, <1>6, <1>7, <1>8, <1>9, <1>10, <1>11, <1>12, Zenon DEF BatchStep

LEMMA NextFilterTypes == FilterTypeOK /\ [FilterNext]_filterVars => FilterTypeOK'
<1> SUFFICES ASSUME FilterTypeOK, [FilterNext]_filterVars PROVE FilterTypeOK'
  OBVIOUS
<1>1. CASE \E b \in Batches : BatchStep(b)
  <2>1. PICK b \in Batches : BatchStep(b)
    BY <1>1
  <2>2. StateTyped' /\ SeenTyped(b)' /\ Alone(b)
    BY <2>1, BatchTypes, BatchStepAlone DEF FilterTypeOK
  <2>3. \A c \in Batches \ {b} : SeenTyped(c)'
    BY <2>2 DEF FilterTypeOK, Alone, SeenTyped
  <2>4. QED
    BY <2>2, <2>3 DEF FilterTypeOK
<1>2. CASE OtherStep
  <2>1. UNCHANGED <<phase, seen>>
    BY <1>2 DEF OtherStep, SetTopN, Invalidate, CollectIdle, Delete, GrowsIdle, progress
  <2>2. StateTyped'
    BY <1>2, OtherTypes DEF FilterTypeOK
  <2>3. QED
    BY <2>1, <2>2 DEF FilterTypeOK, SeenTyped
<1>3. CASE UNCHANGED filterVars
  BY <1>3 DEF FilterTypeOK, StateTyped, SeenTyped, filterVars, table, progress, others
<1>4. QED
  BY <1>1, <1>2, <1>3, FilterSteps

-----------------------------------------------------------------------------
(* What is among the k greatest *)

(* Fewer than k rivals, and a process is among them whatever the order of    *)
(* equals; one that is among them is beaten by fewer than k.                 *)
LEMMA TopNKeeps ==
  ASSUME NEW D, IsFiniteSet(D), NEW u \in [D -> Usages], NEW k \in Nat,
         NEW metric \in {CPU, Memory}, NEW T \in TopN(k, u, metric)
  PROVE  /\ T \subseteq D /\ IsFiniteSet(T) /\ Cardinality(T) = k
         /\ \A p \in D :
              Cardinality({q \in D \ {p} : u[q][metric] >= u[p][metric]}) < k => p \in T
         /\ \A p \in T : Cardinality({q \in D : u[q][metric] > u[p][metric]}) < k
<1>1. /\ T \subseteq D /\ Cardinality(T) = k
      /\ \A p \in T, q \in D \ T : u[p][metric] >= u[q][metric]
  BY DEF TopN, kSubset
<1>2. IsFiniteSet(T)
  BY <1>1, FS_Subset
<1>3. \A p \in D : u[p][metric] \in Nat
  BY TopNAssumption DEF CPU, Memory
<1>4. ASSUME NEW p \in D, p \notin T,
             Cardinality({q \in D \ {p} : u[q][metric] >= u[p][metric]}) < k
      PROVE  FALSE
  <2> DEFINE R == {q \in D \ {p} : u[q][metric] >= u[p][metric]}
  <2>1. T \in SUBSET R
    BY <1>1, <1>4
  <2>2. IsFiniteSet(R)
    BY FS_Subset
  <2>3. Cardinality(T) <= Cardinality(R)
    BY <2>1, <2>2, FS_Subset
  <2>4. Cardinality(R) \in Nat
    BY <2>2, FS_CardinalityType
  <2>5. QED
    BY <1>1, <1>4, <2>3, <2>4
<1>5. ASSUME NEW p \in T
      PROVE  Cardinality({q \in D : u[q][metric] > u[p][metric]}) < k
  <2> DEFINE R == {q \in D : u[q][metric] > u[p][metric]}
  <2>1. p \in D
    BY <1>1
  <2>2. ASSUME NEW q \in R PROVE q \in T \ {p}
    <3>1. u[q][metric] \in Nat /\ u[p][metric] \in Nat /\ u[q][metric] > u[p][metric]
      BY <1>3, <2>1
    <3>2. QED
      BY <1>1, <3>1
  <2>3. IsFiniteSet(T \ {p}) /\ Cardinality(T \ {p}) = k - 1
    BY <1>1, <1>2, FS_RemoveElement
  <2>4. R \in SUBSET (T \ {p})
    BY <2>2
  <2> HIDE DEF R
  <2>5. Cardinality(R) <= Cardinality(T \ {p}) /\ Cardinality(R) \in Nat
    BY <2>3, <2>4, FS_Subset, FS_CardinalityType
  <2>6. Cardinality(R) < k
    BY <2>3, <2>5
  <2>7. QED
    BY <2>6 DEF R
<1>6. QED
  BY <1>1, <1>2, <1>4, <1>5

-----------------------------------------------------------------------------
(* What an undisturbed batch finds *)

(* Nothing that a batch could tell changes in shared state. *)
SharedKept ==
  /\ UNCHANGED <<n, topNCacheValid, topNPIDCache>> /\ Live' = Live
  /\ \A p \in Live : processes'[p].usage = processes[p].usage

LEMMA RightKept ==
  ASSUME SharedKept, Right
  PROVE  Right'
<1>1. ASSUME NEW p \in Live, NEW metric
      PROVE  /\ Rivals(p, metric)' = Rivals(p, metric)
             /\ Beaten(p, metric)' = Beaten(p, metric)
  <2>1. {q \in Live \ {p} : processes[q].usage[metric] >= processes[p].usage[metric]}'
          = {q \in Live \ {p} : processes[q].usage[metric] >= processes[p].usage[metric]}
    BY <1>1 DEF SharedKept
  <2>2. {q \in Live : processes[q].usage[metric] > processes[p].usage[metric]}'
          = {q \in Live : processes[q].usage[metric] > processes[p].usage[metric]}
    BY <1>1 DEF SharedKept
  <2>3. QED
    BY <2>1, <2>2 DEF Rivals, Beaten
<1>2. QED
  BY <1>1 DEF Right, SharedKept

LEMMA SoundKept ==
  ASSUME NEW c, BatchSound(c),
         UNCHANGED <<phase[c], changed[c], todo[c], limit[c], seen[c]>>,
         \/ disturbed'[c] \/ phase[c] = "idle"
         \/ SharedKept /\ disturbed'[c] = disturbed[c]
  PROVE  BatchSound(c)'
<1>1. CASE disturbed'[c] \/ phase[c] = "idle"
  BY <1>1 DEF BatchSound
<1>2. CASE SharedKept /\ disturbed'[c] = disturbed[c]
  <2>1. Copied(c) => Copied(c)'
    BY <1>2 DEF Copied, SharedKept
  <2>2. Right => Right'
    BY <1>2, RightKept
  <2>3. topNCacheValid' = topNCacheValid
    BY <1>2 DEF SharedKept
  <2>4. QED
    BY <1>2, <2>1, <2>2, <2>3 DEF BatchSound
<1>3. QED
  BY <1>1, <1>2

(* A step of the cleaner, of the tuner, or of time.  *)
LEMMA OtherKeepsSound ==
  ASSUME FilterTypeOK, OtherStep, NEW c \in Batches, BatchSound(c)
  PROVE  BatchSound(c)'
<1> USE DEF FilterTypeOK, StateTyped
<1>1. UNCHANGED <<phase[c], changed[c], todo[c], limit[c], seen[c]>>
  BY DEF OtherStep, SetTopN, Invalidate, CollectIdle, Delete, GrowsIdle, progress
<1>2. CASE \/ \E value \in Ns : SetTopN(value)
           \/ \E who \in {"cleaner", "tuner"} : Invalidate(who)
           \/ \E p \in PIDs : Delete(p)
  <2>1. disturbed'[c] = (phase[c] # "idle")
    BY <1>2 DEF SetTopN, Invalidate, Delete, DisturbsAll
  <2>2. QED
    BY <1>1, <2>1, SoundKept
<1>3. CASE CollectIdle
  <2>1. SharedKept /\ disturbed'[c] = disturbed[c]
    BY <1>3 DEF CollectIdle, SharedKept, Live, table
  <2>2. QED
    BY <1>1, <2>1, SoundKept
<1>4. CASE \E p \in PIDs : GrowsIdle(p)
  <2>1. PICK p \in PIDs : GrowsIdle(p)
    BY <1>4
  <2>2. processes[p] \in Entries /\ Absent \notin Entries
    BY <2>1, TopNAssumption DEF GrowsIdle, Live
  <2>3. processes'[p] \in Entries /\ processes'[p].usage = processes[p].usage
    BY <2>1, <2>2 DEF GrowsIdle, Entries
  <2>4. \A q \in PIDs \ {p} : processes'[q] = processes[q]
    BY <2>1 DEF GrowsIdle
  <2>5. Live' = Live
    BY <2>1, <2>2, <2>3, <2>4 DEF Live, GrowsIdle
  <2>6. SharedKept /\ disturbed'[c] = disturbed[c]
    BY <2>1, <2>3, <2>4, <2>5 DEF SharedKept, GrowsIdle, Live
  <2>7. QED
    BY <1>1, <2>6, SoundKept
<1>5. QED
  BY <1>2, <1>3, <1>4 DEF OtherStep

(* A step of another batch. *)
LEMMA OtherBatchKeepsSound ==
  ASSUME FilterTypeOK, NEW b \in Batches, BatchStep(b), NEW c \in Batches \ {b}, BatchSound(c)
  PROVE  BatchSound(c)'
<1> USE DEF FilterTypeOK, StateTyped
<1>1. UNCHANGED <<phase[c], changed[c], todo[c], limit[c], seen[c]>>
  BY BatchStepAlone DEF Alone
<1>2. CASE DisturbsOthers(b)
  <2>1. disturbed'[c] = (phase[c] # "idle")
    BY <1>2 DEF DisturbsOthers
  <2>2. QED
    BY <1>1, <2>1, SoundKept
<1>3. CASE UNCHANGED table /\ disturbed'[c] = disturbed[c]
  <2>1. SharedKept
    BY <1>3 DEF SharedKept, Live, table
  <2>2. QED
    BY <1>1, <1>3, <2>1, SoundKept
<1>4. DisturbsOthers(b) \/ (UNCHANGED table /\ disturbed'[c] = disturbed[c])
  <2>1. CASE (\E p \in PIDs : StoreAbove(b, p) \/ StoreBelow(b, p)) \/ Validate(b) \/ Publish(b)
    BY <2>1 DEF StoreAbove, StoreBelow, Validate, Publish
  <2>2. CASE Updated(b)
    BY <2>2 DEF Updated, table
  <2>3. CASE (\E in \in Inputs : Begin(b, in)) \/ (\E p \in PIDs : LoadLast(b, p) \/ Visit(b, p))
               \/ CacheHit(b) \/ CacheMiss(b)
    BY <2>3 DEF Begin, LoadLast, Visit, CacheHit, CacheMiss
  <2>4. CASE End(b)
    BY <2>4 DEF End
  <2>5. QED
    BY <2>1, <2>2, <2>3, <2>4, Zenon DEF BatchStep
<1>5. QED
  BY <1>2, <1>3, <1>4

(* What the batch makes of an up to date copy of the table. *)
LEMMA PublishRight ==
  ASSUME FilterTypeOK, NEW b \in Batches, Publish(b), Copied(b), todo[b] = {}
  PROVE  Right'
<1> USE DEF FilterTypeOK, StateTyped
<1>1. PICK u \in Partial(Usages) : u = seen[b]
  BY DEF Publish, SeenTyped
<1>2. PICK D \in SUBSET PIDs : u \in [D -> Usages] /\ D = Live
  BY <1>1, PartialHas DEF Copied
<1>3. PICK k \in Nat : k = n /\ k = limit[b] /\ k > 0
  BY DEF Copied
<1>4. PICK S \in TopN(k, u, CPU), T \in TopN(k, u, Memory) : topNPIDCache' = S \cup T
  BY <1>1, <1>3 DEF Publish
<1>5. n' = n /\ processes' = processes /\ Live' = Live
  BY DEF Publish, Live
<1>6. \A p \in D : u[p] = processes[p].usage
  BY <1>1, <1>2 DEF Copied
<1>7. ASSUME NEW p \in D, NEW metric
      PROVE  /\ Rivals(p, metric)' = Cardinality({q \in D \ {p} : u[q][metric] >= u[p][metric]})
             /\ Beaten(p, metric)' = Cardinality({q \in D : u[q][metric] > u[p][metric]})
  <2>1. {q \in Live \ {p} : processes[q].usage[metric] >= processes[p].usage[metric]}'
          = {q \in D \ {p} : u[q][metric] >= u[p][metric]}
    BY <1>2, <1>5, <1>6
  <2>2. {q \in Live : processes[q].usage[metric] > processes[p].usage[metric]}'
          = {q \in D : u[q][metric] > u[p][metric]}
    BY <1>2, <1>5, <1>6
  <2>3. QED
    BY <2>1, <2>2 DEF Rivals, Beaten
<1>8. IsFiniteSet(D)
  BY TopNAssumption, FS_Subset
<1>9. /\ S \subseteq D /\ IsFiniteSet(S) /\ Cardinality(S) = k
      /\ \A p \in D :
           Cardinality({q \in D \ {p} : u[q][CPU] >= u[p][CPU]}) < k => p \in S
      /\ \A p \in S : Cardinality({q \in D : u[q][CPU] > u[p][CPU]}) < k
  BY <1>2, <1>4, <1>8, TopNKeeps
<1>10. /\ T \subseteq D /\ IsFiniteSet(T) /\ Cardinality(T) = k
       /\ \A p \in D :
            Cardinality({q \in D \ {p} : u[q][Memory] >= u[p][Memory]}) < k => p \in T
       /\ \A p \in T : Cardinality({q \in D : u[q][Memory] > u[p][Memory]}) < k
  BY <1>2, <1>4, <1>8, TopNKeeps
<1>11. Cardinality(S \cup T) <= 2 * k
  <2>1. /\ Cardinality(S \cup T) = Cardinality(S) + Cardinality(T) - Cardinality(S \cap T)
        /\ Cardinality(S \cap T) \in Nat
    BY <1>9, <1>10, FS_Union, FS_Intersection, FS_CardinalityType
  <2>2. QED
    BY <1>9, <1>10, <2>1
<1>12. topNPIDCache' \subseteq Live' /\ Cardinality(topNPIDCache') <= 2 * n'
  BY <1>2, <1>3, <1>4, <1>5, <1>9, <1>10, <1>11
<1>13. ASSUME NEW p \in Live'
       PROVE  /\ Rivals(p, CPU)' < n' \/ Rivals(p, Memory)' < n' => p \in topNPIDCache'
              /\ p \in topNPIDCache' => Beaten(p, CPU)' < n' \/ Beaten(p, Memory)' < n'
  <2>1. p \in D /\ n' = k /\ topNPIDCache' = S \cup T
    BY <1>2, <1>3, <1>4, <1>5, <1>13
  <2>2. /\ Rivals(p, CPU)' < k => p \in S
        /\ p \in S => Beaten(p, CPU)' < k
    BY <1>7, <1>9, <2>1, Zenon
  <2>3. /\ Rivals(p, Memory)' < k => p \in T
        /\ p \in T => Beaten(p, Memory)' < k
    BY <1>7, <1>10, <2>1, Zenon
  <2>4. QED
    BY <2>1, <2>2, <2>3
<1>14. QED
  BY <1>12, <1>13 DEF Right

LEMMA OwnStepKeepsSound ==
  ASSUME FilterTypeOK, NEW b \in Batches, BatchStep(b), BatchSound(b)
  PROVE  BatchSound(b)'
<1> USE DEF FilterTypeOK, StateTyped
<1>1. CASE \/ \E in \in Inputs : Begin(b, in)
           \/ \E p \in PIDs : StoreAbove(b, p) \/ LoadLast(b, p) \/ StoreBelow(b, p)
           \/ End(b)
  <2>1. phase'[b] \in {"update", "store", "idle"}
    BY <1>1 DEF Begin, StoreAbove, LoadLast, StoreBelow, End
  <2>2. QED
    BY <2>1 DEF BatchSound
<1>2. CASE Updated(b)
  <2>1. phase'[b] = "look" /\ changed'[b] = changed[b] /\ (changed[b] => topNCacheValid' = FALSE)
    BY <1>2 DEF Updated, MustInvalidate
  <2>2. QED
    BY <2>1 DEF BatchSound
<1>3. CASE CacheHit(b)
  <2>1. /\ phase[b] = "look" /\ topNCacheValid
        /\ changed' = changed /\ disturbed' = disturbed
    BY <1>3 DEF CacheHit
  <2>2. QED
    BY <2>1 DEF BatchSound
<1>4. CASE CacheMiss(b)
  <2>1. /\ phase'[b] = "range" /\ limit'[b] = n' /\ todo'[b] = PIDs /\ seen'[b] = <<>>
        /\ Live' \subseteq PIDs
    BY <1>4 DEF CacheMiss, SeenTyped, Live, table
  <2>2. Copied(b)'
    BY <2>1, EmptyPartial DEF Copied
  <2>3. QED
    BY <2>1, <2>2 DEF BatchSound
<1>5. ASSUME NEW p \in PIDs, Visit(b, p) PROVE BatchSound(b)'
  <2>1. /\ phase[b] = "range" /\ p \in todo[b] /\ todo'[b] = todo[b] \ {p}
        /\ UNCHANGED <<phase[b], limit[b], changed[b], disturbed[b]>>
        /\ n' = n /\ processes' = processes /\ Live' = Live
        /\ seen'[b] = IF processes[p] = Absent THEN seen[b] ELSE Put(seen[b], p, processes[p].usage)
    BY <1>5 DEF Visit, table, Live
  <2>2. ASSUME Copied(b) PROVE Copied(b)'
    <3>1. PICK f \in Partial(Usages) : f = seen[b]
      BY <2>1 DEF SeenTyped
    <3>2. CASE processes[p] = Absent
      <4>1. p \notin Live /\ seen'[b] = seen[b]
        BY <2>1, <3>2 DEF Live
      <4>2. QED
        BY <2>1, <2>2, <4>1 DEF Copied
    <3>3. CASE processes[p] # Absent
      <4>1. p \in Live /\ processes[p].usage \in Usages
        BY <3>3 DEF Live, Entries
      <4>2. PICK v \in Usages : v = processes[p].usage
        BY <4>1
      <4>3. PICK g : /\ g = Put(f, p, v) /\ DOMAIN g = DOMAIN f \cup {p} /\ g[p] = v
                     /\ \A q \in DOMAIN f \ {p} : g[q] = f[q]
        <5>1. /\ DOMAIN Put(f, p, v) = DOMAIN f \cup {p} /\ Put(f, p, v)[p] = v
              /\ \A q \in DOMAIN f \ {p} : Put(f, p, v)[q] = f[q]
          BY DEF Put
        <5>2. QED
          BY <5>1
      <4>4. seen'[b] = g /\ DOMAIN f = Live \ todo[b] /\ p \notin DOMAIN f
            /\ \A q \in DOMAIN f : f[q] = processes[q].usage
        BY <2>1, <2>2, <3>1, <3>3, <4>2, <4>3 DEF Copied
      <4>5. QED
        BY <2>1, <2>2, <4>1, <4>2, <4>3, <4>4 DEF Copied
    <3>4. QED
      BY <3>2, <3>3
  <2>3. QED
    BY <2>1, <2>2 DEF BatchSound
<1>6. CASE Validate(b)
  <2>1. /\ phase[b] = "range" /\ todo[b] = {} /\ todo'[b] = todo[b]
        /\ UNCHANGED <<changed[b], n, processes, Live>>
        /\ disturbed'[b] = disturbed[b]
    BY <1>6 DEF Validate, Live, DisturbsOthers
  <2>2. CASE FitsIn(seen[b], limit[b])
    <3>1. phase'[b] = "filter"
      BY <1>6, <2>2 DEF Validate
    <3>2. Copied(b) => Cardinality(Live) <= n
      BY <2>1, <2>2 DEF Copied, FitsIn
    <3>3. IsFiniteSet(Live) /\ Cardinality(Live) \in Nat
      BY TopNAssumption, FS_Subset, FS_CardinalityType DEF Live
    <3>4. Copied(b) => Right'
      BY <2>1, <3>2, <3>3 DEF Right
    <3>5. QED
      BY <2>1, <3>1, <3>4 DEF BatchSound
  <2>3. CASE ~FitsIn(seen[b], limit[b])
    <3>1. phase'[b] = "publish" /\ seen'[b] = seen[b] /\ limit'[b] = limit[b]
      BY <1>6, <2>3 DEF Validate
    <3>2. Copied(b) => Copied(b)'
      BY <2>1, <3>1 DEF Copied
    <3>3. QED
      BY <2>1, <3>1, <3>2 DEF BatchSound
  <2>4. QED
    BY <2>2, <2>3
<1>7. CASE Publish(b)
  <2>1. /\ phase[b] = "publish" /\ phase'[b] = "filter" /\ changed'[b] = changed[b]
        /\ disturbed'[b] = disturbed[b]
    BY <1>7 DEF Publish, DisturbsOthers
  <2>2. Copied(b) /\ todo[b] = {} => Right'
    BY <1>7, PublishRight
  <2>3. QED
    BY <2>1, <2>2 DEF BatchSound
<1>8. QED
  BY <1>1, <1>2, <1>3, <1>4, <1>5, <1>6, <1>7, Zenon DEF BatchStep

LEMMA NextFilterInv == FilterInv /\ [FilterNext]_filterVars => FilterInv'
<1> SUFFICES ASSUME FilterInv, [FilterNext]_filterVars PROVE FilterInv'
  OBVIOUS
<1>1. FilterTypeOK /\ FilterTypeOK'
  BY NextFilterTypes DEF FilterInv
<1>2. ASSUME NEW c \in Batches PROVE BatchSound(c)'
  <2>1. BatchSound(c)
    BY DEF FilterInv
  <2>2. CASE \E b \in Batches : BatchStep(b)
    <3>1. PICK b \in Batches : BatchStep(b)
      BY <2>2
    <3>2. CASE c = b
      BY <1>1, <2>1, <3>1, <3>2, OwnStepKeepsSound
    <3>3. CASE c # b
      BY <1>1, <2>1, <3>1, <3>3, OtherBatchKeepsSound
    <3>4. QED
      BY <3>2, <3>3
  <2>3. CASE OtherStep
    BY <1>1, <2>1, <2>3, OtherKeepsSound
  <2>4. CASE UNCHANGED filterVars
    BY <2>1, <2>4 DEF BatchSound, Copied, Right, Rivals, Beaten, Live, filterVars, table, progress
  <2>5. QED
    BY <2>2, <2>3, <2>4, FilterSteps
<1>3. QED
  BY <1>1, <1>2 DEF FilterInv

(* In every reachable state the types hold and a batch may rely on what     *)
(* BatchSound says.                                                         *)
THEOREM FilterInvariance == FilterSpec => []FilterInv
<1>1. FilterInit => FilterInv
  BY FilterInitInv
<1>2. FilterInv /\ [FilterNext]_filterVars => FilterInv'
  BY NextFilterInv
<1>3. QED
  BY <1>1, <1>2, PTL DEF FilterSpec

(* Table, caches and every copy a batch holds keep their types, and n is     *)
(* never 0, whatever "top_n" is set to (setTopN).                            *)
THEOREM FilterTypeCorrect == FilterSpec => []FilterTypeOK
<1>1. FilterInv => FilterTypeOK
  BY DEF FilterInv
<1>2. QED
  BY <1>1, FilterInvariance, PTL

(* A batch under which nobody changed shared state filters by the current    *)
(* table, for any number of processes, batches and values of n               *)
(* (getTopNProcesses, updateTopNCache, isInTopN).                            *)
THEOREM UndisturbedFiltersRight == FilterSpec => []UndisturbedIsRight
<1>1. FilterInv => UndisturbedIsRight
  BY DEF FilterInv, BatchSound, Right, UndisturbedIsRight
<1>2. QED
  BY <1>1, FilterInvariance, PTL


-----------------------------------------------------------------------------
(* The reporter.  That the registry gets updates in order, and counts each   *)
(* process once, is shown of the line of all updates there are, from the     *)
(* registry through the batch to the channel: a step of the worker moves a   *)
(* boundary in it and nothing else, and what the reporter puts at its end is *)
(* later than all of it.                                                     *)

Line == reported \o batch \o buffer

(* The reporter made u before v: a report is a gauge, then a count.          *)
Before(u, v) ==
  \/ u.report < v.report
  \/ u.report = v.report /\ u.count = 0 /\ v.count > 0

LineInOrder == \A i, j \in 1 .. Len(Line) : i < j => Before(Line[i], Line[j])

(* Whether the reporter has made u, or makes it before its next update.      *)
Made(u) ==
  /\ u.report <= report
  /\ reporter = "gauge" => u.report < report
  /\ reporter \in {"swap", "counter"} => u.report < report \/ u.count = 0

LineMade == \A i \in 1 .. Len(Line) : Made(Line[i])

(* What keeps the numbers in their ranges. *)
InRange ==
  /\ tick => report < MaxReports
  /\ reporter \in {"gauge", "swap", "counter"} => report > 0
  /\ filteredCount + filtered <= filteredTotal
  /\ IF reporter = "counter" THEN filtered > 0 ELSE filtered = 0
  /\ metricsWg = IF worker = "running" THEN 1 ELSE 0

(* Every filtered process is counted once, on its way or in the line.        *)
LineSum == SumOf(Line)

Balance == filteredTotal = filteredCount + filtered + LineSum + discarded

Balanced == ~panicked => Balance

IInv == TypeOK /\ InRange /\ LineInOrder /\ LineMade /\ Balanced

-----------------------------------------------------------------------------
(* Sequences *)

LEMMA ConcatType ==
  ASSUME NEW s \in Seq(Update), NEW t \in Seq(Update)
  PROVE  s \o t \in Seq(Update)
  BY ConcatProperties

LEMMA ConcatAssoc ==
  ASSUME NEW s \in Seq(Update), NEW t \in Seq(Update), NEW u \in Seq(Update)
  PROVE  (s \o t) \o u = s \o (t \o u)
  BY ConcatAssociative

LEMMA HeadThenTail ==
  ASSUME NEW s \in Seq(Update), s # << >>
  PROVE  /\ Head(s) \in Update /\ Tail(s) \in Seq(Update) /\ Len(Tail(s)) = Len(s) - 1
         /\ s = <<Head(s)>> \o Tail(s)
<1>1. /\ Head(s) \in Update /\ Tail(s) \in Seq(Update) /\ Len(Tail(s)) = Len(s) - 1
  BY HeadTailProperties
<1>2. s = SubSeq(s, 1, Len(s)) /\ Len(s) \in Nat \ {0}
  BY SubSeqFull, EmptySeq, LenProperties
<1>3. SubSeq(s, 1, Len(s)) = <<s[1]>> \o SubSeq(s, 2, Len(s))
  BY <1>2, SubSeqRecursiveFirst
<1>4. Tail(s) = SubSeq(s, 2, Len(s)) /\ Head(s) = s[1]
  BY TailIsSubSeq
<1>5. QED
  BY <1>1, <1>2, <1>3, <1>4

LEMMA LineType == TypeOK => Line \in Seq(Update)
  BY ConcatType, Zenon DEF TypeOK, Line

(* The worker takes an update from the channel into its batch.               *)
LEMMA ReceiveKeepsLine ==
  ASSUME TypeOK, buffer # << >>
  PROVE  (reported \o Append(batch, Head(buffer))) \o Tail(buffer) = Line
<1> DEFINE u == Head(buffer)
           r == Tail(buffer)
<1>1. /\ u \in Update /\ r \in Seq(Update) /\ buffer = <<u>> \o r
      /\ reported \in Seq(Update) /\ batch \in Seq(Update) /\ <<u>> \in Seq(Update)
  BY HeadThenTail DEF TypeOK
<1> HIDE DEF u, r
<1>2. Append(batch, u) = batch \o <<u>>
  BY <1>1, AppendIsConcat, Zenon
<1>3. reported \o (batch \o <<u>>) = (reported \o batch) \o <<u>>
  BY <1>1, ConcatAssoc, Zenon
<1>4. ((reported \o batch) \o <<u>>) \o r = (reported \o batch) \o (<<u>> \o r)
  <2>1. reported \o batch \in Seq(Update)
    BY <1>1, ConcatType, Zenon
  <2>2. QED
    BY <1>1, <2>1, ConcatAssoc, Zenon
<1>5. QED
  BY <1>1, <1>2, <1>3, <1>4, Zenon DEF Line, u, r

(* The worker moves a boundary in the line.                                  *)
LEMMA WorkerKeepsLine ==
  ASSUME TypeOK, Receive \/ FlushBatch \/ WorkerExit
  PROVE  Line' = Line
<1>1. CASE Receive
  <2> DEFINE b == Append(batch, Head(buffer))
             r == Tail(buffer)
  <2>1. /\ buffer # << >> /\ buffer' = r
        /\ \/ reported' = reported \o b /\ batch' = << >>
           \/ reported' = reported /\ batch' = b
    BY <1>1 DEF Receive, processBatch, Cleared
  <2>2. (reported \o b) \o r = Line
    BY <2>1, ReceiveKeepsLine
  <2>3. b \in Seq(Update) /\ reported \o b \in Seq(Update)
    BY <2>1, HeadThenTail, AppendProperties, ConcatType DEF TypeOK
  <2> HIDE DEF b, r
  <2>4. (reported \o b) \o << >> = reported \o b
    BY <2>3, ConcatEmptySeq
  <2>5. QED
    BY <2>1, <2>2, <2>4, Zenon DEF Line
<1>2. CASE FlushBatch \/ WorkerExit
  <2>1. /\ reported' = reported \o batch /\ batch' = << >> /\ buffer' = buffer
    BY <1>2 DEF FlushBatch, WorkerExit, processBatch, Cleared
  <2>2. reported \o batch \in Seq(Update)
    BY ConcatType DEF TypeOK
  <2>3. (reported \o batch) \o << >> = reported \o batch
    BY <2>2, ConcatEmptySeq
  <2>4. QED
    BY <2>1, <2>3, Zenon DEF Line
<1>3. QED
  BY <1>1, <1>2

(* An update at the end of the channel is at the end of the line.            *)
LEMMA SubmitExtendsLine ==
  ASSUME TypeOK, NEW u \in Update
  PROVE  reported \o batch \o Append(buffer, u) = Append(Line, u)
<1>1. reported \o batch \in Seq(Update) /\ buffer \in Seq(Update) /\ <<u>> \in Seq(Update)
  BY ConcatType DEF TypeOK
<1>2. Append(buffer, u) = buffer \o <<u>>
  BY <1>1, AppendIsConcat, Zenon
<1>3. (reported \o batch) \o (buffer \o <<u>>) = ((reported \o batch) \o buffer) \o <<u>>
  BY <1>1, ConcatAssoc, Zenon
<1>4. Append(Line, u) = Line \o <<u>>
  BY LineType, AppendIsConcat, Zenon
<1>5. QED
  BY <1>2, <1>3, <1>4, Zenon DEF Line

-----------------------------------------------------------------------------
(* What updates count *)

(* What updates count is finite, so that numbers of it may be added.         *)
LEMMA CountedFinite ==
  ASSUME NEW s \in Seq(Update)
  PROVE  IsFiniteSet(CountedIn(s)) /\ SumOf(s) \in Nat
<1>1. Len(s) \in Nat /\ MaxFiltered \in Nat /\ DOMAIN s = 1 .. Len(s)
  BY LenProperties, ReporterAssumption
<1>2. IsFiniteSet(DOMAIN s) /\ IsFiniteSet(1 .. MaxFiltered)
  BY <1>1, FS_Interval
<1>3. IsFiniteSet((DOMAIN s) \X (1 .. MaxFiltered))
  BY <1>2, FS_Product
<1>4. CountedIn(s) \in SUBSET ((DOMAIN s) \X (1 .. MaxFiltered))
  BY DEF CountedIn
<1>5. QED
  BY <1>3, <1>4, FS_Subset, FS_CardinalityType DEF SumOf

LEMMA SumOfNone == SumOf(<< >>) = 0
<1>1. CountedIn(<< >>) = {}
  BY DEF CountedIn
<1>2. QED
  BY <1>1, FS_EmptySet DEF SumOf

(* One update counts as much as it says. *)
LEMMA SumOfOne ==
  ASSUME NEW u \in Update
  PROVE  SumOf(<<u>>) = u.count
<1> DEFINE f == [k \in 1 .. u.count |-> <<1, k>>]
<1>1. u.count \in 0 .. MaxFiltered /\ MaxFiltered \in Nat
  BY ReporterAssumption DEF Update
<1>2. CountedIn(<<u>>) = {1} \X (1 .. u.count)
  BY <1>1 DEF CountedIn
<1>3. f \in Bijection(1 .. u.count, {1} \X (1 .. u.count))
  <2>1. f \in [1 .. u.count -> {1} \X (1 .. u.count)]
    OBVIOUS
  <2>2. \A k, l \in 1 .. u.count : f[k] = f[l] => k = l
    OBVIOUS
  <2>3. \A x \in {1} \X (1 .. u.count) : \E k \in 1 .. u.count : f[k] = x
    OBVIOUS
  <2> HIDE DEF f
  <2>4. QED
    BY <2>1, <2>2, <2>3, Fun_IsBij, Zenon
<1> HIDE DEF f
<1>4. IsFiniteSet(1 .. u.count) /\ Cardinality(1 .. u.count) = u.count
  <2>1. PICK m \in Nat : m = u.count
    BY <1>1
  <2>2. IsFiniteSet(1 .. m) /\ Cardinality(1 .. m) = IF 1 > m THEN 0 ELSE m - 1 + 1
    BY FS_Interval
  <2>3. QED
    BY <2>1, <2>2
<1>5. ExistsBijection(1 .. u.count, {1} \X (1 .. u.count))
  BY <1>3 DEF ExistsBijection
<1>6. Cardinality({1} \X (1 .. u.count)) = Cardinality(1 .. u.count)
  BY <1>4, <1>5, FS_Bijection, Zenon
<1>7. QED
  BY <1>2, <1>4, <1>6 DEF SumOf

(* What two lines of updates count is what both of them count.               *)
LEMMA SumOfConcat ==
  ASSUME NEW s \in Seq(Update), NEW t \in Seq(Update)
  PROVE  SumOf(s \o t) = SumOf(s) + SumOf(t)
<1> DEFINE f == [x \in CountedIn(t) |-> <<Len(s) + x[1], x[2]>>]
           moved == {x \in CountedIn(s \o t) : x[1] > Len(s)}
<1>1. /\ Len(s) \in Nat /\ Len(t) \in Nat /\ s \o t \in Seq(Update)
      /\ DOMAIN s = 1 .. Len(s) /\ DOMAIN t = 1 .. Len(t)
      /\ DOMAIN (s \o t) = 1 .. Len(s) + Len(t)
      /\ \A i \in 1 .. Len(s) : (s \o t)[i] = s[i]
      /\ \A i \in 1 .. Len(t) : (s \o t)[Len(s) + i] = t[i]
  BY LenProperties, ConcatType, ConcatProperties
<1>2. PICK d \in Nat : d = Len(s)
  BY <1>1
<1>3. ASSUME NEW i, NEW k
      PROVE  /\ <<i, k>> \in CountedIn(s) <=>
                  i \in 1 .. Len(s) /\ k \in 1 .. MaxFiltered /\ k <= s[i].count
             /\ <<i, k>> \in CountedIn(t) <=>
                  i \in 1 .. Len(t) /\ k \in 1 .. MaxFiltered /\ k <= t[i].count
             /\ <<i, k>> \in CountedIn(s \o t) <=>
                  /\ i \in 1 .. Len(s) + Len(t) /\ k \in 1 .. MaxFiltered
                  /\ k <= (s \o t)[i].count
  BY <1>1 DEF CountedIn
<1>4. ASSUME NEW x, x \in CountedIn(s) \/ x \in CountedIn(t) \/ x \in CountedIn(s \o t)
      PROVE  x = <<x[1], x[2]>>
  BY <1>4 DEF CountedIn
<1>5. CountedIn(s \o t) = CountedIn(s) \cup moved
  <2>1. ASSUME NEW x \in CountedIn(s) PROVE x \in CountedIn(s \o t)
    <3>1. /\ x = <<x[1], x[2]>> /\ x[1] \in 1 .. Len(s) /\ x[2] \in 1 .. MaxFiltered
          /\ x[2] <= s[x[1]].count
      BY <1>3, <1>4
    <3>2. x[1] \in 1 .. Len(s) + Len(t) /\ (s \o t)[x[1]] = s[x[1]]
      BY <1>1, <3>1
    <3>3. QED
      BY <1>3, <3>1, <3>2
  <2>2. ASSUME NEW x \in CountedIn(s \o t), x \notin moved PROVE x \in CountedIn(s)
    <3>1. /\ x = <<x[1], x[2]>> /\ x[1] \in 1 .. Len(s) + Len(t) /\ x[2] \in 1 .. MaxFiltered
          /\ x[2] <= (s \o t)[x[1]].count
      BY <1>3, <1>4
    <3>2. x[1] \in 1 .. Len(s)
      BY <1>1, <2>2, <3>1
    <3>3. QED
      BY <1>1, <1>3, <3>1, <3>2
  <2>3. QED
    BY <2>1, <2>2
<1>6. CountedIn(s) \cap moved = {}
  <2>1. ASSUME NEW x \in CountedIn(s) PROVE x \notin moved
    BY <1>1, <1>3, <1>4
  <2>2. QED
    BY <2>1
<1>7. f \in Bijection(CountedIn(t), moved)
  <2>1. ASSUME NEW x \in CountedIn(t)
        PROVE  f[x] \in moved
    <3>1. /\ x = <<x[1], x[2]>> /\ x[1] \in 1 .. Len(t) /\ x[2] \in 1 .. MaxFiltered
          /\ x[2] <= t[x[1]].count
      BY <1>3, <1>4
    <3>2. /\ Len(s) + x[1] \in 1 .. Len(s) + Len(t) /\ Len(s) + x[1] > Len(s)
          /\ (s \o t)[Len(s) + x[1]] = t[x[1]]
      BY <1>1, <3>1
    <3>3. f[x] = <<Len(s) + x[1], x[2]>>
      OBVIOUS
    <3>4. QED
      BY <1>3, <3>1, <3>2, <3>3
  <2>2. ASSUME NEW x \in CountedIn(t), NEW y \in CountedIn(t), f[x] = f[y] PROVE x = y
    <3>1. /\ x = <<x[1], x[2]>> /\ x[1] \in 1 .. Len(t)
          /\ y = <<y[1], y[2]>> /\ y[1] \in 1 .. Len(t)
      BY <1>3, <1>4
    <3>2. f[x] = <<Len(s) + x[1], x[2]>> /\ f[y] = <<Len(s) + y[1], y[2]>>
      OBVIOUS
    <3>3. Len(s) + x[1] = Len(s) + y[1] /\ x[2] = y[2]
      BY <2>2, <3>2
    <3>4. QED
      BY <1>1, <3>1, <3>3
  <2>3. ASSUME NEW y \in moved PROVE \E x \in CountedIn(t) : f[x] = y
    <3>1. /\ y = <<y[1], y[2]>> /\ y[1] \in 1 .. Len(s) + Len(t) /\ y[2] \in 1 .. MaxFiltered
          /\ y[2] <= (s \o t)[y[1]].count /\ y[1] > Len(s)
      BY <1>3, <1>4
    <3>2. y[1] - Len(s) \in 1 .. Len(t) /\ Len(s) + (y[1] - Len(s)) = y[1]
      BY <1>1, <3>1
    <3>3. (s \o t)[y[1]] = t[y[1] - Len(s)]
      BY <1>1, <3>2
    <3>4. <<y[1] - Len(s), y[2]>> \in CountedIn(t)
      BY <1>3, <3>1, <3>2, <3>3
    <3>5. f[<<y[1] - Len(s), y[2]>>] = <<Len(s) + (y[1] - Len(s)), y[2]>>
      BY <3>4
    <3>6. QED
      BY <3>1, <3>2, <3>4, <3>5
  <2>4. f \in [CountedIn(t) -> moved]
    BY <2>1
  <2> HIDE DEF f, moved
  <2>5. QED
    BY <2>2, <2>3, <2>4, Fun_IsBij, Zenon
<1>8. /\ IsFiniteSet(CountedIn(s)) /\ IsFiniteSet(CountedIn(t))
      /\ SumOf(s) \in Nat /\ SumOf(t) \in Nat
  BY CountedFinite
<1> HIDE DEF f, moved
<1>9. IsFiniteSet(moved) /\ Cardinality(moved) = SumOf(t)
  BY <1>7, <1>8, FS_Bijection DEF SumOf, ExistsBijection
<1>10. Cardinality(CountedIn(s) \cup moved) = SumOf(s) + SumOf(t) - Cardinality({})
  BY <1>6, <1>8, <1>9, FS_Union DEF SumOf
<1>11. QED
  BY <1>5, <1>8, <1>10, FS_EmptySet DEF SumOf

LEMMA SumOfLine ==
  ASSUME TypeOK
  PROVE  SumOf(Line) = SumOf(reported) + SumOf(batch) + SumOf(buffer)
<1>1. reported \in Seq(Update) /\ batch \in Seq(Update) /\ buffer \in Seq(Update)
  BY DEF TypeOK
<1>2. SumOf((reported \o batch) \o buffer) = SumOf(reported \o batch) + SumOf(buffer)
  BY <1>1, ConcatType, SumOfConcat, Zenon
<1>3. SumOf(reported \o batch) = SumOf(reported) + SumOf(batch)
  BY <1>1, SumOfConcat, Zenon
<1>4. QED
  BY <1>2, <1>3 DEF Line

-----------------------------------------------------------------------------
LEMMA InitInv == Init => IInv
<1> SUFFICES ASSUME Init PROVE IInv
  OBVIOUS
<1>1. << >> \in Seq(Update) /\ Len(<< >>) = 0
  BY EmptySeq
<1>2. /\ buffer \in Seq(Update) /\ Len(buffer) <= BufferSize
      /\ batch \in Seq(Update) /\ Len(batch) < BatchSize /\ reported \in Seq(Update)
  BY <1>1, ReporterAssumption DEF Init
<1>3. TypeOK
  <2>1. /\ filteredCount \in 0 .. MaxFiltered /\ filteredTotal \in 0 .. MaxFiltered
        /\ filtered \in 0 .. MaxFiltered /\ report \in 0 .. MaxReports
        /\ metricsWg \in 0 .. 1 /\ discarded \in Nat
    BY ReporterAssumption DEF Init
  <2>2. /\ tick \in BOOLEAN /\ stopped \in BOOLEAN /\ closed \in BOOLEAN /\ panicked \in BOOLEAN
    BY DEF Init
  <2>3. /\ reporter \in {"idle", "gauge", "swap", "counter", "exited"}
        /\ worker \in {"running", "exited"} /\ main \in {"running", "closing", "waiting", "down"}
    BY DEF Init
  <2>4. QED
    BY <1>2, <2>1, <2>2, <2>3 DEF TypeOK
<1>4. InRange
  BY DEF Init, InRange
<1>5. Line = << >>
  BY <1>1, ConcatEmptySeq DEF Init, Line
<1>6. LineInOrder /\ LineMade
  BY <1>1, <1>5 DEF LineInOrder, LineMade
<1>7. Balanced
  BY <1>5, SumOfNone DEF Init, Balanced, Balance, LineSum
<1>8. QED
  BY <1>3, <1>4, <1>6, <1>7 DEF IInv

(* Numbers and places stay in their ranges. *)
LEMMA NextInRange == TypeOK /\ InRange /\ [Next]_vars => InRange'
<1> SUFFICES ASSUME TypeOK, InRange, [Next]_vars PROVE InRange'
  OBVIOUS
<1> USE DEF TypeOK, InRange
<1>1. CASE FilterProcess
  BY <1>1 DEF FilterProcess, reporting, working
<1>2. CASE TickerFires
  BY <1>2 DEF TickerFires, working
<1>3. CASE BeginReport
  BY <1>3 DEF BeginReport, working
<1>4. CASE ReporterExit
  BY <1>4 DEF ReporterExit, working
<1>5. CASE SubmitGauge
  BY <1>5 DEF SubmitGauge, working
<1>6. CASE SwapCount
  BY <1>6 DEF SwapCount, AfterSwap, working
<1>7. CASE SubmitCount
  BY <1>7 DEF SubmitCount, working
<1>8. CASE Receive \/ FlushBatch
  BY <1>8 DEF Receive, FlushBatch, reporting
<1>9. CASE WorkerExit
  BY <1>9 DEF WorkerExit, reporting
<1>10. CASE Shutdown
  BY <1>10 DEF Shutdown, CloseStopCh, CloseBuffer, Return, reporting, working
<1>11. CASE UNCHANGED vars
  BY <1>11 DEF vars, reporting, working
<1>12. QED
  BY <1>1, <1>2, <1>3, <1>4, <1>5, <1>6, <1>7, <1>8, <1>9, <1>10, <1>11 DEF Next

(* What a report submits is an update that was not made before.              *)
LEMMA UpdateSubmitted ==
  ASSUME TypeOK, InRange
  PROVE  /\ reporter = "gauge" => [report |-> report, count |-> 0] \in Update
         /\ reporter = "counter" => [report |-> report, count |-> filtered] \in Update
  BY ReporterAssumption DEF TypeOK, InRange, Update

LEMMA NextType == TypeOK /\ InRange /\ [Next]_vars => TypeOK'
<1> SUFFICES ASSUME TypeOK, InRange, [Next]_vars PROVE TypeOK'
  OBVIOUS
<1> USE ReporterAssumption DEF TypeOK
<1>1. CASE FilterProcess
  BY <1>1 DEF FilterProcess, reporting, working, stopping, InRange
<1>2. CASE TickerFires
  BY <1>2 DEF TickerFires, working, stopping
<1>3. CASE BeginReport
  <2>1. report < MaxReports
    BY <1>3 DEF BeginReport, InRange
  <2>2. report' \in 0 .. MaxReports
    BY <1>3, <2>1 DEF BeginReport
  <2>3. QED
    BY <1>3, <2>2 DEF BeginReport, working, stopping
<1>4. CASE ReporterExit
  BY <1>4 DEF ReporterExit, working, stopping
<1>5. ASSUME NEW count \in 0 .. MaxFiltered, [report |-> report, count |-> count] \in Update,
             submitMetricUpdate(count)
      PROVE  /\ buffer' \in Seq(Update) /\ Len(buffer') <= BufferSize
             /\ panicked' \in BOOLEAN /\ discarded' \in Nat
  <2> DEFINE u == [report |-> report, count |-> count]
  <2>1. /\ Append(buffer, u) \in Seq(Update) /\ Len(Append(buffer, u)) = Len(buffer) + 1
        /\ Len(buffer) \in Nat
    BY <1>5, AppendProperties, LenProperties
  <2>2. buffer' = buffer \/ (HasRoom /\ buffer' = Append(buffer, u))
    BY <1>5 DEF submitMetricUpdate, u
  <2>3. buffer' \in Seq(Update) /\ Len(buffer') <= BufferSize
    <3>1. CASE buffer' = buffer
      BY <3>1
    <3>2. CASE HasRoom /\ buffer' = Append(buffer, u)
      <4>1. Len(buffer) + 1 <= BufferSize
        BY <2>1, <3>2 DEF HasRoom
      <4>2. QED
        BY <2>1, <3>2, <4>1, Zenon
    <3>3. QED
      BY <2>2, <3>1, <3>2
  <2>4. panicked' \in BOOLEAN
    BY <1>5 DEF submitMetricUpdate
  <2>5. discarded' \in Nat
    <3>1. discarded' = discarded \/ discarded' = discarded + count
      BY <1>5 DEF submitMetricUpdate
    <3>2. discarded \in Nat /\ count \in Nat
      BY <1>5
    <3>3. QED
      BY <3>1, <3>2
  <2>6. QED
    BY <2>3, <2>4, <2>5
<1>6. CASE SubmitGauge
  <2>1. /\ buffer' \in Seq(Update) /\ Len(buffer') <= BufferSize
        /\ panicked' \in BOOLEAN /\ discarded' \in Nat
    BY <1>5, <1>6, UpdateSubmitted DEF SubmitGauge
  <2>2. QED
    BY <1>6, <2>1 DEF SubmitGauge, working, stopping
<1>7. CASE SwapCount
  BY <1>7 DEF SwapCount, AfterSwap, working, stopping
<1>8. CASE SubmitCount
  <2>1. /\ buffer' \in Seq(Update) /\ Len(buffer') <= BufferSize
        /\ panicked' \in BOOLEAN /\ discarded' \in Nat
    BY <1>5, <1>8, UpdateSubmitted DEF SubmitCount
  <2>2. QED
    BY <1>8, <2>1 DEF SubmitCount, working, stopping
<1>9. CASE Receive
  <2>1. /\ Head(buffer) \in Update /\ Tail(buffer) \in Seq(Update)
        /\ Len(Tail(buffer)) = Len(buffer) - 1 /\ Len(buffer) \in Nat
    BY <1>9, HeadThenTail, LenProperties DEF Receive
  <2> DEFINE b == Append(batch, Head(buffer))
  <2>2. b \in Seq(Update) /\ reported \o b \in Seq(Update)
    BY <2>1, AppendProperties, ConcatType
  <2> HIDE DEF b
  <2>3. buffer' \in Seq(Update) /\ Len(buffer') <= BufferSize
    BY <1>9, <2>1 DEF Receive
  <2>4. \/ reported' = reported \o b /\ batch' = << >>
        \/ reported' = reported /\ batch' = b /\ Len(b) < BatchSize
    BY <1>9 DEF Receive, processBatch, Cleared, b
  <2>5. << >> \in Seq(Update) /\ Len(<< >>) < BatchSize
    BY EmptySeq
  <2>6. /\ reported' \in Seq(Update)
        /\ batch' \in Seq(Update) /\ Len(batch') < BatchSize
    BY <2>2, <2>4, <2>5, Zenon
  <2>7. QED
    BY <1>9, <2>3, <2>6 DEF Receive, reporting, stopping
<1>10. CASE FlushBatch \/ WorkerExit
  <2>1. reported' = reported \o batch /\ batch' = << >>
    BY <1>10 DEF FlushBatch, WorkerExit, processBatch, Cleared
  <2>2. << >> \in Seq(Update) /\ Len(<< >>) < BatchSize
    BY EmptySeq
  <2>3. /\ reported' \in Seq(Update)
        /\ batch' \in Seq(Update) /\ Len(batch') < BatchSize
    BY <2>1, <2>2, ConcatType, Zenon
  <2>4. CASE FlushBatch
    BY <2>3, <2>4 DEF FlushBatch, reporting, stopping
  <2>5. CASE WorkerExit
    <3>1. metricsWg' \in 0 .. 1
      BY <2>5 DEF WorkerExit, InRange
    <3>2. QED
      BY <2>3, <2>5, <3>1 DEF WorkerExit, reporting, stopping
  <2>6. QED
    BY <1>10, <2>4, <2>5
<1>11. CASE Shutdown
  BY <1>11 DEF Shutdown, CloseStopCh, CloseBuffer, Return, reporting, working, stopping
<1>12. CASE UNCHANGED vars
  BY <1>12 DEF vars, reporting, working, stopping
<1>13. QED
  BY <1>1, <1>2, <1>3, <1>4, <1>6, <1>7, <1>8, <1>9, <1>10, <1>11, <1>12 DEF Next

-----------------------------------------------------------------------------
(* Order *)

LineSound == LineInOrder /\ LineMade

(* A line that stays as it is. *)
LEMMA LineKept ==
  ASSUME TypeOK, LineSound, Line' = Line,
         \A u \in Update : Made(u) => Made(u)'
  PROVE  LineSound'
<1>1. Line \in Seq(Update)
  BY LineType
<1>2. \A i \in 1 .. Len(Line) : Line[i] \in Update
  BY <1>1, LenProperties
<1>3. QED
  BY <1>2 DEF LineSound, LineInOrder, LineMade

(* A line with a new update, which is after all the others. *)
LEMMA LineExtended ==
  ASSUME TypeOK, LineSound, NEW u \in Update, Line' = Append(Line, u),
         \A v \in Update : Made(v) => Before(v, u) /\ Made(v)',
         Made(u)'
  PROVE  LineSound'
<1>1. Line \in Seq(Update)
  BY LineType
<1>2. /\ Len(Line) \in Nat /\ Len(Line') = Len(Line) + 1 /\ Line'[Len(Line) + 1] = u
      /\ \A i \in 1 .. Len(Line) : Line'[i] = Line[i] /\ Line[i] \in Update
  BY <1>1, AppendProperties, LenProperties
<1>3. \A i \in 1 .. Len(Line) : Before(Line[i], u) /\ Made(Line[i])'
  BY <1>2 DEF LineSound, LineMade
<1>4. \A i \in 1 .. Len(Line') : i \in 1 .. Len(Line) \/ i = Len(Line) + 1
  BY <1>2
<1>5. LineMade'
  <2> SUFFICES ASSUME NEW i \in 1 .. Len(Line') PROVE Made(Line[i])'
    BY DEF LineMade
  <2>1. CASE i \in 1 .. Len(Line)
    <3>1. Line'[i] = Line[i] /\ Made(Line[i])'
      BY <1>2, <1>3, <2>1
    <3>2. QED
      BY <3>1 DEF Made
  <2>2. CASE i = Len(Line) + 1
    BY <1>2, <2>2 DEF Made
  <2>3. QED
    BY <1>4, <2>1, <2>2
<1>6. LineInOrder'
  <2> SUFFICES ASSUME NEW i \in 1 .. Len(Line'), NEW j \in 1 .. Len(Line'), i < j
               PROVE  Before(Line'[i], Line'[j])
    BY DEF LineInOrder, Before
  <2>1. i \in 1 .. Len(Line)
    BY <1>2
  <2>2. CASE j \in 1 .. Len(Line)
    BY <1>2, <2>1, <2>2 DEF LineSound, LineInOrder
  <2>3. CASE j = Len(Line) + 1
    BY <1>2, <1>3, <2>1, <2>3
  <2>4. QED
    BY <1>4, <2>2, <2>3
<1>7. QED
  BY <1>5, <1>6 DEF LineSound

LEMMA NextLine == TypeOK /\ InRange /\ LineSound /\ [Next]_vars => LineSound'
<1> SUFFICES ASSUME TypeOK, InRange, LineSound, [Next]_vars PROVE LineSound'
  OBVIOUS
<1>1. ASSUME Line' = Line, UNCHANGED <<reporter, report>> PROVE LineSound'
  BY <1>1, LineKept DEF Made
<1>2. ASSUME UNCHANGED <<buffer, batch, reported>> PROVE Line' = Line
  BY <1>2 DEF Line
<1>3. CASE FilterProcess \/ TickerFires \/ Shutdown \/ UNCHANGED vars
  BY <1>1, <1>2, <1>3 DEF FilterProcess, TickerFires, Shutdown, CloseStopCh, CloseBuffer,
                          Return, vars, reporting, working
<1>4. CASE BeginReport
  <2>1. Line' = Line /\ report' = report + 1 /\ reporter' = "gauge"
    BY <1>2, <1>4 DEF BeginReport, working
  <2>2. \A u \in Update : Made(u) => Made(u)'
    BY <2>1 DEF Made, TypeOK, Update
  <2>3. QED
    BY <2>1, <2>2, LineKept
<1>5. CASE ReporterExit \/ SwapCount
  <2>1. /\ Line' = Line /\ report' = report
        /\ \/ reporter' \in {"idle", "exited"}
           \/ reporter = "swap" /\ reporter' = "counter"
    BY <1>2, <1>5 DEF ReporterExit, SwapCount, working
  <2>2. \A u \in Update : Made(u) => Made(u)'
    BY <2>1 DEF Made
  <2>3. QED
    BY <2>1, <2>2, LineKept
<1>6. ASSUME NEW u \in Update, u = [report |-> report, count |-> u.count], submitMetricUpdate(u.count),
             UNCHANGED <<batch, reported>>
      PROVE  Line' = Line \/ Line' = Append(Line, u)
  <2>1. buffer' = buffer \/ buffer' = Append(buffer, u)
    BY <1>6 DEF submitMetricUpdate
  <2>2. QED
    BY <1>6, <2>1, SubmitExtendsLine DEF Line
<1>7. CASE SubmitGauge
  <2>0. PICK u \in Update : u = [report |-> report, count |-> 0]
    BY <1>7, UpdateSubmitted DEF SubmitGauge
  <2>1. /\ u.report = report /\ u.count = 0
        /\ reporter = "gauge" /\ reporter' = "swap" /\ report' = report
        /\ UNCHANGED <<batch, reported>>
    BY <1>7, <2>0 DEF SubmitGauge, working
  <2>2. Line' = Line \/ Line' = Append(Line, u)
    BY <1>6, <1>7, <2>0, <2>1 DEF SubmitGauge
  <2>3. \A v \in Update : Made(v) => Before(v, u) /\ Made(v)'
    BY <2>1 DEF Made, Before, Update, TypeOK
  <2>4. Made(u)'
    BY <2>1 DEF Made, Update, TypeOK
  <2>5. QED
    BY <2>1, <2>2, <2>3, <2>4, LineKept, LineExtended
<1>8. CASE SubmitCount
  <2>0. PICK u \in Update : u = [report |-> report, count |-> filtered]
    BY <1>8, UpdateSubmitted DEF SubmitCount
  <2>1. /\ u.report = report /\ u.count = filtered /\ filtered > 0
        /\ reporter = "counter" /\ reporter' = "idle" /\ report' = report
        /\ UNCHANGED <<batch, reported>>
    BY <1>8, <2>0 DEF SubmitCount, working, InRange
  <2>2. Line' = Line \/ Line' = Append(Line, u)
    BY <1>6, <1>8, <2>0, <2>1 DEF SubmitCount
  <2>3. \A v \in Update : Made(v) => Before(v, u) /\ Made(v)'
    BY <2>1 DEF Made, Before, Update, TypeOK
  <2>4. Made(u)'
    BY <2>1 DEF Made, Update, TypeOK
  <2>5. QED
    BY <2>1, <2>2, <2>3, <2>4, LineKept, LineExtended
<1>9. CASE Receive \/ FlushBatch \/ WorkerExit
  <2>1. Line' = Line /\ UNCHANGED <<reporter, report>>
    BY <1>9, WorkerKeepsLine DEF Receive, FlushBatch, WorkerExit, reporting
  <2>2. QED
    BY <1>1, <2>1
<1>10. QED
  BY <1>3, <1>4, <1>5, <1>7, <1>8, <1>9 DEF Next

(* A submitted update is in the line, or discarded, or its sender panics.    *)
LEMMA SumOfSubmitted ==
  ASSUME TypeOK, NEW u \in Update, u.report = report, submitMetricUpdate(u.count),
         UNCHANGED <<batch, reported>>
  PROVE  \/ panicked'
         \/ /\ panicked' = panicked /\ LineSum' \in Nat /\ discarded' \in Nat
            /\ LineSum' = LineSum + u.count + (discarded - discarded')
<1>1. u = [report |-> report, count |-> u.count] /\ u.count \in Nat /\ discarded \in Nat
  BY DEF Update, TypeOK
<1>2. LineSum \in Nat /\ Line \in Seq(Update)
  BY LineType, CountedFinite DEF LineSum
<1>3. SumOf(Append(Line, u)) = LineSum + u.count
  <2>1. Append(Line, u) = Line \o <<u>> /\ <<u>> \in Seq(Update)
    BY <1>2, AppendIsConcat
  <2>2. SumOf(Line \o <<u>>) = LineSum + SumOf(<<u>>)
    BY <1>2, <2>1, SumOfConcat, Zenon DEF LineSum
  <2>3. QED
    BY <2>1, <2>2, SumOfOne
<1>4. CASE panicked'
  BY <1>4
<1>5. CASE buffer' = Append(buffer, u) /\ UNCHANGED <<panicked, discarded>>
  <2>1. Line' = Append(Line, u)
    BY <1>5, SubmitExtendsLine DEF Line
  <2>2. LineSum' = SumOf(Append(Line, u))
    BY <2>1 DEF LineSum, SumOf, CountedIn
  <2>3. QED
    BY <1>1, <1>2, <1>3, <1>5, <2>2
<1>6. CASE discarded' = discarded + u.count /\ UNCHANGED <<panicked, buffer>>
  <2>1. LineSum' = LineSum
    BY <1>6 DEF Line, LineSum, SumOf, CountedIn
  <2>2. QED
    BY <1>1, <1>2, <1>6, <2>1
<1>7. QED
  BY <1>1, <1>4, <1>5, <1>6 DEF submitMetricUpdate

LEMMA CountsAreNumbers ==
  TypeOK => /\ filteredTotal \in Nat /\ filteredCount \in Nat /\ filtered \in Nat
            /\ discarded \in Nat
  BY ReporterAssumption DEF TypeOK

(* Numbers move from one place to another.                                   *)
LEMMA BalanceKept ==
  ASSUME TypeOK, Balance, Line' = Line,
         filteredTotal' \in Nat, filteredCount' \in Nat, filtered' \in Nat, discarded' = discarded,
         filteredTotal' = filteredTotal + (filteredCount' - filteredCount) + (filtered' - filtered)
  PROVE  Balance'
<1>1. LineSum' = LineSum /\ LineSum \in Nat
  BY LineType, CountedFinite DEF LineSum, SumOf, CountedIn
<1>2. filteredTotal \in Nat /\ filteredCount \in Nat /\ filtered \in Nat /\ discarded \in Nat
  BY CountsAreNumbers, Zenon
<1>3. QED
  BY <1>1, <1>2 DEF Balance

(* What is no longer with the reporter is in the line, or discarded.         *)
LEMMA BalanceSubmitted ==
  ASSUME TypeOK, Balance, NEW count \in Nat, LineSum' \in Nat, discarded' \in Nat,
         LineSum' = LineSum + count + (discarded - discarded'),
         UNCHANGED <<filteredTotal, filteredCount>>, filtered = filtered' + count, filtered' \in Nat
  PROVE  Balance'
<1>1. LineSum \in Nat
  BY LineType, CountedFinite DEF LineSum
<1>2. filteredTotal \in Nat /\ filteredCount \in Nat /\ filtered \in Nat /\ discarded \in Nat
  BY CountsAreNumbers, Zenon
<1>3. QED
  BY <1>1, <1>2 DEF Balance

LEMMA NextBalanced == TypeOK /\ InRange /\ Balanced /\ [Next]_vars => Balanced'
<1> SUFFICES ASSUME TypeOK, InRange, Balanced, [Next]_vars, ~panicked' PROVE Balance'
  BY DEF Balanced
<1>1. panicked' = panicked => Balance
  BY DEF Balanced
<1>2. ASSUME UNCHANGED <<buffer, batch, reported>> PROVE Line' = Line
  BY <1>2 DEF Line
<1>3. /\ filteredTotal \in Nat /\ filteredCount \in Nat /\ filtered \in Nat
      /\ filteredTotal + 1 \in Nat /\ filteredCount + 1 \in Nat
  BY ReporterAssumption DEF TypeOK
<1>4. ASSUME UNCHANGED <<panicked, filteredTotal, filteredCount, filtered, discarded>>, Line' = Line
      PROVE  Balance'
  BY <1>1, <1>3, <1>4, BalanceKept
<1>5. CASE FilterProcess
  <2>1. /\ Line' = Line /\ UNCHANGED <<panicked, filtered, discarded>>
        /\ filteredTotal' = filteredTotal + 1 /\ filteredCount' = filteredCount + 1
    BY <1>2, <1>5 DEF FilterProcess, reporting, working
  <2>2. filteredTotal' = filteredTotal + (filteredCount' - filteredCount) + (filtered' - filtered)
    BY <1>3, <2>1
  <2>3. QED
    BY <1>1, <1>3, <2>1, <2>2, BalanceKept
<1>6. CASE SwapCount
  <2>1. /\ Line' = Line /\ UNCHANGED <<panicked, filteredTotal, discarded>>
        /\ filtered = 0 /\ filtered' = filteredCount /\ filteredCount' = 0
    BY <1>2, <1>6 DEF SwapCount, AfterSwap, working, InRange
  <2>2. filteredTotal' = filteredTotal + (filteredCount' - filteredCount) + (filtered' - filtered)
    BY <1>3, <2>1
  <2>3. QED
    BY <1>1, <1>3, <2>1, <2>2, BalanceKept
<1>7. CASE TickerFires \/ BeginReport \/ ReporterExit \/ Shutdown \/ UNCHANGED vars
  BY <1>2, <1>4, <1>7 DEF TickerFires, BeginReport, ReporterExit, Shutdown, CloseStopCh,
                          CloseBuffer, Return, vars, reporting, working
<1>8. CASE Receive \/ FlushBatch \/ WorkerExit
  <2>1. Line' = Line
    BY <1>8, WorkerKeepsLine
  <2>2. UNCHANGED <<panicked, filteredTotal, filteredCount, filtered, discarded>>
    BY <1>8 DEF Receive, FlushBatch, WorkerExit, reporting
  <2>3. QED
    BY <1>4, <2>1, <2>2
<1>9. CASE SubmitGauge
  <2>1. PICK u \in Update : u = [report |-> report, count |-> 0]
    BY <1>9, UpdateSubmitted DEF SubmitGauge
  <2>2. /\ u.report = report /\ u.count = 0 /\ submitMetricUpdate(u.count)
        /\ UNCHANGED <<batch, reported, filteredTotal, filteredCount, filtered>>
    BY <1>9, <2>1 DEF SubmitGauge, working
  <2>3. /\ panicked' = panicked /\ LineSum' \in Nat /\ discarded' \in Nat
        /\ LineSum' = LineSum + u.count + (discarded - discarded')
    BY <2>2, SumOfSubmitted
  <2>4. u.count \in Nat /\ filtered = filtered' + u.count
    BY <1>3, <2>2
  <2>5. QED
    BY <1>1, <1>3, <2>2, <2>3, <2>4, BalanceSubmitted
<1>10. CASE SubmitCount
  <2>1. PICK u \in Update : u = [report |-> report, count |-> filtered]
    BY <1>10, UpdateSubmitted DEF SubmitCount
  <2>2. /\ u.report = report /\ u.count = filtered /\ submitMetricUpdate(u.count)
        /\ filtered' = 0 /\ UNCHANGED <<batch, reported, filteredTotal, filteredCount>>
    BY <1>10, <2>1 DEF SubmitCount, working
  <2>3. /\ panicked' = panicked /\ LineSum' \in Nat /\ discarded' \in Nat
        /\ LineSum' = LineSum + u.count + (discarded - discarded')
    BY <2>2, SumOfSubmitted
  <2>4. u.count \in Nat /\ filtered = filtered' + u.count
    BY <1>3, <2>2
  <2>5. QED
    BY <1>1, <1>3, <2>2, <2>3, <2>4, BalanceSubmitted
<1>11. QED
  BY <1>5, <1>6, <1>7, <1>8, <1>9, <1>10 DEF Next

-----------------------------------------------------------------------------
(* The accounts of the reporter's counters, with what each update under way *)
(* carries, are an inductive invariant of MetricReporter.                   *)
THEOREM Invariance == Spec => []IInv
<1>1. Init => IInv
  BY InitInv
<1>2. IInv /\ [Next]_vars => IInv'
  BY NextInRange, NextType, NextLine, NextBalanced DEF IInv, LineSound
<1>3. QED
  BY <1>1, <1>2, PTL DEF Spec

(* The channel keeps its capacity and a batch its size, and every variable   *)
(* its type (submitMetricUpdate, processMetricsUpdates).                     *)
THEOREM TypeCorrect == Spec => []TypeOK
<1>1. IInv => TypeOK
  BY DEF IInv
<1>2. QED
  BY <1>1, Invariance, PTL

(* The registry gets each update once and in the order of the reports, for   *)
(* channels and batches of any size, Shutdown at any time included.          *)
THEOREM UpdatesInOrder == Spec => []InOrder
<1>1. IInv => InOrder
  <2> SUFFICES ASSUME IInv PROVE InOrder
    OBVIOUS
  <2>1. Line \in Seq(Update)
    BY LineType DEF IInv
  <2>2. DOMAIN Line = 1 .. Len(Line) /\ \A i \in 1 .. Len(Line) : Line[i] \in Update
    BY <2>1, LenProperties
  <2>3. \A i, j \in 1 .. Len(Line) : i < j => Before(Line[i], Line[j])
    BY DEF IInv, LineInOrder
  <2>4. \A i, j \in 1 .. Len(Line) : i < j => Line[i].report <= Line[j].report
    BY <2>2, <2>3 DEF Before, Update
  <2>5. \A u \in Update : ~Before(u, u)
    BY DEF Before, Update
  <2>6. IsInjective(Line)
    <3> SUFFICES ASSUME NEW i \in 1 .. Len(Line), NEW j \in 1 .. Len(Line), i < j, Line[i] = Line[j]
                 PROVE  FALSE
      BY <2>1, <2>2, LenProperties DEF IsInjective
    <3>1. QED
      BY <2>2, <2>3, <2>5
  <2>7. QED
    BY <2>4, <2>6 DEF InOrder, Line
<1>2. QED
  BY <1>1, Invariance, PTL

(* Every filtered process is counted once on its way to the registry, for    *)
(* channels and batches of any size; only a full channel loses one, and the  *)
(* panic of a send on the closed channel (submitMetricUpdate, processBatch). *)
THEOREM CountsKept == Spec => []CountedOnce
<1>1. IInv => CountedOnce
  <2> SUFFICES ASSUME IInv PROVE CountedOnce
    OBVIOUS
  <2>1. SumOf(Line) = SumOf(reported) + SumOf(batch) + SumOf(buffer)
    BY SumOfLine DEF IInv
  <2>2. SumOf(reported) \in Nat /\ SumOf(batch) \in Nat /\ SumOf(buffer) \in Nat
    BY CountedFinite DEF IInv, TypeOK
  <2>3. QED
    BY <2>1, <2>2 DEF IInv, Balanced, Balance, LineSum, CountedOnce, TypeOK
<1>2. QED
  BY <1>1, Invariance, PTL
=============================================================================

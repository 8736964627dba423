-------------------- MODULE AdaptiveHeadSampler_proofs --------------------
(***************************************************************************)
(* Theorems about the adaptive head sampler: AdaptiveControl, for any      *)
(* samplers, IDs, thresholds and factors that Config.Validate accepts, and *)
(* HeadSampling, for any callers, configurations, batches, traces, records,*)
(* probabilities and hash functions.                                       *)
(***************************************************************************)
EXTENDS AdaptiveControl, HeadSampling, FiniteSetTheorems, WellFoundedInduction, TLAPS

-----------------------------------------------------------------------------
(* Arithmetic of the control law.                                           *)

LEMMA Quotient ==
  ASSUME NEW n \in Nat, NEW d \in Nat \ {0}
  PROVE  n \div d \in Nat /\ d * (n \div d) <= n /\ n < d * ((n \div d) + 1)
  BY Z3

(* A probability times a fraction is a natural number. *)
LEMMA TimesIsNat ==
  ASSUME NEW p \in Nat, NEW f \in Fractions
  PROVE  Times(p, f) \in Nat
<1>1. f[1] \in Nat /\ f[2] \in Nat \ {0}
  BY DEF Fractions
<1>2. p * f[1] \in Nat
  BY <1>1
<1> QED
  BY <1>1, <1>2, Quotient DEF Times

(* A factor below one never makes a probability larger. *)
LEMMA TimesShrinks ==
  ASSUME NEW p \in Nat, NEW f \in Fractions, f[1] < f[2]
  PROVE  Times(p, f) <= p
<1> DEFINE n == p * f[1]
           q == n \div f[2]
<1>1. f[1] \in Nat /\ f[2] \in Nat \ {0}
  BY DEF Fractions
<1>2. n \in Nat /\ n <= p * f[2]
  BY <1>1
<1>3. q \in Nat /\ f[2] * q <= n
  BY <1>1, <1>2, Quotient
<1>4. f[2] * q <= f[2] * p
  BY <1>1, <1>2, <1>3
<1>5. q <= p
  <2> SUFFICES ASSUME q > p PROVE FALSE
    BY <1>3
  <2>1. q >= p + 1
    BY <1>3
  <2>2. f[2] * q >= f[2] * (p + 1)
    BY <2>1, <1>1, <1>3
  <2>3. f[2] * (p + 1) = f[2] * p + f[2]
    BY <1>1
  <2> QED
    BY <1>1, <1>3, <1>4, <2>2, <2>3
<1> QED
  BY <1>5 DEF Times

(* The moving average of percentages is a percentage. *)
LEMMA SmoothedIsPercentage ==
  ASSUME ewma \in 0 .. 100, NEW q \in 0 .. 100
  PROVE  Smoothed(q) \in 0 .. 100
<1> DEFINE a == EWMAAlpha[1]
           b == EWMAAlpha[2]
           n == a * q + (b - a) * ewma
           s == n \div b
<1>1. a \in Nat /\ b \in Nat \ {0} /\ a <= b
  BY FactorAssumption DEF Fractions
<1>2. a * q \in Nat /\ a * q <= a * 100
  BY <1>1
<1>3. (b - a) * ewma \in Nat /\ (b - a) * ewma <= (b - a) * 100
  BY <1>1
<1>4. n \in Nat /\ n <= b * 100
  BY <1>1, <1>2, <1>3
<1> HIDE DEF a, b, n
<1>5. s \in Nat /\ b * s <= n
  BY <1>1, <1>4, Quotient
<1>6. s <= 100
  <2> SUFFICES ASSUME s >= 101 PROVE FALSE
    BY <1>5
  <2>1. b * s >= b * 101
    BY <1>1, <1>5
  <2> QED
    BY <2>1, <1>1, <1>4, <1>5
<1> QED
  BY <1>5, <1>6 DEF Smoothed, a, b, n

(* Clamped, every probability is in the configured range. *)
LEMMA ClampInRange ==
  ASSUME NEW p \in Nat
  PROVE  Clamp(p) \in MinP .. MaxP
  BY ControlAssumption DEF Clamp

LEMMA NextProbabilityIsNat ==
  ASSUME NEW p \in Nat, NEW e \in 0 .. 100
  PROVE  NextProbability(p, e) \in Nat
  BY TimesIsNat, FactorAssumption DEF NextProbability

-----------------------------------------------------------------------------
(* A registered base has a probability: it is stored before it registers.   *)
RegisteredIsBuilt ==
  \A id \in IDs : registry[id] # Nobody => baseP[registry[id]] \in 0 .. 1000

(* The run of high intervals that is being counted is not older than the    *)
(* last aggressive drop.                                                    *)
RunIsYoungerThanDrop == highCount <= sinceDrop

IInv == TypeOK /\ RegisteredIsBuilt /\ RunIsYoungerThanDrop

LEMMA InitInvariant == Init => IInv
<1> SUFFICES ASSUME Init PROVE IInv
  OBVIOUS
<1>1. load \in Loads
  BY ControlAssumption DEF Init
<1>2. /\ registry \in [IDs -> Samplers \cup {Nobody}]
      /\ baseP \in [Samplers -> MinP .. MaxP \cup {InitialP, Unbuilt}]
      /\ ownP \in [Samplers -> {InitialP, Unbuilt}]
  BY DEF Init
<1>3. TypeOK
  <2>1. running \in BOOLEAN
    BY DEF Init
  <2>2. /\ ewma \in 0 .. 100
        /\ highCount \in 0 .. AggressiveDropWindowCount - 1
        /\ sinceDrop \in 0 .. AggressiveDropWindowCount
    BY ControlAssumption DEF Init
  <2> QED
    BY <1>1, <1>2, <2>1, <2>2 DEF TypeOK
<1>4. RegisteredIsBuilt
  BY DEF Init, RegisteredIsBuilt
<1>5. RunIsYoungerThanDrop
  BY ControlAssumption DEF Init, RunIsYoungerThanDrop
<1> QED
  BY <1>3, <1>4, <1>5 DEF IInv

(* What an adjusting tick finds and leaves.                                 *)
LEMMA AdjustWorks ==
  ASSUME IInv, Adjust
  PROVE  /\ Controlled \in Samplers
         /\ baseP[Controlled] \in 0 .. 1000
         /\ Smoothed(load) \in 0 .. 100
         /\ ewma' = Smoothed(load)
         /\ NextProbability(baseP[Controlled], Smoothed(load)) \in Nat
         /\ baseP' = [baseP EXCEPT ![Controlled] =
                        Clamp(NextProbability(baseP[Controlled], Smoothed(load)))]
<1>1. Controlled \in Samplers /\ baseP[Controlled] \in 0 .. 1000
  BY ControlAssumption DEF IInv, TypeOK, RegisteredIsBuilt, Adjust, Controlled
<1>2. Smoothed(load) \in 0 .. 100
  BY SmoothedIsPercentage, ControlAssumption DEF IInv, TypeOK
<1>3. NextProbability(baseP[Controlled], Smoothed(load)) \in Nat
  <2> DEFINE p == baseP[Controlled]
             e == Smoothed(load)
  <2>1. p \in Nat
    BY <1>1
  <2> HIDE DEF p, e
  <2>2. NextProbability(p, e) \in Nat
    BY <2>1, TimesIsNat, FactorAssumption DEF NextProbability
  <2> QED
    BY <2>2 DEF p, e
<1>4. /\ ewma' = Smoothed(load)
      /\ baseP' = [baseP EXCEPT ![Controlled] =
                     Clamp(NextProbability(baseP[Controlled], Smoothed(load)))]
  BY DEF Adjust, Controlled
<1> QED
  BY <1>1, <1>2, <1>3, <1>4

LEMMA AdjustPreserves ==
  ASSUME IInv, Adjust
  PROVE  IInv'
<1> DEFINE p == Clamp(NextProbability(baseP[Controlled], Smoothed(load)))
<1>1. p \in MinP .. MaxP
  BY AdjustWorks, ClampInRange
<1>2. /\ Controlled \in Samplers
      /\ baseP' = [baseP EXCEPT ![Controlled] = p]
      /\ ewma' \in 0 .. 100
  BY AdjustWorks
<1> HIDE DEF p
<1>3. baseP' \in [Samplers -> MinP .. MaxP \cup {InitialP, Unbuilt}]
  BY <1>1, <1>2 DEF IInv, TypeOK
<1>4. highCount' \in 0 .. AggressiveDropWindowCount - 1
  BY <1>2, ControlAssumption
     DEF IInv, TypeOK, Adjust, CountAfter, Sustained, HighCount
<1>5. sinceDrop' \in 0 .. AggressiveDropWindowCount
  BY ControlAssumption DEF IInv, TypeOK, Adjust, Older
<1>6. TypeOK'
  BY <1>2, <1>3, <1>4, <1>5 DEF IInv, TypeOK, Adjust
<1>7. RegisteredIsBuilt'
  <2>1. p \in 0 .. 1000 /\ registry' = registry
    BY <1>1, ControlAssumption DEF Adjust
  <2>2. \A s \in Samplers : baseP'[s] = IF s = Controlled THEN p ELSE baseP[s]
    BY <1>2 DEF IInv, TypeOK
  <2>3. ASSUME NEW id \in IDs, registry'[id] # Nobody
        PROVE  baseP'[registry'[id]] \in 0 .. 1000
    <3>1. registry[id] # Nobody /\ registry'[id] = registry[id]
      BY <2>1, <2>3
    <3>2. registry[id] \in Samplers /\ baseP[registry[id]] \in 0 .. 1000
      BY <3>1 DEF IInv, TypeOK, RegisteredIsBuilt
    <3> QED
      BY <2>1, <2>2, <3>1, <3>2
  <2> QED
    BY <2>3 DEF RegisteredIsBuilt
<1>8. RunIsYoungerThanDrop'
  <2> DEFINE e == Smoothed(load)
  <2>1. highCount' = CountAfter(e)
        /\ sinceDrop' = IF Sustained(e) THEN 0 ELSE Older
    BY DEF Adjust
  <2>2. e \in 0 .. 100
    BY AdjustWorks
  <2> HIDE DEF e
  <2> QED
    BY <2>1, <2>2, ControlAssumption
       DEF IInv, TypeOK, RunIsYoungerThanDrop, CountAfter, Sustained, HighCount, Older
<1> QED
  BY <1>6, <1>7, <1>8 DEF IInv

LEMMA BuildPreserves ==
  ASSUME IInv, NEW s \in Samplers, Build(s)
  PROVE  IInv'
<1>1. /\ registry' = [registry EXCEPT ![RegistryIDOf[s]] = s]
      /\ baseP' = [baseP EXCEPT ![s] = InitialP]
      /\ ownP' = [ownP EXCEPT ![s] = InitialP]
      /\ UNCHANGED <<running, load, ewma, highCount, sinceDrop>>
  BY DEF Build, control
<1>2. /\ registry \in [IDs -> Samplers \cup {Nobody}]
      /\ baseP \in [Samplers -> MinP .. MaxP \cup {InitialP, Unbuilt}]
      /\ ownP \in [Samplers -> {InitialP, Unbuilt}]
  BY DEF IInv, TypeOK
<1>3. /\ registry' \in [IDs -> Samplers \cup {Nobody}]
      /\ baseP' \in [Samplers -> MinP .. MaxP \cup {InitialP, Unbuilt}]
      /\ ownP' \in [Samplers -> {InitialP, Unbuilt}]
  BY <1>1, <1>2
<1>4. TypeOK'
  BY <1>1, <1>3 DEF IInv, TypeOK
<1>5. ASSUME NEW id \in IDs, registry'[id] # Nobody
      PROVE  baseP'[registry'[id]] \in 0 .. 1000
  <2>1. InitialP \in 0 .. 1000
    BY ControlAssumption
  <2>2. CASE registry'[id] = s
    BY <1>1, <1>2, <2>1, <2>2
  <2>3. CASE registry'[id] # s
    <3>1. registry'[id] = registry[id]
      BY <1>1, <1>2, <2>3
    <3>2. baseP'[registry[id]] = baseP[registry[id]]
      BY <1>1, <1>2, <1>5, <2>3, <3>1
    <3> QED
      BY <1>5, <3>1, <3>2 DEF IInv, RegisteredIsBuilt
  <2> QED
    BY <2>2, <2>3
<1>6. RunIsYoungerThanDrop'
  BY <1>1 DEF IInv, RunIsYoungerThanDrop
<1> QED
  BY <1>4, <1>5, <1>6 DEF IInv, RegisteredIsBuilt

LEMMA NextPreserves == IInv /\ [Next]_vars => IInv'
<1> SUFFICES ASSUME IInv, [Next]_vars PROVE IInv'
  OBVIOUS
<1>1. ASSUME NEW s \in Samplers, Build(s) PROVE IInv'
  BY <1>1, BuildPreserves
<1>2. CASE Start
  BY <1>2 DEF Start, control, IInv, TypeOK, RegisteredIsBuilt, RunIsYoungerThanDrop
<1>3. ASSUME sinceDrop' = Older,
             UNCHANGED <<registry, baseP, ownP, running, load, highCount>>,
             ewma' \in 0 .. 100
      PROVE  IInv'
  <2>1. sinceDrop' \in 0 .. AggressiveDropWindowCount /\ highCount <= sinceDrop'
    BY <1>3, ControlAssumption DEF IInv, TypeOK, RunIsYoungerThanDrop, Older
  <2>2. TypeOK'
    BY <1>3, <2>1 DEF IInv, TypeOK
  <2>3. RegisteredIsBuilt'
    BY <1>3 DEF IInv, RegisteredIsBuilt
  <2>4. RunIsYoungerThanDrop'
    BY <1>3, <2>1 DEF RunIsYoungerThanDrop
  <2> QED
    BY <2>2, <2>3, <2>4 DEF IInv
<1>4. CASE ScrapeFails
  <2>1. /\ sinceDrop' = Older
        /\ UNCHANGED <<registry, baseP, ownP, running, load, highCount>>
        /\ ewma' = ewma
    BY <1>4 DEF ScrapeFails
  <2>2. ewma' \in 0 .. 100
    BY <2>1 DEF IInv, TypeOK
  <2> QED
    BY <1>3, <2>1, <2>2
<1>5. CASE NoTunable
  <2>1. /\ sinceDrop' = Older
        /\ UNCHANGED <<registry, baseP, ownP, running, load, highCount>>
        /\ ewma' = Smoothed(load)
    BY <1>5 DEF NoTunable
  <2>2. Smoothed(load) \in 0 .. 100
    BY SmoothedIsPercentage, ControlAssumption DEF IInv, TypeOK
  <2>3. ewma' \in 0 .. 100
    BY <2>1, <2>2
  <2> QED
    BY <1>3, <2>1, <2>3
<1>6. CASE Adjust
  BY <1>6, AdjustPreserves
<1>7. ASSUME NEW l \in Loads, LoadChanges(l) PROVE IInv'
  BY <1>7 DEF LoadChanges, control, IInv, TypeOK, RegisteredIsBuilt, RunIsYoungerThanDrop
<1>8. CASE UNCHANGED vars
  BY <1>8 DEF vars, control, IInv, TypeOK, RegisteredIsBuilt, RunIsYoungerThanDrop
<1> QED
  BY <1>1, <1>2, <1>4, <1>5, <1>6, <1>7, <1>8 DEF Next

THEOREM InvariantHolds == Spec => []IInv
  BY InitInvariant, NextPreserves, PTL DEF Spec

(* Every reachable state is well typed; in particular, whatever the queues  *)
(* do, a probability that setProbability has stored is between MinP and     *)
(* MaxP.                                                                    *)
THEOREM TypeCorrect == Spec => []TypeOK
<1>1. IInv => TypeOK
  BY DEF IInv
<1> QED
  BY <1>1, InvariantHolds, PTL

(* Aggressive drops are a whole window of ticks apart: runControlCycle      *)
(* resets highCount after each.                                             *)
THEOREM AggressiveDropsAreSpaced == Spec => DropsAreSpaced
<1>1. ASSUME IInv, [Next]_vars, UNCHANGED vars => FALSE,
             running, load' = load, sinceDrop' = 0
      PROVE  Older = AggressiveDropWindowCount
  <2> USE <1>1 DEF IInv, TypeOK, RunIsYoungerThanDrop
  <2>1. CASE ScrapeFails \/ NoTunable
    <3>1. sinceDrop' = Older
      BY <2>1 DEF ScrapeFails, NoTunable
    <3> QED
      BY <3>1, ControlAssumption DEF Older
  <2>2. CASE Adjust
    <3> DEFINE e == Smoothed(load)
    <3>1. sinceDrop' = IF Sustained(e) THEN 0 ELSE Older
      BY <2>2 DEF Adjust
    <3> HIDE DEF e
    <3> QED
      BY <3>1, ControlAssumption DEF Sustained, HighCount, Older
  <2> QED
    BY <2>1, <2>2 DEF Next, Build, Start, LoadChanges
<1> QED
  BY <1>1, InvariantHolds, PTL DEF Spec, DropsAreSpaced

(* Under pressure no probability goes up: runControlCycle multiplies by a   *)
(* factor below one and the clamp of setProbability does not undo it.       *)
THEOREM PressureNeverRaises == Spec => NeverRaisedUnderPressure
<1>1. ASSUME IInv, Next, NEW s \in Samplers,
             running, ewma' > TargetHigh, baseP[s] \in MinP .. MaxP
      PROVE  baseP'[s] <= baseP[s]
  <2>0. baseP[s] \in Nat
    BY <1>1, ControlAssumption
  <2>1. CASE UNCHANGED baseP
    BY <2>0, <2>1
  <2>2. CASE Adjust
    <3> DEFINE c == Controlled
               e == Smoothed(load)
               p == baseP[c]
    <3>1. /\ c \in Samplers
          /\ p \in 0 .. 1000
          /\ e \in 0 .. 100
          /\ ewma' = e
          /\ NextProbability(p, e) \in Nat
          /\ baseP' = [baseP EXCEPT ![c] = Clamp(NextProbability(p, e))]
      BY <1>1, <2>2, AdjustWorks
    <3>2. baseP \in [Samplers -> MinP .. MaxP \cup {InitialP, Unbuilt}]
      BY <1>1 DEF IInv, TypeOK
    <3>3. CASE s # c
      BY <2>0, <3>1, <3>2, <3>3
    <3>4. CASE s = c
      <4>1. e > TargetHigh /\ p \in Nat
        BY <1>1, <3>1
      <4>2. NextProbability(p, e) =
              Times(p, IF Sustained(e) THEN AggressiveDrop ELSE AdjustmentDown)
        <5> HIDE DEF p, e
        <5> QED
          BY <4>1 DEF NextProbability
      <4>3. Times(p, AggressiveDrop) <= p /\ Times(p, AdjustmentDown) <= p
        <5> HIDE DEF p
        <5> QED
          BY <4>1, FactorAssumption, TimesShrinks
      <4>4. NextProbability(p, e) <= p
        <5> HIDE DEF p, e
        <5> QED
          BY <4>2, <4>3
      <4>5. Clamp(NextProbability(p, e)) <= p
        <5> DEFINE n == NextProbability(p, e)
        <5>1. n \in Nat /\ n <= p /\ p \in MinP .. MaxP
          BY <1>1, <3>1, <3>4, <4>4
        <5> HIDE DEF n, p, e
        <5>2. Clamp(n) <= p
          BY <5>1, ControlAssumption DEF Clamp
        <5> QED
          BY <5>2 DEF n
      <4> QED
        BY <3>1, <3>2, <3>4, <4>5
    <3> QED
      BY <3>3, <3>4
  <2> QED
    BY <1>1, <2>1, <2>2
       DEF Next, Build, Start, ScrapeFails, NoTunable, LoadChanges
<1>2. IInv /\ [Next]_vars
        => [\A s \in Samplers :
              running /\ ewma' > TargetHigh /\ baseP[s] \in MinP .. MaxP
                => baseP'[s] <= baseP[s]]_vars
  BY <1>1
<1> QED
  BY <1>2, InvariantHolds, PTL DEF Spec, NeverRaisedUnderPressure
-----------------------------------------------------------------------------
(* HeadSampling: the strengthened invariant                                 *)

Done(a) == ItemsOf(a.batch) \ ItemsOf(a.rest)

(* The scope at hand, in the batch. *)
Current(rest, batch) == Len(batch) - Len(rest) + 1

(* rest is what is left of batch: the end of a scope, and the scopes after. *)
FullScope(rest, batch, i) == batch[Len(batch) - Len(rest) + i]

Shift(rest, batch, i) == Len(FullScope(rest, batch, i)) - Len(rest[i])

IsRest(rest, batch) ==
  /\ Len(rest) <= Len(batch)
  /\ \A i \in 1 .. Len(rest) :
       /\ Shift(rest, batch, i) >= 0 /\ (i > 1 => Shift(rest, batch, i) = 0)
       /\ \A j \in 1 .. Len(rest[i]) :
            rest[i][j] = FullScope(rest, batch, i)[Shift(rest, batch, i) + j]

(* The history of a call, as far as it matters. *)
CallWellFormed(a) ==
  /\ IsBatch(a.batch, a.sampler) /\ IsRest(a.rest, a.batch)
  /\ a.chosen \subseteq Done(a) /\ (a.sampler = Logs => a.out = a.chosen)
  /\ (a.sampler = Logs => a.decisions = << >>)
  /\ currentP[a.sampler] \in a.inForce

DecidedOnce(a) ==
  \A i \in DOMAIN a.batch : \A s1, s2 \in ToSet(a.batch[i]) \ ItemsOf(a.rest) :
    TraceOf[s1] = TraceOf[s2] => (s1 \in a.chosen <=> s2 \in a.chosen)

Remembered(a) ==
  a.rest # << >> =>
    \A s \in ToSet(a.batch[Current(a.rest, a.batch)]) \ ItemsOf(a.rest) :
      TraceOf[s] \in DOMAIN a.decisions /\ (a.decisions[TraceOf[s]] <=> s \in a.chosen)

(* A decision by a hash that a set of probabilities allows. *)
Allowed(id, keep, ps) ==
  /\ id \in DOMAIN hash
  /\ (\A q \in ps : hash[id] < q) => keep
  /\ keep => \E q \in ps : hash[id] < q

PassedAll(a) == a.rest = << >> /\ One \in a.inForce /\ a.chosen = ItemsOf(a.batch)

Followed(a) ==
  \/ PassedAll(a)
  \/ \A x \in Sampled(a) : Allowed(IDOf(a.sampler, x), x \in a.chosen, a.inForce)

DecisionsFollow(a) ==
  \A t \in DOMAIN a.decisions : Allowed(<<Traces, t>>, a.decisions[t], a.inForce)

Obeyed(a) ==
  \A r \in Done(a) :
    /\ checkCriticalLogPatterns(r) \/ checkContentFilters(r).action = "include" => r \in a.out
    /\ ~checkCriticalLogPatterns(r) /\ checkContentFilters(r).action = "exclude" => r \notin a.out

CallSound(a) ==
  /\ CallWellFormed(a)
  /\ a.sampler = Traces => DecidedOnce(a) /\ Remembered(a)
  /\ Followed(a) /\ DecisionsFollow(a)
  /\ a.sampler = Logs => Obeyed(a)

(* Where the items of a sampler are. *)
Apart(k) ==
  /\ IsFiniteSet(received[k])
  /\ \A b \in waiting[k] : ItemsOf(b) \cap received[k] = {}
  /\ \A c \in CallsOf(k) :
       ItemsOf(call[c].batch) \subseteq received[k] \ delivered[k]
  /\ \A c, d \in CallsOf(k) : c # d => ItemsOf(call[c].batch) \cap ItemsOf(call[d].batch) = {}

(* Types and accounts, what each call has done so far, and where the items  *)
(* are: together they are inductive.                                        *)
CallsSound == \A c \in Callers : call[c] # NoCall => CallSound(call[c])

PlacesApart == \A k \in Signals : Apart(k)

HeadInv == SamplingTypeOK /\ Accounted /\ CallsSound /\ PlacesApart

-----------------------------------------------------------------------------
(* What is left of a batch *)

(* What a batch is, position by position.                                    *)
LEMMA ListsAre ==
  ASSUME NEW k, NEW scopes \in Seq(Lists(k))
  PROVE  /\ scopes \in Seq(Seq(Items(k))) /\ DOMAIN scopes = 1 .. Len(scopes)
         /\ Len(scopes) \in Nat
         /\ \A i \in 1 .. Len(scopes) :
              /\ scopes[i] \in Seq(Items(k)) /\ Len(scopes[i]) \in Nat \ {0}
              /\ DOMAIN scopes[i] = 1 .. Len(scopes[i])
  BY DEF Lists

(* The items are at the positions.                                           *)
LEMMA ItemsAre ==
  ASSUME NEW k, NEW scopes \in Seq(Lists(k)), NEW x
  PROVE  x \in ItemsOf(scopes) <=>
           \E i \in 1 .. Len(scopes) : \E j \in 1 .. Len(scopes[i]) : x = scopes[i][j]
<1>1. /\ DOMAIN scopes = 1 .. Len(scopes)
      /\ \A i \in 1 .. Len(scopes) : DOMAIN scopes[i] = 1 .. Len(scopes[i])
  BY ListsAre
<1>2. x \in ItemsOf(scopes) <=> \E i \in 1 .. Len(scopes) : x \in ToSet(scopes[i])
  BY <1>1 DEF ItemsOf
<1>3. \A i \in 1 .. Len(scopes) :
        x \in ToSet(scopes[i]) <=> \E j \in 1 .. Len(scopes[i]) : x = scopes[i][j]
  BY <1>1 DEF ToSet
<1>4. QED
  BY <1>2, <1>3, Zenon

(* Where an item of what is left was in the batch. *)
LEMMA RestPositions ==
  ASSUME NEW k, NEW batch \in Seq(Lists(k)), NEW rest \in Seq(Lists(k)), IsRest(rest, batch),
         NEW i \in 1 .. Len(rest), NEW j \in 1 .. Len(rest[i])
  PROVE  \E e \in Nat :
           /\ e = Shift(rest, batch, i)
           /\ Len(batch) - Len(rest) + i \in DOMAIN batch
           /\ e + j \in DOMAIN batch[Len(batch) - Len(rest) + i]
           /\ rest[i][j] = batch[Len(batch) - Len(rest) + i][e + j]
<1>1. Len(rest) \in Nat /\ Len(batch) \in Nat /\ DOMAIN batch = 1 .. Len(batch)
  BY ListsAre, Zenon
<1>2. Len(rest) <= Len(batch)
  BY DEF IsRest
<1>3. PICK d : d = Len(batch) - Len(rest)
  OBVIOUS
<1>4. d \in Int /\ d + i \in 1 .. Len(batch)
  BY <1>1, <1>2, <1>3
<1>5. PICK full : full = batch[d + i]
  OBVIOUS
<1>6. Len(full) \in Nat /\ DOMAIN full = 1 .. Len(full) /\ Len(rest[i]) \in Nat
  BY <1>4, <1>5, ListsAre
<1>7. /\ Shift(rest, batch, i) = Len(full) - Len(rest[i]) /\ Shift(rest, batch, i) >= 0
      /\ rest[i][j] = full[Shift(rest, batch, i) + j]
  BY <1>3, <1>5 DEF IsRest, Shift, FullScope
<1>8. PICK e : e = Shift(rest, batch, i)
  OBVIOUS
<1>9. e \in Nat /\ e + j \in 1 .. Len(full)
  BY <1>6, <1>7, <1>8
<1>10. QED
  BY <1>1, <1>3, <1>4, <1>5, <1>6, <1>7, <1>8, <1>9

(* No item comes twice in what is left.                                      *)
LEMMA RestDistinct ==
  ASSUME NEW k, NEW batch, IsBatch(batch, k), NEW rest \in Seq(Lists(k)), IsRest(rest, batch),
         NEW i \in 1 .. Len(rest), NEW j \in 1 .. Len(rest), NEW m \in 1 .. Len(rest[i]),
         NEW l \in 1 .. Len(rest[j]), rest[i][m] = rest[j][l]
  PROVE  i = j /\ m = l
<1>1. batch \in Seq(Lists(k))
  BY DEF IsBatch
<1>2. PICK d : d = Len(batch) - Len(rest)
  OBVIOUS
<1>3. Len(rest) \in Nat /\ Len(batch) \in Nat /\ d \in Int
  BY <1>1, <1>2, ListsAre
<1>4. PICK e \in Nat :
        /\ e = Shift(rest, batch, i) /\ d + i \in DOMAIN batch
        /\ e + m \in DOMAIN batch[d + i] /\ rest[i][m] = batch[d + i][e + m]
  <2>1. \E e \in Nat :
           /\ e = Shift(rest, batch, i)
           /\ Len(batch) - Len(rest) + i \in DOMAIN batch
           /\ e + m \in DOMAIN batch[Len(batch) - Len(rest) + i]
           /\ rest[i][m] = batch[Len(batch) - Len(rest) + i][e + m]
    BY <1>1, RestPositions
  <2>2. QED
    BY <1>2, <2>1
<1>5. PICK f \in Nat :
        /\ f = Shift(rest, batch, j) /\ d + j \in DOMAIN batch
        /\ f + l \in DOMAIN batch[d + j] /\ rest[j][l] = batch[d + j][f + l]
  <2>1. \E f \in Nat :
           /\ f = Shift(rest, batch, j)
           /\ Len(batch) - Len(rest) + j \in DOMAIN batch
           /\ f + l \in DOMAIN batch[Len(batch) - Len(rest) + j]
           /\ rest[j][l] = batch[Len(batch) - Len(rest) + j][f + l]
    BY <1>1, RestPositions
  <2>2. QED
    BY <1>2, <2>1
<1>6. d + i = d + j /\ e + m = f + l
  <2>1. batch[d + i][e + m] = batch[d + j][f + l]
    BY <1>4, <1>5
  <2>2. QED
    BY <1>4, <1>5, <2>1 DEF IsBatch
<1>7. i \in Nat /\ j \in Nat
  BY <1>3
<1>8. i = j
  BY <1>3, <1>6, <1>7
<1>9. m \in Nat /\ l \in Nat
  BY <1>1, ListsAre
<1>10. QED
  BY <1>4, <1>5, <1>6, <1>8, <1>9

(* The next item is in the scope at hand, and in no other.                   *)
LEMMA FirstItem ==
  ASSUME NEW k, NEW batch, IsBatch(batch, k), NEW rest \in Seq(Lists(k)), IsRest(rest, batch),
         rest # << >>
  PROVE  /\ 1 \in 1 .. Len(rest) /\ 1 \in 1 .. Len(rest[1])
         /\ Head(rest) = rest[1] /\ Head(Head(rest)) = rest[1][1]
         /\ rest[1][1] \in Items(k) /\ rest[1][1] \in ItemsOf(rest)
         /\ Current(rest, batch) \in DOMAIN batch
         /\ rest[1][1] \in ToSet(batch[Current(rest, batch)])
         /\ \A i \in DOMAIN batch : rest[1][1] \in ToSet(batch[i]) => i = Current(rest, batch)
<1>1. 1 \in 1 .. Len(rest) /\ Head(rest) = rest[1]
  OBVIOUS
<1>2. rest[1] \in Seq(Items(k)) /\ 1 \in 1 .. Len(rest[1])
  BY <1>1, ListsAre
<1>3. Head(Head(rest)) = rest[1][1] /\ rest[1][1] \in Items(k)
  BY <1>1, <1>2
<1>4. rest[1][1] \in ItemsOf(rest)
  BY <1>1, <1>2, ItemsAre
<1>5. batch \in Seq(Lists(k))
  BY DEF IsBatch
<1>6. PICK e \in Nat :
        /\ Len(batch) - Len(rest) + 1 \in DOMAIN batch
        /\ e + 1 \in DOMAIN batch[Len(batch) - Len(rest) + 1]
        /\ rest[1][1] = batch[Len(batch) - Len(rest) + 1][e + 1]
  BY <1>1, <1>2, <1>5, RestPositions
<1>7. Current(rest, batch) \in DOMAIN batch /\ rest[1][1] \in ToSet(batch[Current(rest, batch)])
  BY <1>6 DEF Current, ToSet
<1>8. ASSUME NEW i \in DOMAIN batch, rest[1][1] \in ToSet(batch[i]) PROVE i = Current(rest, batch)
  <2>1. PICK m \in DOMAIN batch[i] : rest[1][1] = batch[i][m]
    BY <1>8 DEF ToSet
  <2>2. PICK l \in DOMAIN batch[Current(rest, batch)] : rest[1][1] = batch[Current(rest, batch)][l]
    BY <1>7 DEF ToSet
  <2>3. QED
    BY <1>7, <2>1, <2>2 DEF IsBatch
<1>9. QED
  BY <1>1, <1>2, <1>3, <1>4, <1>7, <1>8

LEMMA NextRestIs ==
  ASSUME NEW k, NEW rest \in Seq(Lists(k)), rest # << >>
  PROVE  /\ NextRest(rest) \in Seq(Lists(k))
         /\ Len(rest[1]) = 1 =>
              /\ Len(NextRest(rest)) = Len(rest) - 1
              /\ \A i \in 1 .. Len(rest) - 1 : NextRest(rest)[i] = rest[i + 1]
         /\ Len(rest[1]) # 1 =>
              /\ Len(NextRest(rest)) = Len(rest)
              /\ Len(NextRest(rest)[1]) = Len(rest[1]) - 1
              /\ \A j \in 1 .. Len(rest[1]) - 1 : NextRest(rest)[1][j] = rest[1][j + 1]
              /\ \A i \in 2 .. Len(rest) : NextRest(rest)[i] = rest[i]
<1>1. Len(rest) \in Nat \ {0} /\ Head(rest) = rest[1]
  OBVIOUS
<1>2. rest[1] \in Lists(k) /\ rest[1] \in Seq(Items(k)) /\ Len(rest[1]) \in Nat \ {0}
  BY <1>1, ListsAre
<1>3. CASE Len(rest[1]) = 1
  <2>1. NextRest(rest) = Tail(rest)
    BY <1>1, <1>3 DEF NextRest
  <2>2. QED
    BY <1>1, <1>3, <2>1
<1>4. CASE Len(rest[1]) # 1
  <2>1. NextRest(rest) = [rest EXCEPT ![1] = Tail(rest[1])]
    BY <1>1, <1>4 DEF NextRest
  <2>2. /\ Tail(rest[1]) \in Seq(Items(k)) /\ Len(Tail(rest[1])) = Len(rest[1]) - 1
        /\ \A j \in 1 .. Len(rest[1]) - 1 : Tail(rest[1])[j] = rest[1][j + 1]
    BY <1>2
  <2>3. Tail(rest[1]) \in Lists(k)
    <3>1. Len(Tail(rest[1])) # 0
      BY <1>2, <1>4, <2>2
    <3>2. Len(<< >>) = 0
      OBVIOUS
    <3>3. QED
      BY <2>2, <3>1, <3>2 DEF Lists
  <2>4. QED
    BY <1>1, <1>4, <2>1, <2>2, <2>3
<1>5. QED
  BY <1>3, <1>4

(* One item is taken, and the others are left.                               *)
LEMMA NextRestItems ==
  ASSUME NEW k, NEW batch, IsBatch(batch, k), NEW rest \in Seq(Lists(k)), IsRest(rest, batch),
         rest # << >>
  PROVE  ItemsOf(NextRest(rest)) = ItemsOf(rest) \ {rest[1][1]}
<1> DEFINE next == NextRest(rest)
<1>1. /\ Len(rest) \in Nat \ {0} /\ \A i \in 1 .. Len(rest) : Len(rest[i]) \in Nat \ {0}
  BY ListsAre
<1>2. next \in Seq(Lists(k))
  BY NextRestIs
<1>3. \A i, j \in 1 .. Len(rest) : \A m \in 1 .. Len(rest[i]), l \in 1 .. Len(rest[j]) :
        rest[i][m] = rest[j][l] => i = j /\ m = l
  BY RestDistinct
<1>4. ASSUME NEW x \in ItemsOf(next) PROVE x \in ItemsOf(rest) /\ x # rest[1][1]
  <2>1. PICK i \in 1 .. Len(next) : \E j \in 1 .. Len(next[i]) : x = next[i][j]
    BY <1>2, <1>4, ItemsAre
  <2>2. PICK j \in 1 .. Len(next[i]) : x = next[i][j]
    BY <2>1
  <2>3. \E m \in 1 .. Len(rest) : \E l \in 1 .. Len(rest[m]) :
           x = rest[m][l] /\ ~(m = 1 /\ l = 1)
    <3>1. CASE Len(rest[1]) = 1
      <4>1. i + 1 \in 2 .. Len(rest) /\ next[i] = rest[i + 1]
        BY <1>1, <3>1, NextRestIs
      <4>2. QED
        BY <1>1, <2>2, <4>1
    <3>2. CASE Len(rest[1]) # 1 /\ i = 1
      <4>1. j + 1 \in 2 .. Len(rest[1]) /\ next[i][j] = rest[1][j + 1]
        BY <1>1, <3>2, NextRestIs
      <4>2. QED
        BY <1>1, <2>2, <4>1
    <3>3. CASE Len(rest[1]) # 1 /\ i # 1
      <4>1. i \in 2 .. Len(rest) /\ next[i] = rest[i]
        BY <1>1, <3>3, NextRestIs
      <4>2. QED
        BY <1>1, <2>2, <4>1
    <3>4. QED
      BY <3>1, <3>2, <3>3
  <2>4. QED
    BY <1>1, <1>3, <2>3, ItemsAre
<1>5. ASSUME NEW x \in ItemsOf(rest), x # rest[1][1] PROVE x \in ItemsOf(next)
  <2>1. PICK i \in 1 .. Len(rest) : \E j \in 1 .. Len(rest[i]) : x = rest[i][j]
    BY <1>5, ItemsAre
  <2>2. PICK j \in 1 .. Len(rest[i]) : x = rest[i][j]
    BY <2>1
  <2>3. i # 1 \/ j # 1
    BY <1>5, <2>2
  <2>4. \E m \in 1 .. Len(next) : \E l \in 1 .. Len(next[m]) : x = next[m][l]
    <3>1. CASE Len(rest[1]) = 1
      <4>1. i # 1
        BY <2>2, <2>3, <3>1
      <4>2. PICK m \in 1 .. Len(rest) - 1 : i = m + 1
        <5>1. i - 1 \in 1 .. Len(rest) - 1 /\ i = (i - 1) + 1
          BY <1>1, <4>1
        <5>2. QED
          BY <5>1
      <4>3. Len(next) = Len(rest) - 1 /\ next[m] = rest[i]
        BY <3>1, <4>2, NextRestIs
      <4>4. QED
        BY <2>2, <4>2, <4>3
    <3>2. CASE Len(rest[1]) # 1 /\ i = 1
      <4>1. 1 \in 1 .. Len(next) /\ j - 1 \in 1 .. Len(next[1]) /\ next[1][j - 1] = rest[1][j]
        BY <1>1, <2>3, <3>2, NextRestIs
      <4>2. QED
        BY <2>2, <3>2, <4>1
    <3>3. CASE Len(rest[1]) # 1 /\ i # 1
      <4>1. i \in 1 .. Len(next) /\ next[i] = rest[i]
        BY <1>1, <3>3, NextRestIs
      <4>2. QED
        BY <2>2, <4>1
    <3>4. QED
      BY <3>1, <3>2, <3>3
  <2>5. QED
    BY <1>2, <2>4, ItemsAre
<1>6. QED
  BY <1>4, <1>5

(* What is then left is still the end of the batch.                          *)
LEMMA NextRestIsRest ==
  ASSUME NEW k, NEW batch, IsBatch(batch, k), NEW rest \in Seq(Lists(k)), IsRest(rest, batch),
         rest # << >>
  PROVE  IsRest(NextRest(rest), batch)
<1> DEFINE next == NextRest(rest)
<1>1. /\ Len(rest) \in Nat \ {0} /\ \A i \in 1 .. Len(rest) : Len(rest[i]) \in Nat \ {0}
      /\ Len(batch) \in Nat /\ Len(rest) <= Len(batch)
  BY ListsAre DEF IsRest, IsBatch
<1>2. CASE Len(rest[1]) = 1
  <2>1. Len(next) = Len(rest) - 1 /\ \A i \in 1 .. Len(next) : next[i] = rest[i + 1]
    BY <1>1, <1>2, NextRestIs
  <2>2. ASSUME NEW i \in 1 .. Len(next)
        PROVE  /\ Shift(next, batch, i) = 0
               /\ \A j \in 1 .. Len(next[i]) :
                    next[i][j] = FullScope(next, batch, i)[0 + j]
    <3>1. i + 1 \in 1 .. Len(rest) /\ i + 1 > 1 /\ next[i] = rest[i + 1]
      BY <1>1, <2>1
    <3>2. FullScope(next, batch, i) = FullScope(rest, batch, i + 1)
      BY <1>1, <2>1 DEF FullScope
    <3>3. Shift(next, batch, i) = Shift(rest, batch, i + 1)
      BY <3>1, <3>2 DEF Shift
    <3>4. QED
      BY <3>1, <3>2, <3>3 DEF IsRest
  <2>3. Len(next) <= Len(batch)
    BY <1>1, <2>1
  <2>4. QED
    BY <2>2, <2>3 DEF IsRest
<1>3. CASE Len(rest[1]) # 1
  <2>1. /\ Len(next) = Len(rest) /\ Len(next[1]) = Len(rest[1]) - 1
        /\ \A j \in 1 .. Len(next[1]) : next[1][j] = rest[1][j + 1]
        /\ \A i \in 2 .. Len(rest) : next[i] = rest[i]
    BY <1>1, <1>3, NextRestIs
  <2>2. \A i \in 1 .. Len(rest) : FullScope(next, batch, i) = FullScope(rest, batch, i)
    BY <2>1 DEF FullScope
  <2>3. ASSUME NEW i \in 2 .. Len(rest)
        PROVE  /\ Shift(next, batch, i) = 0
               /\ \A j \in 1 .. Len(next[i]) : next[i][j] = FullScope(next, batch, i)[0 + j]
    <3>1. i \in 1 .. Len(rest) /\ i > 1 /\ next[i] = rest[i]
      BY <1>1, <2>1
    <3>2. Shift(next, batch, i) = Shift(rest, batch, i)
      BY <2>2, <3>1 DEF Shift
    <3>3. QED
      BY <2>2, <3>1, <3>2 DEF IsRest
  <2>4. PICK full : full = FullScope(rest, batch, 1)
    OBVIOUS
  <2>5. Len(full) \in Nat
    <3>1. Len(batch) - Len(rest) + 1 \in 1 .. Len(batch)
      BY <1>1
    <3>2. QED
      BY <2>4, <3>1, ListsAre DEF FullScope, IsBatch
  <2>6. /\ Shift(rest, batch, 1) = Len(full) - Len(rest[1])
        /\ Shift(next, batch, 1) = Len(full) - Len(next[1])
    BY <1>1, <2>2, <2>4 DEF Shift
  <2>7. PICK f \in Nat, n \in Nat \ {0} : f = Len(full) /\ n = Len(rest[1])
    BY <1>1, <2>5
  <2>8. /\ Shift(rest, batch, 1) = f - n /\ Shift(next, batch, 1) = f - n + 1
        /\ f - n >= 0 /\ \A j \in 1 .. n : rest[1][j] = full[f - n + j]
    <3>1. Shift(rest, batch, 1) = f - n /\ Shift(next, batch, 1) = f - (n - 1)
      BY <1>1, <2>1, <2>6, <2>7
    <3>2. Shift(rest, batch, 1) >= 0
      BY <1>1 DEF IsRest
    <3>3. \A j \in 1 .. n : rest[1][j] = full[f - n + j]
      <4>1. \A j \in 1 .. Len(rest[1]) :
               rest[1][j] = FullScope(rest, batch, 1)[Shift(rest, batch, 1) + j]
        BY <1>1 DEF IsRest
      <4>2. QED
        BY <2>4, <2>7, <3>1, <4>1
    <3>4. QED
      BY <3>1, <3>2, <3>3
  <2>9. Shift(next, batch, 1) >= 0
    BY <2>8
  <2>10. ASSUME NEW j \in 1 .. Len(next[1])
         PROVE  next[1][j] = full[Shift(next, batch, 1) + j]
    <3>1. j \in Nat /\ j + 1 \in 1 .. n /\ next[1][j] = rest[1][j + 1]
      BY <2>1, <2>7
    <3>2. f - n + (j + 1) = f - n + 1 + j
      BY <3>1
    <3>3. QED
      BY <2>8, <3>1, <3>2
  <2>11. QED
    BY <1>1, <2>1, <2>2, <2>3, <2>4, <2>9, <2>10 DEF IsRest
<1>4. QED
  BY <1>2, <1>3

(* When a scope is done, nothing of the next was taken.  *)
LEMMA NextScope ==
  ASSUME NEW k, NEW batch, IsBatch(batch, k), NEW rest \in Seq(Lists(k)), IsRest(rest, batch),
         rest # << >>, NextRest(rest) # << >>
  PROVE  IF Len(rest[1]) = 1
         THEN ToSet(batch[Current(NextRest(rest), batch)]) \subseteq ItemsOf(NextRest(rest))
         ELSE Current(NextRest(rest), batch) = Current(rest, batch)
<1> DEFINE next == NextRest(rest)
<1>1. /\ Len(rest) \in Nat \ {0} /\ \A i \in 1 .. Len(rest) : Len(rest[i]) \in Nat \ {0}
      /\ Len(batch) \in Nat /\ Len(rest) <= Len(batch)
  BY ListsAre DEF IsRest, IsBatch
<1>2. next \in Seq(Lists(k))
  BY NextRestIs
<1>3. CASE Len(rest[1]) = 1
  <2>1. IsRest(next, batch)
    BY NextRestIsRest
  <2>2. 1 \in 1 .. Len(next) /\ Len(next) = Len(rest) - 1 /\ next[1] = rest[1 + 1]
    BY <1>1, <1>2, <1>3, NextRestIs
  <2>3. PICK full : full = batch[Current(next, batch)]
    OBVIOUS
  <2>4. full = FullScope(rest, batch, 2) /\ full = FullScope(next, batch, 1)
    BY <1>1, <2>2, <2>3 DEF FullScope, Current
  <2>5. 2 \in 1 .. Len(rest) /\ next[1] = rest[2]
    BY <1>1, <2>2
  <2>6. Shift(rest, batch, 2) = 0 /\ Shift(rest, batch, 2) = Len(full) - Len(next[1])
    <3>1. Shift(rest, batch, 2) = 0
      BY <2>5 DEF IsRest
    <3>2. QED
      BY <2>4, <2>5, <3>1 DEF Shift
  <2>7. full \in Seq(Items(k)) /\ Len(full) \in Nat /\ DOMAIN full = 1 .. Len(full)
    <3>1. Current(next, batch) \in 1 .. Len(batch)
      BY <1>1, <2>2 DEF Current
    <3>2. QED
      BY <2>3, <3>1, ListsAre DEF IsBatch
  <2>8. Len(next[1]) = Len(full)
    BY <1>1, <2>5, <2>6, <2>7
  <2>9. \A j \in 1 .. Len(full) : full[j] = next[1][j]
    <3>1. \A j \in 1 .. Len(rest[2]) : rest[2][j] = full[0 + j]
      BY <2>4, <2>5, <2>6 DEF IsRest
    <3>2. QED
      BY <2>5, <2>7, <2>8, <3>1
  <2>10. ASSUME NEW x \in ToSet(full) PROVE x \in ItemsOf(next)
    <3>1. PICK j \in 1 .. Len(full) : x = full[j]
      BY <2>7, <2>10 DEF ToSet
    <3>2. x = next[1][j] /\ j \in 1 .. Len(next[1])
      BY <2>8, <2>9, <3>1
    <3>3. QED
      BY <1>2, <2>2, <3>2, ItemsAre
  <2>11. QED
    BY <1>3, <2>3, <2>10
<1>4. CASE Len(rest[1]) # 1
  BY <1>4, NextRestIs DEF Current
<1>5. QED
  BY <1>3, <1>4

LEMMA RestOfBatch ==
  ASSUME NEW k, NEW batch, IsBatch(batch, k)
  PROVE  /\ batch \in Seq(Lists(k)) /\ IsRest(batch, batch)
         /\ << >> \in Seq(Lists(k)) /\ IsRest(<< >>, batch) /\ ItemsOf(<< >>) = {}
<1>1. /\ batch \in Seq(Lists(k)) /\ Len(batch) \in Nat
      /\ \A i \in 1 .. Len(batch) : Len(batch[i]) \in Nat
  BY ListsAre DEF IsBatch
<1>2. ASSUME NEW i \in 1 .. Len(batch)
      PROVE  FullScope(batch, batch, i) = batch[i] /\ Shift(batch, batch, i) = 0
    BY <1>1 DEF FullScope, Shift
<1>3. \A i \in 1 .. Len(batch) : \A j \in 1 .. Len(batch[i]) : batch[i][j] = batch[i][0 + j]
  BY <1>1
<1>4. IsRest(batch, batch)
  BY <1>1, <1>2, <1>3 DEF IsRest
<1>5. << >> \in Seq(Lists(k)) /\ Len(<< >>) = 0
  OBVIOUS
<1>6. IsRest(<< >>, batch)
  BY <1>1, <1>5 DEF IsRest
<1>7. ItemsOf(<< >>) = {}
  BY <1>5 DEF ItemsOf
<1>8. QED
  BY <1>1, <1>4, <1>5, <1>6, <1>7

LEMMA RestInBatch ==
  ASSUME NEW k, NEW batch, IsBatch(batch, k), NEW rest \in Seq(Lists(k)), IsRest(rest, batch)
  PROVE  ItemsOf(rest) \subseteq ItemsOf(batch) /\ ItemsOf(batch) \subseteq Items(k)
<1>1. batch \in Seq(Lists(k))
  BY DEF IsBatch
<1>2. ASSUME NEW x \in ItemsOf(rest) PROVE x \in ItemsOf(batch)
  <2>1. PICK i \in 1 .. Len(rest) : \E j \in 1 .. Len(rest[i]) : x = rest[i][j]
    BY <1>2, ItemsAre
  <2>2. PICK j \in 1 .. Len(rest[i]) : x = rest[i][j]
    BY <2>1
  <2>3. PICK e \in Nat :
          /\ Len(batch) - Len(rest) + i \in DOMAIN batch
          /\ e + j \in DOMAIN batch[Len(batch) - Len(rest) + i]
          /\ rest[i][j] = batch[Len(batch) - Len(rest) + i][e + j]
    <3>1. \E e \in Nat :
            /\ e = Shift(rest, batch, i)
            /\ Len(batch) - Len(rest) + i \in DOMAIN batch
            /\ e + j \in DOMAIN batch[Len(batch) - Len(rest) + i]
            /\ rest[i][j] = batch[Len(batch) - Len(rest) + i][e + j]
      BY <1>1, <2>1, <2>2, RestPositions
    <3>2. QED
      BY <2>1, <2>2, <3>1
  <2>4. QED
    BY <2>2, <2>3 DEF ItemsOf, ToSet
<1>3. ASSUME NEW x \in ItemsOf(batch) PROVE x \in Items(k)
  <2>1. PICK i \in 1 .. Len(batch) : \E j \in 1 .. Len(batch[i]) : x = batch[i][j]
    BY <1>1, <1>3, ItemsAre
  <2>2. QED
    BY <1>1, <2>1, ListsAre
<1>4. QED
  BY <1>2, <1>3

LEMMA ItemsFinite ==
  ASSUME NEW k, NEW batch, IsBatch(batch, k)
  PROVE  IsFiniteSet(ItemsOf(batch)) /\ Cardinality(ItemsOf(batch)) \in Nat
<1>1. /\ batch \in Seq(Lists(k)) /\ Len(batch) \in Nat /\ DOMAIN batch = 1 .. Len(batch)
  BY ListsAre DEF IsBatch
<1>2. ASSUME NEW i \in 1 .. Len(batch) PROVE IsFiniteSet(ToSet(batch[i]))
  <2>1. Len(batch[i]) \in Nat /\ DOMAIN batch[i] = 1 .. Len(batch[i])
    BY <1>1, ListsAre
  <2>2. IsFiniteSet(1 .. Len(batch[i]))
    BY <2>1, FS_Interval
  <2>3. [j \in 1 .. Len(batch[i]) |-> batch[i][j]]
          \in Surjection(1 .. Len(batch[i]), ToSet(batch[i]))
    BY <2>1 DEF Surjection, ToSet
  <2>4. QED
    BY <2>2, <2>3, FS_Surjection
<1>3. IsFiniteSet(1 .. Len(batch))
  BY <1>1, FS_Interval
<1>4. [i \in 1 .. Len(batch) |-> ToSet(batch[i])]
        \in Surjection(1 .. Len(batch), {ToSet(batch[i]) : i \in DOMAIN batch})
  BY <1>1 DEF Surjection
<1>5. IsFiniteSet({ToSet(batch[i]) : i \in DOMAIN batch})
  BY <1>3, <1>4, FS_Surjection
<1>6. \A S \in {ToSet(batch[i]) : i \in DOMAIN batch} : IsFiniteSet(S)
  BY <1>1, <1>2
<1>7. IsFiniteSet(ItemsOf(batch))
  BY <1>5, <1>6, FS_UNION DEF ItemsOf
<1>8. QED
  BY <1>7, FS_CardinalityType

-----------------------------------------------------------------------------
(* What a call has decided                                                  *)

(* What is asked of a record depends on the configuration only.  *)
LEMMA ConfigDecides ==
  ASSUME config' = config, NEW r
  PROVE  /\ checkCriticalLogPatterns(r)' <=> checkCriticalLogPatterns(r)
         /\ checkContentFilters(r)' = checkContentFilters(r)
         /\ IsRandom(r)' <=> IsRandom(r)
         /\ RecordID(r)' = RecordID(r)
  BY DEF checkCriticalLogPatterns, checkContentFilters, IsRandom, Spoilt, RecordID

(* A decision made stands while more becomes known of the hash, and more     *)
(* probabilities come in force.                                              *)
HashGrows == \A id \in DOMAIN hash : id \in DOMAIN hash' /\ hash'[id] = hash[id]

(* A decision that is allowed stays so.                                      *)
LEMMA AllowedStays ==
  ASSUME NEW id, NEW keep, NEW ps, NEW qs, ps \subseteq qs, HashGrows, Allowed(id, keep, ps)
  PROVE  Allowed(id, keep, qs)'
  BY DEF Allowed, HashGrows

LEMMA BelowIsAllowed ==
  ASSUME SamplingTypeOK, NEW id, NEW q \in 0 .. One, NEW keep \in BOOLEAN, Below(id, q, keep),
         NEW ps, q \in ps, ps \subseteq 0 .. One
  PROVE  /\ HashGrows /\ Allowed(id, keep, ps)'
         /\ \A i \in DOMAIN hash' : hash'[i] \in 0 .. One
<1>1. \A i \in DOMAIN hash : hash[i] \in 0 .. One
  BY DEF SamplingTypeOK
<1>2. PICK f \in 0 .. One :
        /\ id \in DOMAIN hash => f = hash[id]
        /\ keep = (f < q)
        /\ hash' = IF id \in DOMAIN hash THEN hash ELSE Put(hash, id, f)
  BY DEF Below
<1>3. CASE id \in DOMAIN hash
  BY <1>1, <1>2, <1>3 DEF HashGrows, Allowed
<1>4. CASE id \notin DOMAIN hash
  <2>1. hash' = [y \in DOMAIN hash \cup {id} |-> IF y = id THEN f ELSE hash[y]]
    BY <1>2, <1>4 DEF Put
  <2>2. DOMAIN hash' = DOMAIN hash \cup {id} /\ hash'[id] = f
        /\ \A i \in DOMAIN hash : hash'[i] = hash[i]
    BY <1>4, <2>1
  <2>3. QED
    BY <1>1, <1>2, <2>2 DEF HashGrows, Allowed
<1>5. QED
  BY <1>3, <1>4

LEMMA BelowGrows ==
  ASSUME SamplingTypeOK, NEW id, NEW q, NEW keep \in BOOLEAN, Below(id, q, keep)
  PROVE  HashGrows /\ \A i \in DOMAIN hash' : hash'[i] \in 0 .. One
<1>1. \A i \in DOMAIN hash : hash[i] \in 0 .. One
  BY DEF SamplingTypeOK
<1>2. PICK f \in 0 .. One : hash' = IF id \in DOMAIN hash THEN hash ELSE Put(hash, id, f)
  BY DEF Below
<1>3. CASE id \in DOMAIN hash
  BY <1>1, <1>2, <1>3 DEF HashGrows
<1>4. CASE id \notin DOMAIN hash
  <2>1. hash' = [y \in DOMAIN hash \cup {id} |-> IF y = id THEN f ELSE hash[y]]
    BY <1>2, <1>4 DEF Put
  <2>2. QED
    BY <1>1, <1>2, <1>4, <2>1 DEF HashGrows
<1>5. QED
  BY <1>3, <1>4

(* What a call has done stays right while it does nothing. *)
LEMMA SoundStays ==
  ASSUME NEW a, NEW b, config' = config, HashGrows, CallSound(a),
         b.sampler = a.sampler, b.batch = a.batch, b.rest = a.rest, b.out = a.out,
         b.chosen = a.chosen, b.decisions = a.decisions,
         a.inForce \subseteq b.inForce, currentP'[b.sampler] \in b.inForce
  PROVE  CallSound(b)'
<1>1. CallWellFormed(b)'
  BY DEF CallSound, CallWellFormed, Done
<1>2. a.sampler = Traces => DecidedOnce(b)' /\ Remembered(b)'
  BY DEF CallSound, DecidedOnce, Remembered
<1>3. Followed(b)'
  <2>1. CASE PassedAll(a)
    BY <2>1 DEF PassedAll, Followed
  <2>2. CASE \A x \in Sampled(a) : Allowed(IDOf(a.sampler, x), x \in a.chosen, a.inForce)
    <3>1. \A x : x \in Sampled(b)' <=> x \in Sampled(a)
      BY ConfigDecides DEF Sampled
    <3>2. ASSUME NEW x \in Sampled(a)
          PROVE  Allowed(IDOf(b.sampler, x), x \in b.chosen, b.inForce)'
      <4>1. PICK id : id = IDOf(a.sampler, x)
        OBVIOUS
      <4>2. IDOf(b.sampler, x)' = id
        BY <4>1, ConfigDecides DEF IDOf, TraceID
      <4>3. Allowed(id, x \in a.chosen, a.inForce)
        BY <2>2, <4>1
      <4>4. Allowed(id, x \in a.chosen, b.inForce)'
        BY <4>3, AllowedStays
      <4>5. QED
        BY <4>2, <4>4 DEF Allowed
    <3>3. QED
      BY <3>1, <3>2 DEF Followed
  <2>3. QED
    BY <2>1, <2>2 DEF CallSound, Followed
<1>4. DecisionsFollow(b)'
  <2>1. ASSUME NEW t \in DOMAIN b.decisions
        PROVE  Allowed(<<Traces, t>>, b.decisions[t], b.inForce)'
    <3>1. Allowed(<<Traces, t>>, b.decisions[t], a.inForce)
      BY <2>1 DEF CallSound, DecisionsFollow
    <3>2. QED
      BY <3>1, AllowedStays
  <2>2. QED
    BY <2>1 DEF DecisionsFollow
<1>5. a.sampler = Logs => Obeyed(b)'
  BY ConfigDecides DEF CallSound, Obeyed, Done
<1>6. QED
  BY <1>1, <1>2, <1>3, <1>4, <1>5 DEF CallSound

(* A call takes its next item and decides to keep it or not. *)
Takes(a, b, x, keep) ==
  /\ a.rest # << >> /\ x = a.rest[1][1]
  /\ b.sampler = a.sampler /\ b.batch = a.batch /\ b.inForce = a.inForce
  /\ b.rest = NextRest(a.rest)
  /\ b.chosen = IF keep THEN a.chosen \cup {x} ELSE a.chosen

Taken(a, b, x, keep) ==
  /\ b.rest \in Seq(Lists(a.sampler)) /\ IsRest(b.rest, b.batch)
  /\ x \in Items(a.sampler) /\ x \in ItemsOf(a.rest) /\ x \in ItemsOf(a.batch)
  /\ ItemsOf(b.rest) = ItemsOf(a.rest) \ {x}
  /\ Done(b) = Done(a) \cup {x} /\ x \notin Done(a)
  /\ x \notin a.chosen /\ (x \in b.chosen <=> keep) /\ b.chosen \subseteq Done(b)
  /\ \A y : y # x => (y \in b.chosen <=> y \in a.chosen)

(* What taking an item changes.                                              *)
LEMMA TakesOne ==
  ASSUME NEW a, a.rest \in Seq(Lists(a.sampler)), CallWellFormed(a),
         NEW b, NEW x, NEW keep \in BOOLEAN, Takes(a, b, x, keep)
  PROVE  Taken(a, b, x, keep)
<1>1. /\ IsBatch(a.batch, a.sampler) /\ IsRest(a.rest, a.batch) /\ a.rest # << >>
      /\ a.chosen \subseteq Done(a)
  BY DEF CallWellFormed, Takes
<1>2. PICK batch, rest : batch = a.batch /\ rest = a.rest
  OBVIOUS
<1>3. /\ NextRest(rest) \in Seq(Lists(a.sampler)) /\ IsRest(NextRest(rest), batch)
      /\ ItemsOf(NextRest(rest)) = ItemsOf(rest) \ {rest[1][1]}
      /\ rest[1][1] \in Items(a.sampler) /\ rest[1][1] \in ItemsOf(rest)
      /\ ItemsOf(rest) \subseteq ItemsOf(batch)
  BY <1>1, <1>2, NextRestIs, NextRestIsRest, NextRestItems, FirstItem, RestInBatch
<1>4. QED
  BY <1>1, <1>2, <1>3 DEF Takes, Taken, Done

(* A span whose trace the scope has decided gets that decision.              *)
LEMMA SpanDecided ==
  ASSUME NEW a, a.rest \in Seq(Lists(a.sampler)), CallWellFormed(a),
         NEW b, NEW x, NEW keep \in BOOLEAN, Takes(a, b, x, keep), Taken(a, b, x, keep),
         b.decisions = IF Len(a.rest[1]) = 1 THEN << >> ELSE Put(a.decisions, TraceOf[x], keep),
         DecidedOnce(a), Remembered(a), Known(a, TraceOf[x]) => keep = a.decisions[TraceOf[x]]
  PROVE  DecidedOnce(b) /\ Remembered(b)
<1>1. /\ IsBatch(a.batch, a.sampler) /\ IsRest(a.rest, a.batch) /\ a.rest # << >>
      /\ b.batch = a.batch /\ x = a.rest[1][1] /\ b.rest = NextRest(a.rest)
  BY DEF CallWellFormed, Takes
<1>2. PICK batch, rest, next : batch = a.batch /\ rest = a.rest /\ next = NextRest(rest)
  OBVIOUS
<1>3. /\ ItemsOf(next) = ItemsOf(rest) \ {x} /\ x \in ItemsOf(rest)
      /\ x \notin a.chosen /\ (x \in b.chosen <=> keep)
      /\ \A y : y # x => (y \in b.chosen <=> y \in a.chosen)
  <2>1. /\ ItemsOf(b.rest) = ItemsOf(a.rest) \ {x} /\ x \in ItemsOf(a.rest)
        /\ x \notin a.chosen /\ (x \in b.chosen <=> keep)
        /\ \A y : y # x => (y \in b.chosen <=> y \in a.chosen)
    BY DEF Taken
  <2>2. QED
    BY <1>1, <1>2, <2>1
<1>4. PICK here : here = Current(rest, batch)
  OBVIOUS
<1>5. \A i \in DOMAIN batch : x \in ToSet(batch[i]) => i = here
  BY <1>1, <1>2, <1>4, FirstItem
<1>6. \A y \in ToSet(batch[here]) \ ItemsOf(rest) :
        TraceOf[y] \in DOMAIN a.decisions /\ (a.decisions[TraceOf[y]] <=> y \in a.chosen)
  BY <1>1, <1>2, <1>4 DEF Remembered
<1>7. ASSUME NEW y \in ToSet(batch[here]) \ ItemsOf(rest), TraceOf[y] = TraceOf[x]
      PROVE  keep <=> y \in a.chosen
  BY <1>6, <1>7 DEF Known
<1>8. DecidedOnce(b)
  <2> SUFFICES ASSUME NEW i \in DOMAIN batch, NEW s1 \in ToSet(batch[i]) \ ItemsOf(next),
                      NEW s2 \in ToSet(batch[i]) \ ItemsOf(next), TraceOf[s1] = TraceOf[s2]
               PROVE  s1 \in b.chosen <=> s2 \in b.chosen
    BY <1>1, <1>2 DEF DecidedOnce
  <2>1. CASE s1 # x /\ s2 # x
    <3>1. s1 \in ToSet(batch[i]) \ ItemsOf(rest) /\ s2 \in ToSet(batch[i]) \ ItemsOf(rest)
      BY <1>3, <2>1
    <3>2. s1 \in a.chosen <=> s2 \in a.chosen
      BY <1>2, <3>1 DEF DecidedOnce
    <3>3. QED
      BY <1>3, <2>1, <3>2
  <2>2. CASE s1 = x /\ s2 # x
    BY <1>3, <1>5, <1>7, <2>2
  <2>3. CASE s1 # x /\ s2 = x
    BY <1>3, <1>5, <1>7, <2>3
  <2>4. CASE s1 = x /\ s2 = x
    BY <2>4
  <2>5. QED
    BY <2>1, <2>2, <2>3, <2>4
<1>9. Remembered(b)
  <2> SUFFICES ASSUME next # << >>, NEW y \in ToSet(batch[Current(next, batch)]) \ ItemsOf(next)
               PROVE  TraceOf[y] \in DOMAIN b.decisions /\ (b.decisions[TraceOf[y]] <=> y \in b.chosen)
    BY <1>1, <1>2 DEF Remembered
  <2>1. Len(rest[1]) # 1 /\ Current(next, batch) = here
    BY <1>1, <1>2, <1>4, NextScope
  <2>2. b.decisions = Put(a.decisions, TraceOf[x], keep)
    BY <1>2, <2>1
  <2>3. /\ DOMAIN b.decisions = DOMAIN a.decisions \cup {TraceOf[x]}
        /\ b.decisions[TraceOf[x]] = keep
        /\ \A t \in DOMAIN a.decisions \ {TraceOf[x]} : b.decisions[t] = a.decisions[t]
    BY <2>2 DEF Put
  <2>4. CASE y = x
    BY <1>3, <2>3, <2>4
  <2>5. CASE y # x
    <3>1. y \in ToSet(batch[here]) \ ItemsOf(rest)
      BY <1>3, <2>1, <2>5
    <3>2. y \in b.chosen <=> y \in a.chosen
      BY <1>3, <2>5
    <3>3. CASE TraceOf[y] = TraceOf[x]
      BY <1>7, <2>3, <3>1, <3>2, <3>3
    <3>4. CASE TraceOf[y] # TraceOf[x]
      BY <1>6, <2>3, <3>1, <3>2, <3>4
    <3>5. QED
      BY <3>3, <3>4
  <2>6. QED
    BY <2>4, <2>5
<1>10. QED
  BY <1>8, <1>9

CallWith(a, decisions, rest, out, chosen) ==
  [sampler |-> a.sampler, batch |-> a.batch, decisions |-> decisions, rest |-> rest,
   out |-> out, chosen |-> chosen, inForce |-> a.inForce]

LEMMA DecidedIs ==
  ASSUME NEW k, NEW a \in Calls(k), a.rest # << >>,
         NEW x, NEW keep \in BOOLEAN, NEW decisions, NEW out
  PROVE  Decided(a, x, keep, decisions, out)
           = CallWith(a, IF Len(a.rest[1]) = 1 THEN << >> ELSE decisions, NextRest(a.rest), out,
                      IF keep THEN a.chosen \cup {x} ELSE a.chosen)
<1>1. Head(a.rest) = a.rest[1]
  BY DEF Calls
<1>2. QED
  BY <1>1 DEF CallWith, Decided

LEMMA PutDecides ==
  ASSUME NEW decisions \in DecisionMaps, NEW t \in Range(TraceOf), NEW keep \in BOOLEAN
  PROVE  << >> \in DecisionMaps /\ Put(decisions, t, keep) \in DecisionMaps
<1>1. PICK D \in SUBSET Range(TraceOf) : decisions \in [D -> BOOLEAN]
  BY DEF DecisionMaps
<1>2. Put(decisions, t, keep) \in [D \cup {t} -> BOOLEAN]
  BY <1>1 DEF Put
<1>3. << >> \in [{} -> BOOLEAN]
  OBVIOUS
<1>4. D \cup {t} \in SUBSET Range(TraceOf) /\ {} \in SUBSET Range(TraceOf)
  BY <1>1
<1>5. QED
  BY <1>2, <1>3, <1>4 DEF DecisionMaps

(* What NextSpan does to a call. *)
TakesSpan(a, b, s, keep) ==
  /\ Takes(a, b, s, keep)
  /\ b.decisions = IF Len(a.rest[1]) = 1 THEN << >> ELSE Put(a.decisions, TraceOf[s], keep)
  /\ b.out = a.out
  /\ \/ Known(a, TraceOf[s]) /\ keep = a.decisions[TraceOf[s]] /\ UNCHANGED hash
     \/ ~Known(a, TraceOf[s]) /\ Below(TraceID(s), currentP[Traces], keep)

LEMMA NextSpanIs ==
  ASSUME NEW c \in Callers, DOMAIN call = Callers, call[c] \in Calls(Traces), NextSpan(c)
  PROVE  \E b, s : \E keep \in BOOLEAN :
           /\ TakesSpan(call[c], b, s, keep) /\ call' = [call EXCEPT ![c] = b]
           /\ b = CallWith(call[c], b.decisions, b.rest, b.out, b.chosen)
<1>1. PICK a : a = call[c]
  OBVIOUS
<1>2. a \in Calls(Traces) /\ a.rest # << >> /\ a.sampler = Traces
  BY <1>1 DEF NextSpan
<1>3. PICK s : s = Head(Head(a.rest))
  OBVIOUS
<1>4. PICK keep \in BOOLEAN :
        /\ \/ Known(a, TraceOf[s]) /\ keep = a.decisions[TraceOf[s]] /\ UNCHANGED hash
           \/ ~Known(a, TraceOf[s]) /\ shouldSample(s, keep)
        /\ call' = [call EXCEPT ![c] =
             Decided(a, s, keep, Put(a.decisions, TraceOf[s], keep),
                     IF keep THEN AddSpan(a.out, s) ELSE a.out)]
  BY <1>1, <1>3 DEF NextSpan
<1>5. PICK b : b = Decided(a, s, keep, Put(a.decisions, TraceOf[s], keep), a.out)
  OBVIOUS
<1>6. b = CallWith(a, IF Len(a.rest[1]) = 1 THEN << >> ELSE Put(a.decisions, TraceOf[s], keep),
                   NextRest(a.rest), a.out, IF keep THEN a.chosen \cup {s} ELSE a.chosen)
  <2>1. \A d, o : Decided(a, s, keep, d, o)
               = CallWith(a, IF Len(a.rest[1]) = 1 THEN << >> ELSE d, NextRest(a.rest), o,
                      IF keep THEN a.chosen \cup {s} ELSE a.chosen)
    BY <1>2, DecidedIs
  <2>2. QED
    BY <1>5, <2>1, Zenon
<1>7. s = a.rest[1][1]
  <2>1. a.rest \in Seq(Lists(Traces))
    BY <1>2 DEF Calls
  <2>2. a.rest[1] \in Seq(Items(Traces)) /\ a.rest[1] # << >> /\ Head(a.rest) = a.rest[1]
    BY <1>2, <2>1 DEF Lists
  <2>3. QED
    BY <1>3, <2>2
<1>8. call' = [call EXCEPT ![c] = b]
  BY <1>4, <1>5 DEF AddSpan
<1>9. TakesSpan(a, b, s, keep) /\ b = CallWith(a, b.decisions, b.rest, b.out, b.chosen)
  BY <1>2, <1>4, <1>6, <1>7 DEF TakesSpan, Takes, CallWith, shouldSample, PInForce
<1>10. QED
  BY <1>1, <1>8, <1>9

(* What NextRecord does to a call. *)
TakesRecord(a, b, r, keep) ==
  /\ Takes(a, b, r, keep)
  /\ b.decisions = << >>
  /\ b.out = IF keep THEN a.out \cup {r} ELSE a.out
  /\ DecideLog(r, keep)

LEMMA FirstIs ==
  ASSUME NEW k, NEW rest \in Seq(Lists(k)), rest # << >>
  PROVE  Head(Head(rest)) = rest[1][1]
<1>1. rest[1] \in Seq(Items(k)) /\ rest[1] # << >> /\ Head(rest) = rest[1]
  BY DEF Lists
<1>2. QED
  BY <1>1

LEMMA NextRecordIs ==
  ASSUME NEW c \in Callers, DOMAIN call = Callers, call[c] \in Calls(Logs), NextRecord(c)
  PROVE  \E b, r : \E keep \in BOOLEAN :
           /\ TakesRecord(call[c], b, r, keep) /\ call' = [call EXCEPT ![c] = b]
           /\ b = CallWith(call[c], b.decisions, b.rest, b.out, b.chosen)
<1>1. PICK a : a = call[c]
  OBVIOUS
<1>2. a \in Calls(Logs) /\ a.rest # << >> /\ a.rest \in Seq(Lists(Logs))
  BY <1>1 DEF NextRecord, Calls
<1>3. PICK r : r = Head(Head(a.rest))
  OBVIOUS
<1>4. PICK keep \in BOOLEAN :
        /\ DecideLog(r, keep)
        /\ call' = [call EXCEPT ![c] =
             Decided(a, r, keep, << >>, IF keep THEN a.out \cup {r} ELSE a.out)]
  BY <1>1, <1>3 DEF NextRecord
<1>5. PICK out, b : out = (IF keep THEN a.out \cup {r} ELSE a.out)
                    /\ b = Decided(a, r, keep, << >>, out)
  OBVIOUS
<1>6. b = CallWith(a, << >>, NextRest(a.rest), out, IF keep THEN a.chosen \cup {r} ELSE a.chosen)
  <2>1. \A d, o : Decided(a, r, keep, d, o)
               = CallWith(a, IF Len(a.rest[1]) = 1 THEN << >> ELSE d, NextRest(a.rest), o,
                      IF keep THEN a.chosen \cup {r} ELSE a.chosen)
    BY <1>2, DecidedIs
  <2>2. (IF Len(a.rest[1]) = 1 THEN << >> ELSE << >>) = << >>
    OBVIOUS
  <2>3. QED
    BY <1>5, <2>1, <2>2
<1>7. r = a.rest[1][1]
  BY <1>2, <1>3, FirstIs
<1>8. call' = [call EXCEPT ![c] = b]
  BY <1>4, <1>5
<1>9. TakesRecord(a, b, r, keep) /\ b = CallWith(a, b.decisions, b.rest, b.out, b.chosen)
  <2>1. /\ b.sampler = a.sampler /\ b.batch = a.batch /\ b.inForce = a.inForce
        /\ b.rest = NextRest(a.rest) /\ b.decisions = << >> /\ b.out = out
        /\ b.chosen = IF keep THEN a.chosen \cup {r} ELSE a.chosen
    BY <1>6 DEF CallWith
  <2>2. Takes(a, b, r, keep)
    BY <1>2, <1>7, <2>1 DEF Takes
  <2>3. b = CallWith(a, b.decisions, b.rest, b.out, b.chosen)
    BY <1>6, <2>1 DEF CallWith
  <2>4. b.out = IF keep THEN a.out \cup {r} ELSE a.out
    BY <1>5, <2>1
  <2>5. QED
    BY <1>4, <2>1, <2>2, <2>3, <2>4 DEF TakesRecord
<1>10. QED
  BY <1>1, <1>8, <1>9

(* ConsumeTraces decides a span rightly.                                     *)
LEMMA SpanSound ==
  ASSUME SamplingTypeOK, UNCHANGED <<config, currentP>>,
         NEW a \in Calls(Traces), CallSound(a),
         NEW b, NEW s, NEW keep \in BOOLEAN, TakesSpan(a, b, s, keep)
  PROVE  /\ HashGrows /\ \A i \in DOMAIN hash' : hash'[i] \in 0 .. One
         /\ CallSound(b)' /\ Taken(a, b, s, keep)
<1>1. /\ a.sampler = Traces /\ a.rest \in Seq(Lists(a.sampler)) /\ a.rest # << >>
      /\ a.inForce \subseteq 0 .. One /\ Traces # Logs
      /\ CallWellFormed(a) /\ DecidedOnce(a) /\ Remembered(a) /\ Followed(a) /\ DecisionsFollow(a)
  BY DEF Calls, CallSound, TakesSpan, Takes, Traces, Logs
<1>2. Takes(a, b, s, keep)
  BY DEF TakesSpan
<1>3. Taken(a, b, s, keep)
  BY <1>1, <1>2, TakesOne
<1>4. PICK id : id = <<Traces, TraceOf[s]>>
  OBVIOUS
<1>5. HashGrows /\ Allowed(id, keep, a.inForce)' /\ \A i \in DOMAIN hash' : hash'[i] \in 0 .. One
  <2>1. CASE Known(a, TraceOf[s]) /\ keep = a.decisions[TraceOf[s]] /\ UNCHANGED hash
    <3>1. Allowed(id, a.decisions[TraceOf[s]], a.inForce)
      BY <1>1, <1>4, <2>1 DEF DecisionsFollow, Known
    <3>2. HashGrows /\ \A i \in DOMAIN hash' : hash'[i] \in 0 .. One
      BY <2>1 DEF HashGrows, SamplingTypeOK
    <3>3. QED
      BY <2>1, <3>1, <3>2 DEF Allowed
  <2>2. CASE Below(TraceID(s), currentP[Traces], keep)
    <3>1. PICK q : q = currentP[Traces]
      OBVIOUS
    <3>2. q \in 0 .. One /\ q \in a.inForce
      BY <1>1, <3>1 DEF SamplingTypeOK, Signals, CallWellFormed
    <3>3. Below(id, q, keep)
      BY <1>4, <2>2, <3>1 DEF TraceID
    <3>4. PICK ps : ps = a.inForce
      OBVIOUS
    <3>5. q \in ps /\ ps \subseteq 0 .. One
      BY <1>1, <3>2, <3>4
    <3>6. Allowed(id, keep, ps)'
      BY <3>2, <3>3, <3>5, BelowIsAllowed
    <3>7. HashGrows /\ \A i \in DOMAIN hash' : hash'[i] \in 0 .. One
      BY <3>3, BelowGrows
    <3>8. QED
      BY <3>4, <3>6, <3>7
  <2>3. QED
    BY <2>1, <2>2 DEF TakesSpan
<1>6. DecidedOnce(b) /\ Remembered(b)
  <2>1. b.decisions = IF Len(a.rest[1]) = 1 THEN << >> ELSE Put(a.decisions, TraceOf[s], keep)
    BY DEF TakesSpan
  <2>2. Known(a, TraceOf[s]) => keep = a.decisions[TraceOf[s]]
    BY DEF TakesSpan
  <2>3. QED
    BY <1>1, <1>2, <1>3, <2>1, <2>2, SpanDecided
<1>7. DecidedOnce(b)' /\ Remembered(b)'
  BY <1>6 DEF DecidedOnce, Remembered
<1>8. CallWellFormed(b)'
  BY <1>1, <1>2, <1>3 DEF CallWellFormed, Takes, Taken, Done
<1>9. \A y : y # s => (y \in b.chosen <=> y \in a.chosen)
  BY <1>3 DEF Taken
<1>10. Followed(b)'
  <2>1. ~PassedAll(a)
    BY <1>1 DEF PassedAll
  <2>2. ASSUME NEW x \in Done(b), x # s
        PROVE  Allowed(<<Traces, TraceOf[x]>>, x \in b.chosen, b.inForce)'
    <3>1. x \in Sampled(a)
      BY <1>1, <1>3, <2>2 DEF Taken, Done, Sampled
    <3>2. PICK i : i = <<Traces, TraceOf[x]>>
      OBVIOUS
    <3>3. Allowed(i, x \in a.chosen, a.inForce)
      BY <1>1, <2>1, <3>1, <3>2 DEF Followed, IDOf, TraceID
    <3>4. Allowed(i, x \in a.chosen, a.inForce)'
      BY <1>5, <3>3, AllowedStays
    <3>5. QED
      BY <1>2, <1>9, <2>2, <3>2, <3>4 DEF Allowed, Takes
  <2>3. Allowed(<<Traces, TraceOf[s]>>, s \in b.chosen, b.inForce)'
    BY <1>2, <1>3, <1>4, <1>5 DEF Allowed, Takes, Taken
  <2>4. ASSUME NEW x \in Sampled(b)'
        PROVE  Allowed(IDOf(b.sampler, x), x \in b.chosen, b.inForce)'
    <3>1. x \in Done(b) /\ b.sampler = Traces
      BY <1>1, <1>2, <2>4 DEF Sampled, Done, Takes
    <3>2. Allowed(<<Traces, TraceOf[x]>>, x \in b.chosen, b.inForce)'
      BY <2>2, <2>3, <3>1
    <3>3. QED
      BY <3>1, <3>2 DEF IDOf, TraceID
  <2>5. QED
    BY <2>4 DEF Followed
<1>11. DecisionsFollow(b)'
  <2>1. ASSUME NEW t \in DOMAIN b.decisions
        PROVE  Allowed(<<Traces, t>>, b.decisions[t], b.inForce)'
    <3>1. Len(a.rest[1]) # 1
      BY <2>1 DEF TakesSpan
    <3>2. b.decisions = Put(a.decisions, TraceOf[s], keep)
      BY <3>1 DEF TakesSpan
    <3>3. CASE t = TraceOf[s]
      <4>1. b.decisions[t] = keep
        BY <2>1, <3>2, <3>3 DEF Put
      <4>2. QED
        BY <1>2, <1>4, <1>5, <3>3, <4>1 DEF Allowed, Takes
    <3>4. CASE t # TraceOf[s]
      <4>1. t \in DOMAIN a.decisions /\ b.decisions[t] = a.decisions[t]
        BY <2>1, <3>2, <3>4 DEF Put
      <4>2. PICK i : i = <<Traces, t>>
        OBVIOUS
      <4>3. Allowed(i, a.decisions[t], a.inForce)
        BY <1>1, <4>1, <4>2 DEF DecisionsFollow
      <4>4. Allowed(i, a.decisions[t], a.inForce)'
        BY <1>5, <4>3, AllowedStays
      <4>5. QED
        BY <1>2, <4>1, <4>2, <4>4 DEF Allowed, Takes
    <3>5. QED
      BY <3>3, <3>4
  <2>2. QED
    BY <2>1 DEF DecisionsFollow
<1>12. b.sampler = Traces
  BY <1>1, <1>2 DEF Takes
<1>13. QED
  BY <1>1, <1>3, <1>5, <1>7, <1>8, <1>10, <1>11, <1>12 DEF CallSound

(* What DecideLog does, filter by filter. *)
LEMMA DecideLogIs ==
  ASSUME SamplingTypeOK, NEW r, NEW keep \in BOOLEAN, DecideLog(r, keep)
  PROVE  /\ HashGrows /\ \A i \in DOMAIN hash' : hash'[i] \in 0 .. One
         /\ checkCriticalLogPatterns(r) \/ checkContentFilters(r).action = "include" => keep
         /\ ~checkCriticalLogPatterns(r) /\ checkContentFilters(r).action = "exclude" => ~keep
         /\ ~checkCriticalLogPatterns(r) /\ checkContentFilters(r).action = "none" /\ ~IsRandom(r)
              => Below(RecordID(r), currentP[Logs], keep)
<1>1. PICK filter, q :
        /\ filter = checkContentFilters(r)
        /\ q = IF filter.action = "weighted" THEN filter.probability ELSE currentP[Logs]
  OBVIOUS
<1>2. \/ /\ checkCriticalLogPatterns(r) \/ filter.action \in {"include", "exclude"}
         /\ keep = (checkCriticalLogPatterns(r) \/ filter.action = "include")
         /\ UNCHANGED hash
      \/ /\ ~checkCriticalLogPatterns(r) /\ filter.action \in {"weighted", "none"}
         /\ \/ IsRandom(r) /\ UNCHANGED hash
            \/ ~IsRandom(r) /\ Below(RecordID(r), q, keep)
  BY <1>1 DEF DecideLog, PInForce
<1>3. HashGrows /\ \A i \in DOMAIN hash' : hash'[i] \in 0 .. One
  <2>1. CASE UNCHANGED hash
    BY <2>1 DEF HashGrows, SamplingTypeOK
  <2>2. CASE Below(RecordID(r), q, keep)
    BY <2>2, BelowGrows
  <2>3. QED
    BY <1>2, <2>1, <2>2
<1>4. /\ checkCriticalLogPatterns(r) \/ filter.action = "include" => keep
      /\ ~checkCriticalLogPatterns(r) /\ filter.action = "exclude" => ~keep
  BY <1>2
<1>5. ~checkCriticalLogPatterns(r) /\ filter.action = "none" /\ ~IsRandom(r)
        => Below(RecordID(r), currentP[Logs], keep)
  BY <1>1, <1>2
<1>6. QED
  BY <1>1, <1>3, <1>4, <1>5

(* processLogs decides a record rightly.                                     *)
LEMMA RecordSound ==
  ASSUME SamplingTypeOK, UNCHANGED <<config, currentP>>,
         NEW a \in Calls(Logs), CallSound(a),
         NEW b, NEW r, NEW keep \in BOOLEAN, TakesRecord(a, b, r, keep)
  PROVE  /\ HashGrows /\ \A i \in DOMAIN hash' : hash'[i] \in 0 .. One
         /\ CallSound(b)' /\ Taken(a, b, r, keep)
<1>1. /\ a.sampler = Logs /\ a.rest \in Seq(Lists(a.sampler)) /\ a.rest # << >>
      /\ a.inForce \subseteq 0 .. One /\ Traces # Logs
      /\ CallWellFormed(a) /\ Followed(a) /\ Obeyed(a)
  BY DEF Calls, CallSound, TakesRecord, Takes, Traces, Logs
<1>2. Takes(a, b, r, keep) /\ DecideLog(r, keep) /\ b.decisions = << >>
  BY DEF TakesRecord
<1>3. Taken(a, b, r, keep)
  BY <1>1, <1>2, TakesOne
<1>4. /\ HashGrows /\ \A i \in DOMAIN hash' : hash'[i] \in 0 .. One
      /\ checkCriticalLogPatterns(r) \/ checkContentFilters(r).action = "include" => keep
      /\ ~checkCriticalLogPatterns(r) /\ checkContentFilters(r).action = "exclude" => ~keep
      /\ ~checkCriticalLogPatterns(r) /\ checkContentFilters(r).action = "none" /\ ~IsRandom(r)
           => Below(RecordID(r), currentP[Logs], keep)
  BY <1>2, DecideLogIs
<1>5. \A y : y # r => (y \in b.chosen <=> y \in a.chosen)
  BY <1>3 DEF Taken
<1>6. b.out = b.chosen
  BY <1>1, <1>2 DEF TakesRecord, Takes, CallWellFormed
<1>7. CallWellFormed(b)'
  BY <1>1, <1>2, <1>3, <1>6 DEF CallWellFormed, Takes, Taken, Done
<1>8. \A x : /\ checkCriticalLogPatterns(x)' <=> checkCriticalLogPatterns(x)
             /\ checkContentFilters(x)' = checkContentFilters(x)
             /\ IsRandom(x)' <=> IsRandom(x)
             /\ RecordID(x)' = RecordID(x)
  BY ConfigDecides
<1>9. Followed(b)'
  <2>1. ~PassedAll(a)
    BY <1>1 DEF PassedAll
  <2>2. ASSUME NEW x \in Sampled(b)'
        PROVE  Allowed(IDOf(b.sampler, x), x \in b.chosen, b.inForce)'
    <3>1. /\ x \in Done(b) /\ b.sampler = Logs /\ ~checkCriticalLogPatterns(x) /\ ~IsRandom(x)
          /\ checkContentFilters(x).action = "none"
      BY <1>1, <1>2, <1>8, <2>2 DEF Sampled, Done, Takes
    <3>2. PICK id : id = RecordID(x)
      OBVIOUS
    <3>3. IDOf(b.sampler, x)' = id
      BY <1>1, <1>8, <3>1, <3>2 DEF IDOf
    <3>4. CASE x # r
      <4>1. x \in Sampled(a)
        BY <1>1, <1>3, <3>1, <3>4 DEF Taken, Done, Sampled
      <4>2. Allowed(id, x \in a.chosen, a.inForce)
        BY <1>1, <2>1, <3>2, <4>1 DEF Followed, IDOf
      <4>3. Allowed(id, x \in a.chosen, a.inForce)'
        BY <1>4, <4>2, AllowedStays
      <4>4. QED
        BY <1>2, <1>5, <3>3, <3>4, <4>3 DEF Allowed, Takes
    <3>5. CASE x = r
      <4>1. PICK q : q = currentP[Logs]
        OBVIOUS
      <4>2. Below(id, q, keep)
        BY <1>4, <3>1, <3>2, <3>5, <4>1
      <4>3. q \in 0 .. One /\ q \in a.inForce
        BY <1>1, <4>1 DEF SamplingTypeOK, Signals, CallWellFormed
      <4>4. Allowed(id, keep, a.inForce)'
        BY <1>1, <4>2, <4>3, BelowIsAllowed
      <4>5. QED
        BY <1>2, <1>3, <3>3, <3>5, <4>4 DEF Allowed, Takes, Taken
    <3>6. QED
      BY <3>4, <3>5
  <2>3. QED
    BY <2>2 DEF Followed
<1>10. DecisionsFollow(b)'
  BY <1>2 DEF DecisionsFollow
<1>11. Obeyed(b)'
  <2>1. ASSUME NEW x \in Done(b)
        PROVE  /\ checkCriticalLogPatterns(x) \/ checkContentFilters(x).action = "include"
                    => x \in b.out
               /\ ~checkCriticalLogPatterns(x) /\ checkContentFilters(x).action = "exclude"
                    => x \notin b.out
    <3>1. CASE x # r
      <4>1. x \in Done(a) /\ (x \in b.out <=> x \in a.out)
        BY <1>1, <1>3, <1>5, <1>6, <2>1, <3>1 DEF Taken, CallWellFormed
      <4>2. QED
        BY <1>1, <4>1 DEF Obeyed
    <3>2. CASE x = r
      BY <1>3, <1>4, <1>6, <3>2 DEF Taken
    <3>3. QED
      BY <3>1, <3>2
  <2>2. QED
    BY <1>8, <2>1 DEF Obeyed, Done
<1>12. b.sampler = Logs
  BY <1>1, <1>2 DEF Takes
<1>13. QED
  BY <1>1, <1>3, <1>4, <1>7, <1>9, <1>10, <1>11, <1>12 DEF CallSound

-----------------------------------------------------------------------------
(* How calls begin, go on and stay right                                    *)

LEMMA SignalsDiffer == Traces # Logs /\ Traces \in Signals /\ Logs \in Signals
  BY DEF Traces, Logs, Signals

LEMMA CallIs ==
  ASSUME NEW a, CallTyped(a)
  PROVE  a \in Calls(a.sampler) /\ a.sampler \in Signals /\ a # NoCall
<1>1. PICK k \in Signals : a \in Calls(k)
  BY DEF CallTyped
<1>2. a.sampler = k
  BY <1>1 DEF Calls
<1>3. QED
  BY <1>1, <1>2, HeadAssumption

(* Waiting batches are batches, and have no item in common.                  *)
LEMMA WaitingAre ==
  ASSUME SamplingTypeOK, NEW k \in Signals, NEW b \in waiting[k]
  PROVE  /\ IsBatch(b, k)
         /\ \A d \in waiting[k] : d # b => ItemsOf(b) \cap ItemsOf(d) = {}
<1>1. PICK w \in Workloads : waiting[k] \subseteq w.batches[k]
  BY DEF SamplingTypeOK
<1>2. QED
  BY <1>1, WorkloadAssumption

(* The call that Begin makes. *)
NewCall(k, b) ==
  [sampler |-> k, batch |-> b, decisions |-> << >>,
   rest |-> IF PassesAll(k) THEN << >> ELSE b,
   out |-> IF PassesAll(k) THEN ItemsOf(b) ELSE {},
   chosen |-> IF PassesAll(k) THEN ItemsOf(b) ELSE {},
   inForce |-> {currentP[k]}]

LEMMA NewCallTyped ==
  ASSUME SamplingTypeOK, NEW k \in Signals, NEW b, IsBatch(b, k)
  PROVE  CallTyped(NewCall(k, b)) /\ NewCall(k, b) \in Calls(k)
<1>1. /\ b \in Seq(Lists(k)) /\ << >> \in Seq(Lists(k)) /\ ItemsOf(<< >>) = {}
      /\ ItemsOf(b) \subseteq Items(k)
  BY RestOfBatch, RestInBatch
<1>2. << >> \in DecisionMaps
  <2>1. << >> \in [{} -> BOOLEAN] /\ {} \in SUBSET Range(TraceOf)
    OBVIOUS
  <2>2. QED
    BY <2>1 DEF DecisionMaps
<1>3. currentP[k] \in 0 .. One
  BY DEF SamplingTypeOK
<1>4. PICK rest, out : /\ rest = (IF PassesAll(k) THEN << >> ELSE b)
                       /\ out = (IF PassesAll(k) THEN ItemsOf(b) ELSE {})
  OBVIOUS
<1>5. /\ rest \in Seq(Lists(k)) /\ ItemsOf(rest) \subseteq ItemsOf(b)
      /\ out \subseteq ItemsOf(b) /\ out \subseteq Items(k)
  BY <1>1, <1>4
<1>6. NewCall(k, b) = [sampler |-> k, batch |-> b, decisions |-> << >>, rest |-> rest,
                       out |-> out, chosen |-> out, inForce |-> {currentP[k]}]
  BY <1>4 DEF NewCall
<1>7. NewCall(k, b) \in Calls(k)
  BY <1>1, <1>2, <1>3, <1>5, <1>6 DEF Calls
<1>8. QED
  BY <1>5, <1>6, <1>7 DEF CallTyped

(* A call begins with nothing decided, or with everything chosen.            *)
LEMMA NewCallSound ==
  ASSUME SamplingTypeOK, UNCHANGED <<config, currentP, hash>>,
         NEW k \in Signals, NEW b, IsBatch(b, k), NEW a, a = NewCall(k, b)
  PROVE  CallSound(a)'
<1>1. /\ a.sampler = k /\ a.batch = b /\ a.decisions = << >> /\ a.out = a.chosen
      /\ a.inForce = {currentP[k]}
  BY DEF NewCall
<1>2. currentP[k] \in 0 .. One /\ One \in Nat
  BY HeadAssumption DEF SamplingTypeOK
<1>3. IsRest(b, b) /\ IsRest(<< >>, b) /\ ItemsOf(<< >>) = {}
  BY RestOfBatch
<1>4. CASE PassesAll(k)
  <2>1. a.rest = << >> /\ a.chosen = ItemsOf(b) /\ Done(a) = ItemsOf(b)
    BY <1>1, <1>3, <1>4 DEF NewCall, Done
  <2>2. One \in a.inForce
    BY <1>1, <1>2, <1>4 DEF PassesAll
  <2>3. CallWellFormed(a)'
    BY <1>1, <1>3, <2>1 DEF CallWellFormed, Done
  <2>4. DecidedOnce(a)' /\ Remembered(a)'
    <3>1. ASSUME NEW i \in DOMAIN b, NEW s \in ToSet(b[i]) PROVE s \in a.chosen
      BY <2>1, <3>1 DEF ItemsOf
    <3>2. QED
      BY <1>1, <2>1, <3>1 DEF DecidedOnce, Remembered
  <2>5. Followed(a)'
    BY <1>1, <2>1, <2>2 DEF Followed, PassedAll
  <2>6. DecisionsFollow(a)'
    BY <1>1 DEF DecisionsFollow
  <2>7. k = Logs => Obeyed(a)'
    <3>1. ASSUME k = Logs, NEW r PROVE checkContentFilters(r)'.action = "none"
      <4>1. config.filters = << >>
        BY <1>4, <3>1 DEF PassesAll
      <4>2. FirstMatch(config.filters, r) = 0
        BY <4>1 DEF FirstMatch
      <4>3. checkContentFilters(r).action = "none"
        BY <4>2 DEF checkContentFilters
      <4>4. QED
        BY <4>3, ConfigDecides
    <3>2. Done(a)' = a.chosen
      BY <2>1 DEF Done
    <3>3. QED
      BY <1>1, <3>1, <3>2 DEF Obeyed
  <2>8. QED
    BY <1>1, <2>3, <2>4, <2>5, <2>6, <2>7 DEF CallSound
<1>5. CASE ~PassesAll(k)
  <2>1. a.rest = b /\ a.chosen = {} /\ Done(a) = {}
    BY <1>1, <1>5 DEF NewCall, Done
  <2>2. CallWellFormed(a)'
    BY <1>1, <1>3, <2>1 DEF CallWellFormed, Done
  <2>3. \A i \in DOMAIN b : ToSet(b[i]) \ ItemsOf(b) = {}
    BY DEF ItemsOf
  <2>4. DecidedOnce(a)'
    BY <1>1, <2>1, <2>3 DEF DecidedOnce
  <2>5. Remembered(a)'
    <3>1. Current(b, b) \in DOMAIN b \/ b = << >>
      BY FirstItem, RestOfBatch
    <3>2. QED
      BY <1>1, <2>1, <2>3, <3>1 DEF Remembered
  <2>6. Followed(a)' /\ DecisionsFollow(a)' /\ Obeyed(a)'
    <3>1. Sampled(a)' = {}
      BY <2>1 DEF Sampled, Done
    <3>2. Done(a)' = {}
      BY <2>1 DEF Done
    <3>3. QED
      BY <1>1, <3>1, <3>2 DEF Followed, DecisionsFollow, Obeyed
  <2>7. QED
    BY <2>2, <2>4, <2>5, <2>6 DEF CallSound
<1>6. QED
  BY <1>4, <1>5

(* A call keeps its type when it takes an item.                              *)
LEMMA TakenTyped ==
  ASSUME NEW k \in Signals, NEW a \in Calls(k), CallTyped(a), CallWellFormed(a),
         NEW x, NEW keep \in BOOLEAN, NEW b, b = CallWith(a, b.decisions, b.rest, b.out, b.chosen),
         Taken(a, b, x, keep), b.decisions \in DecisionMaps,
         b.out = a.out \/ b.out = b.chosen
  PROVE  CallTyped(b) /\ b \in Calls(k)
<1>1. /\ a.sampler = k /\ a.batch \in Seq(Lists(k)) /\ a.inForce \in SUBSET (0 .. One)
      /\ a.chosen \subseteq Items(k) /\ a.out \subseteq Items(k)
  BY DEF Calls
<1>2. /\ b.rest \in Seq(Lists(k)) /\ x \in Items(k) /\ x \in ItemsOf(a.batch)
      /\ ItemsOf(b.rest) \subseteq ItemsOf(a.rest)
      /\ x \notin a.chosen /\ \A y : y # x => (y \in b.chosen <=> y \in a.chosen)
  BY <1>1 DEF Taken
<1>3. ItemsOf(a.rest) \subseteq ItemsOf(a.batch) /\ a.out \subseteq a.chosen /\ a.chosen \subseteq ItemsOf(a.batch)
  BY DEF CallTyped
<1>4. b.chosen \subseteq Items(k) /\ b.chosen \subseteq ItemsOf(a.batch) /\ a.chosen \subseteq b.chosen
  BY <1>1, <1>2, <1>3
<1>5. b.out \subseteq Items(k) /\ b.out \subseteq b.chosen
  BY <1>3, <1>4
<1>6. b.batch = a.batch
  BY DEF CallWith
<1>7. PICK D, R, O, H : D = b.decisions /\ R = b.rest /\ O = b.out /\ H = b.chosen
  OBVIOUS
<1>8. CallWith(a, D, R, O, H) \in Calls(k)
  <2>1. D \in DecisionMaps /\ R \in Seq(Lists(k)) /\ O \in SUBSET Items(k) /\ H \in SUBSET Items(k)
    BY <1>2, <1>4, <1>5, <1>7
  <2>2. QED
    BY <1>1, <2>1 DEF Calls, CallWith
<1>9. b \in Calls(k)
  BY <1>7, <1>8
<1>10. QED
  BY <1>2, <1>3, <1>4, <1>5, <1>6, <1>9 DEF CallTyped

HashTyped == \A id \in DOMAIN hash : hash[id] \in 0 .. One

(* A call moves on by an item. *)
Moves(c, b) ==
  /\ call[c] # NoCall /\ call' = [call EXCEPT ![c] = b]
  /\ CallTyped(b) /\ b.sampler = call[c].sampler /\ b.batch = call[c].batch
  /\ HashGrows /\ HashTyped'
  /\ UNCHANGED <<config, currentP, waiting, counters, reports, history>>

(* The actions on items, as moves of a call.                                 *)
LEMMA SpanMoves ==
  ASSUME SamplingTypeOK, CallsSound, NEW c \in Callers, NextSpan(c)
  PROVE  \E b : Moves(c, b) /\ CallSound(b)'
<1>1. PICK a : a = call[c]
  OBVIOUS
<1>2. /\ a # NoCall /\ a.sampler = Traces /\ CallTyped(a) /\ CallSound(a) /\ DOMAIN call = Callers
      /\ UNCHANGED <<config, currentP, waiting, counters, reports, history>>
  BY <1>1 DEF NextSpan, SamplingTypeOK, CallsSound
<1>3. a \in Calls(Traces) /\ Traces \in Signals
  BY <1>2, CallIs, SignalsDiffer
<1>4. PICK b, s : \E keep \in BOOLEAN :
           /\ TakesSpan(a, b, s, keep) /\ call' = [call EXCEPT ![c] = b]
           /\ b = CallWith(a, b.decisions, b.rest, b.out, b.chosen)
  BY <1>1, <1>2, <1>3, NextSpanIs
<1>5. PICK keep \in BOOLEAN :
           /\ TakesSpan(a, b, s, keep) /\ call' = [call EXCEPT ![c] = b]
           /\ b = CallWith(a, b.decisions, b.rest, b.out, b.chosen)
  BY <1>4
<1>6. /\ HashGrows /\ \A i \in DOMAIN hash' : hash'[i] \in 0 .. One
      /\ CallSound(b)' /\ Taken(a, b, s, keep)
  <2>1. UNCHANGED <<config, currentP>>
    BY <1>2
  <2>2. QED
    BY <1>2, <1>3, <1>5, <2>1, SpanSound
<1>7. b.decisions \in DecisionMaps
  <2>1. a.decisions \in DecisionMaps
    BY <1>3 DEF Calls
  <2>2. TraceOf[s] \in Range(TraceOf)
    BY <1>2, <1>6, SignalsDiffer DEF Taken, Items, Range
  <2>3. << >> \in DecisionMaps /\ Put(a.decisions, TraceOf[s], keep) \in DecisionMaps
    BY <2>1, <2>2, PutDecides
  <2>4. QED
    BY <1>5, <2>3 DEF TakesSpan
<1>8. CallTyped(b)
  <2>1. CallWellFormed(a)
    BY <1>2 DEF CallSound
  <2>2. b.out = a.out \/ b.out = b.chosen
    BY <1>5 DEF TakesSpan
  <2>3. QED
    BY <1>2, <1>3, <1>5, <1>6, <1>7, <2>1, <2>2, TakenTyped
<1>9. Moves(c, b)
  <2>1. b.sampler = a.sampler /\ b.batch = a.batch
    BY <1>5 DEF TakesSpan, Takes
  <2>2. QED
    BY <1>1, <1>2, <1>5, <1>6, <1>8, <2>1 DEF Moves, HashTyped
<1>10. QED
  BY <1>6, <1>9

LEMMA RecordMoves ==
  ASSUME SamplingTypeOK, CallsSound, NEW c \in Callers, NextRecord(c)
  PROVE  \E b : Moves(c, b) /\ CallSound(b)'
<1>1. PICK a : a = call[c]
  OBVIOUS
<1>2. /\ a # NoCall /\ a.sampler = Logs /\ CallTyped(a) /\ CallSound(a) /\ DOMAIN call = Callers
      /\ UNCHANGED <<config, currentP, waiting, counters, reports, history>>
  BY <1>1 DEF NextRecord, SamplingTypeOK, CallsSound
<1>3. a \in Calls(Logs) /\ Logs \in Signals
  BY <1>2, CallIs, SignalsDiffer
<1>4. PICK b, r : \E keep \in BOOLEAN :
           /\ TakesRecord(a, b, r, keep) /\ call' = [call EXCEPT ![c] = b]
           /\ b = CallWith(a, b.decisions, b.rest, b.out, b.chosen)
  BY <1>1, <1>2, <1>3, NextRecordIs
<1>5. PICK keep \in BOOLEAN :
           /\ TakesRecord(a, b, r, keep) /\ call' = [call EXCEPT ![c] = b]
           /\ b = CallWith(a, b.decisions, b.rest, b.out, b.chosen)
  BY <1>4
<1>6. /\ HashGrows /\ \A i \in DOMAIN hash' : hash'[i] \in 0 .. One
      /\ CallSound(b)' /\ Taken(a, b, r, keep)
  <2>1. UNCHANGED <<config, currentP>>
    BY <1>2
  <2>2. QED
    BY <1>2, <1>3, <1>5, <2>1, RecordSound
<1>7. b.decisions \in DecisionMaps
  <2>1. << >> \in [{} -> BOOLEAN] /\ {} \in SUBSET Range(TraceOf)
    OBVIOUS
  <2>2. QED
    BY <1>5, <2>1 DEF DecisionMaps, TakesRecord
<1>8. CallTyped(b)
  <2>1. CallWellFormed(a)
    BY <1>2 DEF CallSound
  <2>2. b.out = b.chosen
    BY <1>2, <1>5, <2>1 DEF TakesRecord, Takes, CallWellFormed
  <2>3. QED
    BY <1>2, <1>3, <1>5, <1>6, <1>7, <2>1, <2>2, TakenTyped
<1>9. Moves(c, b)
  <2>1. b.sampler = a.sampler /\ b.batch = a.batch
    BY <1>5 DEF TakesRecord, Takes
  <2>2. QED
    BY <1>1, <1>2, <1>5, <1>6, <1>8, <2>1 DEF Moves, HashTyped
<1>10. QED
  BY <1>6, <1>9

(* One call changes, and the others stay right. *)
LEMMA OthersSound ==
  ASSUME SamplingTypeOK, CallsSound, UNCHANGED <<config, currentP>>, HashGrows,
         NEW c \in Callers, NEW b, call' = [call EXCEPT ![c] = b], b # NoCall => CallSound(b)'
  PROVE  CallsSound'
<1> SUFFICES ASSUME NEW d \in Callers, NEW a, a = call'[d], a # NoCall PROVE CallSound(a)'
  BY DEF CallsSound
<1>1. DOMAIN call = Callers
  BY DEF SamplingTypeOK
<1>2. CASE d = c
  BY <1>1, <1>2
<1>3. CASE d # c
  <2>1. a = call[d]
    BY <1>1, <1>3
  <2>2. CallSound(a)
    BY <2>1 DEF CallsSound
  <2>3. currentP[a.sampler] \in a.inForce
    BY <2>2 DEF CallSound, CallWellFormed
  <2>4. currentP'[a.sampler] \in a.inForce /\ config' = config
    BY <2>3
  <2>5. QED
    BY <2>2, <2>4, SoundStays
<1>4. QED
  BY <1>2, <1>3

LEMMA SetProbabilitySound ==
  ASSUME SamplingTypeOK, CallsSound, NEW k \in Signals, NEW q \in Ps, SetProbability(k, q)
  PROVE  CallsSound'
<1> SUFFICES ASSUME NEW c \in Callers, NEW b, b = call'[c], b # NoCall PROVE CallSound(b)'
  BY DEF CallsSound
<1>1. PICK a, p : a = call[c] /\ p = Clamped(q)
  OBVIOUS
<1>2. /\ b = IF a # NoCall /\ a.sampler = k THEN [a EXCEPT !.inForce = a.inForce \cup {p}] ELSE a
      /\ currentP' = [currentP EXCEPT ![k] = p] /\ config' = config /\ HashGrows
  BY <1>1 DEF SetProbability, HashGrows
<1>3. a # NoCall
  BY <1>1, <1>2
<1>4. CallTyped(a) /\ CallSound(a) /\ DOMAIN currentP = Signals
  BY <1>1, <1>3 DEF SamplingTypeOK, CallsSound
<1>5. a \in Calls(a.sampler) /\ a.sampler \in Signals /\ currentP[a.sampler] \in a.inForce
  BY <1>4, CallIs DEF CallSound, CallWellFormed
<1>6. /\ b.sampler = a.sampler /\ b.batch = a.batch /\ b.rest = a.rest /\ b.out = a.out
      /\ b.chosen = a.chosen /\ b.decisions = a.decisions
      /\ a.inForce \subseteq b.inForce /\ (a.sampler = k => p \in b.inForce)
  <2>1. CASE a.sampler = k
    <3>1. b = [a EXCEPT !.inForce = a.inForce \cup {p}]
      BY <1>2, <1>3, <2>1
    <3>2. QED
      BY <1>5, <3>1 DEF Calls
  <2>2. CASE a.sampler # k
    BY <1>2, <2>2
  <2>3. QED
    BY <2>1, <2>2
<1>7. currentP'[b.sampler] \in b.inForce
  BY <1>2, <1>4, <1>5, <1>6
<1>8. QED
  BY <1>2, <1>4, <1>6, <1>7, SoundStays

LEMMA SoundPreserved ==
  ASSUME SamplingTypeOK, CallsSound, [SamplingNext]_samplingVars
  PROVE  CallsSound'
<1>1. ASSUME UNCHANGED <<config, currentP, hash, call>> PROVE CallsSound'
  <2>1. UNCHANGED <<config, currentP>> /\ HashGrows
    BY <1>1 DEF HashGrows
  <2> SUFFICES ASSUME NEW c \in Callers, NEW a, a = call'[c], a # NoCall PROVE CallSound(a)'
    BY DEF CallsSound
  <2>2. CallSound(a)
    BY <1>1 DEF CallsSound
  <2>3. currentP'[a.sampler] \in a.inForce
    BY <2>1, <2>2 DEF CallSound, CallWellFormed
  <2>4. QED
    BY <2>1, <2>2, <2>3, SoundStays
<1>2. ASSUME NEW c \in Callers, NEW k \in Signals, NEW b \in waiting[k], Begin(c, k, b)
      PROVE  CallsSound'
  <2>1. PICK a : a = NewCall(k, b)
    OBVIOUS
  <2>2. call' = [call EXCEPT ![c] = a] /\ UNCHANGED <<config, currentP, hash>>
    BY <1>2, <2>1 DEF Begin, NewCall
  <2>3. IsBatch(b, k)
    BY WaitingAre
  <2>4. CallSound(a)'
    BY <2>1, <2>2, <2>3, NewCallSound
  <2>5. HashGrows
    BY <2>2 DEF HashGrows
  <2>6. UNCHANGED <<config, currentP>>
    BY <2>2
  <2>7. QED
    BY <2>2, <2>4, <2>5, <2>6, OthersSound
<1>3. ASSUME NEW c \in Callers, NextSpan(c) \/ NextRecord(c) PROVE CallsSound'
  <2>1. PICK b : Moves(c, b) /\ CallSound(b)'
    BY <1>3, SpanMoves, RecordMoves
  <2>2. UNCHANGED <<config, currentP>> /\ HashGrows /\ call' = [call EXCEPT ![c] = b]
    BY <2>1 DEF Moves
  <2>3. QED
    BY <2>1, <2>2, OthersSound
<1>4. ASSUME NEW c \in Callers, End(c) PROVE CallsSound'
  <2>1. UNCHANGED <<config, currentP>> /\ HashGrows /\ call' = [call EXCEPT ![c] = NoCall]
    BY <1>4 DEF End, HashGrows
  <2>2. QED
    BY <2>1, OthersSound
<1>5. ASSUME NEW k \in Signals, NEW q \in Ps, SetProbability(k, q) PROVE CallsSound'
  BY <1>5, SetProbabilitySound
<1>6. CASE ReportReceived \/ ReportRejected \/ Shutdown \/ ReporterExit
  BY <1>1, <1>6 DEF ReportReceived, ReportRejected, Shutdown, ReporterExit
<1>7. CASE UNCHANGED samplingVars
  BY <1>1, <1>7 DEF samplingVars
<1>8. QED
  BY <1>2, <1>3, <1>4, <1>5, <1>6, <1>7 DEF SamplingNext

-----------------------------------------------------------------------------
(* Where the items are, and what is counted                                 *)

InCalls(k) == UNION {ItemsOf(call[c].batch) : c \in CallsOf(k)}

Balance(k) ==
  /\ processing[k] + Reported(k, reportedReceived) = Cardinality(received[k])
  /\ rejected[k] + Reported(k, reportedRejected) + Cardinality(delivered[k])
       + Cardinality(InCalls(k)) = Cardinality(received[k])

LEMMA AccountedIsBalance == Accounted <=> \A k \in Signals : Balance(k)
  BY DEF Accounted, Balance, InCalls

(* Items in calls were received and are not delivered yet.                   *)
LEMMA Sizes ==
  ASSUME SamplingTypeOK, NEW k \in Signals, Apart(k)
  PROVE  /\ IsFiniteSet(received[k]) /\ IsFiniteSet(delivered[k]) /\ IsFiniteSet(InCalls(k))
         /\ Cardinality(received[k]) \in Nat /\ Cardinality(delivered[k]) \in Nat
         /\ Cardinality(InCalls(k)) \in Nat
         /\ InCalls(k) \cap delivered[k] = {} /\ InCalls(k) \subseteq received[k]
<1>1. IsFiniteSet(received[k]) /\ delivered[k] \subseteq received[k]
  BY DEF Apart, SamplingTypeOK
<1>2. InCalls(k) \subseteq received[k] \ delivered[k]
  BY DEF Apart, InCalls
<1>3. IsFiniteSet(delivered[k]) /\ IsFiniteSet(InCalls(k))
  BY <1>1, <1>2, FS_Subset
<1>4. QED
  BY <1>1, <1>2, <1>3, FS_CardinalityType

LEMMA DisjointSizes ==
  ASSUME NEW S, NEW T, IsFiniteSet(S), IsFiniteSet(T), S \cap T = {}
  PROVE  /\ IsFiniteSet(S \cup T) /\ Cardinality(S) \in Nat /\ Cardinality(T) \in Nat
         /\ Cardinality(S \cup T) = Cardinality(S) + Cardinality(T)
<1>1. /\ IsFiniteSet(S \cup T)
      /\ Cardinality(S \cup T) = Cardinality(S) + Cardinality(T) - Cardinality(S \cap T)
  BY FS_Union
<1>2. Cardinality(S \cap T) = 0
  BY FS_EmptySet
<1>3. Cardinality(S) \in Nat /\ Cardinality(T) \in Nat
  BY FS_CardinalityType
<1>4. QED
  BY <1>1, <1>2, <1>3

(* The calls keep their batches, and nothing else of the places changes.  *)
BatchesStay ==
  /\ UNCHANGED <<waiting, received, delivered>>
  /\ \A c \in Callers : /\ call'[c] = NoCall <=> call[c] = NoCall
                        /\ call[c] # NoCall => /\ call'[c].sampler = call[c].sampler
                                               /\ call'[c].batch = call[c].batch

KeepsPlaces(k) ==
  /\ CallsOf(k)' = CallsOf(k) /\ \A c \in CallsOf(k) : call'[c].batch = call[c].batch
  /\ waiting'[k] = waiting[k] /\ received'[k] = received[k] /\ delivered'[k] = delivered[k]

LEMMA PlacesStay ==
  ASSUME BatchesStay, NEW k
  PROVE  KeepsPlaces(k)
<1>1. \A c : c \in CallsOf(k)' <=> c \in CallsOf(k)
  BY DEF BatchesStay, CallsOf
<1>2. \A c \in CallsOf(k) : call'[c].batch = call[c].batch
  BY DEF BatchesStay, CallsOf
<1>3. QED
  BY <1>1, <1>2 DEF BatchesStay, KeepsPlaces

LEMMA PlacesKept ==
  ASSUME NEW k, KeepsPlaces(k)
  PROVE  /\ InCalls(k)' = InCalls(k) /\ (Apart(k) => Apart(k)')
         /\ processing'[k] = processing[k] /\ rejected'[k] = rejected[k]
              /\ reportedReceived' = reportedReceived /\ reportedRejected' = reportedRejected
              /\ Balance(k) => Balance(k)'
<1>1. InCalls(k)' = InCalls(k)
  BY DEF InCalls, KeepsPlaces
<1>2. Apart(k) => Apart(k)'
  BY DEF Apart, KeepsPlaces
<1>3. ASSUME processing'[k] = processing[k], rejected'[k] = rejected[k],
             reportedReceived' = reportedReceived, reportedRejected' = reportedRejected, Balance(k)
      PROVE  Balance(k)'
  BY <1>1, <1>3 DEF Balance, Reported, KeepsPlaces
<1>4. QED
  BY <1>1, <1>2, <1>3

LEMMA MovesKeepBatches ==
  ASSUME SamplingTypeOK, NEW c \in Callers, NEW b, Moves(c, b)
  PROVE  BatchesStay
<1>1. DOMAIN call = Callers /\ b # NoCall
  BY CallIs DEF SamplingTypeOK, Moves
<1>2. QED
  BY <1>1 DEF Moves, BatchesStay, history

LEMMA SetProbabilityKeepsBatches ==
  ASSUME SamplingTypeOK, NEW k, NEW q \in Ps, SetProbability(k, q)
  PROVE  /\ BatchesStay /\ DOMAIN call' = Callers
         /\ \A c \in Callers : call'[c] # NoCall => CallTyped(call'[c])
<1>1. /\ call' = [c \in Callers |->
         IF call[c] # NoCall /\ call[c].sampler = k
         THEN [call[c] EXCEPT !.inForce = @ \cup {Clamped(q)}] ELSE call[c]]
      /\ UNCHANGED <<waiting, received, delivered>>
  BY DEF SetProbability, history
<1>2. ASSUME NEW c \in Callers, NEW a, NEW b, a = call[c], b = call'[c]
      PROVE  /\ b = NoCall <=> a = NoCall
             /\ a # NoCall => b.sampler = a.sampler /\ b.batch = a.batch
             /\ b # NoCall => CallTyped(b)
  <2>1. CASE a # NoCall /\ a.sampler = k
    <3>1. b = [a EXCEPT !.inForce = a.inForce \cup {Clamped(q)}]
      BY <1>1, <1>2, <2>1
    <3>2. CallTyped(a)
      BY <1>2, <2>1 DEF SamplingTypeOK
    <3>3. a \in Calls(k)  /\ a.sampler \in Signals
      BY <2>1, <3>2, CallIs
    <3>4. /\ b.sampler = a.sampler /\ b.batch = a.batch /\ b.rest = a.rest /\ b.out = a.out
          /\ b.chosen = a.chosen /\ b.decisions = a.decisions
          /\ b.inForce = a.inForce \cup {Clamped(q)}
          /\ b = [sampler |-> b.sampler, batch |-> b.batch, decisions |-> b.decisions,
                  rest |-> b.rest, out |-> b.out, chosen |-> b.chosen, inForce |-> b.inForce]
      BY <3>1, <3>3 DEF Calls
    <3>5. CallTyped(b)
      <4>1. Clamped(q) \in 0 .. One
        BY HeadAssumption DEF Clamped
      <4>2. /\ a.sampler \in {k} /\ a.batch \in Seq(Lists(k)) /\ a.decisions \in DecisionMaps
            /\ a.rest \in Seq(Lists(k)) /\ a.out \in SUBSET Items(k) /\ a.chosen \in SUBSET Items(k)
            /\ b.inForce \in SUBSET (0 .. One)
        BY <3>3, <3>4, <4>1 DEF Calls
      <4>3. b \in Calls(k)
        BY <3>4, <4>2 DEF Calls
      <4>4. QED
        BY <2>1, <3>2, <3>3, <3>4, <4>3 DEF CallTyped
    <3>6. b # NoCall
      BY <3>5, CallIs
    <3>7. QED
      BY <2>1, <3>4, <3>5, <3>6
  <2>2. CASE ~(a # NoCall /\ a.sampler = k)
    <3>1. b = a
      BY <1>1, <1>2, <2>2
    <3>2. QED
      BY <1>2, <3>1 DEF SamplingTypeOK
  <2>3. QED
    BY <2>1, <2>2
<1>3. QED
  BY <1>1, <1>2 DEF BatchesStay

(* Begin receives a batch, which was nowhere before, and counts it.          *)
LEMMA BeginPlaces ==
  ASSUME SamplingTypeOK, PlacesApart, Accounted,
         NEW c \in Callers, NEW k \in Signals, NEW b \in waiting[k], Begin(c, k, b)
  PROVE  /\ PlacesApart' /\ Accounted' /\ processing' \in [Signals -> Nat]
         /\ \A j \in Signals : delivered'[j] \subseteq received'[j]
<1> DEFINE I == ItemsOf(b)
<1>1. PICK a : a = NewCall(k, b)
  OBVIOUS
<1>2. /\ call[c] = NoCall /\ call' = [call EXCEPT ![c] = a]
      /\ waiting' = [waiting EXCEPT ![k] = waiting[k] \ {b}]
      /\ processing' = [processing EXCEPT ![k] = processing[k] + Cardinality(I)]
      /\ received' = [received EXCEPT ![k] = received[k] \cup I]
      /\ rejected' = rejected /\ delivered' = delivered
      /\ reportedReceived' = reportedReceived /\ reportedRejected' = reportedRejected
  BY <1>1 DEF Begin, NewCall, reports
<1>3. /\ DOMAIN call = Callers /\ DOMAIN waiting = Signals /\ processing \in [Signals -> Nat]
      /\ DOMAIN received = Signals /\ rejected \in [Signals -> Nat]
      /\ \A j \in Signals : delivered[j] \subseteq received[j]
  BY DEF SamplingTypeOK
<1>4. /\ IsBatch(b, k) /\ \A d \in waiting[k] : d # b => I \cap ItemsOf(d) = {}
      /\ IsFiniteSet(I) /\ Cardinality(I) \in Nat
  BY WaitingAre, ItemsFinite
<1>5. a # NoCall /\ a.sampler = k /\ a.batch = b
  BY <1>1, <1>4, NewCallTyped, CallIs DEF NewCall
<1>6. \A j \in Signals : Apart(j) /\ Balance(j)
  BY AccountedIsBalance DEF PlacesApart
<1>7. I \cap received[k] = {}
  BY <1>6 DEF Apart
<1>8. ASSUME NEW j \in Signals, j # k PROVE Apart(j)' /\ Balance(j)'
  <2>1. \A d : d \in CallsOf(j)' <=> d \in CallsOf(j)
    BY <1>2, <1>3, <1>5, <1>8 DEF CallsOf
  <2>2. \A d \in CallsOf(j) : call'[d] = call[d]
    BY <1>2, <1>3 DEF CallsOf
  <2>3. KeepsPlaces(j)
    BY <1>2, <1>3, <1>8, <2>1, <2>2 DEF KeepsPlaces
  <2>4. processing'[j] = processing[j]
    BY <1>2, <1>3, <1>8
  <2>5. QED
    BY <1>2, <1>6, <2>3, <2>4, PlacesKept
<1>9. Apart(k)' /\ Balance(k)'
  <2>1. \A d : d \in CallsOf(k)' <=> d \in CallsOf(k) \/ d = c
    BY <1>2, <1>3, <1>5 DEF CallsOf
  <2>2. c \notin CallsOf(k) /\ call'[c] = a /\ \A d \in CallsOf(k) : call'[d] = call[d]
    BY <1>2, <1>3 DEF CallsOf
  <2>3. received'[k] = received[k] \cup I /\ waiting'[k] = waiting[k] \ {b}
    BY <1>2, <1>3
  <2>4. /\ IsFiniteSet(received[k]) /\ IsFiniteSet(delivered[k]) /\ IsFiniteSet(InCalls(k))
        /\ Cardinality(received[k]) \in Nat /\ Cardinality(delivered[k]) \in Nat
        /\ Cardinality(InCalls(k)) \in Nat
        /\ InCalls(k) \cap delivered[k] = {} /\ InCalls(k) \subseteq received[k]
    BY <1>6, Sizes
  <2>5. /\ IsFiniteSet(received'[k])
        /\ Cardinality(received'[k]) = Cardinality(received[k]) + Cardinality(I)
    <3>1. received[k] \cap I = {}
      BY <1>7
    <3>2. /\ IsFiniteSet(received[k] \cup I)
          /\ Cardinality(received[k] \cup I) = Cardinality(received[k]) + Cardinality(I)
      BY <1>4, <2>4, <3>1, DisjointSizes
    <3>3. QED
      BY <2>3, <3>2
  <2>6. Apart(k)'
    <3>1. \A d \in waiting'[k] : ItemsOf(d) \cap received'[k] = {}
      BY <1>4, <1>6, <2>3 DEF Apart
    <3>2. \A d \in CallsOf(k)' : ItemsOf(call'[d].batch) \subseteq received'[k] \ delivered'[k]
      BY <1>2, <1>3, <1>5, <1>6, <1>7, <2>1, <2>2, <2>3 DEF Apart
    <3>3. \A d \in CallsOf(k) : I \cap ItemsOf(call[d].batch) = {}
      BY <1>6, <1>7 DEF Apart
    <3>4. \A d, e \in CallsOf(k)' : d # e => ItemsOf(call'[d].batch) \cap ItemsOf(call'[e].batch) = {}
      BY <1>5, <1>6, <2>1, <2>2, <3>3 DEF Apart
    <3>5. QED
      BY <2>5, <3>1, <3>2, <3>4 DEF Apart
  <2>7. InCalls(k)' = InCalls(k) \cup I
    <3>1. \A x : x \in InCalls(k)' <=> \E d \in CallsOf(k)' : x \in ItemsOf(call'[d].batch)
      BY DEF InCalls
    <3>2. \A x : x \in InCalls(k) <=> \E d \in CallsOf(k) : x \in ItemsOf(call[d].batch)
      BY DEF InCalls
    <3>3. \A x : x \in InCalls(k)' <=> x \in InCalls(k) \/ x \in I
      BY <1>5, <2>1, <2>2, <3>1, <3>2
    <3>4. QED
      BY <3>3
  <2>8. Cardinality(InCalls(k)') = Cardinality(InCalls(k)) + Cardinality(I)
    <3>1. InCalls(k) \cap I = {}
      BY <1>7, <2>4
    <3>2. QED
      BY <1>4, <2>4, <2>7, <3>1, DisjointSizes
  <2>9. PICK n, p, r, rr, rj, j, d, v :
          /\ n = Cardinality(I) /\ p = processing[k] /\ rj = rejected[k]
          /\ rr = Reported(k, reportedReceived) /\ j = Reported(k, reportedRejected)
          /\ d = Cardinality(delivered[k]) /\ v = Cardinality(InCalls(k)) /\ r = Cardinality(received[k])
    OBVIOUS
  <2>10. /\ n \in Nat /\ p \in Nat /\ rj \in Nat /\ rr \in Nat /\ j \in Nat /\ d \in Nat /\ v \in Nat
         /\ r \in Nat
    BY <1>3, <1>4, <2>4, <2>9 DEF SamplingTypeOK, Reported
  <2>11. p + rr = r /\ rj + j + d + v = r
    BY <1>6, <2>9 DEF Balance
  <2>12. (p + n) + rr = r + n /\ rj + j + d + (v + n) = r + n
    BY <2>10, <2>11
  <2>13. /\ processing'[k] = p + n /\ Cardinality(received'[k]) = r + n
         /\ Reported(k, reportedReceived)' = rr /\ Reported(k, reportedRejected)' = j
         /\ rejected'[k] = rj /\ Cardinality(delivered'[k]) = d /\ Cardinality(InCalls(k)') = v + n
    BY <1>2, <1>3, <2>5, <2>8, <2>9 DEF Reported
  <2>14. Balance(k)'
    BY <2>12, <2>13 DEF Balance
  <2>15. QED
    BY <2>6, <2>14
<1>10. \A j \in Signals : Apart(j)' /\ Balance(j)'
  BY <1>8, <1>9
<1>11. Accounted'
  BY <1>10 DEF Accounted, Balance, InCalls
<1>12. processing' \in [Signals -> Nat] /\ \A j \in Signals : delivered'[j] \subseteq received'[j]
  BY <1>2, <1>3, <1>4
<1>13. QED
  BY <1>10, <1>11, <1>12 DEF PlacesApart

(* End delivers a part of a batch and counts the rest as rejected.           *)
LEMMA EndPlaces ==
  ASSUME SamplingTypeOK, CallsSound, PlacesApart, Accounted, NEW c \in Callers, End(c)
  PROVE  /\ PlacesApart' /\ Accounted' /\ rejected' \in [Signals -> Nat]
         /\ \A j \in Signals : delivered'[j] \subseteq received'[j]
<1>1. PICK a, k, I, out : a = call[c] /\ k = a.sampler /\ I = ItemsOf(a.batch) /\ out = a.out
  OBVIOUS
<1>2. /\ a # NoCall /\ call' = [call EXCEPT ![c] = NoCall]
      /\ rejected' = [rejected EXCEPT ![k] = rejected[k] + RejectedIn(a)]
      /\ delivered' = [delivered EXCEPT ![k] = delivered[k] \cup out]
      /\ waiting' = waiting /\ processing' = processing /\ received' = received
      /\ reportedReceived' = reportedReceived /\ reportedRejected' = reportedRejected
  BY <1>1 DEF End, reports
<1>3. /\ DOMAIN call = Callers /\ DOMAIN waiting = Signals /\ processing \in [Signals -> Nat]
      /\ DOMAIN delivered = Signals /\ rejected \in [Signals -> Nat]
      /\ \A j \in Signals : delivered[j] \subseteq received[j]
      /\ CallTyped(a) /\ CallSound(a)
  BY <1>1, <1>2 DEF SamplingTypeOK, CallsSound
<1>4. k \in Signals /\ c \in CallsOf(k)
  BY <1>1, <1>2, <1>3, CallIs DEF CallsOf
<1>5. /\ IsFiniteSet(I) /\ IsFiniteSet(out) /\ out \subseteq I
      /\ Cardinality(I) \in Nat /\ Cardinality(out) \in Nat /\ Cardinality(out) <= Cardinality(I)
  <2>1. IsBatch(a.batch, k)
    BY <1>1, <1>3 DEF CallSound, CallWellFormed
  <2>2. IsFiniteSet(I) /\ out \subseteq I
    BY <1>1, <1>3, <2>1, ItemsFinite DEF CallTyped
  <2>3. QED
    BY <2>2, FS_Subset, FS_CardinalityType
<1>6. \A j \in Signals : Apart(j) /\ Balance(j)
  BY AccountedIsBalance DEF PlacesApart
<1>7. I \subseteq received[k] \ delivered[k]
  BY <1>1, <1>4, <1>6 DEF Apart
<1>8. ASSUME NEW j \in Signals, j # k PROVE Apart(j)' /\ Balance(j)'
  <2>1. \A d : d \in CallsOf(j)' <=> d \in CallsOf(j)
    BY <1>1, <1>2, <1>3, <1>8 DEF CallsOf
  <2>2. \A d \in CallsOf(j) : call'[d] = call[d]
    BY <1>1, <1>2, <1>3, <1>8 DEF CallsOf
  <2>3. KeepsPlaces(j)
    BY <1>2, <1>3, <1>8, <2>1, <2>2 DEF KeepsPlaces
  <2>4. rejected'[j] = rejected[j]
    BY <1>2, <1>3, <1>8
  <2>5. QED
    BY <1>2, <1>6, <2>3, <2>4, PlacesKept
<1>9. Apart(k)' /\ Balance(k)'
  <2>1. \A d : d \in CallsOf(k)' <=> d \in CallsOf(k) /\ d # c
    BY <1>2, <1>3 DEF CallsOf
  <2>2. \A d \in CallsOf(k)' : call'[d] = call[d]
    BY <1>2, <1>3, <2>1 DEF CallsOf
  <2>3. delivered'[k] = delivered[k] \cup out /\ rejected'[k] = rejected[k] + RejectedIn(a)
    BY <1>2, <1>3, <1>4
  <2>4. /\ IsFiniteSet(received[k]) /\ IsFiniteSet(delivered[k]) /\ IsFiniteSet(InCalls(k))
        /\ Cardinality(received[k]) \in Nat /\ Cardinality(delivered[k]) \in Nat
        /\ Cardinality(InCalls(k)) \in Nat
        /\ InCalls(k) \cap delivered[k] = {} /\ InCalls(k) \subseteq received[k]
    BY <1>4, <1>6, Sizes
  <2>5. Cardinality(delivered'[k]) = Cardinality(delivered[k]) + Cardinality(out)
    <3>1. delivered[k] \cap out = {}
      BY <1>5, <1>7
    <3>2. Cardinality(delivered[k] \cup out) = Cardinality(delivered[k]) + Cardinality(out)
      BY <1>5, <2>4, <3>1, DisjointSizes
    <3>3. QED
      BY <2>3, <3>2
  <2>6. \A d \in CallsOf(k) : d # c => I \cap ItemsOf(call[d].batch) = {}
    BY <1>1, <1>4, <1>6 DEF Apart
  <2>7. Apart(k)'
    <3>1. \A d \in CallsOf(k)' : ItemsOf(call'[d].batch) \subseteq received'[k] \ delivered'[k]
      <4>1. \A d \in CallsOf(k) : ItemsOf(call[d].batch) \subseteq received[k] \ delivered[k]
        BY <1>4, <1>6 DEF Apart
      <4>2. QED
        BY <1>2, <1>5, <2>1, <2>2, <2>3, <2>6, <4>1
    <3>2. \A d, e \in CallsOf(k)' : d # e => ItemsOf(call'[d].batch) \cap ItemsOf(call'[e].batch) = {}
      BY <1>4, <1>6, <2>1, <2>2 DEF Apart
    <3>3. QED
      BY <1>2, <1>4, <1>6, <3>1, <3>2 DEF Apart
  <2>8. Cardinality(InCalls(k)) = Cardinality(InCalls(k)') + Cardinality(I)
    <3>1. \A x : x \in InCalls(k)' <=> \E d \in CallsOf(k)' : x \in ItemsOf(call'[d].batch)
      BY DEF InCalls
    <3>2. \A x : x \in InCalls(k) <=> \E d \in CallsOf(k) : x \in ItemsOf(call[d].batch)
      BY DEF InCalls
    <3>3. \A x : x \in InCalls(k)' <=> x \in InCalls(k) /\ x \notin I
      BY <1>1, <1>4, <2>1, <2>2, <2>6, <3>1, <3>2
    <3>4. I \subseteq InCalls(k)
      BY <1>1, <1>4, <3>2
    <3>5. PICK rest : rest = InCalls(k)'
      OBVIOUS
    <3>6. rest \cap I = {} /\ InCalls(k) = rest \cup I
      BY <3>3, <3>4, <3>5
    <3>7. IsFiniteSet(rest)
      BY <2>4, <3>6, FS_Subset
    <3>8. QED
      BY <1>5, <3>5, <3>6, <3>7, DisjointSizes
  <2>9. PICK n, m, p, r, rr, rj, j, d, v, u :
          /\ n = Cardinality(I) /\ p = processing[k] /\ rj = rejected[k] /\ m = Cardinality(out)
          /\ rr = Reported(k, reportedReceived) /\ j = Reported(k, reportedRejected)
          /\ d = Cardinality(delivered[k]) /\ v = Cardinality(InCalls(k)) /\ r = Cardinality(received[k])
          /\ u = Cardinality(InCalls(k)')
    OBVIOUS
  <2>10. /\ n \in Nat /\ m \in Nat /\ rj \in Nat /\ j \in Nat /\ d \in Nat /\ v \in Nat
         /\ r \in Nat /\ u \in Nat
    <3>1. IsFiniteSet(InCalls(k)')
      <4>1. InCalls(k)' \subseteq InCalls(k)
        BY <2>1, <2>2 DEF InCalls
      <4>2. QED
        BY <2>4, <4>1, FS_Subset
    <3>2. Cardinality(InCalls(k)') \in Nat
      BY <3>1, FS_CardinalityType
    <3>3. QED
      BY <1>3, <1>4, <1>5, <2>4, <2>9, <3>2 DEF SamplingTypeOK, Reported
  <2>11. p + rr = r /\ rj + j + d + v = r /\ v = u + n
    BY <1>4, <1>6, <2>8, <2>9 DEF Balance
  <2>12. (rj + (n - m)) + j + (d + m) + u = r
    BY <2>10, <2>11
  <2>13. /\ processing'[k] = p /\ Cardinality(received'[k]) = r
         /\ Reported(k, reportedReceived)' = rr /\ Reported(k, reportedRejected)' = j
         /\ rejected'[k] = rj + (n - m) /\ Cardinality(delivered'[k]) = d + m
         /\ Cardinality(InCalls(k)') = u
    BY <1>1, <1>2, <2>3, <2>5, <2>9 DEF Reported, RejectedIn
  <2>14. Balance(k)'
    BY <2>11, <2>12, <2>13 DEF Balance
  <2>15. QED
    BY <2>7, <2>14
<1>10. \A j \in Signals : Apart(j)' /\ Balance(j)'
  BY <1>8, <1>9
<1>11. Accounted'
  BY <1>10 DEF Accounted, Balance, InCalls
<1>12. rejected' \in [Signals -> Nat] /\ \A j \in Signals : delivered'[j] \subseteq received'[j]
  <2>1. RejectedIn(a) \in Nat
    BY <1>1, <1>5 DEF RejectedIn
  <2>2. QED
    BY <1>2, <1>3, <1>4, <1>5, <1>7, <2>1
<1>13. QED
  BY <1>10, <1>11, <1>12 DEF PlacesApart

(* A report moves a count and loses nothing of it.                           *)
LEMMA ReportReceivedBalances ==
  ASSUME SamplingTypeOK, Accounted, ReportReceived
  PROVE  Accounted'
<1>1. \A j \in Signals : Balance(j)
  BY AccountedIsBalance
<1>2. ASSUME NEW k \in Signals PROVE Balance(k)'
  <2>1. /\ rejected' = rejected /\ reportedRejected' = reportedRejected
        /\ received' = received /\ delivered' = delivered /\ InCalls(k)' = InCalls(k)
    BY DEF ReportReceived, history, InCalls, CallsOf
  <2>2. processing'[k] + Reported(k, reportedReceived)' = processing[k] + Reported(k, reportedReceived)
    <3>1. /\ reportedReceived' = reportedReceived + processing[Traces]
          /\ processing' = [processing EXCEPT ![Traces] = 0]
          /\ processing \in [Signals -> Nat] /\ reportedReceived \in Nat
      BY DEF ReportReceived, SamplingTypeOK
    <3>2. PICK n, m : n = processing[k] /\ m = reportedReceived
      OBVIOUS
    <3>3. n \in Nat /\ m \in Nat
      BY <3>1, <3>2
    <3>4. CASE k = Traces
      <4>1. processing'[k] = 0 /\ Reported(k, reportedReceived)' = m + n
        BY <3>1, <3>2, <3>4 DEF Reported
      <4>2. 0 + (m + n) = n + m
        BY <3>3
      <4>3. QED
        BY <3>2, <3>4, <4>1, <4>2 DEF Reported
    <3>5. CASE k # Traces
      BY <3>1, <3>5 DEF Reported
    <3>6. QED
      BY <3>4, <3>5
  <2>3. QED
    BY <1>1, <2>1, <2>2 DEF Balance, Reported
<1>3. QED
  BY <1>2 DEF Accounted, Balance, InCalls

LEMMA ReportRejectedBalances ==
  ASSUME SamplingTypeOK, PlacesApart, Accounted, ReportRejected
  PROVE  Accounted'
<1>1. \A j \in Signals : Balance(j) /\ Apart(j)
  BY AccountedIsBalance DEF PlacesApart
<1>2. ASSUME NEW k \in Signals PROVE Balance(k)'
  <2>1. /\ processing' = processing /\ reportedReceived' = reportedReceived
        /\ received' = received /\ delivered' = delivered /\ InCalls(k)' = InCalls(k)
    BY DEF ReportRejected, history, InCalls, CallsOf
  <2>2. rejected'[k] + Reported(k, reportedRejected)' = rejected[k] + Reported(k, reportedRejected)
    <3>1. /\ reportedRejected' = reportedRejected + rejected[Traces]
          /\ rejected' = [rejected EXCEPT ![Traces] = 0]
          /\ rejected \in [Signals -> Nat] /\ reportedRejected \in Nat
      BY DEF ReportRejected, SwappedRejected, SamplingTypeOK
    <3>2. PICK n, m : n = rejected[k] /\ m = reportedRejected
      OBVIOUS
    <3>3. n \in Nat /\ m \in Nat
      BY <3>1, <3>2
    <3>4. CASE k = Traces
      <4>1. rejected'[k] = 0 /\ Reported(k, reportedRejected)' = m + n
        BY <3>1, <3>2, <3>4 DEF Reported
      <4>2. 0 + (m + n) = n + m
        BY <3>3
      <4>3. QED
        BY <3>2, <3>4, <4>1, <4>2 DEF Reported
    <3>5. CASE k # Traces
      BY <3>1, <3>5 DEF Reported
    <3>6. QED
      BY <3>4, <3>5
  <2>3. QED
    BY <1>1, <2>1, <2>2 DEF Balance, Reported
<1>3. QED
  BY <1>2 DEF Accounted, Balance, InCalls

-----------------------------------------------------------------------------
(* The invariant is kept                                                    *)

LEMMA HeadInitInvariant == SamplingInit => HeadInv
<1> SUFFICES ASSUME SamplingInit PROVE HeadInv
  OBVIOUS
<1>1. /\ \E w \in Workloads : config = w.config /\ waiting = w.batches
      /\ currentP = [k \in Signals |-> InitialProbability]
      /\ hash = << >> /\ call = [c \in Callers |-> NoCall]
      /\ processing = [k \in Signals |-> 0] /\ rejected = [k \in Signals |-> 0]
      /\ reporter = "waits" /\ stopCh = "open"
      /\ reportedReceived = 0 /\ reportedRejected = 0
      /\ received = [k \in Signals |-> {}] /\ delivered = [k \in Signals |-> {}]
  BY DEF SamplingInit
<1>2. SamplingTypeOK
  <2>1. DOMAIN waiting = Signals /\ \E w \in Workloads : \A k \in Signals : waiting[k] \subseteq w.batches[k]
    BY <1>1, WorkloadAssumption
  <2>2. config \in {w.config : w \in Workloads}
    BY <1>1
  <2>3. InitialProbability \in 0 .. One
    BY HeadAssumption
  <2>4. \A id \in DOMAIN hash : hash[id] \in 0 .. One
    BY <1>1
  <2>5. QED
    BY <1>1, <2>1, <2>2, <2>3, <2>4 DEF SamplingTypeOK
<1>3. \A k : CallsOf(k) = {}
  BY <1>1 DEF CallsOf
<1>4. \A k \in Signals : Apart(k)
  BY <1>1, <1>3, FS_EmptySet DEF Apart
<1>5. \A k \in Signals : Balance(k)
  <2> SUFFICES ASSUME NEW k \in Signals PROVE Balance(k)
    OBVIOUS
  <2>1. received[k] = {} /\ delivered[k] = {} /\ InCalls(k) = {} /\ Cardinality({}) = 0
    BY <1>1, <1>3, FS_EmptySet DEF InCalls
  <2>2. /\ processing[k] = 0 /\ rejected[k] = 0 /\ Reported(k, reportedReceived) = 0
        /\ Reported(k, reportedRejected) = 0
    BY <1>1 DEF Reported
  <2>3. QED
    BY <2>1, <2>2 DEF Balance
<1>6. Accounted
  BY <1>5, AccountedIsBalance
<1>7. CallsSound
  BY <1>1 DEF CallsSound
<1>8. QED
  BY <1>2, <1>4, <1>6, <1>7 DEF HeadInv, PlacesApart

(* Where the items are, and the counters. *)
LEMMA PlacesPreserved ==
  ASSUME HeadInv, [SamplingNext]_samplingVars
  PROVE  /\ PlacesApart' /\ Accounted'
         /\ processing' \in [Signals -> Nat] /\ rejected' \in [Signals -> Nat]
         /\ \A j \in Signals : delivered'[j] \subseteq received'[j]
<1>1. /\ processing \in [Signals -> Nat] /\ rejected \in [Signals -> Nat]
      /\ \A j \in Signals : delivered[j] \subseteq received[j]
      /\ SamplingTypeOK /\ PlacesApart /\ Accounted /\ CallsSound
  BY DEF HeadInv, SamplingTypeOK
<1>2. \A j \in Signals : Apart(j) /\ Balance(j)
  BY <1>1, AccountedIsBalance DEF PlacesApart
<1>3. ASSUME NEW c \in Callers, NEW k \in Signals, NEW b \in waiting[k], Begin(c, k, b)
      PROVE  /\ PlacesApart' /\ Accounted'
             /\ processing' \in [Signals -> Nat] /\ rejected' \in [Signals -> Nat]
             /\ \A j \in Signals : delivered'[j] \subseteq received'[j]
  BY <1>1, <1>3, BeginPlaces DEF Begin
<1>4. ASSUME BatchesStay, UNCHANGED <<counters, reportedReceived, reportedRejected>>
      PROVE  /\ PlacesApart' /\ Accounted'
             /\ processing' \in [Signals -> Nat] /\ rejected' \in [Signals -> Nat]
             /\ \A j \in Signals : delivered'[j] \subseteq received'[j]
  <2>1. \A j \in Signals : Apart(j)' /\ Balance(j)'
    BY <1>2, <1>4, PlacesStay, PlacesKept DEF counters
  <2>2. Accounted'
    BY <2>1 DEF Accounted, Balance, InCalls
  <2>3. QED
    BY <1>1, <1>4, <2>1, <2>2 DEF PlacesApart, BatchesStay, counters
<1>5. ASSUME UNCHANGED call, UNCHANGED waiting, UNCHANGED history PROVE BatchesStay
  BY <1>5 DEF BatchesStay, history
<1>6. ASSUME NEW c \in Callers, NextSpan(c) \/ NextRecord(c)
      PROVE  /\ PlacesApart' /\ Accounted'
             /\ processing' \in [Signals -> Nat] /\ rejected' \in [Signals -> Nat]
             /\ \A j \in Signals : delivered'[j] \subseteq received'[j]
  <2>1. PICK b : Moves(c, b)
    BY <1>1, <1>6, SpanMoves, RecordMoves
  <2>2. BatchesStay
    BY <1>1, <2>1, MovesKeepBatches
  <2>3. QED
    BY <1>4, <2>1, <2>2 DEF Moves, reports
<1>7. ASSUME NEW c \in Callers, End(c)
      PROVE  /\ PlacesApart' /\ Accounted'
             /\ processing' \in [Signals -> Nat] /\ rejected' \in [Signals -> Nat]
             /\ \A j \in Signals : delivered'[j] \subseteq received'[j]
  BY <1>1, <1>7, EndPlaces DEF End
<1>8. ASSUME NEW k \in Signals, NEW q \in Ps, SetProbability(k, q)
      PROVE  /\ PlacesApart' /\ Accounted'
             /\ processing' \in [Signals -> Nat] /\ rejected' \in [Signals -> Nat]
             /\ \A j \in Signals : delivered'[j] \subseteq received'[j]
  <2>1. BatchesStay
    BY <1>1, <1>8, SetProbabilityKeepsBatches
  <2>2. QED
    BY <1>4, <1>8, <2>1 DEF SetProbability, reports
<1>9. ASSUME UNCHANGED call, UNCHANGED waiting, UNCHANGED history PROVE PlacesApart'
  <2>1. \A j \in Signals : Apart(j)'
    BY <1>2, <1>5, <1>9, PlacesStay, PlacesKept
  <2>2. QED
    BY <2>1 DEF PlacesApart
<1>10. CASE ReportReceived
  <2>1. Accounted'
    BY <1>1, <1>10, ReportReceivedBalances
  <2>2. PlacesApart'
    BY <1>9, <1>10 DEF ReportReceived
  <2>3. processing' \in [Signals -> Nat] /\ rejected' = rejected /\ delivered' = delivered /\ received' = received
    BY <1>1, <1>10 DEF ReportReceived, history
  <2>4. QED
    BY <1>1, <2>1, <2>2, <2>3
<1>11. CASE ReportRejected
  <2>1. Accounted'
    BY <1>1, <1>11, ReportRejectedBalances
  <2>2. PlacesApart'
    BY <1>9, <1>11 DEF ReportRejected
  <2>3. rejected' \in [Signals -> Nat] /\ processing' = processing /\ delivered' = delivered /\ received' = received
    BY <1>1, <1>11 DEF ReportRejected, history
  <2>4. QED
    BY <1>1, <2>1, <2>2, <2>3
<1>12. CASE Shutdown \/ ReporterExit
  BY <1>4, <1>5, <1>12 DEF Shutdown, ReporterExit
<1>13. CASE UNCHANGED samplingVars
  BY <1>4, <1>5, <1>13 DEF samplingVars, reports
<1>14. QED
  BY <1>3, <1>6, <1>7, <1>8, <1>10, <1>11, <1>12, <1>13 DEF SamplingNext

(* The calls, and what is known of the hash. *)
LEMMA OneCallTyped ==
  ASSUME SamplingTypeOK, NEW c \in Callers, NEW b, call' = [call EXCEPT ![c] = b],
         b # NoCall => CallTyped(b)
  PROVE  DOMAIN call' = Callers /\ \A d \in Callers : call'[d] # NoCall => CallTyped(call'[d])
<1>1. DOMAIN call = Callers /\ \A d \in Callers : call[d] # NoCall => CallTyped(call[d])
  BY DEF SamplingTypeOK
<1>2. DOMAIN call' = Callers
  BY <1>1
<1>3. \A d \in Callers : call'[d] = IF d = c THEN b ELSE call[d]
  BY <1>1
<1>4. QED
  BY <1>1, <1>2, <1>3

CallsTyped ==
  /\ DOMAIN call = Callers /\ \A c \in Callers : call[c] # NoCall => CallTyped(call[c])
  /\ HashTyped

LEMMA CallsStayTyped ==
  ASSUME SamplingTypeOK, CallsSound, [SamplingNext]_samplingVars
  PROVE  CallsTyped'
<1>1. CallsTyped
  BY DEF CallsTyped, HashTyped, SamplingTypeOK
<1>2. ASSUME UNCHANGED call, UNCHANGED hash PROVE CallsTyped'
  BY <1>1, <1>2 DEF CallsTyped, HashTyped, CallTyped
<1>3. ASSUME NEW c \in Callers, NEW k \in Signals, NEW b \in waiting[k], Begin(c, k, b)
      PROVE  CallsTyped'
  <2>1. PICK a : a = NewCall(k, b)
    OBVIOUS
  <2>2. call' = [call EXCEPT ![c] = a] /\ hash' = hash
    BY <1>3, <2>1 DEF Begin, NewCall
  <2>3. IsBatch(b, k)
    BY WaitingAre
  <2>4. CallTyped(a)
    BY <2>1, <2>3, NewCallTyped
  <2>5. DOMAIN call' = Callers /\ \A d \in Callers : call'[d] # NoCall => CallTyped(call'[d])
    BY <2>2, <2>4, OneCallTyped
  <2>6. QED
    BY <1>1, <2>2, <2>5 DEF CallsTyped, HashTyped, CallTyped
<1>4. ASSUME NEW c \in Callers, NextSpan(c) \/ NextRecord(c) PROVE CallsTyped'
  <2>1. PICK b : Moves(c, b)
    BY <1>4, SpanMoves, RecordMoves
  <2>2. call' = [call EXCEPT ![c] = b] /\ CallTyped(b) /\ HashTyped'
    BY <2>1 DEF Moves
  <2>3. DOMAIN call' = Callers /\ \A d \in Callers : call'[d] # NoCall => CallTyped(call'[d])
    BY <2>2, OneCallTyped
  <2>4. QED
    BY <2>2, <2>3 DEF CallsTyped, CallTyped
<1>5. ASSUME NEW c \in Callers, End(c) PROVE CallsTyped'
  <2>1. call' = [call EXCEPT ![c] = NoCall] /\ hash' = hash
    BY <1>5 DEF End
  <2>2. DOMAIN call' = Callers /\ \A d \in Callers : call'[d] # NoCall => CallTyped(call'[d])
    BY <2>1, OneCallTyped
  <2>3. QED
    BY <1>1, <2>1, <2>2 DEF CallsTyped, HashTyped, CallTyped
<1>6. ASSUME NEW k \in Signals, NEW q \in Ps, SetProbability(k, q) PROVE CallsTyped'
  <2>1. DOMAIN call' = Callers /\ \A d \in Callers : call'[d] # NoCall => CallTyped(call'[d])
    BY <1>6, SetProbabilityKeepsBatches
  <2>2. hash' = hash
    BY <1>6 DEF SetProbability
  <2>3. QED
    BY <1>1, <2>1, <2>2 DEF CallsTyped, HashTyped, CallTyped
<1>7. CASE ReportReceived \/ ReportRejected \/ Shutdown \/ ReporterExit
  BY <1>2, <1>7 DEF ReportReceived, ReportRejected, Shutdown, ReporterExit
<1>8. CASE UNCHANGED samplingVars
  BY <1>2, <1>8 DEF samplingVars
<1>9. QED
  BY <1>3, <1>4, <1>5, <1>6, <1>7, <1>8 DEF SamplingNext

(* The rest of the types. *)
OthersTyped ==
  /\ config \in {w.config : w \in Workloads} /\ currentP \in [Signals -> 0 .. One]
  /\ DOMAIN waiting = Signals
  /\ \E w \in Workloads : \A k \in Signals : waiting[k] \subseteq w.batches[k]
  /\ reporter \in {"waits", "reports", "ended"} /\ stopCh \in {"open", "closed"}
  /\ reportedReceived \in Nat /\ reportedRejected \in Nat
  /\ DOMAIN received = Signals /\ DOMAIN delivered = Signals

LEMMA OthersStayTyped ==
  ASSUME SamplingTypeOK, [SamplingNext]_samplingVars
  PROVE  OthersTyped'
<1>1. /\ OthersTyped /\ processing \in [Signals -> Nat] /\ rejected \in [Signals -> Nat]
      /\ Traces \in Signals
  BY SignalsDiffer DEF SamplingTypeOK, OthersTyped
<1>2. ASSUME NEW c \in Callers, NEW k \in Signals, NEW b \in waiting[k], Begin(c, k, b)
      PROVE  OthersTyped'
  <2>1. waiting' = [waiting EXCEPT ![k] = waiting[k] \ {b}]
    BY <1>2 DEF Begin
  <2>2. PICK w \in Workloads : \A j \in Signals : waiting[j] \subseteq w.batches[j]
    BY <1>1 DEF OthersTyped
  <2>3. \A j \in Signals : waiting'[j] \subseteq w.batches[j]
    BY <1>1, <2>1, <2>2 DEF OthersTyped
  <2>4. DOMAIN waiting' = Signals /\ \E v \in Workloads : \A j \in Signals : waiting'[j] \subseteq v.batches[j]
    BY <1>1, <2>1, <2>2, <2>3 DEF OthersTyped
  <2>5. DOMAIN received' = Signals
    BY <1>1, <1>2 DEF Begin, OthersTyped
  <2>6. QED
    BY <1>1, <1>2, <2>4, <2>5 DEF Begin, OthersTyped, reports
<1>3. ASSUME NEW c \in Callers, NextSpan(c) \/ NextRecord(c) PROVE OthersTyped'
  BY <1>1, <1>3 DEF NextSpan, NextRecord, OthersTyped, reports, history
<1>4. ASSUME NEW c \in Callers, End(c) PROVE OthersTyped'
  BY <1>1, <1>4 DEF End, OthersTyped, reports
<1>5. ASSUME NEW k \in Signals, NEW q \in Ps, SetProbability(k, q) PROVE OthersTyped'
  <2>1. Clamped(q) \in 0 .. One
    BY HeadAssumption DEF Clamped
  <2>2. currentP' \in [Signals -> 0 .. One]
    BY <1>1, <1>5, <2>1 DEF SetProbability, OthersTyped
  <2>3. QED
    BY <1>1, <1>5, <2>2 DEF SetProbability, OthersTyped, reports, history
<1>6. CASE ReportReceived
  BY <1>1, <1>6 DEF ReportReceived, OthersTyped, history
<1>7. CASE ReportRejected
  BY <1>1, <1>7 DEF ReportRejected, SwappedRejected, OthersTyped, history
<1>8. CASE Shutdown \/ ReporterExit
  BY <1>1, <1>8 DEF Shutdown, ReporterExit, OthersTyped, history
<1>9. CASE UNCHANGED samplingVars
  BY <1>1, <1>9 DEF samplingVars, OthersTyped, reports, history
<1>10. QED
  BY <1>2, <1>3, <1>4, <1>5, <1>6, <1>7, <1>8, <1>9 DEF SamplingNext

LEMMA HeadNextPreserves ==
  ASSUME HeadInv, [SamplingNext]_samplingVars
  PROVE  HeadInv'
<1>1. SamplingTypeOK /\ CallsSound
  BY DEF HeadInv
<1>2. /\ PlacesApart' /\ Accounted'
      /\ processing' \in [Signals -> Nat] /\ rejected' \in [Signals -> Nat]
      /\ \A j \in Signals : delivered'[j] \subseteq received'[j]
  BY PlacesPreserved
<1>3. CallsTyped' /\ OthersTyped' /\ CallsSound'
  BY <1>1, CallsStayTyped, OthersStayTyped, SoundPreserved
<1>4. SamplingTypeOK'
  BY <1>2, <1>3 DEF SamplingTypeOK, CallsTyped, OthersTyped, HashTyped
<1>5. QED
  BY <1>2, <1>3, <1>4 DEF HeadInv

(* The types, the accounts of the counters, the state of each call and the  *)
(* places of the items are an inductive invariant of ConsumeTraces,         *)
(* processLogs, setProbability, reportMetrics and Shutdown.                 *)
THEOREM HeadInvariance == SamplingSpec => []HeadInv
<1>1. HeadInv /\ [SamplingNext]_samplingVars => HeadInv'
  BY HeadNextPreserves
<1>2. QED
  BY <1>1, HeadInitInvariant, PTL DEF SamplingSpec

-----------------------------------------------------------------------------
(* The properties of the runs                                               *)

(* Every variable of the head sampler keeps its type: a call works on a rest*)
(* of its batch, passes on nothing it did not choose, and what was passed on*)
(* had been received.                                                       *)
THEOREM SamplingTypesCorrect == SamplingSpec => []SamplingTypeOK
  BY HeadInvariance, PTL DEF HeadInv

(* Whatever calls and reports are under way, each item received was passed  *)
(* on, is in a call or was counted as rejected once, and each count is in   *)
(* its counter or was reported once.                                        *)
THEOREM EveryItemAccounted == SamplingSpec => []Accounted
  BY HeadInvariance, PTL DEF HeadInv

(* The spans of a trace that are in one scope are decided alike, however    *)
(* setProbability moves the probability between them.                       *)
THEOREM ScopesDecideOnce == SamplingSpec => []ScopeDecidesOnce
<1>1. HeadInv => ScopeDecidesOnce
  <2> SUFFICES ASSUME HeadInv, NEW c \in CallsOf(Traces), NEW a, a = call[c]
               PROVE  \A i \in DOMAIN a.batch : \A s1, s2 \in ToSet(a.batch[i]) \ ItemsOf(a.rest) :
                        TraceOf[s1] = TraceOf[s2] => (s1 \in a.chosen <=> s2 \in a.chosen)
    BY DEF ScopeDecidesOnce
  <2>1. a.sampler = Traces /\ CallSound(a)
    BY DEF HeadInv, CallsSound, CallsOf
  <2>2. QED
    BY <2>1 DEF CallSound, DecidedOnce
<1>2. QED
  BY <1>1, HeadInvariance, PTL

(* A decision by a hash agrees with one of the probabilities in force since *)
(* the call of ConsumeTraces or processLogs began.                          *)
THEOREM ProbabilityFollowed == SamplingSpec => []FollowsProbability
<1>1. HeadInv => FollowsProbability
  <2> SUFFICES ASSUME HeadInv, NEW c \in Callers, NEW a, a = call[c], a # NoCall,
                      One \notin a.inForce, NEW x \in Sampled(a)
               PROVE  /\ (\A q \in a.inForce : hash[IDOf(a.sampler, x)] < q) => x \in a.chosen
                      /\ x \in a.chosen => \E q \in a.inForce : hash[IDOf(a.sampler, x)] < q
    BY DEF FollowsProbability
  <2>1. CallSound(a)
    BY DEF HeadInv, CallsSound
  <2>2. ~PassedAll(a)
    BY DEF PassedAll
  <2>3. Allowed(IDOf(a.sampler, x), x \in a.chosen, a.inForce)
    BY <2>1, <2>2 DEF CallSound, Followed
  <2>4. QED
    BY <2>3 DEF Allowed
<1>2. QED
  BY <1>1, HeadInvariance, PTL

-----------------------------------------------------------------------------
(* The first match of checkCriticalLogPatterns and checkContentFilters.     *)
LEMMA LeastElement ==
  ASSUME NEW S \in SUBSET Nat, S # {}
  PROVE  \E i \in S : \A j \in S : i <= j
<1>1. \E i \in S : \A j \in S : ~(<<j, i>> \in OpToRel(<, Nat))
  BY NatLessThanWellFounded, WFMin
<1>2. \A i, j \in Nat : j < i => <<j, i>> \in OpToRel(<, Nat)
  BY DEF OpToRel
<1>3. \E i \in S : \A j \in S : ~(j < i)
  BY <1>1, <1>2, Zenon
<1>4. QED
  BY <1>3

Hits(list, r) ==
  {i \in DOMAIN list : Has(r, list[i].field)
                         /\ matchPattern(list[i].pattern, FieldsOf[r][list[i].field])}

(* FirstMatch finds the least hit, if there is any.                          *)
LEMMA FirstMatchIs ==
  ASSUME NEW list, DOMAIN list \subseteq Nat \ {0}, NEW r
  PROVE  /\ FirstMatch(list, r) # 0 <=> Hits(list, r) # {}
         /\ \A i \in Hits(list, r) :
              (\A j \in Hits(list, r) : i <= j) => FirstMatch(list, r) = i
<1>1. PICK hits : hits = Hits(list, r)
  OBVIOUS
<1>2. hits \subseteq Nat \ {0}
  BY <1>1 DEF Hits
<1>3. FirstMatch(list, r) = IF hits = {} THEN 0 ELSE CHOOSE i \in hits : \A j \in hits : i <= j
  BY <1>1 DEF FirstMatch, Hits
<1>4. ASSUME hits # {} PROVE FirstMatch(list, r) \in hits /\ \A j \in hits : FirstMatch(list, r) <= j
  <2>1. \E i \in hits : \A j \in hits : i <= j
    BY <1>2, <1>4, LeastElement
  <2>2. QED
    BY <1>3, <1>4, <2>1
<1>5. ASSUME NEW i \in hits, \A j \in hits : i <= j PROVE FirstMatch(list, r) = i
  <2>1. FirstMatch(list, r) \in hits /\ FirstMatch(list, r) <= i /\ i <= FirstMatch(list, r)
    BY <1>4, <1>5
  <2>2. PICK m : m = FirstMatch(list, r)
    OBVIOUS
  <2>3. m \in Nat /\ i \in Nat /\ m <= i /\ i <= m
    BY <1>2, <1>5, <2>1, <2>2
  <2>4. m = i
    BY <2>3
  <2>5. QED
    BY <2>2, <2>4
<1>6. FirstMatch(list, r) # 0 <=> hits # {}
  BY <1>2, <1>3, <1>4
<1>7. QED
  BY <1>1, <1>5, <1>6

(* A record that is critical, or whose first matching filter includes it, is*)
(* passed on, and one that a filter excludes is not, on every path through  *)
(* processLogs.                                                             *)
THEOREM FiltersAreObeyed == SamplingSpec => []FiltersObeyed
<1>1. HeadInv => FiltersObeyed
  <2> SUFFICES ASSUME HeadInv, NEW c \in CallsOf(Logs), NEW a, a = call[c],
                      NEW r \in ItemsOf(a.batch) \ ItemsOf(a.rest)
               PROVE  LET hits == Hits(config.filters, r)
                          First(action) == \E i \in hits :
                            config.filters[i].action = action /\ \A j \in hits : i <= j
                          critical == Hits(config.critical, r) # {}
                      IN  /\ critical \/ First("include") => r \in a.out
                          /\ ~critical /\ First("exclude") => r \notin a.out
    BY DEF FiltersObeyed, Hits
  <2>1. a.sampler = Logs /\ CallSound(a)
    BY DEF HeadInv, CallsSound, CallsOf
  <2>2. /\ checkCriticalLogPatterns(r) \/ checkContentFilters(r).action = "include" => r \in a.out
        /\ ~checkCriticalLogPatterns(r) /\ checkContentFilters(r).action = "exclude" => r \notin a.out
    BY <2>1 DEF CallSound, Obeyed, Done
  <2>3. DOMAIN config.critical \subseteq Nat \ {0} /\ DOMAIN config.filters \subseteq Nat \ {0}
    BY WorkloadAssumption DEF HeadInv, SamplingTypeOK
  <2>4. checkCriticalLogPatterns(r) <=> Hits(config.critical, r) # {}
    BY <2>3, FirstMatchIs DEF checkCriticalLogPatterns
  <2>5. ASSUME NEW i \in Hits(config.filters, r), \A j \in Hits(config.filters, r) : i <= j
        PROVE  checkContentFilters(r) = config.filters[i]
    <3>1. FirstMatch(config.filters, r) = i /\ FirstMatch(config.filters, r) # 0
      BY <2>3, <2>5, FirstMatchIs
    <3>2. QED
      BY <3>1 DEF checkContentFilters
  <2>6. QED
    BY <2>2, <2>4, <2>5
<1>2. QED
  BY <1>1, HeadInvariance, PTL

-----------------------------------------------------------------------------
(* Records that agree on the fields have one ID. *)
LEMMA AlikeHaveOneID ==
  ASSUME NEW r1, NEW r2, Alike(r1, r2)
  PROVE  RecordID(r1) = RecordID(r2) /\ (Spoilt(r1) <=> Spoilt(r2))
<1>1. PICK fields : fields = config.fields
  OBVIOUS
<1>2. \A i \in DOMAIN fields :
        /\ Given(r1, fields[i].field) <=> Given(r2, fields[i].field)
        /\ Given(r1, fields[i].field) => FieldsOf[r1][fields[i].field] = FieldsOf[r2][fields[i].field]
  BY <1>1 DEF Alike
<1>3. \A i \in DOMAIN fields :
        /\ ValueOf(r1, fields[i]) = ValueOf(r2, fields[i])
        /\ Contributes(r1, fields[i]) <=> Contributes(r2, fields[i])
  BY <1>2 DEF ValueOf, Contributes
<1>4. Contributors(fields, r1) = Contributors(fields, r2)
  BY <1>3 DEF Contributors
<1>5. PICK some : some = Contributors(fields, r1)
  OBVIOUS
<1>6. some \subseteq DOMAIN fields /\ some = Contributors(fields, r2)
  BY <1>4, <1>5 DEF Contributors
<1>7. BagOfValues(fields, r1) = BagOfValues(fields, r2)
  <2>1. {ValueOf(r1, fields[i]) : i \in some} = {ValueOf(r2, fields[i]) : i \in some}
    BY <1>3, <1>6
  <2>2. \A v : {i \in some : ValueOf(r1, fields[i]) = v} = {i \in some : ValueOf(r2, fields[i]) = v}
    BY <1>3, <1>6
  <2>3. QED
    BY <1>5, <1>6, <2>1, <2>2 DEF BagOfValues
<1>8. ASSUME NEW place PROVE PieceAt(fields, r1, place) = PieceAt(fields, r2, place)
  <2>1. PICK here : here = {i \in some : Place(fields, i) = place}
    OBVIOUS
  <2>2. CASE here = {}
    BY <1>5, <1>6, <2>1, <2>2 DEF PieceAt
  <2>3. CASE here # {}
    <3>1. PICK i : i = CHOOSE j \in here : TRUE
      OBVIOUS
    <3>2. i \in here
      BY <2>3, <3>1
    <3>3. ValueOf(r1, fields[i]) = ValueOf(r2, fields[i])
      BY <1>3, <1>6, <2>1, <3>2
    <3>4. /\ PieceAt(fields, r1, place) = [j \in 1 .. fields[i].weight |-> ValueOf(r1, fields[i])]
          /\ PieceAt(fields, r2, place) = [j \in 1 .. fields[i].weight |-> ValueOf(r2, fields[i])]
      BY <1>5, <1>6, <2>1, <2>3, <3>1 DEF PieceAt
    <3>5. QED
      BY <3>3, <3>4
  <2>4. QED
    BY <2>2, <2>3
<1>9. [place \in DOMAIN fields |-> PieceAt(fields, r1, place)]
        = [place \in DOMAIN fields |-> PieceAt(fields, r2, place)]
  BY <1>8
<1>10. createRecordID(fields, r1) = createRecordID(fields, r2)
  BY <1>7, <1>9 DEF createRecordID
<1>11. Spoilt(r1) <=> Spoilt(r2)
  BY <1>1, <1>2 DEF Spoilt
<1>12. QED
  BY <1>1, <1>10, <1>11 DEF RecordID

(* Records that agree on the fields of the record ID are decided alike while*)
(* the probability stays what it is.                                        *)
THEOREM LikeRecordsDecidedAlike == SamplingSpec => []LikeDecidesLike
<1>1. HeadInv => LikeDecidesLike
  <2> SUFFICES ASSUME HeadInv, NEW c \in CallsOf(Logs), NEW a, a = call[c], Cardinality(a.inForce) = 1,
                      NEW r1 \in ItemsOf(a.batch) \ ItemsOf(a.rest),
                      NEW r2 \in ItemsOf(a.batch) \ ItemsOf(a.rest),
                      Alike(r1, r2), ~Spoilt(r1),
                      \A r \in {r1, r2} : ~checkCriticalLogPatterns(r)
                                            /\ checkContentFilters(r).action = "none"
               PROVE  r1 \in a.out <=> r2 \in a.out
    BY DEF LikeDecidesLike
  <2>1. a # NoCall /\ a.sampler = Logs /\ CallSound(a) /\ CallTyped(a)
    BY DEF HeadInv, CallsSound, CallsOf, SamplingTypeOK
  <2>2. a.out = a.chosen /\ Logs # Traces
    BY <2>1, SignalsDiffer DEF CallSound, CallWellFormed
  <2>3. CASE PassedAll(a)
    BY <2>2, <2>3 DEF PassedAll
  <2>4. CASE ~PassedAll(a)
    <3>1. PICK q : a.inForce = {q}
      <4>1. a.inForce \subseteq 0 .. One /\ One \in Nat
        BY <2>1, CallIs, HeadAssumption DEF Calls
      <4>2. IsFiniteSet(a.inForce)
        <5>1. IsFiniteSet(0 .. One)
          <6>1. 0 \in Int /\ One \in Int
            BY <4>1
          <6>2. QED
            BY <6>1, FS_Interval
        <5>2. QED
          BY <4>1, <5>1, FS_Subset
      <4>3. QED
        BY <4>2, FS_Singleton
    <3>2. ~Spoilt(r2) /\ RecordID(r1) = RecordID(r2)
      BY AlikeHaveOneID
    <3>3. r1 \in Sampled(a) /\ r2 \in Sampled(a)
      BY <3>2 DEF Sampled, IsRandom
    <3>4. PICK id : id = RecordID(r1)
      OBVIOUS
    <3>5. IDOf(a.sampler, r1) = id /\ IDOf(a.sampler, r2) = id
      BY <2>1, <2>2, <3>2, <3>4 DEF IDOf
    <3>6. Allowed(id, r1 \in a.chosen, a.inForce) /\ Allowed(id, r2 \in a.chosen, a.inForce)
      BY <2>1, <2>4, <3>3, <3>5 DEF CallSound, Followed
    <3>7. /\ r1 \in a.chosen <=> hash[id] < q
          /\ r2 \in a.chosen <=> hash[id] < q
      BY <3>1, <3>6 DEF Allowed
    <3>8. QED
      BY <2>2, <3>7
  <2>5. QED
    BY <2>3, <2>4
<1>2. QED
  BY <1>1, HeadInvariance, PTL
=============================================================================

------------------------ MODULE AttributeFetch_proofs ------------------------
(***************************************************************************)
(* Proofs about AttributeFetch, for every set of callers and keys and all  *)
(* times: the state is well typed, operations are denied exactly when the  *)
(* results recorded say so, and while a tripped circuit denies only the    *)
(* operations end that it had allowed before.                              *)
(***************************************************************************)
EXTENDS AttributeFetch, FiniteSetTheorems, TLAPS

-----------------------------------------------------------------------------
(* Type correctness *)

LEMMA InitType == Init => TypeOK
<1> SUFFICES ASSUME Init PROVE TypeOK
  OBVIOUS
<1>1. recent \in BOOLEAN \X BOOLEAN \X BOOLEAN
  <2>1. recent = <<FALSE, FALSE, FALSE>>
    BY DEF Init
  <2>2. <<FALSE, FALSE, FALSE>> \in BOOLEAN \X BOOLEAN \X BOOLEAN
    OBVIOUS
  <2> QED BY <2>1, <2>2
<1> QED BY <1>1, FetchAssumption DEF Init, TypeOK, NoEntry

(* One step of a call keeps the types. *)
LEMMA FetchType ==
  ASSUME TypeOK, NEW c \in Callers, Fetch(c)
  PROVE  TypeOK'
<1>1. CASE \E x \in Keys : CheckCache(c, x)
  BY <1>1 DEF CheckCache, Goto, TypeOK, breaker, history
<1>2. CASE Evict(c)
  BY <1>2 DEF Evict, Goto, TypeOK, breaker, history
<1>3. CASE allowOperation(c)
  BY <1>3 DEF allowOperation, Goto, TypeOK, breaker, history
<1>4. CASE Operate(c)
  BY <1>4 DEF Operate, Goto, TypeOK, breaker
<1>5. CASE recordOperationResult(c)
  <2>1. OneMore(slow) \in 0 .. MaxCount
    BY FetchAssumption DEF TypeOK, OneMore
  <2>2. recent' \in BOOLEAN \X BOOLEAN \X BOOLEAN /\ since' \in 0 .. CooldownPeriod
    BY <1>5, FetchAssumption DEF recordOperationResult, Remember, TypeOK
  <2>3. pc' \in [Callers -> {"idle", "evict", "allow", "operate", "record", "store"}]
    BY <1>5 DEF recordOperationResult, Goto, TypeOK
  <2> QED BY <1>5, <2>1, <2>2, <2>3, FetchAssumption
          DEF recordOperationResult, AfterGood, TypeOK
<1>6. CASE StoreResult(c)
  BY <1>6, FetchAssumption DEF StoreResult, Goto, TypeOK, breaker, history
<1> QED BY <1>1, <1>2, <1>3, <1>4, <1>5, <1>6 DEF Fetch

(* Every step keeps the types. *)
LEMMA NextType == TypeOK /\ [Next]_vars => TypeOK'
<1> SUFFICES ASSUME TypeOK, [Next]_vars PROVE TypeOK'
  OBVIOUS
<1>1. CASE \E c \in Callers : Fetch(c)
  BY <1>1, FetchType
<1>2. CASE Tick
  <2>1. \A t \in Nat : Sooner(t) \in Nat /\ Sooner(t) <= t
    BY DEF Sooner
  <2>2. until' \in 0 .. CooldownPeriod
    BY <1>2, <2>1, FetchAssumption DEF Tick, TypeOK
  <2>3. \A x \in Keys : Sooner(cache[x]) \in 0 .. CacheTTL \cup {NoEntry}
    BY FetchAssumption DEF TypeOK, Sooner, NoEntry
  <2>4. cache' \in [Keys -> 0 .. CacheTTL \cup {NoEntry}]
    BY <1>2, <2>3 DEF Tick
  <2>5. since' \in 0 .. CooldownPeriod
    BY <1>2, FetchAssumption DEF Tick, TypeOK
  <2> QED BY <1>2, <2>2, <2>4, <2>5 DEF Tick, TypeOK, call
<1>3. CASE HealthChanges
  BY <1>3 DEF HealthChanges, TypeOK, breaker, call, history
<1>4. CASE UNCHANGED vars
  BY <1>4 DEF TypeOK, vars, breaker, call, history
<1> QED BY <1>1, <1>2, <1>3, <1>4 DEF Next

(* Every reachable state of the fetches, the cache and the breaker is well  *)
(* typed.                                                                   *)
THEOREM TypeCorrect == Spec => []TypeOK
<1>1. Init => TypeOK
  BY InitType
<1>2. TypeOK /\ [Next]_vars => TypeOK'
  BY NextType
<1> QED BY <1>1, <1>2, PTL DEF Spec

-----------------------------------------------------------------------------
(* The circuit and the results *)

(* SlowOperationCount is the length of the run of bad results, as far as    *)
(* three results can tell.                                                  *)
CountsBadRun ==
  /\ slow = 0 <=> ~recent[1]
  /\ slow = 1 <=> recent[1] /\ ~recent[2]
  /\ slow = 2 <=> recent[1] /\ recent[2] /\ ~recent[3]

(* Three bad results are what opens the circuit and keeps it open, and its  *)
(* cooldown runs from the third of them.                                    *)
CircuitTracks ==
  /\ CountsBadRun
  /\ state = "open" <=> slow >= 3
  /\ state = "open" => until + since = CooldownPeriod

(* A count of three or more is a run of three bad results. *)
LEMMA ThreeAreAllBad ==
  ASSUME TypeOK, CountsBadRun
  PROVE  slow >= 3 <=> AllBad(recent)
BY FetchAssumption DEF TypeOK, CountsBadRun, AllBad

(* Recording a result moves the count and the results together. *)
LEMMA RecordCounts ==
  ASSUME TypeOK, CountsBadRun, NEW c \in Callers, recordOperationResult(c)
  PROVE  CountsBadRun'
<1>1. /\ recent'[1] = bad[c] /\ recent'[2] = recent[1] /\ recent'[3] = recent[2]
      /\ slow' = IF bad[c] THEN OneMore(slow) ELSE 0
  BY DEF recordOperationResult, Remember, AfterGood
<1> QED BY <1>1, FetchAssumption DEF CountsBadRun, OneMore, TypeOK

(* Recording a result keeps the circuit in step with the results. *)
LEMMA RecordTracks ==
  ASSUME TypeOK, TypeOK', CircuitTracks, NEW c \in Callers, recordOperationResult(c)
  PROVE  CircuitTracks'
<1>1. CountsBadRun'
  BY RecordCounts DEF CircuitTracks
<1>2. (slow >= 3 <=> AllBad(recent)) /\ (slow' >= 3 <=> AllBad(recent'))
  BY <1>1, ThreeAreAllBad DEF CircuitTracks, TypeOK, CountsBadRun, AllBad
<1>3. since' = IF AllBad(recent) /\ AllBad(recent') THEN since ELSE 0
  BY DEF recordOperationResult, Remember
<1>4. CASE bad[c]
  <2>1. slow' = OneMore(slow) /\ slow' >= slow
    BY <1>4, FetchAssumption DEF recordOperationResult, OneMore, TypeOK
  <2>2. CASE state = "closed" /\ slow' >= 3
    <3>1. state' = "open" /\ until' = CooldownPeriod
      BY <1>4, <2>2 DEF recordOperationResult, Trips
    <3>2. ~(slow >= 3) /\ since' = 0
      BY <1>2, <1>3, <2>2 DEF CircuitTracks
    <3> QED BY <1>1, <2>2, <3>1, <3>2, FetchAssumption DEF CircuitTracks
  <2>3. CASE ~(state = "closed" /\ slow' >= 3)
    <3>1. UNCHANGED <<state, until>>
      BY <1>4, <2>3 DEF recordOperationResult, Trips
    <3> QED BY <1>1, <1>2, <1>3, <2>1, <2>3, <3>1 DEF CircuitTracks, TypeOK
  <2> QED BY <2>2, <2>3
<1>5. CASE ~bad[c]
  BY <1>1, <1>5 DEF recordOperationResult, AfterGood, CircuitTracks
<1> QED BY <1>4, <1>5

LEMMA NextTracks == TypeOK /\ CircuitTracks /\ [Next]_vars => CircuitTracks'
<1> SUFFICES ASSUME TypeOK, CircuitTracks, [Next]_vars PROVE CircuitTracks'
  OBVIOUS
<1>0. TypeOK'
  BY NextType
<1>1. ASSUME NEW c \in Callers, recordOperationResult(c) PROVE CircuitTracks'
  BY <1>0, <1>1, RecordTracks
<1>2. ASSUME UNCHANGED <<state, until, slow, recent, since>> PROVE CircuitTracks'
  BY <1>2 DEF CircuitTracks, CountsBadRun
<1>3. ASSUME NEW c \in Callers, Fetch(c), ~recordOperationResult(c)
      PROVE  UNCHANGED <<state, until, slow, recent, since>>
  BY <1>3 DEF Fetch, CheckCache, Evict, allowOperation, Operate, StoreResult,
              breaker, history
<1>4. CASE Tick
  <2>1. UNCHANGED <<state, slow, recent>>
    BY <1>4 DEF Tick
  <2>2. state = "open" => AllBad(recent) /\ until + since = CooldownPeriod
    BY ThreeAreAllBad DEF CircuitTracks
  <2>3. state = "open" => until' + since' = CooldownPeriod
    BY <1>4, <2>2, FetchAssumption DEF Tick, Sooner, TypeOK
  <2> QED BY <2>1, <2>3 DEF CircuitTracks, CountsBadRun
<1> QED BY <1>1, <1>2, <1>3, <1>4
        DEF Next, HealthChanges, vars, breaker, history

(* Whatever calls overlap and in whatever order they record, operations are *)
(* denied exactly while the last three results were bad and the cooldown    *)
(* since the third of them lasts.                                           *)
THEOREM DenialFollowsResults == Spec => []DenialIsDue
<1>1. Init => CircuitTracks
  BY DEF Init, CircuitTracks, CountsBadRun
<1>2. TypeOK /\ CircuitTracks => DenialIsDue
  BY ThreeAreAllBad, FetchAssumption DEF CircuitTracks, DenialIsDue, Denies, TypeOK
<1> QED BY <1>1, <1>2, NextTracks, TypeCorrect, PTL DEF Spec

-----------------------------------------------------------------------------
(* What ends while the circuit denies *)

Operating == {c \in Callers : pc[c] = "operate"}

(* While the circuit denies, the operations that ended since it tripped and *)
(* those still under way are fewer than the callers: the caller that        *)
(* tripped it is not among them, and none is added.                         *)
LateBound == Denies => late + Cardinality(Operating) < Cardinality(Callers)

LEMMA OperatingFinite ==
  ASSUME TypeOK
  PROVE  /\ IsFiniteSet(Operating) /\ Cardinality(Operating) \in Nat
         /\ Cardinality(Callers) \in Nat
BY FS_Subset, FS_CardinalityType, FetchAssumption DEF Operating

(* A step that starts no operation and ends none keeps the bound. *)
LEMMA SameOperating ==
  ASSUME TypeOK, LateBound, Operating' = Operating, late' = late, Denies' => Denies
  PROVE  LateBound'
BY DEF LateBound

LEMMA NextLate == TypeOK /\ LateBound /\ [Next]_vars => LateBound'
<1> SUFFICES ASSUME TypeOK, LateBound, [Next]_vars PROVE LateBound'
  OBVIOUS
<1>1. ASSUME NEW c \in Callers, NEW x \in Keys, CheckCache(c, x) PROVE LateBound'
  <2>1. Operating' = Operating
    BY <1>1 DEF CheckCache, Goto, Operating, TypeOK
  <2> QED BY <1>1, <2>1, SameOperating DEF CheckCache, breaker, history, Denies
<1>2. ASSUME NEW c \in Callers, Evict(c) PROVE LateBound'
  <2>1. Operating' = Operating
    BY <1>2 DEF Evict, Goto, Operating, TypeOK
  <2> QED BY <1>2, <2>1, SameOperating DEF Evict, breaker, history, Denies
<1>3. ASSUME NEW c \in Callers, allowOperation(c) PROVE LateBound'
  <2>1. CASE Denies
    <3>1. Operating' = Operating
      BY <1>3, <2>1 DEF allowOperation, Goto, Operating, TypeOK
    <3> QED BY <1>3, <3>1, SameOperating DEF allowOperation, breaker, history, Denies
  <2>2. CASE ~Denies
    BY <1>3, <2>2 DEF allowOperation, breaker, Denies, LateBound
  <2> QED BY <2>1, <2>2
<1>4. ASSUME NEW c \in Callers, Operate(c) PROVE LateBound'
  <2>1. Operating' = Operating \ {c} /\ c \in Operating
    BY <1>4 DEF Operate, Goto, Operating, TypeOK
  <2>2. Cardinality(Operating') = Cardinality(Operating) - 1
    BY <2>1, OperatingFinite, FS_RemoveElement
  <2>3. Denies' = Denies /\ late' = IF Denies THEN late + 1 ELSE late
    BY <1>4 DEF Operate, breaker, Denies
  <2> QED BY <2>2, <2>3, OperatingFinite DEF LateBound, TypeOK
<1>5. ASSUME NEW c \in Callers, recordOperationResult(c) PROVE LateBound'
  <2>1. Operating' = Operating /\ c \notin Operating
    BY <1>5 DEF recordOperationResult, Goto, Operating, TypeOK
  <2>2. CASE bad[c] /\ state = "closed" /\ Trips(slow')
    <3>1. Operating \subseteq Callers /\ Operating # Callers
      BY <2>1 DEF Operating
    <3>2. Cardinality(Operating) < Cardinality(Callers)
      BY <3>1, OperatingFinite, FS_Subset, FetchAssumption
    <3>3. late' = 0
      BY <1>5, <2>2 DEF recordOperationResult
    <3> QED BY <2>1, <3>2, <3>3, OperatingFinite DEF LateBound
  <2>3. CASE ~(bad[c] /\ state = "closed" /\ Trips(slow'))
    <3>1. late' = late /\ (Denies' => Denies)
      BY <1>5, <2>3 DEF recordOperationResult, Denies, TypeOK
    <3> QED BY <2>1, <3>1, SameOperating
  <2> QED BY <2>2, <2>3
<1>6. ASSUME NEW c \in Callers, StoreResult(c) PROVE LateBound'
  <2>1. Operating' = Operating
    BY <1>6 DEF StoreResult, Goto, Operating, TypeOK
  <2> QED BY <1>6, <2>1, SameOperating DEF StoreResult, breaker, history, Denies
<1>7. CASE Tick
  <2>1. Operating' = Operating /\ late' = late
    BY <1>7 DEF Tick, call, history, Operating
  <2>2. Denies' => Denies
    BY <1>7 DEF Tick, Denies, Sooner, TypeOK
  <2> QED BY <2>1, <2>2, SameOperating
<1>8. CASE HealthChanges \/ UNCHANGED vars
  BY <1>8 DEF HealthChanges, vars, breaker, call, history, LateBound, Denies, Operating
<1> QED BY <1>1, <1>2, <1>3, <1>4, <1>5, <1>6, <1>7, <1>8 DEF Next, Fetch

(* A tripped circuit sheds load: while it denies, which is from its trip to  *)
(* the end of its cooldown or to the late success that closes it before,    *)
(* fewer operations end than there are callers.                             *)
THEOREM CooldownShedsLoad == Spec => []OnlyLateOperations
<1>1. Init => LateBound
  BY DEF Init, LateBound, Denies
<1>2. TypeOK /\ LateBound => OnlyLateOperations
  BY OperatingFinite DEF LateBound, OnlyLateOperations, TypeOK
<1> QED BY <1>1, <1>2, NextLate, TypeCorrect, PTL DEF Spec
=============================================================================

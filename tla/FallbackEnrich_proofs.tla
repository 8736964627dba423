------------------------ MODULE FallbackEnrich_proofs ------------------------
(***************************************************************************)
(* Proofs about FallbackEnrich, for any number of calls and of processes   *)
(* that use the PID, any resources and any attributes to fetch.  What is   *)
(* said of a call is said of its record by Sound, so that a step has to be *)
(* looked at for the one call it moves.                                    *)
(***************************************************************************)
EXTENDS FallbackEnrich, NaturalsInduction, WellFoundedInduction, TLAPS

FetchedBy(k) == AttributesToFetch[First(k.todo)]

OwnersDuring(k) == {UidOf[i] : i \in k.during}

(* What is fetched did not come with the resource; a call that is inside a   *)
(* fetch has something to fetch, and holds what that fetch reads.            *)
Sound(k) ==
  /\ \A i \in k.todo : AttributesToFetch[i] \notin k.present
  /\ k.at \in {"evict", "allow", "store", "resolve"} => k.todo # {}
  /\ k.at \in {"evict", "allow", "store"} => FetchedBy(k) \in CachedByPid
  /\ k.at = "store" => k.read \in Values
  /\ k.at = "resolve" => FetchedBy(k) = Owner /\ k.read \in OwnersDuring(k)
  /\ k.attrs[Owner] \in {Nil, Given} \cup OwnersDuring(k)
  /\ \A a \in Attributes : a \in k.present <=> k.attrs[a] = Given

CallsSound ==
  \A c \in Callers : call[c] # Nil => Sound(call[c]) /\ latest \in call[c].during

(* A name is cached for the UID it is of, and what is known of the last      *)
(* warning is what there was.                                                *)
CachesSound ==
  /\ \A u \in Uids : usernameCache[u] \in {Nil, u}
  /\ lastLogTime = sinceWarned

IInv == TypeOK /\ CallsSound /\ CachesSound

-----------------------------------------------------------------------------
LEMMA AttributeNames ==
  /\ CommandLine # Owner /\ CommandLine # ExecutablePath /\ CommandLine # ExecutableName
  /\ Owner # ExecutablePath /\ Owner # ExecutableName /\ ExecutablePath # ExecutableName
  /\ Attributes = {CommandLine, Owner, ExecutablePath, ExecutableName}
  /\ CachedByPid = {CommandLine, ExecutablePath}
  BY DEF CommandLine, Owner, ExecutablePath, ExecutableName, Attributes, CachedByPid

LEMMA FetchedAttribute ==
  ASSUME NEW i \in DOMAIN AttributesToFetch
  PROVE  AttributesToFetch[i] \in CachedByPid \cup {Owner}
  BY EnrichAssumption, AttributeNames

(* There is a first of the positions that are left. *)
LEMMA FirstIsLeft ==
  ASSUME NEW todo \in SUBSET DOMAIN AttributesToFetch, todo # {}
  PROVE  First(todo) \in todo
<1>1. todo \subseteq Nat
  BY EnrichAssumption
<1>2. \E i \in todo : \A j \in todo : ~(<<j, i>> \in OpToRel(<, Nat))
  BY <1>1, NatLessThanWellFounded, WFMin
<1>3. \A i, j \in Nat : j < i => <<j, i>> \in OpToRel(<, Nat)
  BY DEF OpToRel
<1>4. \E i \in todo : \A j \in todo : ~(j < i)
  BY <1>1, <1>2, <1>3, Zenon
<1>5. \E i \in todo : \A j \in todo : i <= j
  BY <1>1, <1>4
<1>6. QED
  BY <1>5, Zenon DEF First

LEMMA UidOfProcess ==
  ASSUME NEW during \in SUBSET Processes
  PROVE  {UidOf[i] : i \in during} \subseteq Uids
  BY DEF Uids

(* A fetch that ends.  It puts a value where there was none, and an owner of *)
(* a process that had the PID.                                               *)
After(k, value) ==
  [k EXCEPT !.at = "next", !.todo = @ \ {First(@)}, !.read = Nil,
            !.attrs = IF value = Error THEN @ ELSE Put(@, FetchedBy(k), value)]

LEMMA PutSound ==
  ASSUME NEW k \in Calls, Sound(k), k.todo # {}, NEW value \in Values \cup Uids,
         FetchedBy(k) = Owner => value \in {Error} \cup OwnersDuring(k)
  PROVE  After(k, value) \in Calls /\ Sound(After(k, value)) /\ After(k, value).during = k.during
<1> DEFINE f == FetchedBy(k)
           new == IF value = Error THEN k.attrs ELSE Put(k.attrs, f, value)
           Puttable(a) == a = f \/ (a = ExecutableName /\ k.attrs[a] = Nil)
<1>1. /\ First(k.todo) \in k.todo /\ f \in CachedByPid \cup {Owner} /\ f \notin k.present
      /\ f \in Attributes
  BY FirstIsLeft, FetchedAttribute, AttributeNames DEF Calls, Sound, FetchedBy
<1>2. /\ k.attrs \in [Attributes -> Processes \cup Uids \cup {Given, Nil}]
      /\ k.present \subseteq Attributes /\ k.during \subseteq Processes
      /\ k.todo \subseteq DOMAIN AttributesToFetch
  BY DEF Calls
<1>3. value # Error => value # Given /\ value # Nil
  BY EnrichAssumption DEF Values
<1> HIDE DEF f
<1>4. ASSUME value # Error
      PROVE  /\ Put(k.attrs, f, value) \in [Attributes -> Processes \cup Uids \cup {Given, Nil}]
             /\ \A a \in Attributes :
                  \/ Put(k.attrs, f, value)[a] = k.attrs[a]
                  \/ Put(k.attrs, f, value)[a] = value /\ Puttable(a)
  <2> DEFINE put == [k.attrs EXCEPT ![f] = value]
  <2>1. value \in Processes \cup Uids
    BY <1>4 DEF Values
  <2>2. /\ put \in [Attributes -> Processes \cup Uids \cup {Given, Nil}]
        /\ put[f] = value /\ \A a \in Attributes \ {f} : put[a] = k.attrs[a]
    BY <1>1, <1>2, <2>1
  <2> HIDE DEF put
  <2>3. CASE f # ExecutablePath
    <3>1. Put(k.attrs, f, value) = put
      BY <2>3 DEF Put, put
    <3>2. QED
      BY <2>2, <3>1
  <2>4. CASE f = ExecutablePath
    <3>1. Put(k.attrs, f, value) = IF put[ExecutableName] = Nil THEN [put EXCEPT ![ExecutableName] = value] ELSE put
      BY <2>4 DEF Put, WithName, put
    <3>2. ExecutableName \in Attributes \ {f}
      BY <2>4, AttributeNames
    <3>3. CASE put[ExecutableName] = Nil
      <4>1. Put(k.attrs, f, value) = [put EXCEPT ![ExecutableName] = value]
        BY <3>1, <3>3
      <4>2. QED
        BY <2>1, <2>2, <3>2, <3>3, <4>1
    <3>4. CASE put[ExecutableName] # Nil
      BY <2>2, <3>1, <3>4
    <3>5. QED
      BY <3>3, <3>4
  <2>5. QED
    BY <2>3, <2>4
<1>5. /\ new \in [Attributes -> Processes \cup Uids \cup {Given, Nil}]
      /\ \A a \in Attributes :
           \/ new[a] = k.attrs[a]
           \/ value # Error /\ new[a] = value /\ Puttable(a)
  BY <1>2, <1>4
<1> HIDE DEF new
<1>6. After(k, value) = [k EXCEPT !.at = "next", !.todo = @ \ {First(@)}, !.read = Nil, !.attrs = new]
  BY DEF After, new, f
<1>7. /\ After(k, value).at = "next" /\ After(k, value).todo = k.todo \ {First(k.todo)}
      /\ After(k, value).attrs = new /\ After(k, value).present = k.present
      /\ After(k, value).during = k.during /\ After(k, value) \in Calls
  <2> DEFINE left == k.todo \ {First(k.todo)}
  <2>1. left \in SUBSET DOMAIN AttributesToFetch
    BY <1>2
  <2> HIDE DEF left
  <2>2. After(k, value) = [k EXCEPT !.at = "next", !.todo = left, !.read = Nil, !.attrs = new]
    BY <1>6 DEF left
  <2>3. /\ After(k, value).at = "next" /\ After(k, value).todo = left
        /\ After(k, value).attrs = new /\ After(k, value).present = k.present
        /\ After(k, value).during = k.during /\ After(k, value) \in Calls
    BY <1>5, <2>1, <2>2 DEF Calls
  <2>4. QED
    BY <2>3 DEF left
<1>8. new[Owner] \in {Nil, Given} \cup OwnersDuring(k)
  <2>1. Owner \in Attributes /\ Owner # ExecutableName
    BY AttributeNames
  <2>2. CASE new[Owner] = k.attrs[Owner]
    BY <2>2 DEF Sound
  <2>3. CASE value # Error /\ new[Owner] = value /\ Owner = f
    BY <2>3 DEF f
  <2>4. QED
    BY <1>5, <2>1, <2>2, <2>3
<1>9. ASSUME NEW a \in Attributes PROVE a \in k.present <=> new[a] = Given
  <2>1. a \in k.present <=> k.attrs[a] = Given
    BY DEF Sound
  <2>2. CASE new[a] = k.attrs[a]
    BY <2>1, <2>2
  <2>3. CASE value # Error /\ new[a] = value /\ Puttable(a)
    <3>1. a \notin k.present
      BY <1>1, <2>1, <2>3, EnrichAssumption
    <3>2. new[a] # Given
      BY <1>3, <2>3
    <3>3. QED
      BY <3>1, <3>2
  <2>4. QED
    BY <1>5, <2>2, <2>3
<1>10. OwnersDuring(After(k, value)) = OwnersDuring(k)
  BY <1>7 DEF OwnersDuring
<1>11. Sound(After(k, value))
  BY <1>7, <1>8, <1>9, <1>10 DEF Sound
<1>12. QED
  BY <1>7, <1>11

-----------------------------------------------------------------------------
LEMMA CallIsSound ==
  ASSUME TypeOK, CallsSound, NEW c \in Callers, call[c] # Nil
  PROVE  /\ call[c] \in Calls /\ Sound(call[c]) /\ latest \in call[c].during
         /\ call[c].during \in SUBSET Processes
  BY DEF TypeOK, CallsSound, Calls

(* A step that moves one call to a sound place moves the calls to one. *)
LEMMA CallMoves ==
  ASSUME TypeOK, CallsSound, NEW c \in Callers, NEW k \in Calls, Sound(k),
         latest \in k.during, latest' = latest, call' = [call EXCEPT ![c] = k]
  PROVE  call' \in [Callers -> Calls \cup {Nil}] /\ CallsSound'
<1>1. call' \in [Callers -> Calls \cup {Nil}]
  BY DEF TypeOK
<1>2. ASSUME NEW d \in Callers, call'[d] # Nil
      PROVE  Sound(call'[d]) /\ latest' \in call'[d].during
  <2>1. CASE d = c
    <3>1. call'[d] = k
      BY <2>1 DEF TypeOK
    <3>2. QED
      BY <3>1
  <2>2. CASE d # c
    <3>1. call'[d] = call[d]
      BY <2>2 DEF TypeOK
    <3>2. QED
      BY <1>2, <3>1, CallIsSound
  <2>3. QED
    BY <2>1, <2>2
<1>3. QED
  BY <1>1, <1>2 DEF CallsSound

(* The fetch of a call ends. *)
LEMMA PutMoves ==
  ASSUME TypeOK, CallsSound, NEW c \in Callers, call[c] # Nil, call[c].todo # {},
         NEW value \in Values \cup Uids,
         Fetched(c) = Owner => value \in {Error} \cup OwnersDuring(call[c]),
         latest' = latest, Puts(c, value)
  PROVE  call' \in [Callers -> Calls \cup {Nil}] /\ CallsSound'
<1>1. PICK k : k = call[c]
  OBVIOUS
<1>2. k \in Calls /\ Sound(k) /\ latest \in k.during /\ k.todo # {}
  BY <1>1, CallIsSound
<1>3. FetchedBy(k) = Owner => value \in {Error} \cup OwnersDuring(k)
  BY <1>1 DEF Fetched, FetchedBy
<1>4. /\ After(k, value) \in Calls /\ Sound(After(k, value))
      /\ latest \in After(k, value).during
  BY <1>2, <1>3, PutSound
<1>5. call' = [call EXCEPT ![c] = After(k, value)]
  BY <1>1 DEF Puts, After, Fetched, FetchedBy
<1>6. QED
  BY <1>4, <1>5, CallMoves

(* A call goes on without a value: what its new step asks of it must hold. *)
LEMMA StepMoves ==
  ASSUME TypeOK, CallsSound, NEW c \in Callers, call[c] # Nil, latest' = latest,
         NEW step \in {"next", "evict", "allow", "store", "resolve", "warn", "warned", "done"},
         NEW read \in Values \cup Uids \cup {Nil},
         call' = [call EXCEPT ![c].at = step, ![c].read = read],
         step \in {"evict", "allow", "store", "resolve"} => call[c].todo # {},
         step \in {"evict", "allow", "store"} => Fetched(c) \in CachedByPid,
         step = "store" => read \in Values,
         step = "resolve" => Fetched(c) = Owner /\ read \in OwnersDuring(call[c])
  PROVE  call' \in [Callers -> Calls \cup {Nil}] /\ CallsSound'
<1>1. PICK k : k = call[c]
  OBVIOUS
<1>2. k \in Calls /\ Sound(k) /\ latest \in k.during
  BY <1>1, CallIsSound
<1> DEFINE new == [k EXCEPT !.at = step, !.read = read]
<1>3. /\ new \in Calls /\ new.at = step /\ new.read = read /\ new.todo = k.todo
      /\ new.during = k.during /\ new.attrs = k.attrs /\ new.present = k.present
  BY <1>2 DEF Calls
<1>4. call' = [call EXCEPT ![c] = new]
  BY <1>1
<1> HIDE DEF new
<1>5. FetchedBy(new) = Fetched(c) /\ OwnersDuring(new) = OwnersDuring(k)
  BY <1>1, <1>3 DEF FetchedBy, Fetched, OwnersDuring
<1>6. Sound(new)
  BY <1>1, <1>2, <1>3, <1>5 DEF Sound
<1>7. QED
  BY <1>2, <1>3, <1>4, <1>6, CallMoves

-----------------------------------------------------------------------------
(* The steps of a call. *)
LEMMA ReceiveMoves ==
  ASSUME TypeOK, CallsSound, NEW c \in Callers, NEW present \in Resources, Receive(c, present)
  PROVE  call' \in [Callers -> Calls \cup {Nil}] /\ CallsSound'
<1> DEFINE attrs == [a \in Attributes |-> IF a \in present THEN Given ELSE Nil]
           at == IF GivesUp(attrs) \/ Missing(attrs) = {} THEN "done" ELSE "next"
<1>1. PICK last : last = latest
  OBVIOUS
<1> DEFINE k == [at |-> at, present |-> present, attrs |-> attrs, todo |-> ToFetch(attrs),
                 read |-> Nil, during |-> {last}]
<1>2. /\ call' = [call EXCEPT ![c] = k] /\ latest' = latest
  BY <1>1 DEF Receive
<1>3. present \subseteq Attributes /\ Given # Nil /\ last \in Processes
  BY <1>1, EnrichAssumption DEF TypeOK
<1>4. /\ attrs \in [Attributes -> Processes \cup Uids \cup {Given, Nil}]
      /\ \A a \in Attributes : attrs[a] = IF a \in present THEN Given ELSE Nil
  OBVIOUS
<1>5. at \in {"done", "next"}
  OBVIOUS
<1>6. ToFetch(attrs) \subseteq DOMAIN AttributesToFetch
  BY DEF ToFetch
<1>7. \A i \in ToFetch(attrs) : AttributesToFetch[i] \notin present
  BY <1>3, <1>4, EnrichAssumption DEF ToFetch, Missing
<1>8. \A a \in Attributes : a \in present <=> attrs[a] = Given
  BY <1>3, <1>4
<1>9. attrs[Owner] \in {Nil, Given}
  BY <1>4, AttributeNames
<1> HIDE DEF attrs, at
<1>10. k \in Calls
  BY <1>3, <1>4, <1>5, <1>6 DEF Calls
<1>11. Sound(k)
  BY <1>5, <1>7, <1>8, <1>9 DEF Sound
<1>12. QED
  BY <1>1, <1>2, <1>10, <1>11, CallMoves

LEMMA CheckCacheMoves ==
  ASSUME TypeOK, CallsSound, NEW c \in Callers, CheckCache(c)
  PROVE  call' \in [Callers -> Calls \cup {Nil}] /\ CallsSound'
<1>1. /\ call[c] # Nil /\ call[c].todo # {} /\ latest' = latest /\ Fetched(c) \in CachedByPid
      /\ Fetched(c) # Owner
  BY AttributeNames DEF CheckCache, At
<1>2. CASE Valid(cache[Fetched(c)]) /\ Puts(c, cache[Fetched(c)].value)
  <2>1. PICK value : value = cache[Fetched(c)].value
    OBVIOUS
  <2>2. value \in Values
    BY <1>1, <1>2, <2>1 DEF TypeOK, Entries, Valid
  <2>3. QED
    BY <1>1, <1>2, <2>1, <2>2, PutMoves
<1>3. CASE Goes(c, IF cache[Fetched(c)] = Nil THEN "allow" ELSE "evict")
  <2>1. PICK step \in {"allow", "evict"} : Goes(c, step)
    BY <1>3
  <2>2. PICK read : read = call[c].read
    OBVIOUS
  <2>3. call[c] \in Calls /\ read \in Values \cup Uids \cup {Nil}
    BY <1>1, <2>2, CallIsSound DEF Calls
  <2>4. call' = [call EXCEPT ![c].at = step, ![c].read = read]
    BY <2>1, <2>2, <2>3 DEF Goes, Calls, TypeOK
  <2>5. QED
    BY <1>1, <2>3, <2>4, StepMoves
<1>4. QED
  BY <1>2, <1>3 DEF CheckCache

(* A step of a call that leaves what it has read. *)
LEMMA GoesMoves ==
  ASSUME TypeOK, CallsSound, NEW c \in Callers, call[c] # Nil, latest' = latest,
         NEW step \in {"next", "allow", "warn", "warned", "done"}, Goes(c, step),
         step = "allow" => call[c].todo # {} /\ Fetched(c) \in CachedByPid
  PROVE  call' \in [Callers -> Calls \cup {Nil}] /\ CallsSound'
<1>1. PICK read : read = call[c].read
  OBVIOUS
<1>2. call[c] \in Calls /\ read \in Values \cup Uids \cup {Nil}
  BY <1>1, CallIsSound DEF Calls
<1>3. call' = [call EXCEPT ![c].at = step, ![c].read = read]
  BY <1>1, <1>2 DEF Goes, Calls, TypeOK
<1>4. QED
  BY <1>2, <1>3, StepMoves

LEMMA CallStepMoves ==
  ASSUME TypeOK, CallsSound, CachesSound, NEW c \in Callers,
         \/ Evict(c) \/ Denied(c) \/ ReadProc(c) \/ StoreResult(c)
         \/ ReadStatus(c) \/ Resolve(c) \/ CheckAgain(c) \/ Warn(c)
  PROVE  call' \in [Callers -> Calls \cup {Nil}] /\ CallsSound'
<1>1. /\ call[c] # Nil /\ latest' = latest
  BY DEF At, Evict, Denied, ReadProc, StoreResult, ReadStatus, Resolve, CheckAgain, Warn
<1>2. /\ call[c] \in Calls /\ Sound(call[c]) /\ latest \in call[c].during
      /\ OwnersDuring(call[c]) \subseteq Uids
  BY <1>1, CallIsSound, UidOfProcess DEF OwnersDuring
<1>3. /\ call[c].at \in {"evict", "allow", "store"} => Fetched(c) \in CachedByPid
      /\ call[c].at \in {"evict", "allow", "store", "resolve"} => call[c].todo # {}
      /\ call[c].at = "store" => call[c].read \in Values
      /\ call[c].at = "resolve" => Fetched(c) = Owner /\ call[c].read \in OwnersDuring(call[c])
  BY <1>2 DEF Sound, FetchedBy, Fetched
<1>4. CASE Evict(c)
  <2>1. Goes(c, "allow") /\ call[c].todo # {} /\ Fetched(c) \in CachedByPid
    BY <1>3, <1>4 DEF Evict, At
  <2>2. QED
    BY <1>1, <2>1, GoesMoves
<1>5. CASE Denied(c)
  <2>1. Puts(c, Error) /\ call[c].todo # {} /\ Error \in Values
    BY <1>3, <1>5 DEF Denied, At, Values
  <2>2. QED
    BY <1>1, <2>1, PutMoves
<1>6. CASE ReadProc(c)
  <2>1. PICK value \in {Error} \cup ({process} \ {Nil}) :
          call' = [call EXCEPT ![c].at = "store", ![c].read = value]
    BY <1>6 DEF ReadProc
  <2>2. value \in Values
    BY <2>1 DEF TypeOK, Values
  <2>3. call[c].todo # {} /\ Fetched(c) \in CachedByPid
    BY <1>3, <1>6 DEF ReadProc, At
  <2>4. QED
    BY <1>1, <2>1, <2>2, <2>3, StepMoves
<1>7. CASE StoreResult(c)
  <2>1. PICK value : value = call[c].read
    OBVIOUS
  <2>2. /\ call[c].todo # {} /\ Fetched(c) # Owner /\ value \in Values /\ Puts(c, value)
    BY <1>3, <1>7, <2>1, AttributeNames DEF StoreResult, At
  <2>3. QED
    BY <1>1, <2>2, PutMoves
<1>8. CASE ReadStatus(c)
  <2>1. Fetched(c) = Owner /\ call[c].todo # {}
    BY <1>8 DEF ReadStatus
  <2>2. CASE process # Nil /\ call' = [call EXCEPT ![c].at = "resolve", ![c].read = UidOf[process]]
    <3>1. PICK read : read = UidOf[process]
      OBVIOUS
    <3>2. read \in OwnersDuring(call[c]) /\ read \in Uids
      BY <1>2, <2>2, <3>1 DEF OwnersDuring, TypeOK
    <3>3. QED
      BY <1>1, <2>1, <2>2, <3>1, <3>2, StepMoves
  <2>3. CASE Puts(c, Error)
    BY <1>1, <2>1, <2>3, PutMoves DEF Values
  <2>4. QED
    BY <1>8, <2>2, <2>3 DEF ReadStatus
<1>9. CASE Resolve(c)
  <2>1. PICK uid : uid = call[c].read
    OBVIOUS
  <2>2. /\ Fetched(c) = Owner /\ call[c].todo # {} /\ uid \in OwnersDuring(call[c]) /\ uid \in Uids
    BY <1>2, <1>3, <1>9, <2>1 DEF Resolve, At
  <2>3. Puts(c, uid)
    <3>1. usernameCache[uid] \in {Nil, uid}
      BY <2>2 DEF CachesSound
    <3>2. QED
      BY <1>9, <2>1, <3>1 DEF Resolve, KeyOf
  <2>4. QED
    BY <1>1, <2>2, <2>3, PutMoves
<1>10. CASE CheckAgain(c)
  <2>1. Goes(c, "done") \/ Goes(c, "warned") \/ Goes(c, "warn")
    BY <1>10 DEF CheckAgain
  <2>2. QED
    BY <1>1, <2>1, GoesMoves
<1>11. CASE Warn(c)
  BY <1>1, <1>11, GoesMoves DEF Warn
<1>12. QED
  BY <1>4, <1>5, <1>6, <1>7, <1>8, <1>9, <1>10, <1>11

LEMMA ReturnMoves ==
  ASSUME TypeOK, CallsSound, NEW c \in Callers, Return(c)
  PROVE  call' \in [Callers -> Calls \cup {Nil}] /\ CallsSound'
<1>1. /\ call' = [call EXCEPT ![c] = Nil] /\ latest' = latest
  BY DEF Return
<1>2. call' \in [Callers -> Calls \cup {Nil}]
  BY <1>1 DEF TypeOK
<1>3. ASSUME NEW d \in Callers, call'[d] # Nil
      PROVE  Sound(call'[d]) /\ latest' \in call'[d].during
  <2>1. call'[d] = call[d]
    BY <1>1, <1>3 DEF TypeOK
  <2>2. QED
    BY <1>1, <1>3, <2>1, CallIsSound
<1>4. QED
  BY <1>2, <1>3 DEF CallsSound

(* The calls under way know the process that has the PID from now on. *)
LEMMA PidReusedMoves ==
  ASSUME TypeOK, CallsSound, PidReused
  PROVE  /\ process' = latest' /\ latest' \in Processes
         /\ call' \in [Callers -> Calls \cup {Nil}] /\ CallsSound'
<1>1. process' = latest' /\ latest' = latest + 1 /\ latest' \in Processes
  BY EnrichAssumption DEF PidReused, TypeOK, Processes
<1>2. ASSUME NEW c \in Callers, call[c] # Nil
      PROVE  call'[c] \in Calls /\ Sound(call'[c]) /\ latest' \in call'[c].during
  <2>1. PICK k, last : k = call[c] /\ last = latest'
    OBVIOUS
  <2>2. k \in Calls /\ Sound(k) /\ last \in Processes
    BY <1>1, <1>2, <2>1, CallIsSound
  <2> DEFINE new == [k EXCEPT !.during = @ \cup {last}]
  <2>3. /\ new \in Calls /\ new.at = k.at /\ new.read = k.read /\ new.todo = k.todo
        /\ new.during = k.during \cup {last} /\ new.attrs = k.attrs /\ new.present = k.present
    BY <2>2 DEF Calls
  <2>4. call'[c] = new
    BY <1>2, <2>1 DEF PidReused
  <2> HIDE DEF new
  <2>5. FetchedBy(new) = FetchedBy(k) /\ OwnersDuring(k) \subseteq OwnersDuring(new)
    BY <2>3 DEF FetchedBy, OwnersDuring
  <2>6. Sound(new)
    BY <2>2, <2>3, <2>5 DEF Sound
  <2>7. QED
    BY <2>1, <2>3, <2>4, <2>6
<1>3. \A c \in Callers : call[c] = Nil => call'[c] = Nil
  BY DEF PidReused
<1>4. call' \in [Callers -> Calls \cup {Nil}]
  <2>1. \A c \in Callers : call'[c] \in Calls \cup {Nil}
    BY <1>2, <1>3
  <2>2. call' = [c \in Callers |-> call'[c]]
    BY DEF PidReused
  <2>3. QED
    BY <2>1, <2>2
<1>5. CallsSound'
  BY <1>2, <1>3 DEF CallsSound
<1>6. QED
  BY <1>1, <1>4, <1>5

-----------------------------------------------------------------------------
(* What the caches hold. *)
CachesTyped ==
  /\ cache \in [CachedByPid -> Entries]
  /\ usernameCache \in [Uids -> Uids \cup {Nil}]
  /\ lastLogTime \in Times /\ sinceWarned \in Times

LEMMA ZeroIsATime == 0 \in Times
  BY EnrichAssumption DEF Times

LEMMA TickKeeps ==
  ASSUME TypeOK, CachesSound, Tick
  PROVE  CachesTyped' /\ CachesSound'
<1>1. ASSUME NEW entry \in Entries PROVE Older(entry) \in Entries
  BY <1>1, EnrichAssumption DEF Older, Valid, Entries
<1>2. ASSUME NEW t \in Times PROVE LaterBy(t) \in Times
  BY <1>2, EnrichAssumption DEF LaterBy, Times
<1>3. cache' \in [CachedByPid -> Entries]
  BY <1>1 DEF Tick, TypeOK
<1>4. lastLogTime' \in Times /\ sinceWarned' \in Times
  BY <1>2 DEF Tick, TypeOK
<1>5. lastLogTime' = sinceWarned' /\ usernameCache' = usernameCache
  BY DEF Tick, CachesSound
<1>6. QED
  BY <1>3, <1>4, <1>5 DEF CachesTyped, CachesSound, TypeOK

LEMMA CallStepKeeps ==
  ASSUME TypeOK, CallsSound, CachesSound, NEW c \in Callers, CallStep(c)
  PROVE  CachesTyped' /\ CachesSound'
<1>1. CASE UNCHANGED <<caches, lastLogTime, sinceWarned>>
  BY <1>1 DEF TypeOK, CachesTyped, CachesSound, caches
<1>2. CASE CheckCache(c)
  <2>1. cache' = cache
    BY <1>2 DEF CheckCache, EntryAfterHit, TypeOK
  <2>2. QED
    BY <1>2, <2>1 DEF CheckCache, TypeOK, CachesTyped, CachesSound
<1>3. CASE Evict(c)
  <2>1. cache' \in [CachedByPid -> Entries]
    BY <1>3 DEF Evict, TypeOK, Entries
  <2>2. QED
    BY <1>3, <2>1 DEF Evict, TypeOK, CachesTyped, CachesSound
<1>4. CASE StoreResult(c)
  <2>1. call[c].read \in Values
    BY <1>4, CallIsSound DEF StoreResult, At, Sound
  <2>2. [left |-> CacheTTL, value |-> call[c].read] \in Entries
    BY <2>1, EnrichAssumption DEF Entries
  <2>3. cache' \in [CachedByPid -> Entries]
    BY <1>4, <2>2 DEF StoreResult, TypeOK
  <2>4. QED
    BY <1>4, <2>3 DEF StoreResult, TypeOK, CachesTyped, CachesSound
<1>5. CASE Resolve(c)
  <2>1. call[c].read \in Uids
    <3>1. call[c].read \in OwnersDuring(call[c]) /\ OwnersDuring(call[c]) \subseteq Uids
      BY <1>5, CallIsSound, UidOfProcess DEF Resolve, At, Sound, OwnersDuring
    <3>2. QED
      BY <3>1
  <2>2. /\ usernameCache' \in [Uids -> Uids \cup {Nil}]
        /\ \A u \in Uids : usernameCache'[u] \in {Nil, u}
    BY <1>5, <2>1 DEF Resolve, KeyOf, TypeOK, CachesSound
  <2>3. QED
    BY <1>5, <2>2 DEF Resolve, TypeOK, CachesTyped, CachesSound
<1>6. CASE CheckAgain(c)
  <2>1. /\ UNCHANGED caches
        /\ \/ UNCHANGED <<lastLogTime, sinceWarned>>
           \/ lastLogTime' = 0 /\ sinceWarned' = 0
    BY <1>6 DEF CheckAgain, LastAfterSuppressed
  <2>2. QED
    BY <2>1, ZeroIsATime DEF caches, TypeOK, CachesTyped, CachesSound
<1>7. CASE Warn(c)
  BY <1>7, ZeroIsATime DEF Warn, caches, TypeOK, CachesTyped, CachesSound
<1>8. QED
  BY <1>1, <1>2, <1>3, <1>4, <1>5, <1>6, <1>7
     DEF CallStep, Denied, ReadProc, ReadStatus, Return, caches

-----------------------------------------------------------------------------
LEMMA InitInv == Init => IInv
<1> SUFFICES ASSUME Init PROVE IInv
  OBVIOUS
<1>1. TypeOK
  BY EnrichAssumption DEF Init, TypeOK, Processes, Entries, Times
<1>2. QED
  BY <1>1 DEF Init, IInv, CallsSound, CachesSound

LEMMA NextInv == IInv /\ [Next]_vars => IInv'
<1> SUFFICES ASSUME IInv, [Next]_vars PROVE IInv'
  OBVIOUS
<1>1. TypeOK /\ CallsSound /\ CachesSound
  BY DEF IInv
<1> DEFINE ProcessTyped == process \in {latest, Nil} /\ latest \in Processes
           CallsTyped == call \in [Callers -> Calls \cup {Nil}]
<1>2. ASSUME NEW c \in Callers, NEW present \in Resources, Receive(c, present) PROVE IInv'
  <2>1. CallsTyped' /\ CallsSound'
    BY <1>1, <1>2, ReceiveMoves
  <2>2. QED
    BY <1>1, <1>2, <2>1 DEF Receive, caches, IInv, TypeOK, CachesSound
<1>3. ASSUME NEW c \in Callers, CallStep(c) PROVE IInv'
  <2>1. CallsTyped' /\ CallsSound'
    BY <1>1, <1>3, CheckCacheMoves, CallStepMoves, ReturnMoves DEF CallStep
  <2>2. UNCHANGED <<process, latest>>
    BY <1>3 DEF CallStep, CheckCache, Evict, Denied, ReadProc, StoreResult, ReadStatus,
                Resolve, CheckAgain, Warn, Return
  <2>3. CachesTyped' /\ CachesSound'
    BY <1>1, <1>3, CallStepKeeps
  <2>4. QED
    BY <1>1, <2>1, <2>2, <2>3 DEF IInv, TypeOK, CachesTyped
<1>4. CASE Ends
  BY <1>1, <1>4 DEF Ends, caches, IInv, TypeOK, CallsSound, CachesSound
<1>5. CASE PidReused
  <2>1. ProcessTyped' /\ CallsTyped' /\ CallsSound'
    BY <1>1, <1>5, PidReusedMoves
  <2>2. QED
    BY <1>1, <1>5, <2>1 DEF PidReused, caches, IInv, TypeOK, CachesSound
<1>6. CASE Tick
  <2>1. CachesTyped' /\ CachesSound'
    BY <1>1, <1>6, TickKeeps
  <2>2. QED
    BY <1>1, <1>6, <2>1 DEF Tick, CachesTyped, IInv, TypeOK, CallsSound
<1>7. CASE UNCHANGED vars
  BY <1>1, <1>7 DEF vars, caches, IInv, TypeOK, CallsSound, CachesSound
<1>8. QED
  BY <1>2, <1>3, <1>4, <1>5, <1>6, <1>7 DEF Next

(* The invariant that the theorems below rest on. *)
THEOREM Invariance == Spec => []IInv
<1>1. QED
  BY InitInv, NextInv, PTL DEF Spec

(* The variables have their types, whatever the instance. *)
THEOREM TypeCorrect == Spec => []TypeOK
<1>1. IInv => TypeOK
  BY DEF IInv
<1>2. QED
  BY <1>1, Invariance, PTL

(* fetchOwner, usernameCache: the owner that is put is that of a process that *)
(* had the PID during the call.                                              *)
THEOREM OwnersAreNotMixed == Spec => []OwnerIsCurrent
<1>1. IInv => OwnerIsCurrent
  BY DEF IInv, CallsSound, Sound, OwnersDuring, OwnerIsCurrent
<1>2. QED
  BY <1>1, Invariance, PTL

(* enrichProcessAttributes: what came with a resource is left. *)
THEOREM GivenStays == Spec => []GivenIsKept
<1>1. IInv => GivenIsKept
  BY DEF IInv, CallsSound, Sound, GivenIsKept
<1>2. QED
  BY <1>1, Invariance, PTL

(* shouldLogWarning: what is missing is logged, or was less than a minute ago. *)
THEOREM IncompleteIsLogged == Spec => MissingIsLogged
<1> DEFINE Logged ==
      \A c \in Callers : At(c, "next") /\ call'[c] # Nil /\ call'[c].at = "warned"
        => sinceWarned' # Nil /\ sinceWarned' < Minute
<1>1. IInv /\ [Next]_vars => [Logged]_vars
  <2> SUFFICES ASSUME IInv, Next, NEW c \in Callers,
                      At(c, "next"), call'[c] # Nil, call'[c].at = "warned"
               PROVE  sinceWarned' # Nil /\ sinceWarned' < Minute
    BY DEF Logged
  <2>1. TypeOK /\ lastLogTime = sinceWarned /\ call[c] # Nil /\ call[c].at = "next"
    BY DEF IInv, CachesSound, At
  <2>2. CheckAgain(c)
    <3>1. call[c] \in Calls /\ call'[c] # call[c]
      BY <2>1 DEF TypeOK
    <3>2. ASSUME NEW d \in Callers, NEW present \in Resources PROVE ~Receive(d, present)
      BY <2>1 DEF Receive, TypeOK
    <3>3. ASSUME NEW d \in Callers, CallStep(d) PROVE d = c
      BY <2>1, <3>1, <3>3
         DEF TypeOK, CallStep, CheckCache, Evict, Denied, ReadProc, StoreResult, ReadStatus,
             Resolve, CheckAgain, Warn, Return, Puts, Goes
    <3>4. ~Ends /\ ~Tick
      BY <3>1 DEF Ends, Tick
    <3>5. ~PidReused
      BY <2>1, <3>1 DEF PidReused, Calls
    <3>6. CallStep(c)
      BY <3>2, <3>3, <3>4, <3>5 DEF Next
    <3>7. ~CheckCache(c) /\ ~ReadStatus(c)
      BY <2>1, <3>1 DEF TypeOK, Calls, CheckCache, ReadStatus, Puts, Goes
    <3>8. ~Evict(c) /\ ~Denied(c) /\ ~ReadProc(c) /\ ~StoreResult(c) /\ ~Resolve(c) /\ ~Warn(c) /\ ~Return(c)
      BY <2>1 DEF At, Evict, Denied, ReadProc, StoreResult, Resolve, Warn, Return
    <3>9. QED
      BY <3>6, <3>7, <3>8 DEF CallStep
  <2>3. CASE lastLogTime' = 0 /\ sinceWarned' = 0
    BY <2>3, EnrichAssumption
  <2>4. CASE Recent /\ UNCHANGED sinceWarned
    BY <2>1, <2>4 DEF Recent
  <2>5. call'[c].at \notin {"done", "warn"}
    OBVIOUS
  <2>6. ~Goes(c, "done") /\ ~Goes(c, "warn")
    BY <2>1, <2>5 DEF Goes, TypeOK, Calls
  <2>7. QED
    BY <2>2, <2>3, <2>4, <2>6 DEF CheckAgain
<1>2. QED
  BY <1>1, Invariance, PTL DEF Spec, MissingIsLogged
=============================================================================

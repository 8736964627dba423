---------------------------- MODULE AttributeFetch ----------------------------
(***************************************************************************)
(* Fetching one kind of process attribute from /proc with a cache and a    *)
(* circuit breaker (internal/processor/fallbackprocparser/processor.go:    *)
(* fetchCommandLine, resolveUIDToUsername, fetchExecutablePath, fetchIO,   *)
(* allowOperation, recordOperationResult).                                 *)
(*                                                                         *)
(* The callers are the goroutines inside processMetrics.  A call loads the *)
(* cache entry of its key, asks the breaker, performs the operation,       *)
(* records how it went and stores the result, and the calls interleave     *)
(* between these steps: the cache is a sync.Map and the breaker holds its  *)
(* lock inside allowOperation and recordOperationResult only.  There is    *)
(* one breaker for each kind of attribute, so one is modelled; fetchIO has *)
(* no cache, which is CacheTTL = 0.                                        *)
(*                                                                         *)
(* Times are kept as what is left until they come, in ticks.  An operation *)
(* goes well or badly (it fails, or takes longer than the threshold) as    *)
(* the machine is healthy or not.                                          *)
(***************************************************************************)
EXTENDS Integers, FiniteSets

CONSTANTS
  Callers,         \* the goroutines that fetch attributes
  Keys,            \* the PIDs or UIDs they ask for
  CacheTTL,        \* the time to live of a cache entry
  CooldownPeriod,  \* circuitBreaker.CooldownPeriod
  MaxCount         \* bound: SlowOperationCount is not followed beyond it

ASSUME FetchAssumption ==
  /\ CacheTTL \in Nat
  /\ CooldownPeriod \in Nat
  /\ MaxCount \in Nat /\ MaxCount >= 3
  /\ IsFiniteSet(Callers)

NoEntry == -1

VARIABLES
  healthy,  \* whether operations are fast and successful at the moment
  cache,    \* per key: what is left of the entry's time to live, or NoEntry
  state,    \* State.State: "closed" or "open"
  until,    \* State.UntilTime: what is left of the cooldown
  slow,     \* State.SlowOperationCount
  pc,       \* per caller: the step of its call
  key,      \* per caller: the key it asks for
  bad,      \* per caller: how its operation went
  recent,   \* history: whether the last three results recorded were bad, latest first
  since,    \* history: the time since three in a row were bad, up to CooldownPeriod
  late      \* history: how many operations ended since the trip, while it denied

breaker == <<state, until, slow>>
call == <<pc, key, bad>>
history == <<recent, since, late>>
vars == <<healthy, cache, breaker, call, history>>

Init ==
  /\ healthy = TRUE
  /\ cache = [x \in Keys |-> NoEntry]
  /\ state = "closed" /\ until = 0 /\ slow = 0
  /\ pc = [c \in Callers |-> "idle"]
  /\ key \in [Callers -> Keys]
  /\ bad = [c \in Callers |-> FALSE]
  /\ recent = <<FALSE, FALSE, FALSE>> /\ since = 0 /\ late = 0

Goto(c, from, to) == pc[c] = from /\ pc' = [pc EXCEPT ![c] = to]

-----------------------------------------------------------------------------
(* The cache is loaded first: a valid entry answers the call, an expired    *)
(* one is about to be deleted.                                              *)
Valid(x) == cache[x] > 0

CheckCache(c, x) ==
  /\ \/ Valid(x) /\ Goto(c, "idle", "idle")
     \/ cache[x] = NoEntry /\ Goto(c, "idle", "allow")
     \/ cache[x] = 0 /\ Goto(c, "idle", "evict")
  /\ key' = [key EXCEPT ![c] = x]
  /\ UNCHANGED <<healthy, cache, breaker, bad, history>>

(* Delete the entry of the key, whatever it is by now. *)
Evict(c) ==
  /\ Goto(c, "evict", "allow")
  /\ cache' = [cache EXCEPT ![key[c]] = NoEntry]
  /\ UNCHANGED <<healthy, breaker, key, bad, history>>

(* allowOperation: an open circuit denies until its cooldown is over. *)
DeniesForGood == state = "open"

Denies == state = "open" /\ until > 0

(* A faulty variant of the next action: the cooldown is not looked at.      *)
allowOperationAlways(c) ==
  /\ Goto(c, "allow", "operate")
  /\ UNCHANGED <<healthy, cache, breaker, key, bad, history>>

allowOperation(c) ==
  /\ \/ Denies /\ Goto(c, "allow", "idle")
     \/ ~Denies /\ Goto(c, "allow", "operate")
  /\ UNCHANGED <<healthy, cache, breaker, key, bad, history>>

(* The operation on /proc ends. *)
Operate(c) ==
  /\ Goto(c, "operate", "record")
  /\ bad' = [bad EXCEPT ![c] = ~healthy]
  /\ late' = IF state = "open" /\ until > 0 THEN late + 1 ELSE late
  /\ UNCHANGED <<healthy, cache, breaker, key, recent, since>>

(* Three slow or failed operations in a row trip a closed circuit.          *)
TripsLate(n) == n > 3

Trips(n) == n >= 3

OneMore(n) == IF n < MaxCount THEN n + 1 ELSE n

AfterGood == 0

(* The history of results: the latest one pushes the third out; the time is  *)
(* that since the result that made three in a row bad.                       *)
AllBad(results) == \A i \in 1 .. 3 : results[i]

Remember(result) ==
  /\ recent' = <<result, recent[1], recent[2]>>
  /\ since' = IF AllBad(recent) /\ AllBad(recent') THEN since ELSE 0

(* recordOperationResult.  A bad result counts and may trip the circuit; it *)
(* does not start the cooldown of an open circuit again.  A good one closes *)
(* an open circuit, during its cooldown too, and resets the count.          *)
recordOperationResult(c) ==
  /\ Goto(c, "record", "store")
  /\ Remember(bad[c])
  /\ \/ /\ bad[c]
        /\ slow' = OneMore(slow)
        /\ \/ /\ state = "closed" /\ Trips(slow')
              /\ state' = "open" /\ until' = CooldownPeriod /\ late' = 0
           \/ /\ ~(state = "closed" /\ Trips(slow'))
              /\ UNCHANGED <<state, until, late>>
     \/ /\ ~bad[c]
        /\ state' = "closed"
        /\ slow' = AfterGood
        /\ UNCHANGED <<until, late>>
  /\ UNCHANGED <<healthy, cache, key, bad>>

(* The result is cached, an error too. *)
StoreResult(c) ==
  /\ Goto(c, "store", "idle")
  /\ cache' = [cache EXCEPT ![key[c]] = CacheTTL]
  /\ UNCHANGED <<healthy, breaker, key, bad, history>>

-----------------------------------------------------------------------------
Sooner(t) == IF t > 0 THEN t - 1 ELSE t

Tick ==
  /\ until > 0 \/ \E x \in Keys : cache[x] > 0
  /\ until' = Sooner(until)
  /\ cache' = [x \in Keys |-> Sooner(cache[x])]
  /\ since' = IF AllBad(recent) /\ since < CooldownPeriod THEN since + 1 ELSE since
  /\ UNCHANGED <<healthy, state, slow, call, recent, late>>

(* The machine becomes slow, or recovers. *)
HealthChanges ==
  /\ healthy' = ~healthy
  /\ UNCHANGED <<cache, breaker, call, history>>

Fetch(c) ==
  \/ \E x \in Keys : CheckCache(c, x)
  \/ Evict(c) \/ allowOperation(c) \/ Operate(c)
  \/ recordOperationResult(c) \/ StoreResult(c)

Next ==
  \/ \E c \in Callers : Fetch(c)
  \/ Tick
  \/ HealthChanges

Spec == Init /\ [][Next]_vars

(* Time passes, a call that was begun goes on, and attributes are asked for *)
(* again and again.                                                         *)
Fairness == WF_vars(Tick) /\ \A c \in Callers : WF_vars(Fetch(c))

FairSpec == Spec /\ Fairness

-----------------------------------------------------------------------------
(* Type invariant. *)
TypeOK ==
  /\ healthy \in BOOLEAN
  /\ cache \in [Keys -> 0 .. CacheTTL \cup {NoEntry}]
  /\ state \in {"closed", "open"}
  /\ until \in 0 .. CooldownPeriod
  /\ slow \in 0 .. MaxCount
  /\ pc \in [Callers -> {"idle", "evict", "allow", "operate", "record", "store"}]
  /\ key \in [Callers -> Keys]
  /\ bad \in [Callers -> BOOLEAN]
  /\ recent \in BOOLEAN \X BOOLEAN \X BOOLEAN
  /\ since \in 0 .. CooldownPeriod
  /\ late \in Nat

(* docs/CIRCUIT_BREAKER.md:57-62, told by the results alone: an operation    *)
(* is denied exactly when the last three results were bad and the cooldown  *)
(* since the third of them has not passed, in the order in which the calls  *)
(* recorded them, whichever calls those were and however they overlapped.   *)
(* So a good result ends the denial at once, and a bad one after the        *)
(* cooldown does not begin it again.                                        *)
DenialIsDue == Denies <=> AllBad(recent) /\ since < CooldownPeriod

(* A tripped circuit sheds load: while it denies, which is until its        *)
(* cooldown ends or a late success closes it, only operations that were     *)
(* allowed before it tripped still end, fewer than there are callers.       *)
OnlyLateOperations == Denies => late < Cardinality(Callers)

(* docs/CIRCUIT_BREAKER.md:62: once the machine is healthy for good, the    *)
(* circuit closes for good, although it takes a call that misses the cache  *)
(* to find that out.                                                        *)
Recovers == <>[]healthy => <>[](state = "closed")

-----------------------------------------------------------------------------
(* What does not hold. *)

(* docs/CIRCUIT_BREAKER.md:53 "The circuit breaker will automatically        *)
(* transition to closed after the cooldown period".  Violated: it stays open *)
(* and denies nothing, until an operation succeeds.                          *)
ClosedAfterCooldown == state = "open" => until > 0

(* docs/CIRCUIT_BREAKER.md:62 "it remains open for the configured cooldown  *)
(* period".  Violated: an operation allowed before the trip that succeeds   *)
(* late closes the circuit at once.                                         *)
OpenForTheCooldown == [][state = "open" /\ until > 0 => state' = "open"]_vars

(* docs/CIRCUIT_BREAKER.md:57 "Three consecutive operations exceed the      *)
(* configured threshold duration" trip the circuit: after a third bad       *)
(* result operations are denied.  Violated: a bad result after the cooldown *)
(* does not start it again, so everything is allowed on a slow machine.     *)
BadRunIsDenied ==
  [][AllBad(recent') /\ (\E c \in Callers : pc[c] = "record" /\ pc'[c] = "store" /\ bad[c])
       => until' > 0]_vars

(* processor.go:422 "Cache the result (even errors) to prevent repeated     *)
(* lookups": a valid entry stays until it expires.  Violated: a call that   *)
(* saw the expired entry deletes the one another call stored since.         *)
ValidEntryStays ==
  [][\A x \in Keys : cache[x] > 0 => cache'[x] # NoEntry]_vars
=============================================================================

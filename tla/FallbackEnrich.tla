---------------------------- MODULE FallbackEnrich ----------------------------
(***************************************************************************)
(* Completing the attributes of process metrics from /proc                 *)
(* (internal/processor/fallbackprocparser/processor.go: processMetrics,    *)
(* checkCriticalAttributes, enrichProcessAttributes, the caches of the     *)
(* fetches, shouldLogWarning).                                             *)
(*                                                                         *)
(* A PID is used by one process after another.  The command line and the   *)
(* path of the executable are cached by PID; the UID is read each time and *)
(* its name is cached by UID.  Calls of processMetrics interleave between  *)
(* loading the caches, reading /proc and storing what was read.            *)
(*                                                                         *)
(* One PID is modelled, as the entries of others are apart.  A value read  *)
(* for a process is the number of that process.  AttributeFetch has the    *)
(* circuit breaker; here it may deny any operation.                        *)
(***************************************************************************)
EXTENDS Integers, FiniteSets, Sequences

CONSTANTS
  Callers,            \* the goroutines inside processMetrics
  Resources,          \* the sets of attributes that resources come with
  CriticalAttributes, \* config.CriticalAttributes
  AttributesToFetch,  \* config.AttributesToFetch, by the names of attributes
  StrictMode,         \* config.StrictMode
  LastProcess,        \* bound: the processes 1 .. LastProcess use the PID in turn
  UidOf,              \* process -> its UID
  CacheTTL,           \* the time to live of cached values, in ticks
  Minute,             \* time.Minute, in ticks
  Given,              \* the value of an attribute that came with the resource
  Nil                 \* no entry, no value, no process

CommandLine == "command_line"
Owner == "owner"
ExecutablePath == "executable_path"
ExecutableName == "executable_name"
Attributes == {CommandLine, Owner, ExecutablePath, ExecutableName}
CachedByPid == {CommandLine, ExecutablePath}

Processes == 1 .. LastProcess
Uids == {UidOf[i] : i \in Processes}

(* A read of /proc that failed or gave nothing; it is cached like a value. *)
Error == 0

ASSUME EnrichAssumption ==
  /\ Resources \subseteq SUBSET Attributes /\ CriticalAttributes \subseteq Attributes
  /\ AttributesToFetch \in Seq({CommandLine, Owner, ExecutablePath})
  /\ StrictMode \in BOOLEAN
  /\ LastProcess \in Nat \ {0}
  /\ CacheTTL \in Nat /\ Minute \in Nat \ {0}
  /\ Error \notin Uids /\ Given \notin Processes \cup Uids
  /\ Nil \notin Processes \cup Uids \cup {Given} \cup 0 .. Minute

VARIABLES
  process,    \* the process that has the PID now, or Nil
  latest,     \* the process that had it last
  cache,      \* attribute -> the entry of the PID: [left, value], or Nil
  usernameCache, \* UID -> the UID whose name its entry holds, or Nil
  lastLogTime,   \* how long ago the PID was stored in it, or Nil
  call,       \* caller -> its call, or Nil
  sinceWarned \* history: how long ago a warning about the PID was logged, or Nil

caches == <<cache, usernameCache>>
vars == <<process, latest, caches, lastLogTime, call, sinceWarned>>

Init ==
  /\ process = 1 /\ latest = 1
  /\ cache = [a \in CachedByPid |-> Nil]
  /\ usernameCache = [u \in Uids |-> Nil]
  /\ lastLogTime = Nil /\ sinceWarned = Nil
  /\ call = [c \in Callers |-> Nil]

-----------------------------------------------------------------------------
Missing(attrs) == {a \in CriticalAttributes : attrs[a] = Nil}

(* In strict mode a resource that misses two critical attributes is left as *)
(* it is, before and after the fetches; nothing removes it from the batch.  *)
GivesUp(attrs) == StrictMode /\ Cardinality(Missing(attrs)) >= 2

(* A resource of a process that has the PID: what is missing is fetched in  *)
(* the order of the configuration, of which these are the positions.        *)
ToFetch(attrs) == {i \in DOMAIN AttributesToFetch : AttributesToFetch[i] \in Missing(attrs)}

Receive(c, present) ==
  /\ call[c] = Nil
  /\ LET attrs == [a \in Attributes |-> IF a \in present THEN Given ELSE Nil]
     IN  call' = [call EXCEPT ![c] =
           [at |-> IF GivesUp(attrs) \/ Missing(attrs) = {} THEN "done" ELSE "next",
            present |-> present, attrs |-> attrs, todo |-> ToFetch(attrs),
            read |-> Nil, during |-> {latest}]]
  /\ UNCHANGED <<process, latest, caches, lastLogTime, sinceWarned>>

At(c, step) == call[c] # Nil /\ call[c].at = step

Goes(c, step) == call' = [call EXCEPT ![c].at = step]

First(todo) == CHOOSE i \in todo : \A j \in todo : i <= j

Fetched(c) == AttributesToFetch[First(call[c].todo)]

(* The path of the executable gives its name, if that is not there already. *)
WithNameAlways(attrs, value) == [attrs EXCEPT ![ExecutableName] = value]

WithName(attrs, value) ==
  IF attrs[ExecutableName] = Nil THEN [attrs EXCEPT ![ExecutableName] = value] ELSE attrs

(* The fetch at hand ends with a value, or with nothing to put.             *)
Put(attrs, a, value) ==
  IF a = ExecutablePath
  THEN WithName([attrs EXCEPT ![a] = value], value)
  ELSE [attrs EXCEPT ![a] = value]

Puts(c, value) ==
  call' = [call EXCEPT ![c].at = "next", ![c].todo = @ \ {First(@)}, ![c].read = Nil,
             ![c].attrs = IF value = Error THEN @ ELSE Put(@, Fetched(c), value)]

-----------------------------------------------------------------------------
(* fetchCommandLine, fetchExecutablePath *)

Valid(entry) == entry # Nil /\ entry.left > 0

(* A hit answers the fetch and leaves the entry; faulty: it renews it.      *)
RenewedEntry(entry) == [entry EXCEPT !.left = CacheTTL]
EntryAfterHit(entry) == entry

CheckCache(c) ==
  /\ At(c, "next") /\ call[c].todo # {} /\ Fetched(c) \in CachedByPid
  /\ LET a == Fetched(c)
     IN  \/ /\ Valid(cache[a])
            /\ Puts(c, cache[a].value)
            /\ cache' = [cache EXCEPT ![a] = EntryAfterHit(@)]
         \/ /\ ~Valid(cache[a])
            /\ Goes(c, IF cache[a] = Nil THEN "allow" ELSE "evict")
            /\ UNCHANGED cache
  /\ UNCHANGED <<process, latest, usernameCache, lastLogTime, sinceWarned>>

(* The entry of the PID is deleted, whatever it is by now. *)
Evict(c) ==
  /\ At(c, "evict")
  /\ cache' = [cache EXCEPT ![Fetched(c)] = Nil]
  /\ Goes(c, "allow")
  /\ UNCHANGED <<process, latest, usernameCache, lastLogTime, sinceWarned>>

Denied(c) ==
  /\ At(c, "allow")
  /\ Puts(c, Error)
  /\ UNCHANGED <<process, latest, caches, lastLogTime, sinceWarned>>

ReadProc(c) ==
  /\ At(c, "allow")
  /\ \E value \in {Error} \cup ({process} \ {Nil}) :
       call' = [call EXCEPT ![c].at = "store", ![c].read = value]
  /\ UNCHANGED <<process, latest, caches, lastLogTime, sinceWarned>>

StoreResult(c) ==
  /\ At(c, "store")
  /\ cache' = [cache EXCEPT ![Fetched(c)] = [left |-> CacheTTL, value |-> call[c].read]]
  /\ Puts(c, call[c].read)
  /\ UNCHANGED <<process, latest, usernameCache, lastLogTime, sinceWarned>>

-----------------------------------------------------------------------------
(* fetchOwner, resolveUIDToUsername *)

ReadStatus(c) ==
  /\ At(c, "next") /\ call[c].todo # {} /\ Fetched(c) = Owner
  /\ \/ /\ process # Nil
        /\ call' = [call EXCEPT ![c].at = "resolve", ![c].read = UidOf[process]]
     \/ Puts(c, Error)
  /\ UNCHANGED <<process, latest, caches, lastLogTime, sinceWarned>>

(* The key of the username cache; faulty: the first UID the PID had.        *)
KeyOfPid(uid) == UidOf[1]
KeyOf(uid) == uid

(* The name is cached, or it is looked up, which the breaker may deny: then *)
(* it is "uid:" and the UID.  A name that could not be looked up is cached  *)
(* as an error, for which fetchOwner puts the UID too.  An entry may have   *)
(* expired whenever it is used; it is deleted then.                         *)
Resolve(c) ==
  /\ At(c, "resolve")
  /\ LET uid == call[c].read
         name == usernameCache[KeyOf(uid)]
     IN  \/ /\ name # Nil
            /\ Puts(c, name)
            /\ UNCHANGED usernameCache
         \/ /\ Puts(c, uid)
            /\ \E stored \in {Nil, uid} :
                 usernameCache' = [usernameCache EXCEPT ![KeyOf(uid)] = stored]
  /\ UNCHANGED <<process, latest, cache, lastLogTime, sinceWarned>>

-----------------------------------------------------------------------------
(* The fetches are done: what is still missing is warned of, once a minute. *)
(* shouldLogWarning: LoadOrStore, and Store if the minute is over.          *)
Recent == lastLogTime # Nil /\ lastLogTime < Minute

(* Faulty: a warning that is left out counts as one. *)
LastAfterSuppressedNow == 0
LastAfterSuppressed == lastLogTime

CheckAgain(c) ==
  /\ At(c, "next") /\ call[c].todo = {}
  /\ LET attrs == call[c].attrs
     IN  \/ /\ Missing(attrs) = {} \/ GivesUp(attrs)
            /\ Goes(c, "done")
            /\ UNCHANGED <<lastLogTime, sinceWarned>>
         \/ /\ Missing(attrs) # {} /\ ~GivesUp(attrs) /\ lastLogTime = Nil
            /\ Goes(c, "warned")
            /\ lastLogTime' = 0 /\ sinceWarned' = 0
         \/ /\ Missing(attrs) # {} /\ ~GivesUp(attrs) /\ Recent
            /\ Goes(c, "warned")
            /\ lastLogTime' = LastAfterSuppressed
            /\ UNCHANGED sinceWarned
         \/ /\ Missing(attrs) # {} /\ ~GivesUp(attrs) /\ lastLogTime # Nil /\ ~Recent
            /\ Goes(c, "warn")
            /\ UNCHANGED <<lastLogTime, sinceWarned>>
  /\ UNCHANGED <<process, latest, caches>>

Warn(c) ==
  /\ At(c, "warn")
  /\ Goes(c, "warned")
  /\ lastLogTime' = 0 /\ sinceWarned' = 0
  /\ UNCHANGED <<process, latest, caches>>

(* The resource goes on with the batch. *)
Return(c) ==
  /\ call[c] # Nil /\ call[c].at \in {"done", "warned"}
  /\ call' = [call EXCEPT ![c] = Nil]
  /\ UNCHANGED <<process, latest, caches, lastLogTime, sinceWarned>>

-----------------------------------------------------------------------------
(* The process ends; another one gets its PID. *)
Ends ==
  /\ process # Nil
  /\ process' = Nil
  /\ UNCHANGED <<latest, caches, lastLogTime, call, sinceWarned>>

PidReused ==
  /\ process = Nil /\ latest < LastProcess
  /\ process' = latest + 1 /\ latest' = latest + 1
  /\ call' = [c \in Callers |->
       IF call[c] = Nil THEN Nil ELSE [call[c] EXCEPT !.during = @ \cup {latest'}]]
  /\ UNCHANGED <<caches, lastLogTime, sinceWarned>>

(* Time makes valid entries older. *)
Older(entry) == IF Valid(entry) THEN [entry EXCEPT !.left = @ - 1] ELSE entry

LaterBy(t) == IF t = Nil \/ t >= Minute THEN t ELSE t + 1

Tick ==
  /\ cache' = [a \in CachedByPid |-> Older(cache[a])]
  /\ lastLogTime' = LaterBy(lastLogTime) /\ sinceWarned' = LaterBy(sinceWarned)
  /\ UNCHANGED <<process, latest, usernameCache, call>>

CallStep(c) ==
  \/ CheckCache(c) \/ Evict(c) \/ Denied(c) \/ ReadProc(c) \/ StoreResult(c)
  \/ ReadStatus(c) \/ Resolve(c) \/ CheckAgain(c) \/ Warn(c) \/ Return(c)

Next ==
  \/ \E c \in Callers : (\E present \in Resources : Receive(c, present)) \/ CallStep(c)
  \/ Ends \/ PidReused \/ Tick

Spec == Init /\ [][Next]_vars

(* Calls go on and time passes; metrics need not come.                      *)
FairSpec == Spec /\ WF_vars(Tick) /\ \A c \in Callers : WF_vars(CallStep(c))

-----------------------------------------------------------------------------
Values == Processes \cup {Error}
Entries == [left : 0 .. CacheTTL, value : Values] \cup {Nil}
Times == 0 .. Minute \cup {Nil}
Calls ==
  [at : {"next", "evict", "allow", "store", "resolve", "warn", "warned", "done"},
   present : SUBSET Attributes,
   attrs : [Attributes -> Processes \cup Uids \cup {Given, Nil}],
   todo : SUBSET DOMAIN AttributesToFetch,
   read : Values \cup Uids \cup {Nil},
   during : SUBSET Processes]

(* Type invariant. *)
TypeOK ==
  /\ process \in {latest, Nil} /\ latest \in Processes
  /\ cache \in [CachedByPid -> Entries]
  /\ usernameCache \in [Uids -> Uids \cup {Nil}]
  /\ lastLogTime \in Times /\ sinceWarned \in Times
  /\ call \in [Callers -> Calls \cup {Nil}]

(* The caches mix no owners (usernameCache, "UID -> username cache"): the    *)
(* owner a call puts is that of a process that had the PID during the call, *)
(* however old what the caches say of the PID.                              *)
OwnerIsCurrent ==
  \A c \in Callers : call[c] # Nil =>
    call[c].attrs[Owner] \in {Nil, Given} \cup {UidOf[i] : i \in call[c].during}

(* enrichProcessAttributes adds what is missing and leaves what came with   *)
(* the resource, the name of the executable included.                       *)
GivenIsKept ==
  \A c \in Callers : call[c] # Nil =>
    \A a \in Attributes : a \in call[c].present <=> call[c].attrs[a] = Given

(* shouldLogWarning, "Only log once per minute per PID": a resource that    *)
(* goes on without its critical attributes is logged, unless a warning about*)
(* its PID was logged less than a minute before, by any call.               *)
MissingIsLogged ==
  [][\A c \in Callers :
       At(c, "next") /\ call'[c] # Nil /\ call'[c].at = "warned"
         => sinceWarned' # Nil /\ sinceWarned' < Minute]_vars

(* A PID that is not reused any more has, from some time on, no cached      *)
(* attributes of a process that had it before (cacheTTL).                   *)
ReuseIsNoticed ==
  <>[](\A a \in CachedByPid : Valid(cache[a]) => cache[a].value \in {latest, Error})

(* processor.go:812 "Only log once per minute per PID".  Violated: two calls*)
(* that see the minute over both log.                                       *)
LogsOnce ==
  [][\A c \in Callers : At(c, "warn") /\ call'[c].at = "warned" => ~Recent]_vars

(* config.go:19 "abort (drop metrics)", in strict mode.  Violated: the       *)
(* resource goes on as it is, and what it misses was not fetched.           *)
StrictDrops ==
  \A c \in Callers : call[c] # Nil /\ call[c].at \in {"done", "warned"}
    => ~GivesUp(call[c].attrs)

(* What is put into a resource is of one process.  Violated: the command    *)
(* line is of the process that had the PID before, the owner is not.        *)
OneProcess ==
  \A c \in Callers : call[c] # Nil =>
    \A a \in CachedByPid : call[c].attrs[a] \in {Nil, Given} \cup call[c].during
=============================================================================

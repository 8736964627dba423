---------------------------- MODULE HeadSampling ----------------------------
(***************************************************************************)
(* The adaptive head sampler of traces and of logs                         *)
(* (internal/processor/adaptiveheadsampler/processor.go: ConsumeTraces,    *)
(* processLogs and what they call, setProbability, reportMetrics, Start,   *)
(* Shutdown).  How the controller finds a sampler is in AdaptiveControl.   *)
(*                                                                         *)
(* Calls take their items one by one and load the probability anew for     *)
(* each decision, while it is set and while the reporter swaps the         *)
(* counters.  The collector starts and stops the trace sampler only:       *)
(* createLogsProcessor passes neither Start nor Shutdown of the log sampler*)
(* on to processorhelper, so nothing ever reports the counters of logs.    *)
(*                                                                         *)
(* Probabilities and random values are fractions of One.  What a hash gives*)
(* for a trace or a record ID is chosen when it is first asked for and     *)
(* remembered: the model runs with every hash function there is.           *)
(***************************************************************************)
EXTENDS Integers, FiniteSets, Sequences, SequencesExt

CONSTANTS
  Callers,       \* the goroutines that call ConsumeTraces or processLogs
  Workloads,     \* what a run is given: [config, batches], batches by sampler; a
                 \* batch is a sequence of scopes, which are sequences of items
  TraceOf,       \* span -> trace ID
  FieldsOf,      \* log record -> its message and attributes, by field
  One,           \* the probability 1.0
  InitialProbability, MinProbability, MaxProbability,
  Ps,            \* values the probability is set to
  NoCall

Traces == "traces"
Logs == "logs"
Signals == {Traces, Logs}

Items(k) == IF k = Traces THEN DOMAIN TraceOf ELSE DOMAIN FieldsOf

(* The items of a batch, of what is left of one. *)
ItemsOf(scopes) == UNION {ToSet(scopes[i]) : i \in DOMAIN scopes}

(* What a sampler may be called with: every item is in one place.  A scope  *)
(* without items takes no step and is left out.                             *)
Lists(k) == Seq(Items(k)) \ {<< >>}
IsBatch(b, k) ==
  /\ b \in Seq(Lists(k))
  /\ \A i, j \in DOMAIN b : \A m \in DOMAIN b[i], l \in DOMAIN b[j] :
       b[i][m] = b[j][l] => i = j /\ m = l

(* What the decisions of a scope are kept in. *)
DecisionMaps == UNION {[D -> BOOLEAN] : D \in SUBSET Range(TraceOf)}

(* A call of ConsumeTraces or processLogs. *)
Calls(k) ==
  [sampler : {k}, batch : Seq(Lists(k)), decisions : DecisionMaps,
   rest : Seq(Lists(k)), out : SUBSET Items(k), chosen : SUBSET Items(k),
   inForce : SUBSET (0 .. One)]

ASSUME HeadAssumption ==
  /\ One \in Nat \ {0} /\ InitialProbability \in 0 .. One
  /\ MinProbability \in 0 .. One /\ MaxProbability \in MinProbability .. One
  /\ Ps \subseteq 0 .. One
  /\ IsFiniteSet(Callers) /\ \A k \in Signals : NoCall \notin Calls(k)

(* No item comes twice: a span or a record is an object of its own.         *)
ASSUME WorkloadAssumption ==
  \A w \in Workloads :
    /\ DOMAIN w.config.critical \subseteq Nat \ {0}
    /\ DOMAIN w.config.filters \subseteq Nat \ {0}
    /\ DOMAIN w.batches = Signals
    /\ \A k \in Signals : \A b1, b2 \in w.batches[k] :
         IsBatch(b1, k) /\ (b1 # b2 => ItemsOf(b1) \cap ItemsOf(b2) = {})

VARIABLES
  config,      \* p.config, as it is after newLogsProcessor
  currentP,    \* sampler -> currentP
  hash,        \* what the hash is known to give, by trace or record ID
  waiting,     \* the batches nobody has consumed yet, by sampler
  call,        \* caller -> its call, or NoCall
  processing, rejected,            \* sampler -> processingCount, rejectedCount
  reporter, stopCh,                \* reportMetrics of the traces, and its stopCh
  reportedReceived, reportedRejected, \* what the registry was given of the traces
  received, delivered              \* history: the items called with, and passed on

counters == <<processing, rejected>>
reports == <<reporter, stopCh, reportedReceived, reportedRejected>>
history == <<received, delivered>>
samplingVars == <<config, currentP, hash, waiting, call, counters, reports, history>>

SamplingInit ==
  /\ \E w \in Workloads : config = w.config /\ waiting = w.batches
  /\ currentP = [k \in Signals |-> InitialProbability]
  /\ hash = << >>
  /\ call = [c \in Callers |-> NoCall]
  /\ processing = [k \in Signals |-> 0] /\ rejected = [k \in Signals |-> 0]
  /\ reporter = "waits" /\ stopCh = "open"
  /\ reportedReceived = 0 /\ reportedRejected = 0
  /\ received = [k \in Signals |-> {}] /\ delivered = [k \in Signals |-> {}]

-----------------------------------------------------------------------------
(* What is asked of a log record *)

Missing == << >>
Newline == "\n"

(* Field f of record r: the message, or an attribute of the record or its   *)
(* resource that is nested as the dots of the name say.  An attribute whose *)
(* own key has a dot is never found, whatever FieldsOf would say of it.     *)
Has(r, f) == f \in DOMAIN FieldsOf[r]

(* matchPattern: '*' becomes ".*" of a regular expression, to which '.' is a*)
(* character, any one but the end of a line.  No other operators of regular *)
(* expressions are in the configurations.                                   *)
Fits(token, run) ==
  \/ token = "*" /\ Newline \notin ToSet(run)
  \/ token = "." /\ Len(run) = 1 /\ run # <<Newline>>
  \/ run = <<token>>

MatchesRegexp(pattern, value) ==
  \E cut \in [0 .. Len(pattern) -> 0 .. Len(value)] :
    /\ cut[0] = 0 /\ cut[Len(pattern)] = Len(value)
    /\ \A i \in 1 .. Len(pattern) :
         /\ cut[i - 1] <= cut[i]
         /\ Fits(pattern[i], SubSeq(value, cut[i - 1] + 1, cut[i]))

matchPattern(pattern, value) ==
  \/ pattern \in {value, <<"*">>}
  \/ "*" \in ToSet(pattern) /\ MatchesRegexp(pattern, value)

(* The position in a list of patterns of the first that matches, or 0.      *)
FirstMatch(list, r) ==
  LET hits == {i \in DOMAIN list : Has(r, list[i].field)
                  /\ matchPattern(list[i].pattern, FieldsOf[r][list[i].field])}
  IN  IF hits = {} THEN 0 ELSE CHOOSE i \in hits : \A j \in hits : i <= j

checkCriticalLogPatterns(r) == FirstMatch(config.critical, r) # 0

checkContentFilters(r) ==
  LET i == FirstMatch(config.filters, r)
  IN  IF i = 0 THEN [action |-> "none"] ELSE config.filters[i]

(* createRecordID: a field the record does not have, or has empty, gives its*)
(* default if it has one; a required one spoils the ID.                     *)
Given(r, f) == Has(r, f) /\ FieldsOf[r][f] # Missing

Spoilt(r) ==
  \/ \E i \in DOMAIN config.fields : config.fields[i].required /\ ~Given(r, config.fields[i].field)
  \/ \A i \in DOMAIN config.fields :
       ~Given(r, config.fields[i].field) /\ config.fields[i].default = Missing

(* Faulty: an optional field spoils the ID too. *)
SpoiltByAny(r) == \E i \in DOMAIN config.fields : ~Given(r, config.fields[i].field)

IsRandom(r) == Spoilt(r)

Contributes(r, field) == Given(r, field.field) \/ field.default # Missing

ValueOf(r, field) ==
  IF Given(r, field.field) THEN FieldsOf[r][field.field] ELSE field.default

(* With equal weights the values are sorted and joined: the ID is the bag of*)
(* them.  Otherwise they come in the order of weights and then names, each  *)
(* as often as its weight says (a field's name is a number here).           *)
Precedes(x, y) == x.weight > y.weight \/ (x.weight = y.weight /\ x.field < y.field)

Contributors(fields, r) == {i \in DOMAIN fields : Contributes(r, fields[i])}

BagOfValues(fields, r) ==
  [v \in {ValueOf(r, fields[i]) : i \in Contributors(fields, r)} |->
     Cardinality({i \in Contributors(fields, r) : ValueOf(r, fields[i]) = v})]

Place(fields, i) ==
  Cardinality({j \in DOMAIN fields :
    Precedes(fields[j], fields[i]) \/ (j < i /\ ~Precedes(fields[i], fields[j]))}) + 1

PieceAt(fields, r, place) ==
  LET here == {i \in Contributors(fields, r) : Place(fields, i) = place}
      field == fields[CHOOSE i \in here : TRUE]
  IN  IF here = {} THEN << >> ELSE [j \in 1 .. field.weight |-> ValueOf(r, field)]

createRecordID(fields, r) ==
  IF Cardinality({fields[i].weight : i \in DOMAIN fields}) = 1
  THEN BagOfValues(fields, r)
  ELSE FlattenSeq([place \in DOMAIN fields |-> PieceAt(fields, r, place)])

-----------------------------------------------------------------------------
Put(f, x, value) == [y \in DOMAIN f \cup {x} |-> IF y = x THEN value ELSE f[y]]

(* Whether something hashes below q; what the hash gives for it is one of   *)
(* fractions that fits what is known.  A spoilt ID has a random part.       *)
Below(id, q, keep) ==
  \E f \in 0 .. One :
    /\ id \in DOMAIN hash => f = hash[id]
    /\ keep = (f < q)
    /\ hash' = IF id \in DOMAIN hash THEN hash ELSE Put(hash, id, f)

(* shouldSample loads the probability itself; faulty: the configured one.   *)
ConfiguredP(k) == InitialProbability

PInForce(k) == currentP[k]

TraceID(s) == <<Traces, TraceOf[s]>>
RecordID(r) == <<Logs, createRecordID(config.fields, r)>>

shouldSample(s, keep) == Below(TraceID(s), PInForce(Traces), keep)

(* Faulty variant of the next: the content filters come first. *)
FilteredBeforeCritical(r, keep) ==
  LET filter == checkContentFilters(r)
  IN  /\ keep = (filter.action = "include" \/ (filter.action = "none" /\ checkCriticalLogPatterns(r)))
      /\ UNCHANGED hash

(* The decision of processLogs: critical patterns, then filters, then the   *)
(* record ID against the probability of the filter or of the sampler.       *)
DecideLog(r, keep) ==
  LET filter == checkContentFilters(r)
      q == IF filter.action = "weighted" THEN filter.probability ELSE PInForce(Logs)
  IN  \/ /\ checkCriticalLogPatterns(r) \/ filter.action \in {"include", "exclude"}
         /\ keep = (checkCriticalLogPatterns(r) \/ filter.action = "include")
         /\ UNCHANGED hash
      \/ /\ ~checkCriticalLogPatterns(r) /\ filter.action \in {"weighted", "none"}
         /\ \/ IsRandom(r) /\ (keep => q > 0) /\ UNCHANGED hash
            \/ ~IsRandom(r) /\ Below(RecordID(r), q, keep)

-----------------------------------------------------------------------------
(* A call counts its items and loads the probability once: at 1.0, and with *)
(* no content filters if they are logs, it passes the batch on as it is.    *)
PassesAll(k) == currentP[k] >= One /\ (k = Logs => config.filters = << >>)

Begin(c, k, b) ==
  /\ call[c] = NoCall /\ b \in waiting[k]
  /\ processing' = [processing EXCEPT ![k] = @ + Cardinality(ItemsOf(b))]
  /\ call' = [call EXCEPT ![c] =
       [sampler |-> k, batch |-> b, decisions |-> << >>,
        rest |-> IF PassesAll(k) THEN << >> ELSE b,
        out |-> IF PassesAll(k) THEN ItemsOf(b) ELSE {},
        chosen |-> IF PassesAll(k) THEN ItemsOf(b) ELSE {},
        inForce |-> {currentP[k]}]]
  /\ waiting' = [waiting EXCEPT ![k] = @ \ {b}]
  /\ received' = [received EXCEPT ![k] = @ \cup ItemsOf(b)]
  /\ UNCHANGED <<config, currentP, hash, rejected, reports, delivered>>

(* The item at hand is taken; the decisions on traces last for a scope.     *)
NextRest(rest) ==
  IF Len(Head(rest)) = 1 THEN Tail(rest) ELSE [rest EXCEPT ![1] = Tail(@)]

Decided(a, x, keep, decisions, out) ==
  [sampler |-> a.sampler, batch |-> a.batch, rest |-> NextRest(a.rest),
   decisions |-> IF Len(Head(a.rest)) = 1 THEN << >> ELSE decisions,
   out |-> out, chosen |-> IF keep THEN a.chosen \cup {x} ELSE a.chosen,
   inForce |-> a.inForce]

(* Faulty: every span is decided for itself. *)
NeverKnown(a, t) == FALSE

Known(a, t) == t \in DOMAIN a.decisions

(* A span of ConsumeTraces.  A chosen one is copied into a scope, but the   *)
(* scope is of a Traces that findResourceSpansFromResource makes up, so it  *)
(* is not among the sampled traces.                                         *)
AddSpan(out, s) == out

NextSpan(c) ==
  /\ call[c] # NoCall /\ call[c].sampler = Traces /\ call[c].rest # << >>
  /\ LET a == call[c]
         s == Head(Head(a.rest))
         t == TraceOf[s]
     IN  \E keep \in BOOLEAN :
           /\ \/ Known(a, t) /\ keep = a.decisions[t] /\ UNCHANGED hash
              \/ ~Known(a, t) /\ shouldSample(s, keep)
           /\ call' = [call EXCEPT ![c] =
                Decided(a, s, keep, Put(a.decisions, t, keep),
                        IF keep THEN AddSpan(a.out, s) ELSE a.out)]
  /\ UNCHANGED <<config, currentP, waiting, counters, reports, history>>

(* A record of processLogs. *)
NextRecord(c) ==
  /\ call[c] # NoCall /\ call[c].sampler = Logs /\ call[c].rest # << >>
  /\ LET a == call[c]
         r == Head(Head(a.rest))
     IN  \E keep \in BOOLEAN :
           /\ DecideLog(r, keep)
           /\ call' = [call EXCEPT ![c] =
                Decided(a, r, keep, << >>, IF keep THEN a.out \cup {r} ELSE a.out)]
  /\ UNCHANGED <<config, currentP, waiting, counters, reports, history>>

(* Faulty: the difference the wrong way round. *)
RejectedNegated(a) == Cardinality(a.out) - Cardinality(ItemsOf(a.batch))

(* Rejected is what is not in the result, which is passed on (an empty one  *)
(* of traces is not; of logs it is).                                        *)
RejectedIn(a) == Cardinality(ItemsOf(a.batch)) - Cardinality(a.out)

End(c) ==
  /\ call[c] # NoCall /\ call[c].rest = << >>
  /\ LET k == call[c].sampler
     IN  /\ rejected' = [rejected EXCEPT ![k] = @ + RejectedIn(call[c])]
         /\ delivered' = [delivered EXCEPT ![k] = @ \cup call[c].out]
  /\ call' = [call EXCEPT ![c] = NoCall]
  /\ UNCHANGED <<config, currentP, hash, waiting, processing, reports, received>>

-----------------------------------------------------------------------------
(* setProbability, within the configured range. *)
Clamped(q) == IF q < MinProbability THEN MinProbability ELSE IF q > MaxProbability THEN MaxProbability ELSE q

SetProbability(k, q) ==
  /\ currentP' = [currentP EXCEPT ![k] = Clamped(q)]
  /\ call' = [c \in Callers |->
       IF call[c] # NoCall /\ call[c].sampler = k
       THEN [call[c] EXCEPT !.inForce = @ \cup {Clamped(q)}] ELSE call[c]]
  /\ UNCHANGED <<config, hash, waiting, counters, reports, history>>

(* reportMetrics: a tick swaps one counter and then the other.  Of the cases*)
(* of its select that are ready any may be taken.                           *)
ReportReceived ==
  /\ reporter = "waits"
  /\ reportedReceived' = reportedReceived + processing[Traces]
  /\ processing' = [processing EXCEPT ![Traces] = 0]
  /\ reporter' = "reports"
  /\ UNCHANGED <<config, currentP, hash, waiting, call, rejected, stopCh,
                 reportedRejected, history>>

(* Faulty: nothing is left in the counter and nothing is reported. *)
NotReported == 0

SwappedRejected == rejected[Traces]

ReportRejected ==
  /\ reporter = "reports"
  /\ reportedRejected' = reportedRejected + SwappedRejected
  /\ rejected' = [rejected EXCEPT ![Traces] = 0]
  /\ reporter' = "waits"
  /\ UNCHANGED <<config, currentP, hash, waiting, call, processing, stopCh,
                 reportedReceived, history>>

Shutdown ==
  /\ stopCh = "open"
  /\ stopCh' = "closed"
  /\ UNCHANGED <<config, currentP, hash, waiting, call, counters, reporter,
                 reportedReceived, reportedRejected, history>>

ReporterExit ==
  /\ reporter = "waits" /\ stopCh = "closed"
  /\ reporter' = "ended"
  /\ UNCHANGED <<config, currentP, hash, waiting, call, counters, stopCh,
                 reportedReceived, reportedRejected, history>>

SamplingNext ==
  \/ \E c \in Callers :
       \/ \E k \in Signals : \E b \in waiting[k] : Begin(c, k, b)
       \/ NextSpan(c) \/ NextRecord(c) \/ End(c)
  \/ \E k \in Signals, q \in Ps : SetProbability(k, q)
  \/ ReportReceived \/ ReportRejected \/ Shutdown \/ ReporterExit

SamplingSpec == SamplingInit /\ [][SamplingNext]_samplingVars

-----------------------------------------------------------------------------
CallTyped(a) ==
  /\ \E k \in Signals : a \in Calls(k)
  /\ ItemsOf(a.rest) \subseteq ItemsOf(a.batch)
  /\ a.out \subseteq a.chosen /\ a.chosen \subseteq ItemsOf(a.batch)

(* Type invariant. *)
SamplingTypeOK ==
  /\ config \in {w.config : w \in Workloads}
  /\ currentP \in [Signals -> 0 .. One]
  /\ \A id \in DOMAIN hash : hash[id] \in 0 .. One
  /\ DOMAIN waiting = Signals
  /\ \E w \in Workloads : \A k \in Signals : waiting[k] \subseteq w.batches[k]
  /\ DOMAIN call = Callers
  /\ \A c \in Callers : call[c] # NoCall => CallTyped(call[c])
  /\ processing \in [Signals -> Nat] /\ rejected \in [Signals -> Nat]
  /\ reporter \in {"waits", "reports", "ended"} /\ stopCh \in {"open", "closed"}
  /\ reportedReceived \in Nat /\ reportedRejected \in Nat
  /\ DOMAIN received = Signals /\ DOMAIN delivered = Signals
  /\ \A k \in Signals : delivered[k] \subseteq received[k]

CallsOf(k) == {c \in Callers : call[c] # NoCall /\ call[c].sampler = k}

Reported(k, count) == IF k = Traces THEN count ELSE 0

(* The counters account for every item (metrics of ConsumeTraces,           *)
(* processLogs and reportMetrics), with calls and reports anywhere: it was  *)
(* passed on, is in a call, or was counted as rejected once, and what was   *)
(* counted is still in the counter or has been reported.                    *)
Accounted ==
  \A k \in Signals :
    /\ processing[k] + Reported(k, reportedReceived) = Cardinality(received[k])
    /\ rejected[k] + Reported(k, reportedRejected) + Cardinality(delivered[k])
         + Cardinality(UNION {ItemsOf(call[c].batch) : c \in CallsOf(k)})
       = Cardinality(received[k])

(* processor.go:628 "Track which traces we've already decided on": the spans*)
(* of a trace in one scope are chosen or left out together, although the    *)
(* probability moves between them.                                          *)
ScopeDecidesOnce ==
  \A c \in CallsOf(Traces) : \A i \in DOMAIN call[c].batch :
    LET done == ToSet(call[c].batch[i]) \ ItemsOf(call[c].rest)
    IN  \A s1, s2 \in done :
          TraceOf[s1] = TraceOf[s2] => (s1 \in call[c].chosen <=> s2 \in call[c].chosen)

(* docs/LOG_SAMPLING.md:29-32: what is decided by a hash is chosen if it    *)
(* hashes below every probability in force since the call began, and not if *)
(* below none of them.  A call during which the probability was 1.0 at any  *)
(* time is exempt: it may have passed its batch on whole, or have begun     *)
(* under 1.0 and decided under less, and the probabilities alone do not say.*)
Sampled(a) ==
  {x \in ItemsOf(a.batch) \ ItemsOf(a.rest) :
     a.sampler = Traces \/ (/\ ~checkCriticalLogPatterns(x) /\ ~IsRandom(x)
                            /\ checkContentFilters(x).action = "none")}

IDOf(k, x) == IF k = Traces THEN TraceID(x) ELSE RecordID(x)

FollowsProbability ==
  \A c \in Callers : call[c] # NoCall =>
    LET a == call[c]
    IN  One \notin a.inForce => \A x \in Sampled(a) :
          /\ (\A q \in a.inForce : hash[IDOf(a.sampler, x)] < q) => x \in a.chosen
          /\ x \in a.chosen => \E q \in a.inForce : hash[IDOf(a.sampler, x)] < q

(* config.go:36 "critical logs that should always be sampled regardless of  *)
(* the sampling rate", 33 "If any filter matches, the log will be handled   *)
(* according to the filter action": on every path through processLogs, with *)
(* any probability, and the first filter that matches decides.  (The        *)
(* limitation of docs/LOG_SAMPLING.md:109 "Cannot filter logs based on      *)
(* content" is out of date.)                                                *)
FiltersObeyed ==
  \A c \in CallsOf(Logs) : \A r \in ItemsOf(call[c].batch) \ ItemsOf(call[c].rest) :
    LET hits == {i \in DOMAIN config.filters :
                   /\ Has(r, config.filters[i].field)
                   /\ matchPattern(config.filters[i].pattern, FieldsOf[r][config.filters[i].field])}
        First(action) == \E i \in hits : config.filters[i].action = action /\ \A j \in hits : i <= j
        critical == \E i \in DOMAIN config.critical :
                      /\ Has(r, config.critical[i].field)
                      /\ matchPattern(config.critical[i].pattern, FieldsOf[r][config.critical[i].field])
    IN  /\ critical \/ First("include") => r \in call[c].out
        /\ ~critical /\ First("exclude") => r \notin call[c].out

(* docs/LOG_SAMPLING.md:10, 102 "ensure similar logs are sampled            *)
(* consistently": records that agree on the configured fields, and have some*)
(* of them and all required ones, are decided alike while the probability   *)
(* stays what it is.  Agreeing is about what getNestedValue finds (Has):    *)
(* of the names LOG_SAMPLING.md:20-21 gives, k8s.pod.name is not found among*)
(* the attributes of a record or a resource under that one key, and a       *)
(* resource is not looked at without the prefix "resource.", so records     *)
(* that differ in such an attribute only agree here.                        *)
Alike(r1, r2) ==
  \A i \in DOMAIN config.fields :
    LET f == config.fields[i].field
    IN  Given(r1, f) = Given(r2, f) /\ (Given(r1, f) => FieldsOf[r1][f] = FieldsOf[r2][f])

LikeDecidesLike ==
  \A c \in CallsOf(Logs) : Cardinality(call[c].inForce) = 1 =>
    \A r1, r2 \in ItemsOf(call[c].batch) \ ItemsOf(call[c].rest) :
      (/\ Alike(r1, r2) /\ ~Spoilt(r1)
       /\ \A r \in {r1, r2} : ~checkCriticalLogPatterns(r) /\ checkContentFilters(r).action = "none")
      => (r1 \in call[c].out <=> r2 \in call[c].out)

(* processor_test.go:107 "With 1000 traces and p=0.5, we expect around 500  *)
(* traces to be sampled": the chosen spans of an ended call were passed on. *)
(* Violated: they are copied into a Traces that nobody sends.               *)
ChosenArePassedOn ==
  [][\A c \in Callers : call[c] # NoCall /\ call'[c] = NoCall
       => call[c].chosen \subseteq delivered'[call[c].sampler]]_samplingVars

(* config.go:87-88 "If a required field is missing, the record will use the *)
(* default value".  Violated: it gets a random ID.                          *)
RequiredHasDefault ==
  \A c \in CallsOf(Logs) : \A r \in ItemsOf(call[c].batch) :
    (\A i \in DOMAIN config.fields : config.fields[i].default # Missing) => ~IsRandom(r)

(* processor.go:760 "'*' as a wildcard to match any sequence of characters".*)
(* Violated: it matches none with the end of a line in it, so a critical    *)
(* pattern misses messages of several lines.                                *)
WildcardMatchesAny ==
  \A c \in CallsOf(Logs) : \A r \in ItemsOf(call[c].batch), i \in DOMAIN config.critical :
    LET p == config.critical[i]
    IN  Has(r, p.field) /\ Len(p.pattern) = 3 /\ p.pattern[1] = "*" /\ p.pattern[3] = "*"
          /\ p.pattern[2] \in ToSet(FieldsOf[r][p.field])
        => matchPattern(p.pattern, FieldsOf[r][p.field])
=============================================================================

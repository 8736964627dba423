--------------------------- MODULE AdaptiveControl ---------------------------
(***************************************************************************)
(* The control loop of head sampling                                       *)
(* (internal/extension/pidcontroller/pid_controller.go: runControlCycle,   *)
(* fetchQueueUtilization; internal/pkg/tunableregistry/tunableregistry.go; *)
(* internal/processor/adaptiveheadsampler/processor.go: newTracesProcessor,*)
(* newLogsProcessor, SetValue, GetValue, setProbability).                  *)
(*                                                                         *)
(* A sampler is built from a base, which is registered under the sampler's *)
(* registry ID and then copied into the processor.  So a sampler has two   *)
(* probabilities: the one of the registered base, which the controller     *)
(* reads and writes, and the one of the copy, which ConsumeTraces and      *)
(* ConsumeLogs sample with.  The collector builds all components, in any   *)
(* order, before it starts the controller.                                 *)
(*                                                                         *)
(* Probabilities are in thousandths and utilizations in hundredths, both   *)
(* rounded down; factors are fractions <<numerator, denominator>>.         *)
(***************************************************************************)
EXTENDS Integers, FiniteSets

CONSTANTS
  Samplers,      \* the head samplers of the collector
  IDs,           \* registry IDs
  RegistryIDOf,  \* RegistryIDOf[s]: base.registryID of a sampler
  ControllerID,  \* the controller's Config.TunableRegistryID
  InitialP, MinP, MaxP,                              \* sampler Config
  TargetHigh, TargetLow,                             \* controller Config ...
  AdjustmentUp, AdjustmentDown, AggressiveDrop, EWMAAlpha,
  AggressiveDropWindowCount,
  Loads,         \* the utilizations the exporter queues may have
  Nobody         \* an ID that is not registered

Fractions == Nat \X (Nat \ {0})

ASSUME ControlAssumption ==
  /\ RegistryIDOf \in [Samplers -> IDs] /\ ControllerID \in IDs
  /\ Nobody \notin Samplers
  /\ MinP \in 0 .. 1000 /\ MaxP \in MinP .. 1000 /\ InitialP \in 0 .. 1000
  /\ TargetHigh \in 1 .. 100 /\ TargetLow \in 1 .. TargetHigh - 1
  /\ AggressiveDropWindowCount \in Nat \ {0}
  /\ Loads \subseteq 0 .. 100 /\ Loads # {}

(* Config.Validate of the controller. *)
ASSUME FactorAssumption ==
  /\ {AdjustmentUp, AdjustmentDown, AggressiveDrop, EWMAAlpha} \subseteq Fractions
  /\ AdjustmentDown[1] < AdjustmentDown[2]
  /\ AggressiveDrop[1] < AggressiveDrop[2]
  /\ EWMAAlpha[1] <= EWMAAlpha[2]

VARIABLES
  registry,   \* tunables: the sampler whose base is registered under an ID
  baseP,      \* per sampler: currentP of its registered base
  ownP,       \* per sampler: currentP of the processor's copy
  running,    \* whether the controller was started
  load,       \* the utilization of the exporter queues at the moment
  ewma,       \* ewma
  highCount,  \* highCount
  sinceDrop   \* history: ticks since the last aggressive drop, up to the window

control == <<ewma, highCount, sinceDrop>>
vars == <<registry, baseP, ownP, running, load, control>>

Unbuilt == -1

Built == {s \in Samplers : ownP[s] # Unbuilt}

Init ==
  /\ registry = [id \in IDs |-> Nobody]
  /\ baseP = [s \in Samplers |-> Unbuilt]
  /\ ownP = [s \in Samplers |-> Unbuilt]
  /\ running = FALSE
  /\ load = CHOOSE l \in Loads : TRUE
  /\ ewma = 0 /\ highCount = 0 /\ sinceDrop = AggressiveDropWindowCount

-----------------------------------------------------------------------------
(* newTracesProcessor, newLogsProcessor: register the base, copy it.        *)
Build(s) ==
  /\ ~running /\ s \notin Built
  /\ baseP' = [baseP EXCEPT ![s] = InitialP]
  /\ ownP' = [ownP EXCEPT ![s] = InitialP]
  /\ registry' = [registry EXCEPT ![RegistryIDOf[s]] = s]
  /\ UNCHANGED <<running, load, control>>

(* The pipelines need not have all the samplers. *)
Start ==
  /\ ~running
  /\ running' = TRUE
  /\ UNCHANGED <<registry, baseP, ownP, load, control>>

-----------------------------------------------------------------------------
Times(x, factor) == (x * factor[1]) \div factor[2]

Smoothed(q) ==
  (EWMAAlpha[1] * q + (EWMAAlpha[2] - EWMAAlpha[1]) * ewma) \div EWMAAlpha[2]

(* Faulty: the bounds are swapped. *)
ClampSwapped(p) == IF p < MinP THEN MaxP ELSE IF p > MaxP THEN MinP ELSE p

(* setProbability clamps. *)
Clamp(p) == IF p < MinP THEN MinP ELSE IF p > MaxP THEN MaxP ELSE p

(* runControlCycle: how many high intervals in a row there were, with this. *)
HighCount(e) == IF e > TargetHigh THEN highCount + 1 ELSE 0

Sustained(e) == HighCount(e) >= AggressiveDropWindowCount

(* Faulty: up and down are swapped. *)
NextProbabilitySwapped(p, e) ==
  IF e > TargetHigh THEN Times(p, AdjustmentUp)
  ELSE IF e < TargetLow THEN Times(p, AdjustmentDown)
  ELSE p

(* Faulty: the low threshold is never looked at. *)
NextProbabilityNeverUp(p, e) ==
  IF e > TargetHigh THEN Times(p, IF Sustained(e) THEN AggressiveDrop ELSE AdjustmentDown)
  ELSE p

(* runControlCycle: what the average makes of the probability. *)
NextProbability(p, e) ==
  IF e > TargetHigh THEN Times(p, IF Sustained(e) THEN AggressiveDrop ELSE AdjustmentDown)
  ELSE IF e < TargetLow THEN Times(p, AdjustmentUp)
  ELSE p

(* Faulty: the count goes on after an aggressive drop. *)
CountAfterNoReset(e) == HighCount(e)

(* The count starts again after an aggressive drop. *)
CountAfter(e) == IF Sustained(e) THEN 0 ELSE HighCount(e)

Older == IF sinceDrop < AggressiveDropWindowCount THEN sinceDrop + 1 ELSE sinceDrop

(* A tick of the controller when the metrics cannot be scraped. *)
ScrapeFails ==
  /\ running
  /\ sinceDrop' = Older
  /\ UNCHANGED <<registry, baseP, ownP, running, load, ewma, highCount>>

(* A tick when no tunable has the controller's ID: only the average moves.  *)
NoTunable ==
  /\ running /\ registry[ControllerID] = Nobody
  /\ ewma' = Smoothed(load)
  /\ sinceDrop' = Older
  /\ UNCHANGED <<registry, baseP, ownP, running, load, highCount>>

(* A tick that adjusts the registered base.  No other goroutine calls       *)
(* SetValue, so the cycle is one step.                                      *)
Adjust ==
  /\ running /\ registry[ControllerID] # Nobody
  /\ LET s == registry[ControllerID]
         e == Smoothed(load)
     IN  /\ ewma' = e
         /\ baseP' = [baseP EXCEPT ![s] = Clamp(NextProbability(@, e))]
         /\ highCount' = CountAfter(e)
         /\ sinceDrop' = IF Sustained(e) THEN 0 ELSE Older
  /\ UNCHANGED <<registry, ownP, running, load>>

(* The exporter queues fill and drain. *)
LoadChanges(l) ==
  /\ running /\ l # load
  /\ load' = l
  /\ UNCHANGED <<registry, baseP, ownP, running, control>>

Next ==
  \/ \E s \in Samplers : Build(s)
  \/ Start \/ ScrapeFails \/ NoTunable \/ Adjust
  \/ \E l \in Loads : LoadChanges(l)

Spec == Init /\ [][Next]_vars

(* The collector starts, the ticker ticks, and the metrics endpoint, which  *)
(* may fail to answer, answers again and again.                             *)
Fairness ==
  /\ WF_vars(Start)
  /\ SF_vars(Adjust)

FairSpec == Spec /\ Fairness

-----------------------------------------------------------------------------
Controlled == registry[ControllerID]

ControlledAt(p) == Controlled # Nobody /\ baseP[Controlled] = p

(* Type invariant; a probability is in its configured range, the initial    *)
(* one excepted, which nothing clamps.                                      *)
TypeOK ==
  /\ registry \in [IDs -> Samplers \cup {Nobody}]
  /\ baseP \in [Samplers -> MinP .. MaxP \cup {InitialP, Unbuilt}]
  /\ ownP \in [Samplers -> {InitialP, Unbuilt}]
  /\ running \in BOOLEAN /\ load \in Loads
  /\ ewma \in 0 .. 100
  /\ highCount \in 0 .. AggressiveDropWindowCount - 1
  /\ sinceDrop \in 0 .. AggressiveDropWindowCount

(* pid_controller.go:318 "Reset highCount after applying aggressive drop to *)
(* prevent immediate re-triggering": two aggressive drops are at least a    *)
(* whole window of ticks apart.                                             *)
DropsAreSpaced ==
  [][running /\ load' = load /\ sinceDrop' = 0 => Older = AggressiveDropWindowCount]_vars

(* pid_controller.go:266 "Queue utilization is too high, decrease           *)
(* probability": under pressure the controller, with its clamp, never       *)
(* raises a probability, provided it was in its range.                      *)
NeverRaisedUnderPressure ==
  [][\A s \in Samplers :
       running /\ ewma' > TargetHigh /\ baseP[s] \in MinP .. MaxP
         => baseP'[s] <= baseP[s]]_vars

(* README.md:10 "Automatically adjusts sampling rates": if the queues stay  *)
(* full the probability goes down to its minimum and stays there, whatever  *)
(* happened before and however often the scrape fails.                      *)
ShedsLoad ==
  <>[](Controlled # Nobody /\ load > TargetHigh) => <>[]ControlledAt(MinP)

(* pid_controller.go:291 "increase probability": if the queues stay empty   *)
(* it comes back up to its maximum, after any number of aggressive drops.   *)
ComesBack ==
  <>[](Controlled # Nobody /\ load = 0) => <>[]ControlledAt(MaxP)

(* README.md:23 "adjusts head sampling probability accordingly": what the   *)
(* controlled sampler samples with is what the controller set.  Violated:   *)
(* the controller writes to the base, the sampler reads its copy.           *)
SamplersFollow == Controlled # Nobody => ownP[Controlled] = baseP[Controlled]

(* docs/TUNABLEREGISTRY_GUIDE.md:17: with the default registry IDs a        *)
(* controller that runs with all samplers built finds one.  Violated: the   *)
(* samplers register as adaptive_head_sampler_traces and _logs, it looks    *)
(* for adaptive_head_sampler.                                               *)
ControllerFindsSampler == running /\ Built = Samplers => Controlled # Nobody
=============================================================================

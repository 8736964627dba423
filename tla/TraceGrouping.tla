---------------------------- MODULE TraceGrouping ----------------------------
(***************************************************************************)
(* What the trace buffers promise to the sampler, without the map, the     *)
(* lock, the clock and the goroutines: a span that is accepted waits; the  *)
(* waiting spans of one trace are delivered together, or, while no root of *)
(* theirs is among them, abandoned together.  Nothing is delivered twice   *)
(* and nothing comes back.                                                 *)
(***************************************************************************)
CONSTANTS Spans, Traces, TraceID, RootSpans

VARIABLES
  waiting,    \* accepted spans whose fate is open
  delivered,  \* the sets of spans that were handed on, each as one unit
  abandoned   \* spans given up

gvars == <<waiting, delivered, abandoned>>

SpansDelivered == UNION delivered

Init ==
  /\ waiting = {}
  /\ delivered = {}
  /\ abandoned = {}

Accept(s) ==
  /\ s \notin waiting \cup SpansDelivered \cup abandoned
  /\ waiting' = waiting \cup {s}
  /\ UNCHANGED <<delivered, abandoned>>

Deliver(U) ==
  /\ U # {}
  /\ \E t \in Traces : \A s \in U : TraceID[s] = t
  /\ waiting' = waiting \ U
  /\ delivered' = delivered \cup {U}
  /\ UNCHANGED abandoned

Abandon(L) ==
  /\ L \cap RootSpans = {}
  /\ waiting' = waiting \ L
  /\ abandoned' = abandoned \cup L
  /\ UNCHANGED delivered

Next ==
  \/ \E s \in Spans : Accept(s)
  \/ \E U \in SUBSET waiting : Deliver(U)
  \/ \E L \in SUBSET waiting : Abandon(L)

Spec == Init /\ [][Next]_gvars
=============================================================================

----------------------- MODULE TraceBufferMap_proofs -----------------------
(***************************************************************************)
(* Proofs about TraceBufferMap, for every set of spans, traces, consumers  *)
(* and every timeout.  The inductive invariant is the conjunction of the   *)
(* invariants the runs check: which spans a step moves is only known from  *)
(* where they were (ExactlyOnePlace), cleanup() drops no root only because *)
(* no root is in the map (RootNeverWaits), and so on.                      *)
(***************************************************************************)
EXTENDS TraceBufferMap, FiniteSetTheorems, TLAPS

IInv == TypeOK /\ RootNeverWaits /\ UnitsWellFormed /\ ExactlyOnePlace

(* A new buffer, an extended buffer and a unit have their types. *)
LEMMA BufferTypes ==
  /\ NoBuffer \in TraceBuffer
  /\ \A b \in TraceBuffer, s \in Spans : WithSpan(b, s) \in TraceBuffer
  /\ \A b \in TraceBuffer, t \in Traces : UnitOf(t, b) \in Unit
  /\ \A x \in Clock : Older(x) \in Clock
<1> USE TTLAssumption, TraceAssumption
<1>1. \A x \in Clock : Older(x) \in Clock
  BY DEF Older, Clock
<1>2. 0 \in Clock
  BY DEF Clock
<1>3. NoBuffer \in TraceBuffer
  BY <1>2 DEF NoBuffer, TraceBuffer
<1>4. ASSUME NEW b \in TraceBuffer, NEW s \in Spans
      PROVE  WithSpan(b, s) \in TraceBuffer
  <2>1. (b.hasRootSpan \/ isRoot(s)) \in BOOLEAN
    OBVIOUS
  <2>2. b.spans \cup {s} \in SUBSET Spans
    BY <1>4 DEF TraceBuffer
  <2>3. QED
    BY <1>2, <1>4, <2>1, <2>2 DEF WithSpan, TraceBuffer
<1>5. \A b \in TraceBuffer, t \in Traces : UnitOf(t, b) \in Unit
  BY DEF TraceBuffer, UnitOf, Unit
<1>6. QED
  BY <1>1, <1>3, <1>4, <1>5

(* Every variable keeps its type. *)
LEMMA InitType == Init => TypeOK
<1> SUFFICES ASSUME Init PROVE TypeOK
  OBVIOUS
<1> USE DEF Init
<1>1. buffers \in [Traces -> TraceBuffer]
  BY BufferTypes
<1>2. taken \in [Consumers -> SUBSET Unit]
  OBVIOUS
<1>3. pc \in [Consumers -> {"idle", "added"}]
  OBVIOUS
<1>4. QED
  BY <1>1, <1>2, <1>3 DEF TypeOK

LEMMA NextType == TypeOK /\ [Next]_vars => TypeOK'
<1> SUFFICES ASSUME TypeOK, [Next]_vars PROVE TypeOK'
  OBVIOUS
<1> USE TraceAssumption, TTLAssumption DEF TypeOK
<1>1. ASSUME NEW c \in Consumers, NEW s \in Spans, AddSpan(c, s) PROVE TypeOK'
  <2> DEFINE t == TraceID[s]
             b == WithSpan(buffers[t], s)
  <2>1. t \in Traces /\ b \in TraceBuffer /\ UnitOf(t, b) \in Unit
    BY BufferTypes
  <2> HIDE DEF b
  <2>2. /\ arrived' \subseteq Spans
        /\ pc' \in [Consumers -> {"idle", "added"}]
        /\ UNCHANGED <<sampled, expired, completeTraceCount, timedOutTraceCount,
                       reported, reporter, stopping, cleaner>>
    BY <1>1 DEF AddSpan
  <2>3. buffers' \in [Traces -> TraceBuffer] /\ taken' \in [Consumers -> SUBSET Unit]
    <3>1. CASE isComplete(b)
      <4>1. /\ buffers' = [buffers EXCEPT ![t] = NoBuffer]
            /\ taken' = [taken EXCEPT ![c] = {UnitOf(t, b)}]
        BY <1>1, <3>1 DEF AddSpan, b, isComplete
      <4>2. {UnitOf(t, b)} \in SUBSET Unit
        BY <2>1
      <4>3. QED BY <2>1, <4>1, <4>2, BufferTypes
    <3>2. CASE ~isComplete(b)
      BY <1>1, <2>1, <3>2, BufferTypes DEF AddSpan, b
    <3>3. QED BY <3>1, <3>2
  <2>4. QED BY <2>2, <2>3
<1>2. ASSUME NEW c \in Consumers, SampleTrace(c) PROVE TypeOK'
  BY <1>2 DEF SampleTrace, Count
<1>3. ASSUME NEW c \in Consumers, Collect(c) PROVE TypeOK'
  <2>1. {UnitOf(t, buffers[t]) : t \in Due} \subseteq Unit
    BY BufferTypes DEF Due, Present
  <2>2. Without(Due) \in [Traces -> TraceBuffer]
    BY BufferTypes DEF Without
  <2>3. QED BY <1>3, <2>1, <2>2 DEF Collect
<1>4. CASE Cleanup
  <2>1. Without(Expired) \in [Traces -> TraceBuffer]
    BY BufferTypes DEF Without
  <2>2. UNION {buffers[t].spans : t \in Expired} \subseteq Spans
    BY DEF Expired, Present, TraceBuffer
  <2>3. QED BY <1>4, <2>1, <2>2 DEF Cleanup
<1>5. CASE Tick
  <2>1. \A t \in Traces :
          [buffers[t] EXCEPT !.age = Older(@), !.stay = Older(@)] \in TraceBuffer
    BY BufferTypes DEF TraceBuffer
  <2>2. QED BY <1>5, <2>1 DEF Tick
<1>6. CASE Shutdown
  BY <1>6 DEF Shutdown
<1>7. CASE CleanerExit
  BY <1>7 DEF CleanerExit
<1>8. CASE ReportComplete
  BY <1>8 DEF ReportComplete
<1>9. CASE ReportTimedOut
  BY <1>9 DEF ReportTimedOut
<1>10. CASE ReporterExit
  BY <1>10 DEF ReporterExit
<1>11. CASE UNCHANGED vars
  BY <1>11 DEF vars
<1>12. QED
  BY <1>1, <1>2, <1>3, <1>4, <1>5, <1>6, <1>7, <1>8, <1>9, <1>10, <1>11 DEF Next

(* The type invariant of the trace buffers, for every instance. *)
THEOREM TypeCorrect == Spec => []TypeOK
BY InitType, NextType, PTL DEF Spec

-----------------------------------------------------------------------------
(* How each action moves spans between the places they can be in. *)

(* The buffers that Collect or Cleanup takes out of the map. *)
SpansIn(ts) == UNION {buffers[t].spans : t \in ts}

LEMMA WithoutMoves ==
  ASSUME RootNeverWaits, NEW ts \in SUBSET Traces, buffers' = Without(ts)
  PROVE  Resident' = Resident \ SpansIn(ts) /\ SpansIn(ts) \subseteq Resident
<1>1. \A t \in Traces :
        buffers'[t].spans = IF t \in ts THEN {} ELSE buffers[t].spans
  BY DEF Without, NoBuffer
<1>2. \A t, u \in Traces : t # u => Disjoint(buffers[t].spans, buffers[u].spans)
  BY DEF RootNeverWaits, Disjoint
<1>3. ASSUME NEW x PROVE x \in Resident' <=> x \in Resident \ SpansIn(ts)
  BY <1>1, <1>2 DEF Resident, SpansIn, Disjoint
<1>4. SpansIn(ts) \subseteq Resident
  BY DEF Resident, SpansIn
<1>5. QED BY <1>3, <1>4

LEMMA TakenMember ==
  \A x : /\ x \in Taken <=> \E c \in Consumers : \E u \in taken[c] : x \in u.spans
         /\ x \in Taken' <=> \E c \in Consumers : \E u \in taken'[c] : x \in u.spans
BY DEF Taken, SpansOf

LEMMA AddSpanMoves ==
  ASSUME TypeOK, RootNeverWaits, NEW c \in Consumers, NEW s \in Spans, AddSpan(c, s)
  PROVE  /\ arrived' = arrived \cup {s} /\ s \notin arrived
         /\ \/ Resident' = Resident \cup {s} /\ taken' = taken /\ Taken' = Taken
            \/ /\ isRoot(s)
               /\ Resident' = Resident \ buffers[TraceID[s]].spans
               /\ buffers[TraceID[s]].spans \subseteq Resident
               /\ Taken' = Taken \cup buffers[TraceID[s]].spans \cup {s}
               /\ taken[c] = {}
               /\ taken' = [taken EXCEPT ![c] =
                    {[traceID |-> TraceID[s],
                      spans |-> buffers[TraceID[s]].spans \cup {s},
                      hasRootSpan |-> TRUE]}]
<1> DEFINE t == TraceID[s]
           b == WithSpan(buffers[t], s)
<1>1. t \in Traces /\ ~buffers[t].hasRootSpan /\ buffers[t] \in TraceBuffer
  BY TraceAssumption DEF RootNeverWaits, TypeOK
<1>2. /\ b.spans = buffers[t].spans \cup {s}
      /\ b.hasRootSpan <=> isRoot(s)
  BY <1>1 DEF WithSpan, TraceBuffer
<1>3. buffers \in [Traces -> TraceBuffer]
  BY DEF TypeOK
<1> HIDE DEF b
<1>4. CASE isComplete(b)
  <2>1. /\ isRoot(s)
        /\ buffers' = [buffers EXCEPT ![t] = NoBuffer]
        /\ taken[c] = {}
        /\ taken' = [taken EXCEPT ![c] = {UnitOf(t, b)}]
    BY <1>2, <1>4 DEF AddSpan, b, isComplete
  <2>2. buffers' = Without({t})
    BY <1>1, <1>3, <2>1 DEF Without
  <2>3. SpansIn({t}) = buffers[t].spans
    BY DEF SpansIn
  <2>4. Resident' = Resident \ buffers[t].spans /\ buffers[t].spans \subseteq Resident
    BY <1>1, <2>2, <2>3, WithoutMoves
  <2>5. b.hasRootSpan = TRUE
    <3>1. b \in TraceBuffer
      BY <1>1, BufferTypes DEF b
    <3>2. QED BY <1>4, <3>1 DEF isComplete, TraceBuffer
  <2>6. UnitOf(t, b) = [traceID |-> t, spans |-> buffers[t].spans \cup {s},
                        hasRootSpan |-> TRUE]
    BY <1>2, <2>5 DEF UnitOf
  <2>7. Taken' = Taken \cup buffers[t].spans \cup {s}
    <3> DEFINE new == UnitOf(t, b)
    <3>1. new.spans = buffers[t].spans \cup {s}
      BY <2>6
    <3> HIDE DEF new
    <3>2. \A d \in Consumers : taken'[d] = IF d = c THEN {new} ELSE taken[d]
      BY <2>1 DEF TypeOK, new
    <3>3. ASSUME NEW x
          PROVE  x \in Taken' <=> x \in Taken \cup buffers[t].spans \cup {s}
      <4>1. x \in Taken' <=>
              \/ x \in new.spans
              \/ \E d \in Consumers : d # c /\ \E u \in taken[d] : x \in u.spans
        BY <3>2, TakenMember
      <4>2. x \in Taken <=>
              \E d \in Consumers : d # c /\ \E u \in taken[d] : x \in u.spans
        BY <2>1, TakenMember
      <4>3. QED BY <3>1, <4>1, <4>2
    <3>4. QED BY <3>3
  <2>8. QED BY <2>1, <2>4, <2>6, <2>7 DEF AddSpan
<1>5. CASE ~isComplete(b)
  <2>1. buffers' = [buffers EXCEPT ![t] = b] /\ taken' = taken
    BY <1>2, <1>5 DEF AddSpan, b, isComplete
  <2>2. \A x \in Traces : buffers'[x].spans =
          IF x = t THEN buffers[t].spans \cup {s} ELSE buffers[x].spans
    BY <1>2, <1>3, <2>1
  <2>3. ASSUME NEW x PROVE x \in Resident' <=> x \in Resident \cup {s}
    BY <1>1, <2>2 DEF Resident
  <2>4. QED BY <2>1, <2>3 DEF AddSpan, Taken, SpansOf
<1>6. QED BY <1>4, <1>5

LEMMA SampleTraceMoves ==
  ASSUME TypeOK, NoSharing, NEW c \in Consumers, NEW u \in taken[c],
         taken' = [taken EXCEPT ![c] = @ \ {u}]
  PROVE  /\ u.spans \subseteq Taken
         /\ Taken' = Taken \ u.spans
<1>1. taken \in [Consumers -> SUBSET Unit]
  BY DEF TypeOK
<1>2. \A d \in Consumers : taken'[d] = IF d = c THEN taken[c] \ {u} ELSE taken[d]
  BY <1>1
<1>3. u.spans \subseteq Taken
  BY TakenMember
<1>4. ASSUME NEW d \in Consumers, NEW v \in taken'[d] PROVE Disjoint(u.spans, v.spans)
  BY <1>2, <1>4 DEF NoSharing, Disjoint
<1>5. ASSUME NEW x PROVE x \in Taken' <=> x \in Taken \ u.spans
  BY <1>2, <1>4 DEF Taken, SpansOf, Disjoint
<1>6. QED BY <1>3, <1>5

LEMMA CollectMoves ==
  ASSUME TypeOK, NEW c \in Consumers, Collect(c)
  PROVE  Taken' = Taken \cup SpansIn(Due)
<1>1. taken \in [Consumers -> SUBSET Unit]
  BY DEF TypeOK
<1>2. /\ taken[c] = {}
      /\ \A d \in Consumers : taken'[d] =
           IF d = c THEN {UnitOf(t, buffers[t]) : t \in Due} ELSE taken[d]
  BY <1>1 DEF Collect
<1>3. ASSUME NEW x PROVE x \in Taken' <=> x \in Taken \cup SpansIn(Due)
  <2>1. x \in SpansIn(Due) <=> \E u \in {UnitOf(t, buffers[t]) : t \in Due} : x \in u.spans
    <3>1. \A t \in Due : UnitOf(t, buffers[t]).spans = buffers[t].spans
      BY DEF UnitOf
    <3>2. x \in SpansIn(Due) <=> \E t \in Due : x \in buffers[t].spans
      BY DEF SpansIn
    <3>3. QED BY <3>1, <3>2
  <2>2. QED BY <1>2, <2>1, TakenMember
<1>4. QED BY <1>3

-----------------------------------------------------------------------------
(* The inductive step, one action at a time. *)

LEMMA AddSpanSafe ==
  ASSUME IInv, NEW c \in Consumers, NEW s \in Spans, AddSpan(c, s)
  PROVE  RootNeverWaits' /\ UnitsWellFormed' /\ ExactlyOnePlace'
<1> DEFINE t == TraceID[s]
           W == buffers[t].spans
           new == [traceID |-> t, spans |-> W \cup {s}, hasRootSpan |-> TRUE]
<1>0. new.traceID = t /\ new.spans = W \cup {s} /\ new.hasRootSpan = TRUE
  OBVIOUS
<1>1. TypeOK /\ RootNeverWaits /\ UnitsWellFormed /\ Partition /\ NoSharing
  BY DEF IInv, ExactlyOnePlace
<1>2. /\ buffers \in [Traces -> TraceBuffer] /\ t \in Traces
      /\ taken \in [Consumers -> SUBSET Unit]
  BY <1>1, TraceAssumption DEF TypeOK
<1>3. UNCHANGED <<sampled, expired>>
  BY DEF AddSpan
<1>4. Sampled' = Sampled
  BY <1>3 DEF Sampled, SpansOf
<1>5. RootNeverWaits'
  <2>1. CASE isComplete(WithSpan(buffers[t], s))
    <3>1. buffers' = [buffers EXCEPT ![t] = NoBuffer]
      BY <2>1 DEF AddSpan
    <3>2. QED BY <1>1, <1>2, <1>3, <3>1 DEF RootNeverWaits, NoBuffer, Disjoint
  <2>2. CASE ~isComplete(WithSpan(buffers[t], s))
    <3>1. buffers' = [buffers EXCEPT ![t] = WithSpan(buffers[t], s)]
      BY <2>2 DEF AddSpan
    <3>2. WithSpan(buffers[t], s).spans = W \cup {s}
      BY <1>2 DEF WithSpan, TraceBuffer
    <3>3. ~WithSpan(buffers[t], s).hasRootSpan /\ ~isRoot(s)
      BY <1>2, <2>2 DEF WithSpan, TraceBuffer, isComplete
    <3>4. QED
      BY <1>1, <1>2, <1>3, <3>1, <3>2, <3>3 DEF RootNeverWaits, isRoot, Disjoint
  <2>3. QED BY <2>1, <2>2
<1>6. CASE Resident' = Resident \cup {s} /\ taken' = taken /\ Taken' = Taken
  <2>2. Partition'
    BY <1>1, <1>3, <1>4, <1>6, AddSpanMoves DEF Partition, Disjoint
  <2>3. NoSharing' /\ UnitsWellFormed'
    BY <1>1, <1>3, <1>6 DEF NoSharing, UnitsWellFormed, Disjoint
  <2>4. QED BY <1>5, <2>2, <2>3 DEF ExactlyOnePlace
<1> HIDE DEF new
<1>7. CASE /\ isRoot(s)
           /\ Resident' = Resident \ W
           /\ W \subseteq Resident
           /\ Taken' = Taken \cup W \cup {s}
           /\ taken[c] = {}
           /\ taken' = [taken EXCEPT ![c] = {new}]
  <2>1. \A d \in Consumers : taken'[d] = IF d = c THEN {new} ELSE taken[d]
    BY <1>2, <1>7
  <2>4. Partition'
    <3>1. arrived' = arrived \cup {s} /\ s \notin arrived
      BY DEF AddSpan
    <3>2. QED BY <1>1, <1>3, <1>4, <1>7, <3>1 DEF Partition, Disjoint
  <2>5. ASSUME NEW d \in Consumers, NEW u \in taken[d] PROVE Disjoint(u.spans, new.spans)
    <3>1. u.spans \subseteq Taken
      BY <2>5, TakenMember
    <3>2. s \notin arrived
      BY DEF AddSpan
    <3>3. QED BY <1>0, <1>1, <1>7, <3>1, <3>2 DEF Partition, Disjoint
  <2>6. NoSharing'
    <3>1. \A d \in Consumers : d # c => taken'[d] = taken[d]
      BY <2>1
    <3>2. taken'[c] = {new}
      BY <2>1
    <3>3. ASSUME NEW d \in Consumers, NEW e \in Consumers,
                 NEW u \in taken'[d], NEW v \in taken'[e]
          PROVE  Disjoint(u.spans, v.spans) \/ (d = e /\ u = v)
      <4>1. CASE d = c /\ e = c
        BY <3>2, <3>3, <4>1
      <4>2. CASE d # c /\ e = c
        BY <2>5, <3>1, <3>2, <3>3, <4>2
      <4>3. CASE d = c /\ e # c
        BY <2>5, <3>1, <3>2, <3>3, <4>3 DEF Disjoint
      <4>4. CASE d # c /\ e # c
        BY <1>1, <3>1, <3>3, <4>4 DEF NoSharing
      <4>5. QED BY <4>1, <4>2, <4>3, <4>4
    <3>4. QED BY <1>1, <1>3, <3>3 DEF NoSharing
  <2>7. WellFormed(new)
    BY <1>0, <1>1, <1>2, <1>7 DEF WellFormed, RootNeverWaits, isRoot
  <2>8. UnitsWellFormed'
    BY <1>1, <1>3, <2>1, <2>7 DEF UnitsWellFormed
  <2>9. QED BY <1>5, <2>4, <2>6, <2>8 DEF ExactlyOnePlace
<1>8. QED BY <1>1, <1>6, <1>7, AddSpanMoves DEF new

LEMMA SampleTraceSafe ==
  ASSUME IInv, NEW c \in Consumers, SampleTrace(c)
  PROVE  RootNeverWaits' /\ UnitsWellFormed' /\ ExactlyOnePlace'
<1>1. TypeOK /\ RootNeverWaits /\ UnitsWellFormed /\ Partition /\ NoSharing
  BY DEF IInv, ExactlyOnePlace
<1>2. PICK u \in taken[c] :
        /\ taken' = [taken EXCEPT ![c] = @ \ {u}]
        /\ sampled' = sampled \cup {u}
        /\ UNCHANGED <<arrived, buffers, expired>>
  BY DEF SampleTrace
<1>3. u.spans \subseteq Taken /\ Taken' = Taken \ u.spans
  BY <1>1, <1>2, SampleTraceMoves
<1>4. Resident' = Resident
  BY <1>2 DEF Resident
<1>5. ASSUME NEW x PROVE x \in Sampled' <=> x \in Sampled \cup u.spans
  BY <1>2 DEF Sampled, SpansOf
<1>6. Partition'
  BY <1>1, <1>2, <1>3, <1>4, <1>5 DEF Partition, Disjoint
<1>7. \A d \in Consumers : taken'[d] = IF d = c THEN taken[c] \ {u} ELSE taken[d]
  BY <1>1, <1>2 DEF TypeOK
<1>8. \A v \in sampled : Disjoint(u.spans, v.spans)
  BY <1>1, <1>3 DEF Partition, Disjoint, Sampled, SpansOf
<1>9. NoSharing'
  BY <1>1, <1>2, <1>7, <1>8 DEF NoSharing, Disjoint
<1>10. UnitsWellFormed'
  BY <1>1, <1>2, <1>7 DEF UnitsWellFormed
<1>11. RootNeverWaits'
  BY <1>1, <1>2 DEF RootNeverWaits, Disjoint
<1>12. QED BY <1>6, <1>9, <1>10, <1>11 DEF ExactlyOnePlace

LEMMA CollectSafe ==
  ASSUME IInv, NEW c \in Consumers, Collect(c)
  PROVE  RootNeverWaits' /\ UnitsWellFormed' /\ ExactlyOnePlace'
<1> DEFINE U == {UnitOf(t, buffers[t]) : t \in Due}
<1>1. TypeOK /\ RootNeverWaits /\ UnitsWellFormed /\ Partition /\ NoSharing
  BY DEF IInv, ExactlyOnePlace
<1>2. /\ Due \subseteq Traces
      /\ buffers' = Without(Due)
      /\ UNCHANGED <<arrived, sampled, expired>>
  BY DEF Collect, Due, Present
<1>3. /\ taken[c] = {}
      /\ \A d \in Consumers : taken'[d] = IF d = c THEN U ELSE taken[d]
  BY <1>1 DEF Collect, TypeOK
<1>4. /\ Resident' = Resident \ SpansIn(Due) /\ SpansIn(Due) \subseteq Resident
      /\ Taken' = Taken \cup SpansIn(Due)
      /\ Sampled' = Sampled
  BY <1>1, <1>2, WithoutMoves, CollectMoves DEF Sampled, SpansOf
<1>5. Partition'
  BY <1>1, <1>2, <1>4 DEF Partition, Disjoint
<1>6. \A u \in U : WellFormed(u) /\ u.spans \subseteq Resident
  BY <1>1 DEF Due, Present, UnitOf, WellFormed, RootNeverWaits, TypeOK, TraceBuffer,
              Resident
<1>7. \A u, v \in U : u = v \/ Disjoint(u.spans, v.spans)
  BY <1>1, <1>2 DEF UnitOf, RootNeverWaits, Disjoint
<1>8. \A d \in Consumers : \A u \in taken[d], v \in U : Disjoint(u.spans, v.spans)
  BY <1>1, <1>6, TakenMember DEF Partition, Disjoint
<1>9. NoSharing'
  BY <1>1, <1>2, <1>3, <1>7, <1>8 DEF NoSharing, Disjoint
<1>10. UnitsWellFormed'
  BY <1>1, <1>2, <1>3, <1>6 DEF UnitsWellFormed
<1>11. RootNeverWaits'
  BY <1>1, <1>2 DEF RootNeverWaits, Without, NoBuffer, Disjoint
<1>12. QED BY <1>5, <1>9, <1>10, <1>11 DEF ExactlyOnePlace

LEMMA CleanupSafe ==
  ASSUME IInv, Cleanup
  PROVE  RootNeverWaits' /\ UnitsWellFormed' /\ ExactlyOnePlace'
<1>1. TypeOK /\ RootNeverWaits /\ UnitsWellFormed /\ Partition /\ NoSharing
  BY DEF IInv, ExactlyOnePlace
<1>2. /\ Expired \subseteq Traces
      /\ buffers' = Without(Expired)
      /\ expired' = expired \cup SpansIn(Expired)
      /\ UNCHANGED <<arrived, taken, sampled>>
  BY DEF Cleanup, Expired, Present, SpansIn
<1>3. /\ Resident' = Resident \ SpansIn(Expired) /\ SpansIn(Expired) \subseteq Resident
      /\ Taken' = Taken /\ Sampled' = Sampled
  BY <1>1, <1>2, WithoutMoves DEF Sampled, Taken, SpansOf
<1>4. Partition'
  BY <1>1, <1>2, <1>3 DEF Partition, Disjoint
<1>5. NoSharing' /\ UnitsWellFormed'
  BY <1>1, <1>2 DEF NoSharing, UnitsWellFormed, Disjoint
<1>6. Disjoint(RootSpans, SpansIn(Expired))
  BY <1>1, <1>2 DEF RootNeverWaits, SpansIn, Disjoint
<1>7. RootNeverWaits'
  BY <1>1, <1>2, <1>6 DEF RootNeverWaits, Without, NoBuffer, Disjoint
<1>8. QED BY <1>4, <1>5, <1>7 DEF ExactlyOnePlace

LEMMA TickSafe ==
  ASSUME IInv, Tick
  PROVE  RootNeverWaits' /\ UnitsWellFormed' /\ ExactlyOnePlace'
<1>1. TypeOK /\ RootNeverWaits /\ UnitsWellFormed /\ Partition /\ NoSharing
  BY DEF IInv, ExactlyOnePlace
<1>2. UNCHANGED <<arrived, taken, sampled, expired>>
  BY DEF Tick
<1>3. \A t \in Traces : /\ buffers'[t].spans = buffers[t].spans
                        /\ buffers'[t].hasRootSpan = buffers[t].hasRootSpan
  BY <1>1 DEF Tick, TypeOK, TraceBuffer
<1>4. Resident' = Resident /\ Taken' = Taken /\ Sampled' = Sampled
  BY <1>2, <1>3 DEF Resident, Taken, Sampled, SpansOf
<1>5. QED
  BY <1>1, <1>2, <1>3, <1>4
     DEF ExactlyOnePlace, Partition, NoSharing, UnitsWellFormed,
         RootNeverWaits, Disjoint

LEMMA OtherSafe ==
  ASSUME IInv, UNCHANGED <<arrived, buffers, taken, sampled, expired>>
  PROVE  RootNeverWaits' /\ UnitsWellFormed' /\ ExactlyOnePlace'
BY DEF IInv, ExactlyOnePlace, Partition, NoSharing, UnitsWellFormed,
       RootNeverWaits, Disjoint, Resident, Taken, Sampled, SpansOf

LEMMA InitSafe == Init => IInv
<1> SUFFICES ASSUME Init PROVE IInv
  OBVIOUS
<1>1. TypeOK
  BY InitType
<1>2. Resident = {} /\ Taken = {} /\ Sampled = {}
  BY DEF Init, Resident, Taken, Sampled, SpansOf, NoBuffer
<1>3. Partition /\ NoSharing
  BY <1>2 DEF Init, Partition, NoSharing, Disjoint
<1>4. UnitsWellFormed
  BY DEF Init, UnitsWellFormed
<1>5. RootNeverWaits
  BY DEF Init, RootNeverWaits, NoBuffer, Disjoint
<1>6. QED BY <1>1, <1>3, <1>4, <1>5 DEF IInv, ExactlyOnePlace

LEMMA NextSafe == IInv /\ [Next]_vars => IInv'
<1> SUFFICES ASSUME IInv, [Next]_vars PROVE IInv'
  OBVIOUS
<1>1. TypeOK'
  BY NextType DEF IInv
<1>2. RootNeverWaits' /\ UnitsWellFormed' /\ ExactlyOnePlace'
  <2>1. CASE Shutdown
    BY <2>1, OtherSafe DEF Shutdown
  <2>2. CASE CleanerExit
    BY <2>2, OtherSafe DEF CleanerExit
  <2>3. CASE ReportComplete \/ ReportTimedOut \/ ReporterExit
    BY <2>3, OtherSafe DEF ReportComplete, ReportTimedOut, ReporterExit
  <2>4. CASE UNCHANGED vars
    BY <2>4, OtherSafe DEF vars
  <2>5. QED
    BY <2>1, <2>2, <2>3, <2>4, AddSpanSafe, SampleTraceSafe, CollectSafe, CleanupSafe,
       TickSafe DEF Next
<1>3. QED BY <1>1, <1>2 DEF IInv

LEMMA Invariance == Spec => []IInv
BY InitSafe, NextSafe, PTL DEF Spec

-----------------------------------------------------------------------------
(* A span that arrived is in exactly one place, whatever the consumers and  *)
(* the cleaner do and in whatever order.                                    *)
THEOREM SpanInOnePlace == Spec => []ExactlyOnePlace
<1>1. IInv => ExactlyOnePlace
  BY DEF IInv
<1>2. QED BY <1>1, Invariance, PTL

(* A root span never waits in the map and cleanup() never drops one. *)
THEOREM RootsAreNeverDropped == Spec => []RootNeverWaits
<1>1. IInv => RootNeverWaits
  BY DEF IInv
<1>2. QED BY <1>1, Invariance, PTL

(* Every unit of sampling is a nonempty part of one trace. *)
THEOREM UnitsAreTraces == Spec => []UnitsWellFormed
<1>1. IInv => UnitsWellFormed
  BY DEF IInv
<1>2. QED BY <1>1, Invariance, PTL

-----------------------------------------------------------------------------
(* Counting units.  A unit is counted when it is sampled, and was not sampled *)
(* before, as its spans were not; the reporter moves a count from a counter   *)
(* to what it reported.                                                       *)
CountedComplete == {u \in sampled : isComplete(u)}
CountedTimedOut == {u \in sampled : ~isComplete(u)}

TotalComplete == reported.complete + completeTraceCount
TotalTimedOut == reported.timedOut + timedOutTraceCount

Counted ==
  /\ TotalComplete = Cardinality(CountedComplete) /\ IsFiniteSet(CountedComplete)
  /\ TotalTimedOut = Cardinality(CountedTimedOut) /\ IsFiniteSet(CountedTimedOut)

LEMMA SampleTraceCounts ==
  ASSUME IInv, Counted, NEW c \in Consumers, SampleTrace(c)
  PROVE  Counted'
<1>1. PICK u \in taken[c] : sampled' = sampled \cup {u} /\ Count(u) /\ UNCHANGED reported
  BY DEF SampleTrace
<1>2. u \notin sampled
  <2>1. u.spans # {} /\ u.spans \subseteq Taken
    BY TakenMember DEF IInv, UnitsWellFormed, WellFormed
  <2>2. u \in sampled => u.spans \subseteq Sampled
    BY DEF Sampled, SpansOf
  <2>3. QED
    BY <2>1, <2>2 DEF IInv, ExactlyOnePlace, Partition, Disjoint
<1>3. /\ TotalComplete = Cardinality(CountedComplete) /\ IsFiniteSet(CountedComplete)
      /\ TotalTimedOut = Cardinality(CountedTimedOut) /\ IsFiniteSet(CountedTimedOut)
  BY DEF Counted
<1>4. /\ completeTraceCount \in Nat /\ timedOutTraceCount \in Nat
      /\ reported.complete \in Nat /\ reported.timedOut \in Nat
  BY DEF IInv, TypeOK
<1>5. CASE isComplete(u)
  <2>1. CountedComplete' = CountedComplete \cup {u} /\ CountedTimedOut' = CountedTimedOut
    BY <1>1, <1>5 DEF CountedComplete, CountedTimedOut
  <2>2. u \notin CountedComplete
    BY <1>2 DEF CountedComplete
  <2>3. TotalComplete' = TotalComplete + 1 /\ TotalTimedOut' = TotalTimedOut
    BY <1>1, <1>4, <1>5 DEF Count, TotalComplete, TotalTimedOut
  <2>4. TotalComplete' = Cardinality(CountedComplete') /\ IsFiniteSet(CountedComplete')
    BY <1>3, <2>1, <2>2, <2>3, FS_AddElement
  <2>5. QED
    BY <1>3, <2>1, <2>3, <2>4 DEF Counted
<1>6. CASE ~isComplete(u)
  <2>1. CountedTimedOut' = CountedTimedOut \cup {u} /\ CountedComplete' = CountedComplete
    BY <1>1, <1>6 DEF CountedComplete, CountedTimedOut
  <2>2. u \notin CountedTimedOut
    BY <1>2 DEF CountedTimedOut
  <2>3. TotalTimedOut' = TotalTimedOut + 1 /\ TotalComplete' = TotalComplete
    BY <1>1, <1>4, <1>6 DEF Count, TotalComplete, TotalTimedOut
  <2>4. TotalTimedOut' = Cardinality(CountedTimedOut') /\ IsFiniteSet(CountedTimedOut')
    BY <1>3, <2>1, <2>2, <2>3, FS_AddElement
  <2>5. QED
    BY <1>3, <2>1, <2>3, <2>4 DEF Counted
<1>7. QED
  BY <1>5, <1>6

LEMMA ReportMovesCounts ==
  ASSUME IInv, ReportComplete \/ ReportTimedOut
  PROVE  /\ TotalComplete' = TotalComplete
         /\ TotalTimedOut' = TotalTimedOut
         /\ UNCHANGED sampled
<1>1. /\ completeTraceCount \in Nat /\ timedOutTraceCount \in Nat
      /\ reported \in [complete : Nat, timedOut : Nat]
  BY DEF IInv, TypeOK
<1>2. QED
  BY <1>1 DEF ReportComplete, ReportTimedOut, TotalComplete, TotalTimedOut

(* processSpan and reportTraceMetrics: every unit that was given to         *)
(* sampleTrace is counted once, by how it was completed, and its count is   *)
(* in the counter or has been reported, however the swaps interleave.       *)
THEOREM UnitsAreCounted == Spec => []CountersMatchUnits
<1>1. Init => Counted
  BY FS_EmptySet
     DEF Init, Counted, CountedComplete, CountedTimedOut, TotalComplete, TotalTimedOut
<1>2. IInv /\ Counted /\ [Next]_vars => Counted'
  <2> SUFFICES ASSUME IInv, Counted, [Next]_vars PROVE Counted'
    OBVIOUS
  <2>1. CASE UNCHANGED <<sampled, completeTraceCount, timedOutTraceCount, reported>>
    BY <2>1 DEF Counted, CountedComplete, CountedTimedOut, TotalComplete, TotalTimedOut
  <2>2. CASE ReportComplete \/ ReportTimedOut
    BY <2>2, ReportMovesCounts DEF Counted, CountedComplete, CountedTimedOut
  <2>3. QED
    BY <2>1, <2>2, SampleTraceCounts
       DEF Next, AddSpan, Collect, Cleanup, Tick, Shutdown, CleanerExit,
           ReporterExit, vars
<1>3. Counted => CountersMatchUnits
  BY DEF Counted, CountersMatchUnits, CountedComplete, CountedTimedOut,
         TotalComplete, TotalTimedOut
<1>4. QED
  BY <1>1, <1>2, <1>3, Invariance, PTL DEF Spec

(* A trace leaves the map whole, and only because its root has arrived or   *)
(* its timeout has passed.                                                  *)
THEOREM LeavingHasAReason == Spec => LeavesForAReason
<1> DEFINE Step == \A t \in Traces :
       ~(buffers[t].spans \subseteq buffers'[t].spans)
         => /\ buffers'[t].spans = {}
            /\ \/ buffers[t].age > BufferTTL
               \/ \E s \in arrived' \ arrived : s \in RootSpans /\ TraceID[s] = t
<1>1. ASSUME IInv, [Next]_vars, NEW t \in Traces,
             ~(buffers[t].spans \subseteq buffers'[t].spans)
      PROVE  /\ buffers'[t].spans = {}
             /\ \/ buffers[t].age > BufferTTL
                \/ \E s \in arrived' \ arrived : s \in RootSpans /\ TraceID[s] = t
  <2>1. TypeOK /\ RootNeverWaits
    BY <1>1 DEF IInv
  <2>2. buffers \in [Traces -> TraceBuffer]
    BY <2>1 DEF TypeOK
  <2>3. ASSUME NEW c \in Consumers, NEW s \in Spans, AddSpan(c, s)
        PROVE  /\ buffers'[t].spans = {}
               /\ s \in arrived' \ arrived /\ s \in RootSpans /\ TraceID[s] = t
    <3>1. TraceID[s] \in Traces /\ ~buffers[TraceID[s]].hasRootSpan
      BY <2>1, TraceAssumption DEF RootNeverWaits
    <3>2. WithSpan(buffers[TraceID[s]], s).spans = buffers[TraceID[s]].spans \cup {s}
      BY <2>2, <3>1 DEF WithSpan, TraceBuffer
    <3>3. CASE isComplete(WithSpan(buffers[TraceID[s]], s))
      <4>1. buffers' = [buffers EXCEPT ![TraceID[s]] = NoBuffer] /\ isRoot(s)
        BY <2>2, <2>3, <3>1, <3>3 DEF AddSpan, isComplete, WithSpan, TraceBuffer
      <4>2. TraceID[s] = t /\ buffers'[t].spans = {}
        BY <1>1, <2>2, <3>1, <4>1 DEF NoBuffer
      <4>3. QED BY <2>3, <4>1, <4>2 DEF AddSpan, isRoot
    <3>4. CASE ~isComplete(WithSpan(buffers[TraceID[s]], s))
      <4>1. buffers' = [buffers EXCEPT ![TraceID[s]] = WithSpan(buffers[TraceID[s]], s)]
        BY <2>3, <3>4 DEF AddSpan
      <4>2. QED BY <1>1, <2>2, <3>1, <3>2, <4>1
    <3>5. QED BY <3>3, <3>4
  <2>4. ASSUME NEW c \in Consumers, Collect(c)
        PROVE  buffers'[t].spans = {} /\ buffers[t].age > BufferTTL
    BY <1>1, <2>1, <2>4
       DEF Collect, Without, Due, NoBuffer, isTimedOut, isComplete, RootNeverWaits
  <2>5. CASE Cleanup
    BY <1>1, <2>5 DEF Cleanup, Without, Expired, NoBuffer, isTimedOut
  <2>6. CASE Tick
    BY <1>1, <2>2, <2>6 DEF Tick, TraceBuffer
  <2>7. CASE UNCHANGED buffers
    BY <1>1, <2>7
  <2>8. QED
    BY <1>1, <2>3, <2>4, <2>5, <2>6, <2>7
       DEF Next, SampleTrace, Shutdown, CleanerExit, ReportComplete,
           ReportTimedOut, ReporterExit, vars
<1>2. IInv /\ [Next]_vars => [Step]_vars
  BY <1>1
<1>3. QED
  BY <1>2, Invariance, PTL DEF Spec, LeavesForAReason

-----------------------------------------------------------------------------
(* The trace buffers implement TraceGrouping. *)

LEMMA GroupingStep ==
  IInv /\ [Next]_vars => [Grouping!Next]_(Grouping!gvars)
<1> SUFFICES ASSUME IInv, [Next]_vars
             PROVE  [Grouping!Next]_(Grouping!gvars)
  OBVIOUS
<1> DEFINE Waiting == Resident \cup Taken
           Units == {u.spans : u \in sampled}
<1>1. TypeOK /\ RootNeverWaits /\ UnitsWellFormed /\ Partition /\ NoSharing
  BY DEF IInv, ExactlyOnePlace
<1>2. UNION Units = Sampled
  BY DEF Sampled, SpansOf
<1>3. ASSUME NEW c \in Consumers, NEW s \in Spans, AddSpan(c, s)
      PROVE  Grouping!Accept(s)
  <2>1. s \notin arrived /\ UNCHANGED <<sampled, expired>>
    BY <1>3 DEF AddSpan
  <2>2. Waiting' = Waiting \cup {s}
    BY <1>1, <1>3, AddSpanMoves
  <2>3. s \notin Waiting \cup (UNION Units) \cup expired
    BY <1>1, <1>2, <2>1 DEF Partition
  <2>4. QED BY <2>1, <2>2, <2>3 DEF Grouping!Accept, Grouping!SpansDelivered
<1>4. ASSUME NEW c \in Consumers, SampleTrace(c)
      PROVE  \E U \in SUBSET Waiting : Grouping!Deliver(U)
  <2>1. PICK u \in taken[c] :
          /\ taken' = [taken EXCEPT ![c] = @ \ {u}]
          /\ sampled' = sampled \cup {u}
          /\ UNCHANGED <<arrived, buffers, expired>>
    BY <1>4 DEF SampleTrace
  <2>2. u.spans \subseteq Taken /\ Taken' = Taken \ u.spans /\ Resident' = Resident
    BY <1>1, <2>1, SampleTraceMoves DEF Resident
  <2>3. Waiting' = Waiting \ u.spans
    BY <1>1, <2>2 DEF Partition, Disjoint
  <2>4. Units' = Units \cup {u.spans}
    BY <2>1
  <2>5. u \in Unit /\ WellFormed(u)
    BY <1>1 DEF TypeOK, UnitsWellFormed
  <2>6. u.spans # {} /\ \E t \in Traces : \A s \in u.spans : TraceID[s] = t
    BY <2>5 DEF WellFormed, Unit
  <2>7. Grouping!Deliver(u.spans)
    BY <2>1, <2>3, <2>4, <2>6 DEF Grouping!Deliver
  <2>8. QED BY <2>2, <2>7
<1>5. ASSUME NEW c \in Consumers, Collect(c)
      PROVE  UNCHANGED Grouping!gvars
  <2>1. /\ Due \subseteq Traces
        /\ buffers' = Without(Due)
        /\ UNCHANGED <<sampled, expired>>
    BY <1>5 DEF Collect, Due, Present
  <2>2. Waiting' = Waiting
    BY <1>1, <1>5, <2>1, WithoutMoves, CollectMoves
  <2>3. QED BY <2>1, <2>2 DEF Grouping!gvars
<1>6. CASE Cleanup
  <2>1. /\ Expired \subseteq Traces
        /\ buffers' = Without(Expired)
        /\ expired' = expired \cup SpansIn(Expired)
        /\ UNCHANGED <<arrived, taken, sampled>>
    BY <1>6 DEF Cleanup, Expired, Present, SpansIn
  <2>2. /\ Resident' = Resident \ SpansIn(Expired)
        /\ SpansIn(Expired) \subseteq Resident
        /\ Taken' = Taken
    BY <1>1, <2>1, WithoutMoves DEF Taken, SpansOf
  <2>3. Waiting' = Waiting \ SpansIn(Expired)
    BY <1>1, <2>2 DEF Partition, Disjoint
  <2>4. SpansIn(Expired) \cap RootSpans = {}
    BY <1>1, <2>1 DEF RootNeverWaits, SpansIn
  <2>5. Grouping!Abandon(SpansIn(Expired))
    BY <2>1, <2>3, <2>4 DEF Grouping!Abandon
  <2>6. QED BY <2>2, <2>5 DEF Grouping!Next
<1>7. CASE Tick
  <2>1. \A t \in Traces : buffers'[t].spans = buffers[t].spans
    BY <1>1, <1>7 DEF Tick, TypeOK, TraceBuffer
  <2>2. Resident' = Resident
    BY <2>1 DEF Resident
  <2>3. QED BY <1>7, <2>2 DEF Tick, Grouping!gvars, Taken, SpansOf
<1>8. CASE UNCHANGED <<buffers, taken, sampled, expired>>
  BY <1>8 DEF Grouping!gvars, Resident, Taken, SpansOf
<1>9. QED
  BY <1>3, <1>4, <1>5, <1>6, <1>7, <1>8
     DEF Next, Grouping!Next, Shutdown, CleanerExit, ReportComplete,
         ReportTimedOut, ReporterExit, vars

(* Whatever the instance, the buffers deliver each accepted span at most    *)
(* once, in units of one trace, and abandon only spans without a root.      *)
THEOREM ImplementsGrouping == Spec => GroupingSpec
<1>1. Init => Grouping!Init
  BY DEF Init, Grouping!Init, Resident, Taken, SpansOf, NoBuffer
<1>2. QED
  BY <1>1, GroupingStep, Invariance, PTL DEF Spec, GroupingSpec, Grouping!Spec
=============================================================================

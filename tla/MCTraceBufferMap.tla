-------------------------- MODULE MCTraceBufferMap --------------------------
(* TLC instance of TraceBufferMap: trace A has a root and two children,     *)
(* trace B is a root alone, trace O is an orphan that never sees a root.    *)
EXTENDS TraceBufferMap, TLC

CONSTANTS a0, a1, a2, b0, o1, A, B, O, c1, c2

MCTraces == {A, B, O}
MCSpans == {a0, a1, a2, b0, o1}
MCTraceID == (a0 :> A @@ a1 :> A @@ a2 :> A @@ b0 :> B @@ o1 :> O)
MCRootSpans == {a0, b0}

(* A smaller instance for liveness: one child more than a trace needs. *)
LiveTraces == {A, O}
LiveSpans == {a0, a1, a2, o1}
LiveTraceID == (a0 :> A @@ a1 :> A @@ a2 :> A @@ o1 :> O)
LiveRootSpans == {a0}
=============================================================================

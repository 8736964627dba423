-------------------------- MODULE MCReservoirWindow --------------------------
(* TLC instances of ReservoirWindow. *)
EXTENDS ReservoirWindow, TLC

CONSTANTS a1, a2, b1, c1, r1, ua, ub, uc, p1, p2

(* Names for the arrays under the slices. *)
MCArrays == 1 .. 12

(* Traces of several spans: two of a, one of b, one of c. *)
TreeUnits == {ua, ub, uc}
TreeSpans == {a1, a2, b1, c1}
TreeSpansOf == (ua :> <<a1, a2>> @@ ub :> <<b1>> @@ uc :> <<c1>>)

(* Traces of one span each. *)
FlatUnits == {ua, ub, uc}
FlatSpans == {a1, b1, c1}
FlatSpansOf == (ua :> <<a1>> @@ ub :> <<b1>> @@ uc :> <<c1>>)

(* Two traces of one span, next to a span that a start may have found.     *)
PairUnits == {ua, ub}
PairSpans == {a1, b1, r1}
PairSpansOf == (ua :> <<a1>> @@ ub :> <<b1>>)

(* A checkpoint of a window without spans: its buffer has no room at all.  *)
EmptyRestored == {[n |-> 0, spans |-> << >>]}
OneRestored == {[n |-> 1, spans |-> <<r1>>]}
=============================================================================

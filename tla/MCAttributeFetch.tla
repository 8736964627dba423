--------------------------- MODULE MCAttributeFetch ---------------------------
(* TLC instances of AttributeFetch. *)
EXTENDS AttributeFetch, TLC

CONSTANTS c1, c2, c3, x1, x2

MCSymmetry == Permutations({c1, c2, c3}) \cup Permutations({x1, x2})
=============================================================================

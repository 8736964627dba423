------------------------ MODULE MCReservoirDurability ------------------------
(* TLC instances of ReservoirDurability. *)
EXTENDS ReservoirDurability, TLC

CONSTANTS s1, s2, s3, s4, s5, s6, p1, p2

MCSymmetry == Permutations(Spans) \cup Permutations(Consumers)
=============================================================================

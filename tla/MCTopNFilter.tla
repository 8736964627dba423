----------------------------- MODULE MCTopNFilter -----------------------------
(* TLC instance of TopNFilter: the order by CPU is not the order by memory, *)
(* and one process may be below both thresholds, or the greatest by CPU.    *)
EXTENDS TopNFilter, TLC

CONSTANTS p1, p2, p3, b1, b2

MCUsages == {<<0, 2>>, <<2, 1>>, <<1, 0>>, <<3, 0>>}
MCSymmetry == Permutations(Batches)

(* What each process reports. *)
Reports ==
  (p1 :> {<<0, 2>>}) @@ (p2 :> {<<2, 1>>}) @@ (p3 :> {<<1, 0>>, <<3, 0>>})

Running == {b \in Batches : phase[b] # "idle"}

(* Bounds: each process reports its own usages; only p3, whose usage        *)
(* changes, grows idle, and below the thresholds only; a batch that brings   *)
(* no measurements runs alone; the cleaner and the tuner do not invalidate  *)
(* at the same time.                                                        *)
InScope ==
  /\ \A b \in Batches : \A p \in DOMAIN input[b] : input[b][p] \in Reports[p]
  /\ \A p \in Live : processes[p].idle => p = p3 /\ ~IsAbove(processes[p].usage)
  /\ \A b \in Running : Running = {b} \/ changed[b] \/ input[b] # <<>>
  /\ Cardinality(invalidators) <= 1
=============================================================================

--------------------------- MODULE CheckpointStore ---------------------------
(***************************************************************************)
(* What the reservoir sampler wants of the file it keeps its checkpoints   *)
(* in: one register.  It holds the checkpoint that was acknowledged last,  *)
(* and a processor that starts gets that one.  Checkpoints are numbered in *)
(* the order in which they are acknowledged; 0 is the empty file.          *)
(***************************************************************************)
EXTENDS Naturals

VARIABLES
  stored,  \* the checkpoint in the file
  loaded   \* the one the processor that started last was given

Init == stored = 0 /\ loaded = 0

(* checkpoint returned no error. *)
Save == stored' = stored + 1 /\ UNCHANGED loaded

(* loadCheckpoint. *)
Load == loaded' = stored /\ UNCHANGED stored

Next == Save \/ Load

Spec == Init /\ [][Next]_<<stored, loaded>>
=============================================================================

--------------------------- MODULE MCCheckpointDb ---------------------------
(* TLC instances of CheckpointDb. *)
EXTENDS CheckpointDb

(* What is claimed is claimed until compactions overlap, which is not undone. *)
NotOverlapped == ~overlapped
=============================================================================

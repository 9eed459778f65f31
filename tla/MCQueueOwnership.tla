--------------------------- MODULE MCQueueOwnership ---------------------------
(* QueueOwnership with a few windows, sessions and jobs. *)
EXTENDS QueueOwnership, TLC

Symmetry == Permutations(Window) \cup Permutations(Session) \cup Permutations(QueuedJob)
=============================================================================

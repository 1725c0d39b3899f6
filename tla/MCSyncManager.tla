--------------------------- MODULE MCSyncManager ---------------------------
(* Instances of SyncManager for TLC. *)
EXTENDS SyncManager, TLC

JobSymmetry == Permutations(Jobs)

\* A year and a part of it: overlapping ranges under different keys.
Overlapping == {{1, 2}, {2}}
=============================================================================

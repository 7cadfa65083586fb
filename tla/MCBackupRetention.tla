------------------------- MODULE MCBackupRetention -------------------------
(* BackupRetention for TLC. *)
EXTENDS BackupRetention, TLC

\* Snapshots, chunks, sites, requests and passes are interchangeable.
Symmetry ==
  Permutations(Snaps) \cup Permutations(Chunks) \cup Permutations(Sites)
    \cup Permutations(Operators) \cup Permutations(Procs)
=============================================================================

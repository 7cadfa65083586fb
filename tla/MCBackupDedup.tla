--------------------------- MODULE MCBackupDedup ---------------------------
(***************************************************************************)
(* BackupRetention with a record of what the dedup oracle has reported as  *)
(* stored: ExistingChunkHashes, which PresignChunks asks.                  *)
(***************************************************************************)
EXTENDS MCBackupRetention

VARIABLE told   \* per snapshot, the chunks its backup was told not to upload

\* A chunk that a backup comes to hold although it was not to upload it.
DedupInit == Init /\ told = [s \in Snaps |-> {}]
DedupNext ==
  /\ Next
  /\ told' = [s \in Snaps |->
       told[s] \cup {c \in chunkRows \ puts[s] : c \in held'[s] \ held[s]}]
DedupSpec == DedupInit /\ [][DedupNext]_<<vars, told>>

\* What the comment in ExistingChunkHashes says: a chunk reported as existing
\* to a backup cannot be swept while that backup is in flight, because its
\* last_referenced_at is not before the start of the backup.
ReportedChunksSpared ==
  [][\A c \in objects \ objects' : \A s \in Snaps :
       status[s] \in InFlight => c \notin told[s]]_<<vars, told>>
=============================================================================

-------------------------- MODULE MCBackupScenes --------------------------
(***************************************************************************)
(* Three scenes of BackupRetention in one run, each with bounds of its own *)
(* below the constants of the run.  A behaviour stays in the scene it      *)
(* began in.                                                               *)
(***************************************************************************)
EXTENDS MCBackupRetention

CONSTANT Scenes
VARIABLE scene

\* A chain ages and outgrows its depth limit; two sites share chunks under two
\* passes or delete requests; the same under one that may stop anywhere.
Bounds ==
  [chains  |-> [sites |-> 1, snaps |-> 3, passes |-> 1, time |-> 4, aborts |-> 0,
                inc |-> TRUE,  asked |-> {}],
   sharing |-> [sites |-> 2, snaps |-> 2, passes |-> 2, time |-> 2, aborts |-> 0,
                inc |-> FALSE, asked |-> {"delete"}],
   crashes |-> [sites |-> 2, snaps |-> 2, passes |-> 1, time |-> 2, aborts |-> 1,
                inc |-> FALSE, asked |-> {"delete"}]]

\* Snapshots, sites and passes in use.
UsedSnaps == {s \in Snaps : status[s] # "none"}
UsedSites == {siteOf[s] : s \in UsedSnaps} \cup {plan[o].site : o \in Operators}
Busy      == {w \in Procs : proc[w].pc # "idle"}

InScene ==
  LET b == Bounds[scene] IN
  /\ now <= b.time /\ aborts <= b.aborts
  /\ Cardinality(UsedSites \ {NoSite}) <= b.sites
  /\ Cardinality(UsedSnaps) <= b.snaps /\ Cardinality(Busy) <= b.passes
  /\ \A o \in Operators : plan[o].pc = "insert" => plan[o].inc = b.inc
  /\ \A w \in Procs : proc[w].pc = "delete" => "delete" \in b.asked

\* In the scene of the two passes nothing sets a chunk's time back, and no pass
\* stops between the two deletes of a chunk.
SceneInit == Init /\ scene \in Scenes
SceneNext ==
  /\ Next /\ scene' = scene /\ InScene'
  /\ scene = "sharing" => ~Backdates /\ ~StopsMidSweep
SceneSpec == SceneInit /\ [][SceneNext]_<<vars, scene>>

\* Then the chunks of every completed snapshot are stored, as rows and as
\* objects, although the sweep and the dedup oracle race for them.
SharedChunksStored == scene = "sharing" => ChunksOfCompletedStored
=============================================================================

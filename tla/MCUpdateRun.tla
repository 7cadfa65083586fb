----------------------------- MODULE MCUpdateRun -----------------------------
(***************************************************************************)
(* Instances of UpdateRun on one site.  a and b are the tasks of a run     *)
(* created now, c is the task of a run created for later; a and c have the *)
(* same target.  In the scene "site" there is the first run only; in the   *)
(* scene "later" the first has task a alone, with no job, and task c has   *)
(* two jobs.                                                               *)
(***************************************************************************)
EXTENDS UpdateRun

CONSTANTS a, b, c, now, later, ja, jb, jc, jd, x, y, s

VARIABLE scene

RunOfTask == [t \in Tasks |-> IF t = c THEN later ELSE now]
TargetOfTask == [t \in Tasks |-> IF t = b THEN y ELSE x]
OneSite == [g \in Targets |-> s]
JobsOfTasks == [j \in Jobs |-> IF j = ja THEN a ELSE IF j = jb THEN b ELSE c]
\* For the run about the deferral: two jobs for a, one for its neighbour b.
TwoJobsOfA == [j \in Jobs |-> IF j = jb THEN b ELSE a]

MCInit == Init /\ scene \in {"site", "later"}
MCNext == /\ Next /\ UNCHANGED scene
          /\ scene = "site" => run'[later] = "none"
          /\ scene = "later" => task'[b] = "none" /\ at'[ja] = "none"
\* Neither restriction ever holds back an action that Fairness is about.
MCSpec == MCInit /\ [][MCNext]_<<vars, scene>> /\ Fairness
DeferredSpec == Init /\ scene = "site" /\ [][Next /\ UNCHANGED scene]_<<vars, scene>>
=============================================================================

--------------------------- MODULE MCAgentRollout ---------------------------
(***************************************************************************)
(* Four sites: a canary, a pilot of two and a last wave of one.  The run   *)
(* starts at once; or it was scheduled, and the sites not skipped when it  *)
(* was dispatched have their jobs from the start.  Where that is all four, *)
(* at most two workers are busy at a time, and nothing fails and nobody    *)
(* closes the channel while the run is on.                                 *)
(***************************************************************************)
EXTENDS AgentRollout

VARIABLE all

\* The two pilots are alike.
MCInit == /\ Init /\ all = (queued = Sites)
          /\ task[3] = "skipped" => task[2] = "skipped"
MCNext == /\ Next /\ UNCHANGED all
          /\ all => faults' = 0 /\ (enabled' \/ run # "running") /\ Cardinality(at') <= 2
\* Fairness is about neither, and a busy worker can always go on.
MCSpec == MCInit /\ [][MCNext]_<<vars, all>> /\ Fairness
=============================================================================

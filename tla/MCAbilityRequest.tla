-------------------------- MODULE MCAbilityRequest --------------------------
(***************************************************************************)
(* Instances of AbilityRequest for TLC.  Once a request has an outcome     *)
(* nothing it does touches another request, and only one request of a site *)
(* can be resolving, so three scenarios are explored: two requests that    *)
(* nobody undoes, one request under overlapping passes, and one request    *)
(* that is undone again and again.  Requests are alike, so where one of    *)
(* two is sent first it may as well be Sole.                               *)
(***************************************************************************)
EXTENDS AbilityRequest

CONSTANTS
    Sole,   \* the request of the last two scenarios
    First   \* the pass of the first and the last
VARIABLE scenario

MCInit == Init /\ scenario \in {"two", "passes", "undo"}
MCNext ==
    /\ Next
    /\ scenario # "undo"   => \A r \in Requests : undo'[r] # "in_progress"
    /\ scenario # "two"    => \A r \in Requests \ {Sole} : state'[r] = "none"
    /\ \A r \in Requests \ {Sole} : state'[r] = "dispatched" =>
          state[Sole] \notin {"none", "pending", "approved"}
    /\ scenario # "passes" => \A p \in Passes \ {First} : saw'[p] = Idle
    /\ UNCHANGED scenario
MCSpec == MCInit /\ [][MCNext]_<<vars, scenario>> /\ Fairness

=============================================================================

---------------------------- MODULE UpdateLedger ----------------------------
(***************************************************************************)
(* What an update run promises about its tasks, free of workers, queues    *)
(* and clocks.  A task is planned with its run, waits for the run's time   *)
(* or opens at once, and is settled exactly once.  The tasks that wait for *)
(* one run leave the wait together, and a target (one component of one     *)
(* site) has at most one open task.  UpdateRun implements this.            *)
(***************************************************************************)
CONSTANTS Tasks, Runs, RunOf, TargetOf

VARIABLE state

Worked == {"succeeded", "failed", "rolled_back", "skipped"}
Settled == Worked \cup {"cancelled", "expired"}
States == {"absent", "waiting", "open"} \cup Settled

TasksOf(r) == {t \in Tasks : RunOf[t] = r}
WaitingIn(r) == {t \in TasksOf(r) : state[t] = "waiting"}

\* No two open tasks have the same target.
Exclusive(st) == \A t, u \in Tasks :
    st[t] = "open" /\ st[u] = "open" /\ TargetOf[t] = TargetOf[u] => t = u

Init == state = [t \in Tasks |-> "absent"]

(***************************************************************************)
(* A run is planned as a whole: the tasks it gets all wait or all open.    *)
(***************************************************************************)
Plan(r) == \E S \in SUBSET TasksOf(r), first \in {"waiting", "open"} :
    /\ \A t \in TasksOf(r) : state[t] = "absent"
    /\ state' = [t \in Tasks |-> IF t \in S THEN first ELSE state[t]]
    /\ Exclusive(state')

\* The run's time comes: every waiting task opens or is skipped, in one step.
Fire(r) == \E S \in SUBSET WaitingIn(r) :
    /\ state' = [t \in Tasks |-> IF t \in S THEN "open"
                                 ELSE IF t \in WaitingIn(r) THEN "skipped"
                                 ELSE state[t]]
    /\ Exclusive(state')

\* The run is cancelled, or its time passed unused: nothing of it was started.
Withdraw(r) == \E end \in {"cancelled", "expired"} :
    state' = [t \in Tasks |-> IF t \in WaitingIn(r) THEN end ELSE state[t]]

\* An open task gets its one outcome.
Settle(t) == \E end \in Worked :
    /\ state[t] = "open"
    /\ state' = [state EXCEPT ![t] = end]

Next == \/ \E r \in Runs : Plan(r) \/ Fire(r) \/ Withdraw(r)
        \/ \E t \in Tasks : Settle(t)

Spec == Init /\ [][Next]_state
=============================================================================

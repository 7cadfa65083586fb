------------------------------ MODULE UpdateRun ------------------------------
(***************************************************************************)
(* Plugin, theme and core update runs of the control plane                 *)
(* (apps/api/internal/update): creating a run now or for later, the        *)
(* dispatcher and its sweeper, the worker behind each task and the reaper  *)
(* of stale tasks.  Every action is one database transaction or one read   *)
(* whose answer is used later.                                             *)
(***************************************************************************)
EXTENDS Integers, FiniteSets

CONSTANTS
    Tasks, Runs, Jobs, Targets, Sites,
    RunOf,      \* the run of a task
    TargetOf,   \* the target of a task: one component of one site
    SiteOf,     \* the site of a target
    TaskOf,     \* the task a River job is for
    Deferred,   \* the runs created with a scheduled_at in the future
    TenantLimit,\* perTenantLimit
    JobTimeout, \* the job timeout River enforces, in ticks
    ClaimStale, \* ClaimStaleAfter
    HoldMax,    \* siteWriterHoldMax
    ReapAfter,  \* staleTaskThreshold
    MaxFaults   \* bound on crashes, lost jobs and cancelled passes

\* ValidateClaimTimings: the process does not start otherwise.
ASSUME TimingAssumption ==
    /\ JobTimeout \in Nat /\ ClaimStale \in Nat /\ HoldMax \in Nat /\ ReapAfter \in Nat
    /\ JobTimeout < ClaimStale /\ ClaimStale < ReapAfter
ASSUME SchemaAssumption ==
    /\ RunOf \in [Tasks -> Runs] /\ TargetOf \in [Tasks -> Targets]
    /\ SiteOf \in [Targets -> Sites] /\ TaskOf \in [Jobs -> Tasks]
    /\ Deferred \subseteq Runs
    \* normalizeItems: a run has one task for a target
    /\ \A t, u \in Tasks : RunOf[t] = RunOf[u] /\ TargetOf[t] = TargetOf[u] => t = u
    /\ TenantLimit \in Nat \ {0} /\ MaxFaults \in Nat

VARIABLES
    run,        \* update_runs.status, "none" before the run exists
    clock,      \* where now lies against the run's scheduled_at and grace window
    trigger,    \* the runs that have a live dispatch job
    task,       \* update_tasks.status, "none" when never created
    age,        \* ticks since an in-flight row's updated_at, which is also its
                \* started_at while it runs
    overdue,    \* the tasks in flight created longer ago than siteBusyMaxWait
    at,         \* where each job's Work stands
    took,       \* ticks since a working job started
    reapList, reapCount, reapClose, \* the reaper's sweep: the stale tasks listed, the
                \* run whose tasks it counts and the run it completes
    sweepLock, sweepDue, sweeping, \* the dispatch sweeper's lock, scan and pass
    faults

taskVars == <<task, age, overdue>>
jobVars == <<at, took>>
reapVars == <<reapList, reapCount, reapClose>>
sweepVars == <<sweepLock, sweepDue, sweeping>>
vars == <<run, clock, trigger, taskVars, jobVars, reapVars, sweepVars, faults>>

InFlight == {"pending", "running"}
Worked == {"succeeded", "failed", "rolled_back", "skipped"}
Terminal == Worked \cup {"cancelled", "expired"}
TaskStatuses == {"none", "scheduled"} \cup InFlight \cup Terminal
Closed == {"completed", "halted", "expired"}
RunStatuses == {"none", "scheduled", "pending", "running"} \cup Closed

\* A claimed job: from the claim to the agent's answer.
Applying == {"ensure", "setrun", "apply", "busy"}
\* A job about to record an outcome, and the outcomes it may be.
Outcomes(step) == CASE step = "finish"     -> Worked
                    [] step = "unresolved" -> {"failed"}
                    [] step = "skip"       -> {"skipped"}
Finishing == {"finish", "unresolved", "skip"}
Working == Applying \cup Finishing \cup {"gate", "claim", "count", "close"}
JobSteps == {"none", "ready", "gone"} \cup Working

TasksOf(r) == {t \in Tasks : RunOf[t] = r}
SiteOfTask(t) == SiteOf[TargetOf[t]]
UnfinishedRunningOnly(r) == {t \in TasksOf(r) : task[t] = "running"}
\* CountUnfinishedTasksForRun
Unfinished(r) == {t \in TasksOf(r) : task[t] \in {"scheduled"} \cup InFlight}
SlotTakenByRunning(t) == \E u \in Tasks : TargetOf[u] = TargetOf[t] /\ task[u] = "running"
\* update_tasks_inflight_target_idx: the target's one slot is taken.
SlotTaken(t) == \E u \in Tasks : TargetOf[u] = TargetOf[t] /\ task[u] \in InFlight

Init ==
    /\ run = [r \in Runs |-> "none"] /\ clock = [r \in Runs |-> "early"]
    /\ trigger = {}
    /\ task = [t \in Tasks |-> "none"] /\ age = [t \in Tasks |-> 0] /\ overdue = {}
    /\ at = [j \in Jobs |-> "none"] /\ took = [j \in Jobs |-> 0]
    /\ reapList = {} /\ reapCount = {} /\ reapClose = {}
    /\ sweepLock = FALSE /\ sweepDue = {} /\ sweeping = FALSE
    /\ faults = 0

-----------------------------------------------------------------------------
(***************************************************************************)
(* Creating, dispatching, cancelling and expiring a run.                   *)
(***************************************************************************)

\* One job for each task of a set: the jobs made available by an enqueue.
OneJobEach(S) == {E \in SUBSET {j \in Jobs : TaskOf[j] \in S /\ at[j] = "none"} :
                    \A i, j \in E : TaskOf[i] = TaskOf[j] => i = j}
Ready(E) == at' = [j \in Jobs |-> IF j \in E THEN "ready" ELSE at[j]]

\* The insert drops a task whose target already has one in flight; a run left
\* with no task is rolled back.  Enqueueing stops at the first error, so any
\* part of the tasks may be left without a job.
CreateRun(r) ==
    /\ r \notin Deferred /\ run[r] = "none"
    /\ \E S \in SUBSET TasksOf(r) \ {{}} :
        /\ \A t \in S : ~SlotTaken(t)
        /\ run' = [run EXCEPT ![r] = "pending"]
        /\ task' = [t \in Tasks |-> IF t \in S THEN "pending" ELSE task[t]]
        /\ \E E \in OneJobEach(S) : Ready(E)
    /\ UNCHANGED <<clock, trigger, age, overdue, took, reapVars, sweepVars, faults>>

\* The tasks of a deferred run reserve nothing.  The dispatch job may be lost.
CreateScheduledRun(r) ==
    /\ r \in Deferred /\ run[r] = "none"
    /\ \E S \in SUBSET TasksOf(r) \ {{}} :
        task' = [t \in Tasks |-> IF t \in S THEN "scheduled" ELSE task[t]]
    /\ run' = [run EXCEPT ![r] = "scheduled"]
    /\ trigger' \in {trigger, trigger \cup {r}}
    /\ UNCHANGED <<clock, age, overdue, jobVars, reapVars, sweepVars, faults>>

CancelRunOnly(r) ==
    /\ run[r] = "scheduled"
    /\ run' = [run EXCEPT ![r] = "halted"]
    /\ UNCHANGED <<clock, trigger, taskVars, jobVars, reapVars, sweepVars, faults>>
\* CancelScheduledRun: run and tasks in one transaction.
CancelScheduledRun(r) ==
    /\ run[r] = "scheduled"
    /\ run' = [run EXCEPT ![r] = "halted"]
    /\ task' = [t \in Tasks |-> IF RunOf[t] = r /\ task[t] = "scheduled"
                                THEN "cancelled" ELSE task[t]]
    /\ UNCHANGED <<clock, trigger, age, overdue, jobVars, reapVars, sweepVars, faults>>

\* The dispatch job finds its run already dispatched, cancelled or expired.
DispatchNothing(r) ==
    /\ r \in trigger /\ run[r] # "scheduled"
    /\ trigger' = trigger \ {r}
    /\ UNCHANGED <<run, clock, taskVars, jobVars, reapVars, sweepVars, faults>>

\* Past the grace window the run expires with every task it scheduled.
ExpireDueRun(r) ==
    /\ r \in trigger /\ run[r] = "scheduled" /\ clock[r] = "late"
    /\ trigger' = trigger \ {r}
    /\ run' = [run EXCEPT ![r] = "expired"]
    /\ task' = [t \in Tasks |-> IF RunOf[t] = r /\ task[t] = "scheduled"
                                THEN "expired" ELSE task[t]]
    /\ UNCHANGED <<clock, age, overdue, jobVars, reapVars, sweepVars, faults>>

\* The tasks a dispatch moves to pending: on a site that is not paused, and
\* on a target with nothing in flight.
Dispatchable(r, paused) == {t \in TasksOf(r) :
    task[t] = "scheduled" /\ SiteOfTask(t) \notin paused /\ ~SlotTaken(t)}

\* The whole dispatch is one transaction, jobs included: each scheduled task
\* becomes pending with its job, or skipped, and the run running or completed.
DispatchDueRun(r) ==
    /\ r \in trigger /\ run[r] = "scheduled" /\ clock[r] = "due"
    /\ trigger' = trigger \ {r}
    /\ \E paused \in SUBSET Sites :
        LET S == Dispatchable(r, paused) IN
        /\ task' = [t \in Tasks |-> IF t \in S THEN "pending"
                                    ELSE IF RunOf[t] = r /\ task[t] = "scheduled" THEN "skipped"
                                    ELSE task[t]]
        /\ \E E \in OneJobEach(S) :
                /\ \A t \in S : \E j \in E : TaskOf[j] = t
                /\ Ready(E)
        /\ run' = [run EXCEPT ![r] = IF S = {} THEN "completed" ELSE "running"]
    /\ UNCHANGED <<clock, age, overdue, took, reapVars, sweepVars, faults>>

(***************************************************************************)
(* SweepWorker: under a session advisory lock, list the due runs and give  *)
(* each a dispatch job unless it has one.  However the pass ends, the      *)
(* deferred unlock is sent with a context the cancellation does not reach. *)
(***************************************************************************)
SweepStart ==
    /\ ~sweeping /\ ~sweepLock
    /\ sweepLock' = TRUE /\ sweeping' = TRUE
    /\ sweepDue' = {r \in Runs : run[r] = "scheduled" /\ clock[r] # "early"}
    /\ sweepDue' # {}
    /\ UNCHANGED <<run, clock, trigger, taskVars, jobVars, reapVars, faults>>

EnqueueDispatchIfAbsent(r) ==
    /\ sweeping /\ r \in sweepDue
    /\ trigger' = trigger \cup {r} /\ sweepDue' = sweepDue \ {r}
    /\ UNCHANGED <<run, clock, taskVars, jobVars, reapVars, sweepLock, sweeping, faults>>

SweepEnd ==
    /\ sweeping /\ sweepDue = {}
    /\ sweepLock' = FALSE /\ sweeping' = FALSE
    /\ UNCHANGED <<run, clock, trigger, taskVars, jobVars, reapVars, sweepDue, faults>>

SweepCancelledKeepsLock ==
    /\ sweeping /\ sweepDue # {} /\ faults < MaxFaults
    /\ sweeping' = FALSE /\ sweepDue' = {}
    /\ faults' = faults + 1
    /\ UNCHANGED <<run, clock, trigger, taskVars, jobVars, reapVars, sweepLock>>
SweepCancelled ==
    /\ sweeping /\ sweepDue # {} /\ faults < MaxFaults
    /\ sweepLock' = FALSE /\ sweeping' = FALSE /\ sweepDue' = {}
    /\ faults' = faults + 1
    /\ UNCHANGED <<run, clock, trigger, taskVars, jobVars, reapVars>>

-----------------------------------------------------------------------------
(***************************************************************************)
(* Worker.Work, one job.                                                   *)
(***************************************************************************)
Step(j, here, next) ==
    /\ at[j] = here /\ at' = [at EXCEPT ![j] = next]
    /\ took' = [took EXCEPT ![j] = IF next \in Working THEN @ ELSE 0]

\* SiteHasRunningUpdateTask
SiteBusy(t) == \E u \in Tasks \ {t} :
    /\ SiteOfTask(u) = SiteOfTask(t) /\ task[u] = "running" /\ age[u] < HoldMax
TenantFull == Cardinality({t \in Tasks : task[t] = "running"}) >= TenantLimit

\* The reads before the claim.  None of them decides who owns the task.  A
\* tenant at its limit makes the job snooze: it stays ready.  A task whose
\* target turns out to be the agent's own plugin is refused.
Work(j) ==
    LET t == TaskOf[j] IN
    /\ \/ task[t] \in Terminal \cup {"scheduled"} /\ Step(j, "ready", "gone")
       \/ /\ task[t] \in InFlight /\ ~TenantFull
          /\ \E next \in {"unresolved", "skip", IF SiteBusy(t) THEN "gate" ELSE "claim"} :
                Step(j, "ready", next)
    /\ UNCHANGED <<run, clock, trigger, taskVars, reapVars, sweepVars, faults>>

\* refuseAgentSelfUpdate by the slug alone, before the tenant's tasks are counted.
RefuseAgentSelfUpdate(j) ==
    /\ task[TaskOf[j]] \in InFlight /\ Step(j, "ready", "skip")
    /\ UNCHANGED <<run, clock, trigger, taskVars, reapVars, sweepVars, faults>>

\* Either count may fail, and then does not hold the job back.
WorkUncounted(j) ==
    LET t == TaskOf[j] IN
    /\ task[t] \in InFlight /\ faults < MaxFaults
    /\ \/ Step(j, "ready", "claim")
       \/ TenantFull /\ \E next \in {"unresolved", "skip"} \cup
                                   IF SiteBusy(t) THEN {"gate"} ELSE {} : Step(j, "ready", next)
    /\ faults' = faults + 1
    /\ UNCHANGED <<run, clock, trigger, taskVars, reapVars, sweepVars>>

ClaimableAnyAge(t) == task[t] \in InFlight
\* MarkUpdateTaskRunning's precondition
Claimable(t) == \/ task[t] = "pending"
                \/ task[t] = "running" /\ age[t] >= ClaimStale

MarkTaskRunning(j) ==
    LET t == TaskOf[j] IN
    /\ Claimable(t) /\ Step(j, "claim", "ensure")
    /\ task' = [task EXCEPT ![t] = "running"] /\ age' = [age EXCEPT ![t] = 0]
    /\ UNCHANGED <<run, clock, trigger, overdue, reapVars, sweepVars, faults>>

\* A job that did not get the claim writes nothing: it ends if the task has
\* ended and comes back later otherwise.
YieldContendedClaim(j) ==
    LET t == TaskOf[j] IN
    /\ ~Claimable(t)
    /\ Step(j, "claim", IF task[t] \in Terminal \cup {"scheduled"} THEN "gone" ELSE "ready")
    /\ UNCHANGED <<run, clock, trigger, taskVars, reapVars, sweepVars, faults>>

\* ensureRunRunning reads the run, and writes it in another transaction.
EnsureRead(j) ==
    /\ Step(j, "ensure", IF run[RunOf[TaskOf[j]]] = "pending" THEN "setrun" ELSE "apply")
    /\ UNCHANGED <<run, clock, trigger, taskVars, reapVars, sweepVars, faults>>

\* SetUpdateRunStatus: only halted and expired resist a change.
SetRunStatus(r, s) ==
    run' = [run EXCEPT ![r] = IF @ \in {"halted", "expired"} THEN @ ELSE s]

EnsureRunRunning(j) ==
    /\ Step(j, "setrun", "apply") /\ SetRunStatus(RunOf[TaskOf[j]], "running")
    /\ UNCHANGED <<clock, trigger, taskVars, reapVars, sweepVars, faults>>

\* runDry, runApply with its health checks, and rollback: what the agent and
\* the probes answer decides the outcome, or the site turns out to be busy.
RunApply(j) ==
    /\ \E next \in {"finish", "busy"} : Step(j, "apply", next)
    /\ UNCHANGED <<run, clock, trigger, taskVars, reapVars, sweepVars, faults>>

\* deferForBusySite, from the gate or from the agent's answer.
DeferForBusySite(j, here) ==
    LET t == TaskOf[j] IN
    /\ \/ t \in overdue /\ Step(j, here, "skip") /\ UNCHANGED <<task, age>>
       \/ /\ t \notin overdue /\ task[t] \in InFlight
          /\ Step(j, here, "ready")
          /\ task' = [task EXCEPT ![t] = "pending"] /\ age' = [age EXCEPT ![t] = 0]
       \/ /\ t \notin overdue /\ task[t] \notin InFlight
          /\ Step(j, here, "gone") /\ UNCHANGED <<task, age>>
    /\ UNCHANGED <<run, clock, trigger, overdue, reapVars, sweepVars, faults>>

OpenAlways(t) == task[t] # "none"
\* FinishUpdateTask's precondition: the first outcome recorded wins.
Open(t) == task[t] \in InFlight
Record(t, outcome) ==
    /\ task' = [task EXCEPT ![t] = outcome] /\ age' = [age EXCEPT ![t] = 0]
    /\ overdue' = overdue \ {t}

FinishTask(j, here) ==
    LET t == TaskOf[j] IN
    /\ \/ /\ Open(t) /\ Step(j, here, "count")
          /\ \E outcome \in Outcomes(here) : Record(t, outcome)
       \/ ~Open(t) /\ Step(j, here, "gone") /\ UNCHANGED taskVars
    /\ UNCHANGED <<run, clock, trigger, reapVars, sweepVars, faults>>

\* maybeCompleteRun counts, then writes.
CountUnfinished(j) ==
    /\ Step(j, "count", IF Unfinished(RunOf[TaskOf[j]]) = {} THEN "close" ELSE "gone")
    /\ UNCHANGED <<run, clock, trigger, taskVars, reapVars, sweepVars, faults>>

CompleteRun(j) ==
    /\ Step(j, "close", "gone") /\ SetRunStatus(RunOf[TaskOf[j]], "completed")
    /\ UNCHANGED <<clock, trigger, taskVars, reapVars, sweepVars, faults>>

-----------------------------------------------------------------------------
(***************************************************************************)
(* ReaperWorker lists the stale tasks and finishes each as failed, the way *)
(* a worker would.                                                         *)
(***************************************************************************)
StaleRunningOnly == {t \in Tasks : task[t] = "running" /\ age[t] >= ReapAfter}
Stale == {t \in Tasks : task[t] \in InFlight /\ age[t] >= ReapAfter}

ListStaleUpdateTasks ==
    /\ reapList \cup reapCount \cup reapClose = {} /\ Stale # {}
    /\ reapList' = Stale
    /\ UNCHANGED <<run, clock, trigger, taskVars, jobVars, reapCount, reapClose, sweepVars, faults>>

Reap(t) ==
    /\ t \in reapList /\ reapCount \cup reapClose = {}
    /\ reapList' = reapList \ {t}
    /\ \/ Open(t) /\ Record(t, "failed") /\ reapCount' = {RunOf[t]}
       \/ ~Open(t) /\ UNCHANGED <<taskVars, reapCount>>
    /\ UNCHANGED <<run, clock, trigger, jobVars, reapClose, sweepVars, faults>>

ReapCount(r) ==
    /\ r \in reapCount /\ reapCount' = {}
    /\ reapClose' = IF Unfinished(r) = {} THEN {r} ELSE {}
    /\ UNCHANGED <<run, clock, trigger, taskVars, jobVars, reapList, sweepVars, faults>>

ReapComplete(r) ==
    /\ r \in reapClose /\ reapClose' = {}
    /\ SetRunStatus(r, "completed")
    /\ UNCHANGED <<clock, trigger, taskVars, jobVars, reapList, reapCount, sweepVars, faults>>

-----------------------------------------------------------------------------
(***************************************************************************)
(* River and time.                                                         *)
(***************************************************************************)

\* A job whose process dies, whose context ends or whose query fails is
\* retried by River, or lost for good.
JobFails(j) ==
    /\ at[j] \in Working \cup {"ready"} /\ faults < MaxFaults
    /\ \E next \in {"ready", "gone"} \ {at[j]} : Step(j, at[j], next)
    /\ faults' = faults + 1
    /\ UNCHANGED <<run, clock, trigger, taskVars, reapVars, sweepVars>>

\* A second job for a task that already has one.
JobDuplicated(j) ==
    /\ \E i \in Jobs : TaskOf[i] = TaskOf[j] /\ at[i] # "none"
    /\ Step(j, "none", "ready")
    /\ UNCHANGED <<run, clock, trigger, taskVars, reapVars, sweepVars, faults>>

DispatchLost(r) ==
    /\ r \in trigger /\ faults < MaxFaults
    /\ trigger' = trigger \ {r} /\ faults' = faults + 1
    /\ UNCHANGED <<run, clock, taskVars, jobVars, reapVars, sweepVars>>

TickNoTimeout ==
    /\ \E t \in Tasks : task[t] \in InFlight /\ age[t] < ReapAfter
    /\ age' = [t \in Tasks |-> IF task[t] \in InFlight /\ age[t] < ReapAfter
                               THEN age[t] + 1 ELSE age[t]]
    /\ took' = [j \in Jobs |-> IF at[j] \in Working THEN took[j] + 1 ELSE took[j]]
    /\ UNCHANGED <<run, clock, trigger, task, overdue, at, reapVars, sweepVars, faults>>
\* River ends a job at its timeout, so no job outlives JobTimeout.
Tick ==
    /\ \E t \in Tasks : task[t] \in InFlight /\ age[t] < ReapAfter
    /\ \A j \in Jobs : at[j] \in Working => took[j] < JobTimeout
    /\ age' = [t \in Tasks |-> IF task[t] \in InFlight /\ age[t] < ReapAfter
                               THEN age[t] + 1 ELSE age[t]]
    /\ took' = [j \in Jobs |-> IF at[j] \in Working THEN took[j] + 1 ELSE took[j]]
    /\ UNCHANGED <<run, clock, trigger, task, overdue, at, reapVars, sweepVars, faults>>

\* siteBusyMaxWait after the task was created.
WaitExceeded(t) ==
    /\ task[t] \in InFlight /\ t \notin overdue
    /\ overdue' = overdue \cup {t}
    /\ UNCHANGED <<run, clock, trigger, task, age, jobVars, reapVars, sweepVars, faults>>

ScheduleArrives(r) ==
    /\ run[r] = "scheduled" /\ clock[r] # "late"
    /\ clock' = [clock EXCEPT ![r] = IF @ = "early" THEN "due" ELSE "late"]
    /\ UNCHANGED <<run, trigger, taskVars, jobVars, reapVars, sweepVars, faults>>

JobStep(j) ==
    \/ Work(j) \/ MarkTaskRunning(j) \/ YieldContendedClaim(j)
    \/ EnsureRead(j) \/ EnsureRunRunning(j) \/ RunApply(j)
    \/ DeferForBusySite(j, "gate") \/ DeferForBusySite(j, "busy")
    \/ (\E here \in Finishing : FinishTask(j, here)) \/ CountUnfinished(j) \/ CompleteRun(j)

ReaperStep ==
    \/ ListStaleUpdateTasks
    \/ \E t \in Tasks : Reap(t)
    \/ \E r \in Runs : ReapCount(r) \/ ReapComplete(r)
DispatchStep(r) == DispatchNothing(r) \/ ExpireDueRun(r) \/ DispatchDueRun(r)
SweepStep == SweepStart \/ (\E r \in Runs : EnqueueDispatchIfAbsent(r)) \/ SweepEnd

Next ==
    \/ \E r \in Runs : CreateRun(r) \/ CreateScheduledRun(r) \/ CancelScheduledRun(r)
    \/ \E r \in Runs : DispatchStep(r) \/ DispatchLost(r) \/ ScheduleArrives(r)
    \/ SweepStep \/ SweepCancelled
    \/ \E j \in Jobs : \/ JobStep(j) \/ RefuseAgentSelfUpdate(j) \/ WorkUncounted(j)
                       \/ JobFails(j) \/ JobDuplicated(j)
    \/ ReaperStep
    \/ Tick
    \/ \E t \in Tasks : WaitExceeded(t)

Spec == Init /\ [][Next]_vars

\* Workers run, River delivers, periodic jobs come round and time passes.
Fairness ==
    /\ \A j \in Jobs : WF_vars(JobStep(j))
    /\ WF_vars(\E r \in Runs : DispatchStep(r)) /\ WF_vars(\E t \in Tasks : WaitExceeded(t))
    /\ WF_vars(ReaperStep) /\ WF_vars(SweepStep) /\ WF_vars(Tick)

FairSpec == Spec /\ Fairness

-----------------------------------------------------------------------------
(***************************************************************************)
(* Properties.                                                             *)
(***************************************************************************)

\* Every variable holds a value the schema or the job states allow.
TypeOK ==
    /\ run \in [Runs -> RunStatuses] /\ clock \in [Runs -> {"early", "due", "late"}]
    /\ trigger \subseteq Runs
    /\ task \in [Tasks -> TaskStatuses] /\ age \in [Tasks -> 0..ReapAfter]
    /\ overdue \subseteq Tasks
    /\ at \in [Jobs -> JobSteps] /\ took \in [Jobs -> 0..JobTimeout]
    /\ reapList \subseteq Tasks /\ reapCount \subseteq Runs /\ reapClose \subseteq Runs
    /\ sweepLock \in BOOLEAN /\ sweepDue \subseteq Runs /\ sweeping \in BOOLEAN
    /\ faults \in 0..MaxFaults

\* updates.sql says of the claim that it makes "I am the one worker talking to
\* this site about this item" true.  It does not quite: the gate's deferral
\* (DeferUpdateTaskToPending) accepts a running row, and so may put back to
\* pending a task that another job is applying.
OneWorkerPerTask == \A i, j \in Jobs :
    at[i] \in Applying /\ at[j] \in Applying /\ TaskOf[i] = TaskOf[j] => i = j

\* A row that reads running is never taken from a worker still inside its
\* apply, however its jobs are retried, duplicated, deferred and timed out: by
\* the time MarkUpdateTaskRunning takes the row for abandoned, River has ended
\* the job behind it.  A second worker gets in on a pending row only.
ReclaimSparesLive == [][\A i, j \in Jobs :
    at[i] \in Applying /\ at[j] \notin Applying /\ at'[j] \in Applying /\ TaskOf[i] = TaskOf[j]
        => task[TaskOf[j]] = "pending"]_vars

\* A run that reads completed, halted or expired owes no outcome: whoever
\* counted zero unfinished tasks is right when the status is written, however
\* many finished at once, and no scheduled task is stranded behind it.
ClosedRunOwesNothing == \A t \in Tasks :
    run[RunOf[t]] \in Closed => task[t] \in Terminal \cup {"none"}

\* The tasks, seen as the ledger sees them.
LedgerState == [t \in Tasks |->
    IF task[t] = "none" THEN "absent"
    ELSE IF task[t] = "scheduled" THEN "waiting"
    ELSE IF task[t] \in InFlight THEN "open" ELSE task[t]]

Ledger == INSTANCE UpdateLedger WITH state <- LedgerState

\* Creation, dispatch, cancellation, workers and reaper together keep the
\* ledger's promises: one open task for a target, a scheduled run dispatched
\* or withdrawn as a whole, and one outcome for a task, never replaced.
ImplementsLedger == Ledger!Spec

\* A run whose time has come does not stay scheduled, although its dispatch job
\* was lost and sweeper passes were cancelled while they held the lock.
DueRunsFire == \A r \in Deferred : []<>(run[r] # "scheduled" \/ clock[r] = "early")

\* Nothing stays in flight for ever: every task gets its outcome, although its
\* job was never enqueued or died, and its site may be busy as long as it likes.
TasksSettle == []<>(\A t \in Tasks : task[t] \notin InFlight)
=============================================================================

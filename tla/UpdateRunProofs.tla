--------------------------- MODULE UpdateRunProofs ---------------------------
(***************************************************************************)
(* Proofs about UpdateRun, for any tasks, runs, jobs, targets, sites and   *)
(* timings that ValidateClaimTimings accepts.                              *)
(*                                                                         *)
(* The first part sums up what a step may do to a task, a run, a job and   *)
(* the reaper (StepFacts) and derives the invariants of runs and tasks     *)
(* from the summary; the second shows that the tasks implement             *)
(* UpdateLedger; the third is about claims.                                *)
(***************************************************************************)
EXTENDS UpdateRun, TLAPS

\* The run of a job's task.
JobRun(j) == RunOf[TaskOf[j]]
\* A run that was released for work, whatever became of it.
Released(r) == run[r] \notin {"none", "scheduled"}

\* A task waits only with its run, and is worked on only once it is released.
TasksFollowRun == \A t \in Tasks :
    /\ task[t] = "scheduled" => run[RunOf[t]] = "scheduled"
    /\ task[t] \in InFlight => Released(RunOf[t])
    /\ run[RunOf[t]] = "none" => task[t] = "none"

\* Jobs and the reaper deal with released runs only.
WorkIsReleased ==
    /\ \A j \in Jobs : at[j] # "none" => Released(JobRun(j))
    /\ \A r \in reapCount \cup reapClose : Released(r)

\* Whoever is about to complete a run counted zero, and zero it is.
CountsStayZero ==
    /\ \A j \in Jobs : at[j] = "close" => Unfinished(JobRun(j)) = {}
    /\ \A r \in reapClose : Unfinished(r) = {}

\* update_tasks_inflight_target_idx
OneInFlightPerTarget == \A t, u \in Tasks :
    task[t] \in InFlight /\ task[u] \in InFlight /\ TargetOf[t] = TargetOf[u] => t = u

\* The inductive invariant.
IInv == /\ TypeOK /\ TasksFollowRun /\ WorkIsReleased /\ CountsStayZero
        /\ ClosedRunOwesNothing /\ OneInFlightPerTarget

-----------------------------------------------------------------------------
(***************************************************************************)
(* The summary of a step.                                                  *)
(***************************************************************************)
MayMove(t) ==
    \/ task'[t] = task[t]
    \/ run[RunOf[t]] = "none" /\ task'[t] = "scheduled" /\ run'[RunOf[t]] = "scheduled"
    \/ run[RunOf[t]] = "none" /\ task'[t] = "pending" /\ run'[RunOf[t]] = "pending"
    \/ task[t] = "scheduled" /\ task'[t] = "pending" /\ run'[RunOf[t]] = "running"
    \/ task[t] = "scheduled" /\ task'[t] \in Terminal
    \/ task[t] \in InFlight /\ task'[t] \in InFlight \cup Worked

MayRun(r) ==
    \/ run'[r] = run[r]
    \/ run[r] = "none" /\ run'[r] \in {"pending", "scheduled"}
    \/ /\ run[r] = "scheduled" /\ run'[r] \in {"running", "completed", "halted", "expired"}
       /\ \A t \in TasksOf(r) : /\ task'[t] # "scheduled"
                                /\ run'[r] \in Closed => task'[t] \in Terminal \cup {"none"}
    \/ Released(r) /\ run'[r] = "running"
    \/ Released(r) /\ run'[r] = "completed" /\ Unfinished(r) = {}

MayStep(j) ==
    \/ at'[j] = at[j]
    \/ at[j] = "none" /\ at'[j] = "ready" /\ run'[JobRun(j)] \notin {"none", "scheduled"}
    \/ /\ at[j] # "none" /\ at'[j] # "none"
       /\ at'[j] = "close" => Unfinished(JobRun(j)) = {}

MayReap ==
    /\ \A r \in reapCount' : r \in reapCount \/ \E t \in TasksOf(r) : task[t] \in InFlight
    /\ \A r \in reapClose' : r \in reapClose \/ (r \in reapCount /\ Unfinished(r) = {})

Slots == \A t, u \in Tasks :
    task'[t] \in InFlight /\ task'[u] \in InFlight /\ TargetOf[t] = TargetOf[u] => t = u

StepFacts ==
    /\ TypeOK'
    /\ \A t \in Tasks : MayMove(t)
    /\ \A r \in Runs : MayRun(r)
    /\ \A j \in Jobs : MayStep(j)
    /\ MayReap
    /\ Slots

\* The sets of statuses are disjoint where the proofs need it.
LEMMA Statuses ==
    /\ \A s \in InFlight : s \in TaskStatuses /\ s \notin Terminal /\ s \notin {"none", "scheduled"}
    /\ \A s \in Terminal : s \in TaskStatuses /\ s \notin InFlight /\ s \notin {"none", "scheduled"}
    /\ Worked \subseteq Terminal /\ "pending" \in InFlight /\ "running" \in InFlight
    /\ {"none", "scheduled"} \subseteq TaskStatuses
  BY DEF InFlight, Terminal, Worked, TaskStatuses

LEMMA Steps ==
    /\ Working \subseteq JobSteps /\ Applying \subseteq Working /\ Finishing \subseteq Working
    /\ {"none", "ready", "gone"} \subseteq JobSteps
    /\ {"none", "ready", "gone"} \cap Working = {}
    /\ {"gate", "claim", "count", "close"} \subseteq Working
  BY DEF JobSteps, Working, Applying, Finishing

\* A step that leaves tasks, runs and the reaper alone.
LEMMA JobOnly ==
    ASSUME IInv, UNCHANGED <<run, clock, trigger, taskVars, reapVars, sweepVars>>,
           faults' \in 0..MaxFaults,
           at' \in [Jobs -> JobSteps] /\ took' \in [Jobs -> 0..JobTimeout],
           \A j \in Jobs : MayStep(j)
    PROVE  StepFacts
<1>1. TypeOK'
  BY DEF IInv, TypeOK, taskVars, reapVars, sweepVars
<1>2. (\A t \in Tasks : MayMove(t)) /\ (\A r \in Runs : MayRun(r)) /\ MayReap /\ Slots
  BY DEF IInv, MayMove, MayRun, MayReap, Slots, OneInFlightPerTarget, taskVars, reapVars
<1> QED  BY <1>1, <1>2 DEF StepFacts

\* One job moves on.
LEMMA StepMoves ==
    ASSUME TypeOK, NEW j \in Jobs, NEW here \in JobSteps, NEW next \in JobSteps,
           Step(j, here, next), next # "none",
           next = "close" => Unfinished(JobRun(j)) = {},
           here = "none" => next = "ready" /\ run'[JobRun(j)] \notin {"none", "scheduled"}
    PROVE  /\ at' \in [Jobs -> JobSteps] /\ took' \in [Jobs -> 0..JobTimeout]
           /\ \A i \in Jobs : MayStep(i)
<1>1. at[j] = here /\ at' = [at EXCEPT ![j] = next]
      /\ took' = [took EXCEPT ![j] = IF next \in Working THEN @ ELSE 0]
  BY DEF Step
<1>2. 0 \in 0..JobTimeout
  BY TimingAssumption
<1>3. at' \in [Jobs -> JobSteps] /\ took' \in [Jobs -> 0..JobTimeout]
  BY <1>1, <1>2 DEF TypeOK
<1>4. ASSUME NEW i \in Jobs PROVE MayStep(i)
  <2>1. CASE i = j
    BY <1>1, <2>1 DEF MayStep, TypeOK
  <2>2. CASE i # j
    BY <1>1, <2>2 DEF MayStep, TypeOK
  <2> QED  BY <2>1, <2>2
<1> QED  BY <1>3, <1>4

\* The steps of a worker that only read, or write nothing but the job itself.
LEMMA ReadFacts ==
    ASSUME IInv, NEW j \in Jobs,
           \/ Work(j) \/ RefuseAgentSelfUpdate(j) \/ WorkUncounted(j)
           \/ YieldContendedClaim(j) \/ EnsureRead(j) \/ RunApply(j) \/ CountUnfinished(j)
    PROVE  StepFacts
<1> TypeOK
  BY DEF IInv
<1>1. UNCHANGED <<run, clock, trigger, taskVars, reapVars, sweepVars>> /\ faults' \in 0..MaxFaults
  BY SchemaAssumption DEF Work, RefuseAgentSelfUpdate, WorkUncounted, YieldContendedClaim,
     EnsureRead, RunApply, CountUnfinished, TypeOK
<1>2. \E here, next \in JobSteps \ {"none"} :
         /\ Step(j, here, next)
         /\ next = "close" => Unfinished(JobRun(j)) = {}
  BY DEF Work, RefuseAgentSelfUpdate, WorkUncounted, YieldContendedClaim, EnsureRead, RunApply,
         CountUnfinished, JobRun, JobSteps, Working, Applying, Finishing
<1>3. /\ at' \in [Jobs -> JobSteps] /\ took' \in [Jobs -> 0..JobTimeout]
      /\ \A i \in Jobs : MayStep(i)
  BY <1>2, StepMoves
<1> QED  BY <1>1, <1>3, JobOnly

-----------------------------------------------------------------------------
(***************************************************************************)
(* Worker steps that write the task or the run.                            *)
(***************************************************************************)

\* An open task that is claimed, put back or given an outcome.
LEMMA OneTaskMoves ==
    ASSUME IInv, NEW t \in Tasks, task[t] \in InFlight,
           NEW s \in InFlight \cup Worked,
           task' = [task EXCEPT ![t] = s], age' = [age EXCEPT ![t] = 0],
           overdue' \subseteq overdue, UNCHANGED <<run, clock, trigger, sweepVars, faults>>
    PROVE  /\ task' \in [Tasks -> TaskStatuses] /\ age' \in [Tasks -> 0..ReapAfter]
           /\ overdue' \subseteq Tasks
           /\ \A u \in Tasks : MayMove(u)
           /\ \A r \in Runs : MayRun(r)
           /\ Slots
<1>1. s \in TaskStatuses /\ 0 \in 0..ReapAfter
  BY TimingAssumption, Statuses
<1>2. task' \in [Tasks -> TaskStatuses] /\ age' \in [Tasks -> 0..ReapAfter] /\ overdue' \subseteq Tasks
  BY <1>1 DEF IInv, TypeOK
<1>3. ASSUME NEW u \in Tasks
      PROVE  MayMove(u) /\ (task'[u] \in InFlight => task[u] \in InFlight)
  <2>1. CASE u = t
    BY <2>1 DEF MayMove, IInv, TypeOK
  <2>2. CASE u # t
    BY <2>2 DEF MayMove, IInv, TypeOK
  <2> QED  BY <2>1, <2>2
<1>4. Slots
  BY <1>3 DEF Slots, IInv, OneInFlightPerTarget
<1> QED  BY <1>2, <1>3, <1>4 DEF MayRun

\* The job's task is left alone, or was open and is written once.
TaskWrite(j) ==
    \/ UNCHANGED taskVars
    \/ /\ task[TaskOf[j]] \in InFlight /\ overdue' \subseteq overdue
       /\ age' = [age EXCEPT ![TaskOf[j]] = 0]
       /\ \E s \in InFlight \cup Worked : task' = [task EXCEPT ![TaskOf[j]] = s]

LEMMA TaskWrites ==
    ASSUME NEW j \in Jobs,
           \/ MarkTaskRunning(j)
           \/ DeferForBusySite(j, "gate") \/ DeferForBusySite(j, "busy")
           \/ \E here \in Finishing : FinishTask(j, here)
    PROVE  TaskWrite(j)
<1>1. CASE MarkTaskRunning(j)
  BY <1>1, Statuses DEF MarkTaskRunning, Claimable, TaskWrite
<1>2. CASE DeferForBusySite(j, "gate") \/ DeferForBusySite(j, "busy")
  BY <1>2, Statuses DEF DeferForBusySite, taskVars, TaskWrite
<1>3. ASSUME NEW here \in Finishing, FinishTask(j, here)
      PROVE  TaskWrite(j)
  <2>1. Outcomes(here) \subseteq Worked
    BY DEF Outcomes, Worked, Finishing
  <2> QED  BY <1>3, <2>1 DEF FinishTask, Open, Record, TaskWrite
<1> QED  BY <1>1, <1>2, <1>3

LEMMA TaskFacts ==
    ASSUME IInv, NEW j \in Jobs,
           \/ MarkTaskRunning(j)
           \/ DeferForBusySite(j, "gate") \/ DeferForBusySite(j, "busy")
           \/ \E here \in Finishing : FinishTask(j, here)
    PROVE  StepFacts
<1> TypeOK
  BY DEF IInv
<1> DEFINE t == TaskOf[j]
<1>1. t \in Tasks
  BY SchemaAssumption
<1>2. UNCHANGED <<run, clock, trigger, reapVars, sweepVars, faults>>
  BY DEF MarkTaskRunning, DeferForBusySite, FinishTask
<1>3. \E here, next \in JobSteps \ {"none", "close"} : Step(j, here, next)
  BY DEF MarkTaskRunning, DeferForBusySite, FinishTask,
         JobSteps, Working, Applying, Finishing
<1>4. /\ at' \in [Jobs -> JobSteps] /\ took' \in [Jobs -> 0..JobTimeout]
      /\ \A i \in Jobs : MayStep(i)
  BY <1>3, StepMoves
<1>5. TaskWrite(j)
  BY TaskWrites
<1>6. CASE UNCHANGED taskVars
  <2>1. faults' \in 0..MaxFaults
    BY <1>2 DEF TypeOK
  <2> QED  BY <1>2, <1>4, <1>6, <2>1, JobOnly
<1>7. ASSUME task[t] \in InFlight, overdue' \subseteq overdue, age' = [age EXCEPT ![t] = 0],
             NEW s \in InFlight \cup Worked, task' = [task EXCEPT ![t] = s]
      PROVE  StepFacts
  <2>1. /\ task' \in [Tasks -> TaskStatuses] /\ age' \in [Tasks -> 0..ReapAfter]
        /\ overdue' \subseteq Tasks
        /\ \A u \in Tasks : MayMove(u)
        /\ \A r \in Runs : MayRun(r)
        /\ Slots
    BY <1>1, <1>2, <1>7, OneTaskMoves
  <2>2. TypeOK' /\ MayReap
    BY <1>2, <1>4, <2>1 DEF TypeOK, MayReap, reapVars, sweepVars
  <2> QED  BY <1>4, <2>1, <2>2 DEF StepFacts
<1> QED  BY <1>5, <1>6, <1>7 DEF TaskWrite

\* A released run becomes running, or completed when nothing is left to do.
LEMMA SetRunFacts ==
    ASSUME IInv, NEW r \in Runs, Released(r), NEW s \in {"running", "completed"},
           s = "completed" => Unfinished(r) = {}, SetRunStatus(r, s), UNCHANGED task
    PROVE  /\ run' \in [Runs -> RunStatuses]
           /\ \A t \in Tasks : MayMove(t)
           /\ \A q \in Runs : MayRun(q)
           /\ Slots
<1>1. run' \in [Runs -> RunStatuses]
  BY DEF SetRunStatus, IInv, TypeOK, RunStatuses, Closed
<1>2. ASSUME NEW q \in Runs PROVE MayRun(q)
  <2>1. CASE q = r
    BY <2>1 DEF SetRunStatus, MayRun, IInv, TypeOK
  <2>2. CASE q # r
    BY <2>2 DEF SetRunStatus, MayRun, IInv, TypeOK
  <2> QED  BY <2>1, <2>2
<1> QED  BY <1>1, <1>2 DEF MayMove, Slots, IInv, OneInFlightPerTarget

LEMMA RunFacts ==
    ASSUME IInv, NEW j \in Jobs, EnsureRunRunning(j) \/ CompleteRun(j)
    PROVE  StepFacts
<1> TypeOK
  BY DEF IInv
<1>1. at[j] \in {"setrun", "close"}
  BY DEF EnsureRunRunning, CompleteRun, Step
<1>2. Released(JobRun(j)) /\ JobRun(j) \in Runs
  BY <1>1, SchemaAssumption DEF IInv, WorkIsReleased, JobRun
<1>3. \E here, next \in JobSteps \ {"none"} : Step(j, here, next) /\ next # "close"
  BY DEF EnsureRunRunning, CompleteRun, JobSteps, Working, Applying, Finishing
<1>4. /\ at' \in [Jobs -> JobSteps] /\ took' \in [Jobs -> 0..JobTimeout]
      /\ \A i \in Jobs : MayStep(i)
  BY <1>3, StepMoves
<1>5. \E s \in {"running", "completed"} :
         SetRunStatus(JobRun(j), s) /\ (s = "completed" => Unfinished(JobRun(j)) = {})
  BY DEF EnsureRunRunning, CompleteRun, Step, IInv, CountsStayZero, JobRun
<1>6. UNCHANGED <<clock, trigger, taskVars, reapVars, sweepVars, faults>>
  BY DEF EnsureRunRunning, CompleteRun
<1>7. /\ run' \in [Runs -> RunStatuses]
      /\ \A t \in Tasks : MayMove(t)
      /\ \A q \in Runs : MayRun(q)
      /\ Slots
  BY <1>2, <1>5, <1>6, SetRunFacts DEF taskVars
<1>8. TypeOK' /\ MayReap
  BY <1>4, <1>6, <1>7 DEF TypeOK, MayReap, taskVars, reapVars, sweepVars
<1> QED  BY <1>4, <1>7, <1>8 DEF StepFacts

\* The reaper's steps.
LEMMA ReaperFacts == ASSUME IInv, ReaperStep PROVE StepFacts
<1> TypeOK
  BY DEF IInv
<1>1. CASE ListStaleUpdateTasks
  BY <1>1 DEF ListStaleUpdateTasks, Stale, TypeOK, taskVars, jobVars, sweepVars, StepFacts,
     MayMove, MayRun, MayStep, MayReap, Slots, IInv, OneInFlightPerTarget
<1>2. ASSUME NEW t \in Tasks, Reap(t) PROVE StepFacts
  <2>1. CASE Open(t)
    <3>1. /\ task[t] \in InFlight /\ "failed" \in InFlight \cup Worked
          /\ task' = [task EXCEPT ![t] = "failed"] /\ age' = [age EXCEPT ![t] = 0]
          /\ overdue' \subseteq overdue /\ reapCount' = {RunOf[t]}
      BY <1>2, <2>1 DEF Reap, Open, Record, Worked
    <3>2. /\ task' \in [Tasks -> TaskStatuses] /\ age' \in [Tasks -> 0..ReapAfter]
          /\ overdue' \subseteq Tasks
          /\ \A u \in Tasks : MayMove(u)
          /\ \A r \in Runs : MayRun(r)
          /\ Slots
      BY <1>2, <3>1, OneTaskMoves DEF Reap
    <3>3. TypeOK'
      BY <1>2, <3>1, <3>2, SchemaAssumption DEF Reap, TypeOK, jobVars, sweepVars
    <3>4. MayReap /\ \A j \in Jobs : MayStep(j)
      BY <1>2, <3>1 DEF Reap, MayReap, MayStep, TasksOf, jobVars
    <3> QED  BY <3>2, <3>3, <3>4 DEF StepFacts
  <2>2. CASE ~Open(t)
    BY <1>2, <2>2 DEF Reap, TypeOK, taskVars, jobVars, sweepVars, StepFacts, Open, Record,
       MayMove, MayRun, MayStep, MayReap, Slots, IInv, OneInFlightPerTarget
  <2> QED  BY <2>1, <2>2
<1>3. ASSUME NEW r \in Runs, ReapCount(r) PROVE StepFacts
  BY <1>3 DEF ReapCount, TypeOK, taskVars, jobVars, sweepVars, StepFacts,
     MayMove, MayRun, MayStep, MayReap, Slots, IInv, OneInFlightPerTarget
<1>4. ASSUME NEW r \in Runs, ReapComplete(r) PROVE StepFacts
  <2>1. Released(r) /\ Unfinished(r) = {}
    BY <1>4 DEF ReapComplete, IInv, WorkIsReleased, CountsStayZero
  <2>2. /\ run' \in [Runs -> RunStatuses]
        /\ \A t \in Tasks : MayMove(t)
        /\ \A q \in Runs : MayRun(q)
        /\ Slots
    BY <1>4, <2>1, SetRunFacts DEF ReapComplete, taskVars
  <2>3. TypeOK' /\ MayReap /\ \A j \in Jobs : MayStep(j)
    BY <1>4, <2>2 DEF ReapComplete, TypeOK, taskVars, jobVars, sweepVars, MayReap, MayStep
  <2> QED  BY <2>2, <2>3 DEF StepFacts
<1> QED  BY <1>1, <1>2, <1>3, <1>4 DEF ReaperStep

-----------------------------------------------------------------------------
(***************************************************************************)
(* Creating, cancelling, expiring and dispatching a run.                   *)
(***************************************************************************)

\* Jobs enqueued for tasks of a run that this step releases.
LEMMA EnqueueFacts ==
    ASSUME TypeOK, NEW r \in Runs, run'[r] \notin {"none", "scheduled"},
           NEW S \in SUBSET TasksOf(r), NEW E \in OneJobEach(S), Ready(E)
    PROVE  at' \in [Jobs -> JobSteps] /\ \A j \in Jobs : MayStep(j)
<1>1. at' \in [Jobs -> JobSteps]
  BY Steps DEF Ready, TypeOK
<1>2. \A j \in E : at[j] = "none" /\ JobRun(j) = r
  BY DEF OneJobEach, TasksOf, JobRun
<1> QED  BY <1>1, <1>2 DEF Ready, MayStep

LEMMA CreateFacts == ASSUME IInv, NEW r \in Runs, CreateRun(r) PROVE StepFacts
<1> TypeOK
  BY DEF IInv
<1>1. PICK S \in SUBSET TasksOf(r) :
         /\ \A t \in S : ~SlotTaken(t)
         /\ run' = [run EXCEPT ![r] = "pending"]
         /\ task' = [t \in Tasks |-> IF t \in S THEN "pending" ELSE task[t]]
         /\ \E E \in OneJobEach(S) : Ready(E)
  BY DEF CreateRun
<1>2. /\ run[r] = "none"
      /\ UNCHANGED <<clock, trigger, age, overdue, took, reapVars, sweepVars, faults>>
  BY DEF CreateRun
<1>3. at' \in [Jobs -> JobSteps] /\ \A j \in Jobs : MayStep(j)
  BY <1>1, EnqueueFacts DEF TypeOK
<1>4. run' \in [Runs -> RunStatuses] /\ task' \in [Tasks -> TaskStatuses]
  BY <1>1, Statuses DEF TypeOK, RunStatuses
<1>5. TypeOK' /\ MayReap
  BY <1>2, <1>3, <1>4 DEF TypeOK, MayReap, reapVars, sweepVars
<1>6. \A t \in Tasks : MayMove(t)
  BY <1>1, <1>2 DEF MayMove, TypeOK, TasksOf
<1>7. \A q \in Runs : MayRun(q)
  BY <1>1, <1>2 DEF MayRun, TypeOK
<1>8. Slots
  <2> SUFFICES ASSUME NEW t \in Tasks, NEW u \in Tasks, task'[t] \in InFlight,
                      task'[u] \in InFlight, TargetOf[t] = TargetOf[u]
               PROVE  t = u
    BY DEF Slots
  <2>1. CASE t \in S /\ u \in S
    BY <2>1, SchemaAssumption DEF TasksOf
  <2>2. CASE t \notin S /\ u \notin S
    BY <1>1, <2>2 DEF IInv, OneInFlightPerTarget
  <2>3. CASE t \in S /\ u \notin S
    BY <1>1, <2>3 DEF SlotTaken
  <2>4. CASE t \notin S /\ u \in S
    BY <1>1, <2>4 DEF SlotTaken
  <2> QED  BY <2>1, <2>2, <2>3, <2>4
<1> QED  BY <1>3, <1>5, <1>6, <1>7, <1>8 DEF StepFacts

LEMMA CreateScheduledFacts == ASSUME IInv, NEW r \in Runs, CreateScheduledRun(r) PROVE StepFacts
<1> TypeOK
  BY DEF IInv
<1>1. PICK S \in SUBSET TasksOf(r) :
         task' = [t \in Tasks |-> IF t \in S THEN "scheduled" ELSE task[t]]
  BY DEF CreateScheduledRun
<1>2. /\ run[r] = "none" /\ run' = [run EXCEPT ![r] = "scheduled"]
      /\ trigger' \subseteq Runs
      /\ UNCHANGED <<clock, age, overdue, jobVars, reapVars, sweepVars, faults>>
  BY DEF CreateScheduledRun, TypeOK
<1>3. run' \in [Runs -> RunStatuses] /\ task' \in [Tasks -> TaskStatuses]
  BY <1>1, <1>2, Statuses DEF TypeOK, RunStatuses
<1>4. TypeOK' /\ MayReap /\ \A j \in Jobs : MayStep(j)
  BY <1>2, <1>3 DEF TypeOK, MayReap, MayStep, jobVars, reapVars, sweepVars
<1>5. \A t \in Tasks : MayMove(t)
  BY <1>1, <1>2 DEF MayMove, TypeOK, TasksOf
<1>6. \A q \in Runs : MayRun(q)
  BY <1>2 DEF MayRun, TypeOK
<1>7. Slots
  BY <1>1, Statuses DEF Slots, IInv, OneInFlightPerTarget
<1> QED  BY <1>4, <1>5, <1>6, <1>7 DEF StepFacts

\* A cancelled or expired run takes its scheduled tasks along.
LEMMA WithdrawFacts ==
    ASSUME IInv, NEW r \in Runs, CancelScheduledRun(r) \/ ExpireDueRun(r)
    PROVE  StepFacts
<1> TypeOK
  BY DEF IInv
<1>1. PICK end \in {"cancelled", "expired"} :
         task' = [t \in Tasks |-> IF RunOf[t] = r /\ task[t] = "scheduled" THEN end ELSE task[t]]
  BY DEF CancelScheduledRun, ExpireDueRun
<1>2. PICK s \in {"halted", "expired"} : run' = [run EXCEPT ![r] = s]
  BY DEF CancelScheduledRun, ExpireDueRun
<1>3. /\ run[r] = "scheduled" /\ trigger' \subseteq Runs
      /\ UNCHANGED <<clock, age, overdue, jobVars, reapVars, sweepVars, faults>>
  BY DEF CancelScheduledRun, ExpireDueRun, TypeOK
<1>4. end \in Terminal
  BY DEF Terminal
<1>5. run' \in [Runs -> RunStatuses] /\ task' \in [Tasks -> TaskStatuses]
  BY <1>1, <1>2, <1>4, Statuses DEF TypeOK, RunStatuses, Closed
<1>6. TypeOK' /\ MayReap /\ \A j \in Jobs : MayStep(j)
  BY <1>3, <1>5 DEF TypeOK, MayReap, MayStep, jobVars, reapVars, sweepVars
<1>7. \A t \in Tasks : MayMove(t)
  BY <1>1, <1>4 DEF MayMove, TypeOK
<1>8. ASSUME NEW t \in TasksOf(r) PROVE task'[t] \in Terminal \cup {"none"}
  <2>1. t \in Tasks /\ RunOf[t] = r /\ task[t] \in TaskStatuses /\ task[t] \notin InFlight
    BY <1>3 DEF TasksOf, IInv, TasksFollowRun, Released, TypeOK
  <2> QED  BY <1>1, <1>4, <2>1 DEF TaskStatuses
<1>9. ASSUME NEW q \in Runs PROVE MayRun(q)
  <2>1. CASE q = r
    BY <1>2, <1>3, <1>8, <2>1, Statuses DEF MayRun, TypeOK
  <2>2. CASE q # r
    BY <1>2, <2>2 DEF MayRun, TypeOK
  <2> QED  BY <2>1, <2>2
<1>10. Slots
  BY <1>1, <1>4, Statuses DEF Slots, IInv, OneInFlightPerTarget
<1> QED  BY <1>6, <1>7, <1>9, <1>10 DEF StepFacts

LEMMA DispatchFacts == ASSUME IInv, NEW r \in Runs, DispatchDueRun(r) PROVE StepFacts
<1> TypeOK
  BY DEF IInv
<1>1. PICK paused \in SUBSET Sites :
         /\ task' = [t \in Tasks |-> IF t \in Dispatchable(r, paused) THEN "pending"
                                     ELSE IF RunOf[t] = r /\ task[t] = "scheduled" THEN "skipped"
                                     ELSE task[t]]
         /\ \E E \in OneJobEach(Dispatchable(r, paused)) : Ready(E)
         /\ run' = [run EXCEPT ![r] = IF Dispatchable(r, paused) = {} THEN "completed" ELSE "running"]
  BY DEF DispatchDueRun
<1> DEFINE S == Dispatchable(r, paused)
<1>2. /\ run[r] = "scheduled" /\ trigger' \subseteq Runs
      /\ UNCHANGED <<clock, age, overdue, took, reapVars, sweepVars, faults>>
  BY DEF DispatchDueRun, TypeOK
<1>3. S \subseteq TasksOf(r) /\ \A t \in S : t \in Tasks /\ RunOf[t] = r /\ task[t] = "scheduled" /\ ~SlotTaken(t)
  BY DEF Dispatchable, TasksOf
<1>4. run'[r] \in {"running", "completed"} /\ (S # {} => run'[r] = "running")
  BY <1>1 DEF TypeOK
<1> HIDE DEF S
<1>5. at' \in [Jobs -> JobSteps] /\ \A j \in Jobs : MayStep(j)
  BY <1>1, <1>3, <1>4, EnqueueFacts DEF S
<1>6. run' \in [Runs -> RunStatuses] /\ task' \in [Tasks -> TaskStatuses]
  BY <1>1 DEF S, TypeOK, RunStatuses, Closed, TaskStatuses, InFlight, Terminal, Worked
<1>7. TypeOK' /\ MayReap
  BY <1>2, <1>5, <1>6 DEF TypeOK, MayReap, reapVars, sweepVars
<1>8. ASSUME NEW t \in Tasks PROVE MayMove(t)
  <2>1. CASE t \in S
    BY <1>1, <1>3, <1>4, <2>1 DEF MayMove, S
  <2>2. CASE t \notin S
    BY <1>1, <2>2 DEF MayMove, S, Terminal, Worked
  <2> QED  BY <2>1, <2>2
<1>9. ASSUME NEW t \in TasksOf(r)
      PROVE  task'[t] # "scheduled" /\ (run'[r] \in Closed => task'[t] \in Terminal \cup {"none"})
  <2>1. t \in Tasks /\ RunOf[t] = r /\ task[t] \in {"none", "scheduled"} \cup Terminal
    BY <1>2 DEF TasksOf, IInv, TasksFollowRun, Released, TypeOK, TaskStatuses
  <2>2. CASE t \in S
    BY <1>1, <1>4, <2>1, <2>2 DEF S, Closed
  <2>3. CASE t \notin S
    BY <1>1, <2>1, <2>3 DEF S, Terminal, Worked
  <2> QED  BY <2>2, <2>3
<1>10. ASSUME NEW q \in Runs PROVE MayRun(q)
  <2>1. CASE q = r
    BY <1>2, <1>4, <1>9, <2>1 DEF MayRun
  <2>2. CASE q # r
    BY <1>1, <2>2 DEF MayRun, TypeOK
  <2> QED  BY <2>1, <2>2
<1>11. Slots
  <2>1. \A t \in Tasks : task'[t] \in InFlight => t \in S \/ task[t] \in InFlight
    BY <1>1 DEF S, InFlight
  <2> SUFFICES ASSUME NEW t \in Tasks, NEW u \in Tasks, task'[t] \in InFlight,
                      task'[u] \in InFlight, TargetOf[t] = TargetOf[u]
               PROVE  t = u
    BY DEF Slots
  <2>2. CASE t \in S /\ u \in S
    BY <1>3, <2>2, SchemaAssumption
  <2>3. CASE task[t] \in InFlight /\ task[u] \in InFlight
    BY <2>3 DEF IInv, OneInFlightPerTarget
  <2>4. CASE t \in S /\ task[u] \in InFlight
    BY <1>3, <2>4 DEF SlotTaken
  <2>5. CASE task[t] \in InFlight /\ u \in S
    BY <1>3, <2>5 DEF SlotTaken
  <2> QED  BY <2>1, <2>2, <2>3, <2>4, <2>5
<1> QED  BY <1>5, <1>7, <1>8, <1>10, <1>11 DEF StepFacts

-----------------------------------------------------------------------------
\* Everything that leaves tasks, runs, jobs and the reaper alone.
LEMMA QuietFacts ==
    ASSUME IInv,
           \/ \E r \in Runs : \/ DispatchNothing(r) \/ DispatchLost(r) \/ ScheduleArrives(r)
                              \/ EnqueueDispatchIfAbsent(r)
           \/ SweepStart \/ SweepEnd \/ SweepCancelled \/ Tick
           \/ \E t \in Tasks : WaitExceeded(t)
           \/ UNCHANGED vars
    PROVE  StepFacts
<1> TypeOK
  BY DEF IInv
<1>1. UNCHANGED <<run, task, at, reapVars>>
  BY DEF DispatchNothing, DispatchLost, ScheduleArrives, EnqueueDispatchIfAbsent, SweepStart,
         SweepEnd, SweepCancelled, Tick, WaitExceeded, vars, taskVars, jobVars
<1>2. clock' \in [Runs -> {"early", "due", "late"}] /\ trigger' \subseteq Runs
  BY DEF TypeOK, DispatchNothing, DispatchLost, ScheduleArrives, EnqueueDispatchIfAbsent,
         SweepStart, SweepEnd, SweepCancelled, Tick, WaitExceeded, vars
<1>3. /\ sweepLock' \in BOOLEAN /\ sweepDue' \subseteq Runs /\ sweeping' \in BOOLEAN
  BY DEF TypeOK, DispatchNothing, DispatchLost, ScheduleArrives, EnqueueDispatchIfAbsent,
         SweepStart, SweepEnd, SweepCancelled, Tick, WaitExceeded, vars, sweepVars
<1>4. faults' \in 0..MaxFaults
  BY SchemaAssumption DEF TypeOK, DispatchNothing, DispatchLost, ScheduleArrives,
     EnqueueDispatchIfAbsent, SweepStart, SweepEnd, SweepCancelled, Tick, WaitExceeded, vars
<1>5. age' \in [Tasks -> 0..ReapAfter] /\ took' \in [Jobs -> 0..JobTimeout]
  <2>1. CASE Tick
    BY <2>1, TimingAssumption DEF Tick, TypeOK
  <2>2. CASE ~Tick
    BY <2>2 DEF TypeOK, DispatchNothing, DispatchLost, ScheduleArrives, EnqueueDispatchIfAbsent,
         SweepStart, SweepEnd, SweepCancelled, WaitExceeded, vars, taskVars, jobVars
  <2> QED  BY <2>1, <2>2
<1>6. overdue' \subseteq Tasks
  BY DEF TypeOK, DispatchNothing, DispatchLost, ScheduleArrives, EnqueueDispatchIfAbsent,
         SweepStart, SweepEnd, SweepCancelled, Tick, WaitExceeded, vars, taskVars
<1>7. TypeOK'
  BY <1>1, <1>2, <1>3, <1>4, <1>5, <1>6 DEF TypeOK, reapVars
<1> QED  BY <1>1, <1>7 DEF StepFacts, MayMove, MayRun, MayStep, MayReap, Slots, IInv,
            OneInFlightPerTarget, reapVars

\* River retries, loses and duplicates jobs.
LEMMA RiverFacts ==
    ASSUME IInv, NEW j \in Jobs, JobFails(j) \/ JobDuplicated(j)
    PROVE  StepFacts
<1> TypeOK
  BY DEF IInv
<1>1. UNCHANGED <<run, clock, trigger, taskVars, reapVars, sweepVars>> /\ faults' \in 0..MaxFaults
  BY SchemaAssumption DEF JobFails, JobDuplicated, TypeOK
<1>2. \E here \in JobSteps, next \in {"ready", "gone"} :
         /\ Step(j, here, next)
         /\ here = "none" => next = "ready" /\ run'[JobRun(j)] \notin {"none", "scheduled"}
  <2>1. CASE JobFails(j)
    BY <2>1, Steps DEF JobFails
  <2>2. CASE JobDuplicated(j)
    <3>1. Released(JobRun(j))
      BY <2>2 DEF JobDuplicated, IInv, WorkIsReleased, JobRun
    <3> QED  BY <1>1, <2>2, <3>1, Steps DEF JobDuplicated, Released
  <2> QED  BY <2>1, <2>2
<1>3. /\ at' \in [Jobs -> JobSteps] /\ took' \in [Jobs -> 0..JobTimeout]
      /\ \A i \in Jobs : MayStep(i)
  BY <1>2, Steps, StepMoves
<1> QED  BY <1>1, <1>3, JobOnly

LEMMA EveryStep == ASSUME IInv, [Next]_vars PROVE StepFacts
<1>1. ASSUME NEW j \in Jobs, JobStep(j) PROVE StepFacts
  BY <1>1, ReadFacts, TaskFacts, RunFacts DEF JobStep
<1>2. ASSUME NEW r \in Runs, DispatchStep(r) PROVE StepFacts
  BY <1>2, QuietFacts, WithdrawFacts, DispatchFacts DEF DispatchStep
<1>3. CASE SweepStep
  BY <1>3, QuietFacts DEF SweepStep
<1> QED  BY <1>1, <1>2, <1>3, ReadFacts, CreateFacts, CreateScheduledFacts, WithdrawFacts,
            QuietFacts, RiverFacts, ReaperFacts DEF Next

-----------------------------------------------------------------------------
(***************************************************************************)
(* The invariant.                                                          *)
(***************************************************************************)
LEMMA InitInv == Init => IInv
<1> SUFFICES ASSUME Init PROVE IInv
  OBVIOUS
<1>1. TypeOK
  <2>1. /\ 0 \in 0..ReapAfter /\ 0 \in 0..JobTimeout /\ 0 \in 0..MaxFaults
    BY TimingAssumption, SchemaAssumption
  <2>2. "none" \in RunStatuses /\ "none" \in TaskStatuses /\ "none" \in JobSteps
    BY DEF RunStatuses, TaskStatuses, JobSteps
  <2> QED  BY <2>1, <2>2 DEF Init, TypeOK
<1>2. TasksFollowRun /\ ClosedRunOwesNothing /\ OneInFlightPerTarget
  BY SchemaAssumption, Statuses DEF Init, TasksFollowRun, ClosedRunOwesNothing,
     OneInFlightPerTarget, Closed
<1> QED  BY <1>1, <1>2 DEF Init, IInv, WorkIsReleased, CountsStayZero

\* A released run stays released, and one with nothing left to do stays so.
LEMMA RunsStay ==
    ASSUME IInv, StepFacts, NEW r \in Runs, Released(r)
    PROVE  Released(r)' /\ (Unfinished(r) = {} => Unfinished(r)' = {})
<1>1. Released(r)'
  BY DEF StepFacts, MayRun, Released
<1>2. ASSUME Unfinished(r) = {}, NEW t \in TasksOf(r)
      PROVE  task'[t] \notin {"scheduled"} \cup InFlight
  <2>1. t \in Tasks /\ RunOf[t] = r /\ task[t] \notin {"scheduled"} \cup InFlight
    BY <1>2 DEF Unfinished, TasksOf
  <2>2. MayMove(t)
    BY <2>1 DEF StepFacts
  <2> QED  BY <2>1, <2>2 DEF MayMove, Released
<1> QED  BY <1>1, <1>2 DEF Unfinished, TasksOf

LEMMA NextInv == ASSUME IInv, [Next]_vars PROVE IInv'
<1>1. StepFacts
  BY EveryStep
<1>2. TypeOK' /\ OneInFlightPerTarget'
  BY <1>1 DEF StepFacts, Slots, OneInFlightPerTarget
<1>3. TasksFollowRun' /\ ClosedRunOwesNothing'
  <2> SUFFICES ASSUME NEW t \in Tasks
               PROVE  /\ task'[t] = "scheduled" => run'[RunOf[t]] = "scheduled"
                      /\ task'[t] \in InFlight => Released(RunOf[t])'
                      /\ run'[RunOf[t]] = "none" => task'[t] = "none"
                      /\ run'[RunOf[t]] \in Closed => task'[t] \in Terminal \cup {"none"}
    BY DEF TasksFollowRun, ClosedRunOwesNothing
  <2> DEFINE r == RunOf[t]
  <2>1. r \in Runs /\ t \in TasksOf(r)
    BY SchemaAssumption DEF TasksOf
  <2>2. MayMove(t) /\ MayRun(r)
    BY <1>1, <2>1 DEF StepFacts
  <2>3. /\ task[t] = "scheduled" => run[r] = "scheduled"
        /\ task[t] \in InFlight => Released(r)
        /\ run[r] = "none" => task[t] = "none"
        /\ run[r] \in Closed => task[t] \in Terminal \cup {"none"}
        /\ task[t] \in TaskStatuses
    BY DEF IInv, TasksFollowRun, ClosedRunOwesNothing, TypeOK
  <2> HIDE DEF r
  <2>4. CASE run'[r] = run[r]
    BY <2>2, <2>3, <2>4, Statuses DEF MayMove, Released, r, Closed
  <2>5. CASE run[r] = "none" /\ run'[r] \in {"pending", "scheduled"}
    BY <2>2, <2>3, <2>5, Statuses DEF MayMove, Released, r, Closed
  <2>6. CASE run[r] = "scheduled" /\ run'[r] \in {"running", "completed", "halted", "expired"}
             /\ (task'[t] # "scheduled" /\ (run'[r] \in Closed => task'[t] \in Terminal \cup {"none"}))
    BY <2>6 DEF Released, r
  <2>7. CASE Released(r) /\ run'[r] = "running"
    BY <2>2, <2>3, <2>7, Statuses DEF MayMove, Released, r, Closed
  <2>8. CASE Released(r) /\ run'[r] = "completed" /\ Unfinished(r) = {}
    <3>1. task[t] \notin {"scheduled"} \cup InFlight
      BY <2>1, <2>8 DEF Unfinished
    <3>2. task'[t] = task[t]
      BY <2>2, <2>8, <3>1 DEF MayMove, Released, r
    <3> QED  BY <2>3, <2>8, <3>1, <3>2 DEF Released, r, TaskStatuses
  <2> QED  BY <2>1, <2>2, <2>4, <2>5, <2>6, <2>7, <2>8 DEF MayRun
<1>4. ASSUME NEW j \in Jobs
      PROVE  /\ at'[j] # "none" => Released(JobRun(j))'
             /\ at'[j] = "close" => Unfinished(JobRun(j))' = {}
  <2>1. JobRun(j) \in Runs /\ MayStep(j) /\ JobRun(j)' = JobRun(j)
    BY <1>1, SchemaAssumption DEF JobRun, StepFacts
  <2>2. CASE at[j] = "none"
    BY <2>1, <2>2 DEF MayStep, Released
  <2>3. CASE at[j] # "none"
    <3>1. Released(JobRun(j))
      BY <2>3 DEF IInv, WorkIsReleased
    <3>2. at'[j] = "close" => Unfinished(JobRun(j)) = {}
      BY <2>1, <2>3 DEF MayStep, IInv, CountsStayZero
    <3> QED  BY <1>1, <2>1, <3>1, <3>2, RunsStay
  <2> QED  BY <2>2, <2>3
<1>5. ASSUME NEW r \in reapCount' \cup reapClose'
      PROVE  Released(r)' /\ (r \in reapClose' => Unfinished(r)' = {})
  <2>1. r \in Runs
    BY <1>2 DEF TypeOK
  <2>2. Released(r)
    BY <1>1 DEF StepFacts, MayReap, IInv, WorkIsReleased, TasksFollowRun, TasksOf
  <2>3. r \in reapClose' => Unfinished(r) = {}
    BY <1>1 DEF StepFacts, MayReap, IInv, CountsStayZero
  <2> QED  BY <1>1, <2>1, <2>2, <2>3, RunsStay
<1>6. WorkIsReleased' /\ CountsStayZero'
  BY <1>4, <1>5 DEF WorkIsReleased, CountsStayZero
<1> QED  BY <1>2, <1>3, <1>6 DEF IInv

LEMMA Inductive == Spec => []IInv
<1>1. IInv /\ [Next]_vars => IInv'
  BY NextInv
<1> QED  BY <1>1, InitInv, PTL DEF Spec

\* Every row of update_runs and update_tasks, every job and both periodic
\* workers keep values the schema and the code allow; ages and job times stay
\* within the timings of ValidateClaimTimings.
THEOREM TypeCorrect == Spec => []TypeOK
  BY Inductive, PTL DEF IInv

\* maybeCompleteRun, CancelScheduledRun and the dispatcher close a run only
\* when no task of it is left, and no task comes after: for any number of
\* tasks finishing at once, workers, reapers and retries.
THEOREM ClosedRunsOweNothing == Spec => []ClosedRunOwesNothing
  BY Inductive, PTL DEF IInv

\* update_tasks_inflight_target_idx as the insert and the dispatch use it: two
\* tasks in flight never have the same target.
THEOREM SlotsAreExclusive == Spec => []OneInFlightPerTarget
  BY Inductive, PTL DEF IInv

-----------------------------------------------------------------------------
(***************************************************************************)
(* UpdateRun implements UpdateLedger.                                      *)
(***************************************************************************)

\* How the ledger reads one status.
LEMMA LedgerReads == \A t \in Tasks :
    /\ task[t] = "none" => LedgerState[t] = "absent"
    /\ task[t] = "scheduled" => LedgerState[t] = "waiting"
    /\ task[t] \in InFlight => LedgerState[t] = "open"
    /\ task[t] \in Terminal => LedgerState[t] = task[t]
  BY Statuses DEF LedgerState

LEMMA LedgerStep ==
    ASSUME IInv, IInv', [Next]_vars
    PROVE  Ledger!Next \/ UNCHANGED LedgerState
<1> TypeOK /\ TypeOK'
  BY DEF IInv
<1> Ledger!Exclusive(LedgerState')
  <2>1. \A t \in Tasks : LedgerState'[t] = "open" => task'[t] \in InFlight
    BY DEF LedgerState, TypeOK, TaskStatuses, Terminal, Worked
  <2> QED  BY <2>1 DEF Ledger!Exclusive, IInv, OneInFlightPerTarget
<1>1. CASE UNCHANGED task
  BY <1>1 DEF LedgerState
<1>2. ASSUME NEW t \in Tasks, task[t] \in InFlight, NEW s \in InFlight \cup Worked,
             task' = [task EXCEPT ![t] = s]
      PROVE  Ledger!Next \/ UNCHANGED LedgerState
  <2>1. CASE s \in InFlight
    BY <1>2, <2>1, Statuses DEF LedgerState, TypeOK
  <2>2. CASE s \in Worked
    <3>1. LedgerState[t] = "open" /\ LedgerState' = [LedgerState EXCEPT ![t] = s]
      BY <1>2, <2>2, Statuses DEF LedgerState, TypeOK
    <3> QED  BY <2>2, <3>1 DEF Ledger!Next, Ledger!Settle, Ledger!Worked, Worked
  <2> QED  BY <1>2, <2>1, <2>2
<1>3. ASSUME NEW j \in Jobs, JobStep(j) PROVE Ledger!Next \/ UNCHANGED LedgerState
  <2>1. UNCHANGED task \/ TaskWrite(j)
    BY <1>3, TaskWrites DEF JobStep, Work, YieldContendedClaim, EnsureRead, EnsureRunRunning,
       RunApply, CountUnfinished, CompleteRun, taskVars
  <2> QED  BY <1>1, <1>2, <2>1, SchemaAssumption DEF TaskWrite, taskVars
<1>4. ASSUME NEW t \in Tasks, Reap(t) PROVE Ledger!Next \/ UNCHANGED LedgerState
  BY <1>1, <1>2, <1>4 DEF Reap, Open, Record, taskVars, Worked
<1>5. ASSUME NEW r \in Runs, CreateRun(r) \/ CreateScheduledRun(r) PROVE Ledger!Next
  <2>1. PICK S \in SUBSET TasksOf(r), first \in {"scheduled", "pending"} :
           task' = [t \in Tasks |-> IF t \in S THEN first ELSE task[t]]
    BY <1>5 DEF CreateRun, CreateScheduledRun
  <2>2. \A t \in TasksOf(r) : LedgerState[t] = "absent"
    BY <1>5, LedgerReads DEF CreateRun, CreateScheduledRun, IInv, TasksFollowRun, TasksOf
  <2> DEFINE seen == IF first = "scheduled" THEN "waiting" ELSE "open"
  <2>3. LedgerState' = [t \in Tasks |-> IF t \in S THEN seen ELSE LedgerState[t]]
    BY <2>1 DEF LedgerState, InFlight
  <2>4. TasksOf(r) = Ledger!TasksOf(r) /\ seen \in {"waiting", "open"}
    BY DEF TasksOf, Ledger!TasksOf
  <2> HIDE DEF seen
  <2>5. Ledger!Plan(r)
    BY <2>2, <2>3, <2>4 DEF Ledger!Plan
  <2> QED  BY <2>5 DEF Ledger!Next
<1>6. ASSUME NEW r \in Runs PROVE Ledger!WaitingIn(r) = {t \in Tasks : RunOf[t] = r /\ task[t] = "scheduled"}
  BY DEF Ledger!WaitingIn, Ledger!TasksOf, LedgerState, TypeOK, TaskStatuses, InFlight, Terminal, Worked
<1>7. ASSUME NEW r \in Runs, CancelScheduledRun(r) \/ ExpireDueRun(r) PROVE Ledger!Next
  <2>1. PICK end \in {"cancelled", "expired"} :
           task' = [t \in Tasks |-> IF RunOf[t] = r /\ task[t] = "scheduled" THEN end ELSE task[t]]
    BY <1>7 DEF CancelScheduledRun, ExpireDueRun
  <2>2. LedgerState' = [t \in Tasks |-> IF t \in Ledger!WaitingIn(r) THEN end ELSE LedgerState[t]]
    BY <1>6, <2>1 DEF LedgerState, InFlight
  <2> QED  BY <2>2 DEF Ledger!Next, Ledger!Withdraw
<1>8. ASSUME NEW r \in Runs, DispatchDueRun(r) PROVE Ledger!Next
  <2>1. PICK paused \in SUBSET Sites :
           task' = [t \in Tasks |-> IF t \in Dispatchable(r, paused) THEN "pending"
                                     ELSE IF RunOf[t] = r /\ task[t] = "scheduled" THEN "skipped"
                                     ELSE task[t]]
    BY <1>8 DEF DispatchDueRun
  <2> DEFINE S == Dispatchable(r, paused)
  <2>2. S \subseteq Ledger!WaitingIn(r)
    BY <1>6 DEF Dispatchable, TasksOf
  <2>3. LedgerState' = [t \in Tasks |-> IF t \in S THEN "open"
                                       ELSE IF t \in Ledger!WaitingIn(r) THEN "skipped"
                                       ELSE LedgerState[t]]
    BY <1>6, <2>1 DEF LedgerState, InFlight
  <2> HIDE DEF S
  <2>4. Ledger!Fire(r)
    BY <2>2, <2>3 DEF Ledger!Fire
  <2> QED  BY <2>4 DEF Ledger!Next
<1>9. CASE UNCHANGED vars
  BY <1>1, <1>9 DEF vars, taskVars
<1>10. ASSUME NEW r \in Runs, DispatchStep(r) PROVE Ledger!Next \/ UNCHANGED LedgerState
  BY <1>1, <1>7, <1>8, <1>10 DEF DispatchStep, DispatchNothing, taskVars
<1>11. CASE ReaperStep
  BY <1>1, <1>4, <1>11 DEF ReaperStep, ListStaleUpdateTasks, ReapCount, ReapComplete, taskVars
<1>12. CASE Next
  BY <1>1, <1>3, <1>5, <1>7, <1>10, <1>11, <1>12
     DEF Next, DispatchLost, ScheduleArrives, SweepStep, SweepStart, EnqueueDispatchIfAbsent,
         SweepEnd, SweepCancelled, RefuseAgentSelfUpdate, WorkUncounted, JobFails, JobDuplicated,
         Tick, WaitExceeded, taskVars
<1> QED  BY <1>9, <1>12

\* Creation, dispatch, cancellation, expiry, workers and reaper implement the
\* ledger: runs are planned, fired and withdrawn as a whole, a target has one
\* open task, and an outcome once recorded is never replaced.
THEOREM LedgerImplemented == Spec => ImplementsLedger
<1>1. Init => Ledger!Init
  BY DEF Init, Ledger!Init, LedgerState
<1>2. IInv /\ IInv' /\ [Next]_vars => [Ledger!Next]_LedgerState
  BY LedgerStep
<1> QED  BY <1>1, <1>2, Inductive, PTL DEF Spec, ImplementsLedger, Ledger!Spec

-----------------------------------------------------------------------------
(***************************************************************************)
(* Claims.  A worker that is applying a task has worked at least as long   *)
(* as the row is old, whatever was done to the row since; and River ends   *)
(* the worker before the row is old enough to be taken for abandoned.      *)
(***************************************************************************)
ClaimsHeld == \A j \in Jobs : at[j] \in Applying => age[TaskOf[j]] <= took[j]

\* Steps that make no claim and no row older.
KeepsClaims ==
    /\ \A j \in Jobs : at'[j] \in Applying => at[j] \in Applying /\ took'[j] = took[j]
    /\ \A t \in Tasks : age'[t] \in {0, age[t]}

\* The property, one step of it.
ClaimIsSafe == \A i, j \in Jobs :
    at[i] \in Applying /\ at[j] \notin Applying /\ at'[j] \in Applying /\ TaskOf[i] = TaskOf[j]
        => task[TaskOf[j]] = "pending"

LEMMA KeepsClaimsHeld ==
    ASSUME TypeOK, ClaimsHeld, KeepsClaims
    PROVE  ClaimsHeld' /\ ClaimIsSafe
<1>1. \A j \in Jobs : TaskOf[j] \in Tasks /\ took[j] \in Nat
  BY SchemaAssumption DEF TypeOK
<1> QED  BY <1>1 DEF KeepsClaims, ClaimsHeld, ClaimIsSafe

\* What Step does to the jobs.
LEMMA StepIs ==
    ASSUME TypeOK, NEW j \in Jobs, NEW here, NEW next, Step(j, here, next)
    PROVE  /\ at[j] = here /\ at'[j] = next
           /\ next \in Working => took'[j] = took[j]
           /\ \A i \in Jobs \ {j} : at'[i] = at[i] /\ took'[i] = took[i]
  BY DEF Step, TypeOK

\* The steps of a job other than its claim.
LEMMA JobsKeepClaims ==
    ASSUME TypeOK, NEW j \in Jobs,
           \/ Work(j) \/ RefuseAgentSelfUpdate(j) \/ WorkUncounted(j) \/ YieldContendedClaim(j)
           \/ EnsureRead(j) \/ EnsureRunRunning(j) \/ RunApply(j)
           \/ DeferForBusySite(j, "gate") \/ DeferForBusySite(j, "busy")
           \/ (\E here \in Finishing : FinishTask(j, here)) \/ CountUnfinished(j) \/ CompleteRun(j)
           \/ JobFails(j) \/ JobDuplicated(j)
    PROVE  KeepsClaims
<1>1. \E here, next \in JobSteps : Step(j, here, next) /\ (next \in Applying => here \in Applying)
  BY DEF Work, RefuseAgentSelfUpdate, WorkUncounted, YieldContendedClaim, EnsureRead,
         EnsureRunRunning, RunApply, DeferForBusySite, FinishTask, CountUnfinished, CompleteRun,
         JobFails, JobDuplicated, JobSteps, Working, Applying, Finishing
<1>2. \A i \in Jobs : at'[i] \in Applying => at[i] \in Applying /\ took'[i] = took[i]
  BY <1>1, StepIs, Steps
<1>3. age' = age \/ age' = [age EXCEPT ![TaskOf[j]] = 0]
  BY DEF Work, RefuseAgentSelfUpdate, WorkUncounted, YieldContendedClaim, EnsureRead,
         EnsureRunRunning, RunApply, DeferForBusySite, FinishTask, Record, CountUnfinished,
         CompleteRun, JobFails, JobDuplicated, taskVars
<1> QED  BY <1>2, <1>3 DEF KeepsClaims, TypeOK

\* The reaper, the dispatcher, the sweeper and those who create and withdraw runs.
LEMMA OthersKeepClaims ==
    ASSUME TypeOK,
           \/ \E r \in Runs : \/ CreateRun(r) \/ CreateScheduledRun(r) \/ CancelScheduledRun(r)
                              \/ DispatchStep(r) \/ DispatchLost(r) \/ ScheduleArrives(r)
           \/ SweepStep \/ SweepCancelled \/ ReaperStep
           \/ \E t \in Tasks : WaitExceeded(t)
           \/ UNCHANGED vars
    PROVE  KeepsClaims
<1>1. ASSUME NEW r \in Runs,
             CreateRun(r) \/ CreateScheduledRun(r) \/ CancelScheduledRun(r) \/ DispatchStep(r)
      PROVE  KeepsClaims
  <2>1. UNCHANGED <<age, took>> /\ \A j \in Jobs : at'[j] = at[j] \/ at'[j] = "ready"
    BY <1>1 DEF CreateRun, CreateScheduledRun, CancelScheduledRun, DispatchStep, DispatchNothing,
       ExpireDueRun, DispatchDueRun, Ready, jobVars, taskVars, TypeOK
  <2> QED  BY <2>1 DEF KeepsClaims, Applying
<1>2. ASSUME NEW t \in Tasks, Reap(t) PROVE KeepsClaims
  BY <1>2 DEF Reap, Record, KeepsClaims, jobVars, taskVars, TypeOK
<1>3. ASSUME UNCHANGED <<age, at, took>> PROVE KeepsClaims
  BY <1>3 DEF KeepsClaims
<1> QED  BY <1>1, <1>2, <1>3 DEF DispatchLost, ScheduleArrives, SweepStep, SweepStart,
            EnqueueDispatchIfAbsent, SweepEnd, SweepCancelled, ReaperStep, ListStaleUpdateTasks,
            ReapCount, ReapComplete, WaitExceeded, vars, taskVars, jobVars

\* A row that reads running and is claimed is too old for a live worker.
LEMMA ClaimKeepsHeld ==
    ASSUME TypeOK, ClaimsHeld, NEW j \in Jobs, MarkTaskRunning(j)
    PROVE  ClaimsHeld' /\ ClaimIsSafe
<1> DEFINE t == TaskOf[j]
<1>1. t \in Tasks /\ \A i \in Jobs : TaskOf[i] \in Tasks /\ took[i] \in 0..JobTimeout
  BY SchemaAssumption DEF TypeOK
<1>2. /\ Claimable(t) /\ Step(j, "claim", "ensure") /\ age' = [age EXCEPT ![t] = 0]
  BY DEF MarkTaskRunning
<1>3. /\ at'[j] = "ensure" /\ took'[j] = took[j]
      /\ \A i \in Jobs \ {j} : at'[i] = at[i] /\ took'[i] = took[i]
  BY <1>2, StepIs DEF Working, Applying
<1>4. ClaimsHeld'
  BY <1>1, <1>2, <1>3 DEF ClaimsHeld, TypeOK
<1>5. ASSUME NEW i \in Jobs, at[i] \in Applying, TaskOf[i] = t PROVE task[t] = "pending"
  <2>1. age[t] \in Nat /\ age[t] < ClaimStale
    BY <1>1, <1>5, TimingAssumption DEF ClaimsHeld, TypeOK
  <2> QED  BY <1>2, <2>1, TimingAssumption DEF Claimable
<1> QED  BY <1>3, <1>4, <1>5 DEF ClaimIsSafe

\* A tick makes a row and its worker older together.
LEMMA TickKeepsHeld ==
    ASSUME TypeOK, ClaimsHeld, Tick
    PROVE  ClaimsHeld' /\ ClaimIsSafe
<1>1. UNCHANGED at
  BY DEF Tick
<1>2. ASSUME NEW j \in Jobs, at[j] \in Applying PROVE age'[TaskOf[j]] <= took'[j]
  <2>1. took'[j] = took[j] + 1 /\ took[j] \in Nat
    BY <1>2, Steps DEF Tick, TypeOK
  <2>2. TaskOf[j] \in Tasks
    BY SchemaAssumption
  <2>3. age[TaskOf[j]] \in Nat /\ age'[TaskOf[j]] \in {age[TaskOf[j]], age[TaskOf[j]] + 1}
    BY <2>2 DEF Tick, TypeOK
  <2> QED  BY <1>2, <2>1, <2>3 DEF ClaimsHeld
<1> QED  BY <1>1, <1>2 DEF ClaimsHeld, ClaimIsSafe

LEMMA EveryStepIsSafe ==
    ASSUME TypeOK, ClaimsHeld, [Next]_vars
    PROVE  ClaimsHeld' /\ ClaimIsSafe
<1>1. ASSUME NEW j \in Jobs, JobStep(j) PROVE ClaimsHeld' /\ ClaimIsSafe
  BY <1>1, JobsKeepClaims, KeepsClaimsHeld, ClaimKeepsHeld DEF JobStep
<1>2. ASSUME NEW j \in Jobs,
             RefuseAgentSelfUpdate(j) \/ WorkUncounted(j) \/ JobFails(j) \/ JobDuplicated(j)
      PROVE  ClaimsHeld' /\ ClaimIsSafe
  BY <1>2, JobsKeepClaims, KeepsClaimsHeld
<1> QED  BY <1>1, <1>2, OthersKeepClaims, KeepsClaimsHeld, TickKeepsHeld DEF Next

\* However often jobs are retried, duplicated, deferred and timed out, and
\* whatever the gate puts back, MarkUpdateTaskRunning never takes a row that
\* reads running from a worker still inside its apply: JobTimeout lies below
\* ClaimStaleAfter (ValidateClaimTimings).
THEOREM LiveWorkersSpared == Spec => ReclaimSparesLive
<1>1. Init => ClaimsHeld
  BY DEF Init, ClaimsHeld, Applying
<1>2. TypeOK /\ ClaimsHeld /\ [Next]_vars => ClaimsHeld' /\ ClaimIsSafe
  BY EveryStepIsSafe
<1>3. Spec => []TypeOK
  BY TypeCorrect
<1>4. ClaimIsSafe => [ClaimIsSafe]_vars
  OBVIOUS
<1>5. Spec => [][ClaimIsSafe]_vars
  BY <1>1, <1>2, <1>3, <1>4, PTL DEF Spec
<1> QED  BY <1>5 DEF ReclaimSparesLive, ClaimIsSafe
=============================================================================

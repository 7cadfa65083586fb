---------------------------- MODULE AgentRollout ----------------------------
(***************************************************************************)
(* One rollout of the agent's own upgrade (agent_wave.go, agent_repo.go,   *)
(* agent_worker.go in apps/api/internal/update).  The sites are upgraded   *)
(* in waves: a wave opens once every earlier wave has ended and passed its *)
(* gate, and a failed gate or the kill switch halts the run.  Sites are    *)
(* numbered in the run's wave order.  Whatever happens to a task and its   *)
(* one row is told by its site's number.                                   *)
(***************************************************************************)
EXTENDS Integers, FiniteSets

CONSTANTS
    N,          \* how many sites the run has
    PilotMinimum, \* wavePilotMinimum, 3 in the code
    MaxFaults   \* bound on crashes and lost jobs

ASSUME SizeAssumption == /\ N \in Nat \ {0} /\ PilotMinimum \in Nat \ {0}
                         /\ MaxFaults \in Nat

VARIABLES
    run,        \* update_runs.status
    task,       \* update_tasks.status of each site's task
    queued,     \* the sites whose task has an arm job in the queue
    at,         \* <<t, step>> for each worker busy with task t
    contacted,  \* the sites a command was sent to
    enabled,    \* the channel's configuration: FALSE is the kill switch
    reaped,     \* the reaper still owes the run's completion check
    faults

vars == <<run, task, queued, at, contacted, enabled, reaped, faults>>

Sites == 1..N
Terminal == {"succeeded", "failed", "skipped", "cancelled"}
Open(t) == task[t] \in {"pending", "running"}
\* What a worker that took an arm job, and one that polls for confirmation,
\* is about to do; and what either does once it has an outcome.
ArmSteps == {"claimed", "setrun", "send", "answer"}
PollSteps == {"confirm", "resolve"}
EndSteps == {"kill", "close", "evaluate", "closing", "halting",
             "enqueue0", "enqueue1", "enqueue2"}
Steps == ArmSteps \cup PollSteps \cup EndSteps

-----------------------------------------------------------------------------
(***************************************************************************)
(* The wave machine, a function of the task rows.                          *)
(***************************************************************************)
SmallerOf(m, n) == IF m < n THEN m ELSE n
LargerOf(m, n) == IF m < n THEN n ELSE m

\* PlanWaves: one canary, a pilot of a twentieth of the run (rounded up) and at
\* least PilotMinimum, and the rest.
pilotSize == SmallerOf(LargerOf((N + 19) \div 20, PilotMinimum), N - 1)
WaveIndexOf == [t \in Sites |-> IF t = 1 THEN 0 ELSE IF t <= 1 + pilotSize THEN 1 ELSE 2]
Wave == [i \in 0..2 |-> {t \in Sites : WaveIndexOf[t] = i}]

BreachedByFailures(i, st) ==
    LET failed == Cardinality({t \in Wave[i] : st[t] = "failed"}) IN
    /\ Wave[i] # {}
    /\ (i = 0 /\ failed > 0) \/ 10 * failed > Cardinality(Wave[i])
\* haltReasonFor, of a wave that has ended: nothing confirmed, a failed
\* canary, or more than a tenth failed.
Breached(i, st) ==
    LET failed == Cardinality({t \in Wave[i] : st[t] = "failed"}) IN
    /\ Wave[i] # {}
    /\ \/ \A t \in Wave[i] : st[t] # "succeeded"
       \/ i = 0 /\ failed > 0
       \/ 10 * failed > Cardinality(Wave[i])

Ended(i, st) == \A t \in Wave[i] : st[t] \in Terminal
Passed(i, st) == Ended(i, st) /\ ~Breached(i, st)

\* DeriveAgentWaveState: the first wave that has not passed decides.
Halt(st) == \E i \in 0..2 :
    /\ Ended(i, st) /\ Breached(i, st)
    /\ \A k \in 0..2 : k < i => Passed(k, st)
GateOpenFor(t, st) == ~Halt(st) /\ \A k \in 0..2 : k < WaveIndexOf[t] => Passed(k, st)

\* DispatchableTasks: the newest open wave, if none of it ever left pending.
DispatchableTasks(st) ==
    {t \in Sites : /\ GateOpenFor(t, st)
                   /\ \A u \in Sites : GateOpenFor(u, st) => WaveIndexOf[u] <= WaveIndexOf[t]
                   /\ \A u \in Wave[WaveIndexOf[t]] : st[u] = "pending"}

-----------------------------------------------------------------------------
\* enqueueSet, of a run that starts at once: only the first wave gets jobs.
StartsNow ==
    /\ run = "pending" /\ task = [t \in Sites |-> "pending"] /\ queued = Wave[0]

\* DispatchDueRun, of a scheduled run, in one transaction: every task gets its
\* job at once, whatever its wave, except those of held sites (paused, or their
\* agent in flight in another run), which are recorded as skipped.
StartsScheduled == \E held \in SUBSET Sites :
    /\ task = [t \in Sites |-> IF t \in held THEN "skipped" ELSE "pending"]
    /\ queued = Sites \ held
    /\ run = IF held = Sites THEN "completed" ELSE "running"

Init ==
    /\ StartsNow \/ StartsScheduled
    /\ at = {} /\ contacted = {} /\ enabled = TRUE /\ reaped = FALSE /\ faults = 0

SetRunStatusAlways(s) == run' = s
\* SetUpdateRunStatus
SetRunStatus(s) == run' = IF run = "halted" THEN run ELSE s
Move(t, here, next) == <<t, here>> \in at /\ at' = (at \ {<<t, here>>}) \cup {<<t, next>>}
Done(t, here) == <<t, here>> \in at /\ at' = at \ {<<t, here>>}

HaltLockedAll ==
    /\ SetRunStatus("halted")
    /\ task' = [t \in Sites |-> IF Open(t) THEN "cancelled" ELSE task[t]]
\* haltLocked: the run first, then every task nothing was sent for.
HaltLocked ==
    /\ SetRunStatus("halted")
    /\ task' = [t \in Sites |-> IF task[t] = "pending" THEN "cancelled" ELSE task[t]]

(***************************************************************************)
(* runAgentSelfUpdate.  ClaimAgentWaveTask runs under the run's advisory   *)
(* lock; a job whose gate is shut (ClaimWait) is snoozed: it changes       *)
(* nothing and stays queued.                                               *)
(***************************************************************************)
\* A duplicate job of a task another worker took, or of one that has ended.
ClaimAlreadyClaimed(t) ==
    /\ t \in queued /\ queued' = queued \ {t}
    /\ \/ task[t] \in Terminal
       \/ enabled /\ task[t] = "running" /\ run # "halted" /\ ~Halt(task)
    /\ UNCHANGED <<run, task, at, contacted, enabled, reaped, faults>>

ClaimHalted(t) ==
    /\ t \in queued /\ enabled /\ Open(t)
    /\ run = "halted" \/ Halt(task)
    /\ HaltLocked
    /\ queued' = queued \ {t}
    /\ UNCHANGED <<at, contacted, enabled, reaped, faults>>

ClaimUngated(t) ==
    /\ t \in queued /\ enabled /\ task[t] = "pending"
    /\ run # "halted"
    /\ task' = [task EXCEPT ![t] = "running"]
    /\ queued' = queued \ {t} /\ at' = at \cup {<<t, "claimed">>}
    /\ UNCHANGED <<run, contacted, enabled, reaped, faults>>
ClaimProceed(t) ==
    /\ t \in queued /\ enabled /\ task[t] = "pending"
    /\ run # "halted" /\ GateOpenFor(t, task)
    /\ task' = [task EXCEPT ![t] = "running"]
    /\ queued' = queued \ {t} /\ at' = at \cup {<<t, "claimed">>}
    /\ UNCHANGED <<run, contacted, enabled, reaped, faults>>

\* The kill switch is checked before the claim.
KillSwitch(t) ==
    /\ t \in queued /\ ~enabled /\ Open(t)
    /\ queued' = queued \ {t} /\ at' = at \cup {<<t, "kill">>}
    /\ UNCHANGED <<run, task, contacted, enabled, reaped, faults>>

\* ensureRunRunning: read, then write.
EnsureRunRunning(t) ==
    /\ \/ Move(t, "claimed", IF run = "pending" THEN "setrun" ELSE "send") /\ UNCHANGED run
       \/ Move(t, "setrun", "send") /\ SetRunStatus("running")
    /\ UNCHANGED <<task, queued, contacted, enabled, reaped, faults>>

\* finish: the first outcome recorded wins.  The wave gate is judged again,
\* or the run halted, whether or not this one was recorded.
Record(t, here, outcomes, next) ==
    \/ /\ Open(t) /\ Move(t, here, next.recorded)
       /\ \E o \in outcomes : task' = [task EXCEPT ![t] = o]
    \/ ~Open(t) /\ Move(t, here, next.refused) /\ UNCHANGED task
ThenEvaluate == [recorded |-> "close", refused |-> "evaluate"]
ThenHalt == [recorded |-> "closing", refused |-> "halting"]

\* Beat 1.  The site is resolved, or the task fails; then the command is sent.
Arm(t) ==
    /\ \/ Record(t, "send", {"failed"}, ThenEvaluate) /\ UNCHANGED contacted
       \/ Move(t, "send", "answer") /\ contacted' = contacted \cup {t} /\ UNCHANGED task
    /\ UNCHANGED <<run, queued, enabled, reaped, faults>>

AnswerRollsBack(t) ==
    /\ Record(t, "answer", {"succeeded", "failed", "rolled_back"}, ThenEvaluate)
    /\ UNCHANGED <<run, queued, contacted, enabled, reaped, faults>>
\* The answer ends the task, or leaves it to the confirmation poll (armed,
\* armUncertain), or shows that the published version moved below the run's.
Answer(t) ==
    /\ \/ Record(t, "answer", {"succeeded", "failed", "skipped"}, ThenEvaluate)
       \/ Move(t, "answer", "confirm") /\ UNCHANGED task
       \/ Record(t, "answer", {"succeeded", "skipped"}, ThenHalt)
    /\ UNCHANGED <<run, queued, contacted, enabled, reaped, faults>>

\* Beat 2: the new code reported its version, or the deadline passed.
Confirm(t) ==
    /\ \/ /\ IF Open(t) THEN Move(t, "confirm", "resolve") ELSE Done(t, "confirm")
          /\ UNCHANGED task
       \/ Record(t, "resolve", {"succeeded", "failed", "skipped"}, ThenEvaluate)
    /\ UNCHANGED <<run, queued, contacted, enabled, reaped, faults>>

\* haltAgentRun: the job's own task is skipped, and the run halted after.
SkipTask(t) ==
    /\ Record(t, "kill", {"skipped"}, ThenHalt)
    /\ UNCHANGED <<run, queued, contacted, enabled, reaped, faults>>

CompleteWhenNoneRuns(t) ==
    /\ Move(t, "close", "evaluate") \/ Move(t, "closing", "halting")
    /\ IF \A u \in Sites : task[u] # "running" THEN SetRunStatus("completed") ELSE UNCHANGED run
    /\ UNCHANGED <<task, queued, contacted, enabled, reaped, faults>>
\* maybeCompleteRun.  A count of zero stays true, so it is one step with the write.
MaybeCompleteRun(t) ==
    /\ Move(t, "close", "evaluate") \/ Move(t, "closing", "halting")
    /\ IF \A u \in Sites : ~Open(u) THEN SetRunStatus("completed") ELSE UNCHANGED run
    /\ UNCHANGED <<task, queued, contacted, enabled, reaped, faults>>

\* evaluateAgentRun: halt the run, or pick the wave that has just opened and
\* enqueue it once the lock is gone.
EnqueueStep(i) == CASE i = 0 -> "enqueue0" [] i = 1 -> "enqueue1" [] i = 2 -> "enqueue2"
EvaluateAgentRun(t) ==
    /\ IF run = "halted" \/ Halt(task)
       THEN Done(t, "evaluate") /\ HaltLocked
       ELSE /\ IF DispatchableTasks(task) = {} THEN Done(t, "evaluate")
               ELSE \E u \in DispatchableTasks(task) : Move(t, "evaluate", EnqueueStep(WaveIndexOf[u]))
            /\ UNCHANGED <<run, task>>
    /\ UNCHANGED <<queued, contacted, enabled, reaped, faults>>

EnqueueWave(t, i) ==
    /\ Done(t, EnqueueStep(i))
    /\ queued' = queued \cup Wave[i]
    /\ UNCHANGED <<run, task, contacted, enabled, reaped, faults>>

\* The second half of haltAgentRunWith.
HaltAgentRun(t) ==
    /\ Done(t, "halting") /\ HaltLocked
    /\ UNCHANGED <<queued, contacted, enabled, reaped, faults>>

-----------------------------------------------------------------------------
ReapRunning(t) ==
    /\ task[t] = "running" /\ ~reaped
    /\ task' = [task EXCEPT ![t] = "failed"] /\ reaped' = TRUE
    /\ UNCHANGED <<run, queued, at, contacted, enabled, faults>>
\* The reaper fails any row untouched for six hours and checks for completion,
\* but does not judge the wave gate.  A queue or a control plane that stood
\* still makes any row old.
Reap(t) ==
    /\ Open(t) /\ ~reaped
    /\ task' = [task EXCEPT ![t] = "failed"] /\ reaped' = TRUE
    /\ UNCHANGED <<run, queued, at, contacted, enabled, faults>>

ReapComplete ==
    /\ reaped /\ reaped' = FALSE
    /\ IF \A u \in Sites : ~Open(u) THEN SetRunStatus("completed") ELSE UNCHANGED run
    /\ UNCHANGED <<task, queued, at, contacted, enabled, faults>>

\* A worker dies or its step fails.  River runs its job again, or gives up.
Crash(t) ==
    /\ faults < MaxFaults /\ faults' = faults + 1
    /\ \/ \E s \in ArmSteps \cup {"kill"} : Done(t, s) /\ queued' \in {queued, queued \cup {t}}
       \/ (Done(t, "confirm") \/ Done(t, "resolve") \/ Move(t, "resolve", "confirm"))
          /\ UNCHANGED queued
       \/ (\E s \in EndSteps \ {"kill"} : Done(t, s)) /\ UNCHANGED queued
    /\ UNCHANGED <<run, task, contacted, enabled, reaped>>

JobLost(t) ==
    /\ t \in queued /\ faults < MaxFaults
    /\ queued' = queued \ {t} /\ faults' = faults + 1
    /\ UNCHANGED <<run, task, at, contacted, enabled, reaped>>

\* The operator disables the channel, or enables it again.
SetChannel ==
    /\ enabled' = ~enabled
    /\ UNCHANGED <<run, task, queued, at, contacted, reaped, faults>>

WorkerStep(t) ==
    \/ ClaimAlreadyClaimed(t) \/ ClaimHalted(t) \/ ClaimProceed(t) \/ KillSwitch(t)
    \/ EnsureRunRunning(t) \/ Arm(t) \/ Answer(t) \/ Confirm(t) \/ SkipTask(t)
    \/ MaybeCompleteRun(t) \/ EvaluateAgentRun(t) \/ HaltAgentRun(t)
    \/ \E i \in 0..2 : EnqueueWave(t, i)

Next == \/ \E t \in Sites : WorkerStep(t) \/ Reap(t) \/ Crash(t) \/ JobLost(t)
        \/ ReapComplete \/ SetChannel

Spec == Init /\ [][Next]_vars

\* Workers run, and the reaper's periodic sweep comes round.
Fairness == /\ WF_vars(\E t \in Sites : WorkerStep(t))
            /\ WF_vars(\E t \in Sites : Reap(t)) /\ WF_vars(ReapComplete)
FairSpec == Spec /\ Fairness

-----------------------------------------------------------------------------
\* Every variable holds a value the schema or the workers' steps allow; an agent
\* task is never rolled back.
TypeOK ==
    /\ run \in {"pending", "running", "completed", "halted"}
    /\ task \in [Sites -> {"pending", "running"} \cup Terminal]
    /\ queued \subseteq Sites /\ at \subseteq Sites \X Steps
    /\ contacted \subseteq Sites /\ enabled \in BOOLEAN /\ reaped \in BOOLEAN
    /\ faults \in 0..MaxFaults

\* Whatever crashes, duplicates and late jobs do, a site is claimed or sent the
\* command only when every earlier wave has ended and passed its gate: beyond
\* the canary, only after the canary has confirmed.
GateHeld == \A t \in Sites : t \in contacted \/ task[t] = "running" =>
    /\ \A k \in 0..2 : k < WaveIndexOf[t] => Passed(k, task)
    /\ t # 1 => task[1] = "succeeded"

\* A cancelled task says that nothing was ever sent to the site: the halt
\* cancels only what no worker had claimed.
CancelledUntouched == \A t \in Sites : task[t] = "cancelled" => t \notin contacted

\* A halt is final.  A worker that finishes later does not turn the run to
\* completed or running, and no task that had not started starts after it.
HaltIsFinal == [][run = "halted" =>
    /\ run' = "halted"
    /\ \A t \in Sites : task'[t] = "running" => task[t] = "running"]_vars

\* A run reads completed only when every task has ended.
CompletedIsOver == run = "completed" => \A t \in Sites : ~Open(t)

\* Every task ends, although its wave never opens or its job is lost.
TasksEnd == <>(\A t \in Sites : task[t] \in Terminal)
=============================================================================

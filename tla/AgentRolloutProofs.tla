------------------------- MODULE AgentRolloutProofs -------------------------
(***************************************************************************)
(* Proofs about AgentRollout, for any number of sites and any bound on     *)
(* faults.  Every action is first summed up by what it may do to a task,   *)
(* to the set of contacted sites, to the workers and to the run            *)
(* (StepFacts); the invariants follow from the summary alone.              *)
(***************************************************************************)
EXTENDS AgentRollout, TLAPS

\* The gate of t's wave, as GateHeld states it.
GateOf(t) ==
    /\ \A k \in 0..2 : k < WaveIndexOf[t] => Passed(k, task)
    /\ t # 1 => task[1] = "succeeded"

\* A worker that holds t's claim has yet to send the command, or is waiting
\* for the answer to it.
Arming(t) == \E s \in ArmSteps : <<t, s>> \in at

\* Whatever was claimed passed its gate when it was claimed, and passes it yet.
ClaimsPassedGate == \A t \in Sites :
    t \in contacted \/ task[t] = "running" \/ Arming(t) => GateOf(t)

\* A claimed task has left pending, and left it for good.
ClaimsAreKept == \A t \in Sites :
    t \in contacted \/ Arming(t) => task[t] \notin {"pending", "cancelled"}

\* The inductive invariant.
IInv == TypeOK /\ ClaimsPassedGate /\ ClaimsAreKept /\ CompletedIsOver

-----------------------------------------------------------------------------
(***************************************************************************)
(* The summary of a step.                                                  *)
(***************************************************************************)
MayMove(t) ==
    \/ task'[t] = task[t]
    \/ task[t] = "pending" /\ task'[t] = "cancelled"
    \/ /\ task[t] = "pending" /\ task'[t] = "running"
       /\ run # "halted" /\ GateOpenFor(t, task)
    \/ task[t] \in {"pending", "running"} /\ task'[t] \in {"succeeded", "failed", "skipped"}

MayRun ==
    \/ run' = run
    \/ run # "halted" /\ run' \in {"running", "halted"}
    \/ run # "halted" /\ run' = "completed" /\ \A u \in Sites : ~Open(u)

MayArm == \A t \in Sites, s \in ArmSteps :
    <<t, s>> \in at' => Arming(t) \/ (task[t] = "pending" /\ task'[t] = "running")

StepFacts ==
    /\ TypeOK'
    /\ \A t \in Sites : MayMove(t)
    /\ MayRun /\ MayArm
    /\ \A t \in contacted' : t \in contacted \/ Arming(t)

\* A set of sites, and the waves, are what their definitions say.
LEMMA WaveFacts ==
    /\ \A t \in Sites : WaveIndexOf[t] \in 0..2
    /\ \A t \in Sites : t # 1 => 0 < WaveIndexOf[t]
    /\ 1 \in Sites /\ Wave[0] = {1}
    /\ \A i \in 0..2 : Wave[i] = {t \in Sites : WaveIndexOf[t] = i}
<1>1. \A t \in Sites : WaveIndexOf[t] \in 0..2 /\ (t # 1 => WaveIndexOf[t] \in {1, 2})
      /\ (t = 1 => WaveIndexOf[t] = 0)
  BY DEF WaveIndexOf
<1>2. 1 \in Sites
  BY SizeAssumption DEF Sites
<1>3. \A i \in 0..2 : Wave[i] = {t \in Sites : WaveIndexOf[t] = i}
  BY DEF Wave
<1>4. Wave[0] = {1}
  BY <1>1, <1>2, <1>3
<1> QED  BY <1>1, <1>2, <1>3, <1>4

\* A wave that has passed its gate stays passed while no task that has ended
\* changes.
LEMMA PassedStays ==
    ASSUME NEW k \in 0..2, NEW st, NEW su, Passed(k, st),
           \A t \in Sites : st[t] \in Terminal => su[t] = st[t]
    PROVE  Passed(k, su)
<1>1. \A t \in Wave[k] : su[t] = st[t]
  BY WaveFacts DEF Passed, Ended
<1>2. {t \in Wave[k] : su[t] = "failed"} = {t \in Wave[k] : st[t] = "failed"}
  BY <1>1
<1>3. (\A t \in Wave[k] : su[t] # "succeeded") <=> (\A t \in Wave[k] : st[t] # "succeeded")
  BY <1>1
<1> QED  BY <1>1, <1>2, <1>3 DEF Passed, Ended, Breached

\* A job that may proceed finds every earlier wave passed and the canary done.
LEMMA OpenGate ==
    ASSUME TypeOK, NEW t \in Sites, GateOpenFor(t, task)
    PROVE  GateOf(t)
<1>1. \A k \in 0..2 : k < WaveIndexOf[t] => Passed(k, task)
  BY DEF GateOpenFor
<1>2. t # 1 => task[1] = "succeeded"
  <2> SUFFICES ASSUME t # 1 PROVE task[1] = "succeeded"
    OBVIOUS
  <2>1. Passed(0, task)
    BY <1>1, WaveFacts
  <2> QED  BY <2>1, WaveFacts DEF Passed, Breached
<1> QED  BY <1>1, <1>2 DEF GateOf

-----------------------------------------------------------------------------
\* Each claim of an arm job, and each way it is turned away, keeps to the
\* summary.
LEMMA ClaimFacts ==
    ASSUME TypeOK, NEW t \in Sites,
           ClaimAlreadyClaimed(t) \/ ClaimHalted(t) \/ ClaimProceed(t) \/ KillSwitch(t)
    PROVE  StepFacts
<1>1. CASE ClaimAlreadyClaimed(t)
  BY <1>1 DEF ClaimAlreadyClaimed, StepFacts, TypeOK, MayMove, MayRun, MayArm, Arming
<1>2. CASE ClaimHalted(t)
  BY <1>2 DEF ClaimHalted, HaltLocked, SetRunStatus, StepFacts, TypeOK, MayMove, MayRun,
     MayArm, Arming, Terminal
<1>3. CASE ClaimProceed(t)
  <2>1. TypeOK'
    BY <1>3 DEF ClaimProceed, TypeOK, Steps, ArmSteps
  <2>2. \A u \in Sites : MayMove(u)
    BY <1>3 DEF ClaimProceed, TypeOK, MayMove
  <2>3. MayArm
    BY <1>3 DEF ClaimProceed, TypeOK, MayArm, Arming
  <2> QED  BY <1>3, <2>1, <2>2, <2>3 DEF ClaimProceed, StepFacts, MayRun
<1>4. CASE KillSwitch(t)
  <2>1. TypeOK'
    BY <1>4 DEF KillSwitch, TypeOK, Steps, EndSteps
  <2>2. MayArm
    BY <1>4 DEF KillSwitch, MayArm, Arming, ArmSteps
  <2> QED  BY <1>4, <2>1, <2>2 DEF KillSwitch, StepFacts, MayMove, MayRun
<1> QED  BY <1>1, <1>2, <1>3, <1>4

\* A worker that moves on keeps the workers well typed, and arms nothing new.
LEMMA MoveFacts ==
    ASSUME TypeOK, NEW t \in Sites, NEW here \in Steps, NEW next \in Steps,
           Move(t, here, next), next \in ArmSteps => here \in ArmSteps
    PROVE  at' \subseteq Sites \X Steps /\ MayArm
  BY DEF Move, TypeOK, MayArm, Arming

LEMMA DoneFacts ==
    ASSUME TypeOK, NEW t \in Sites, NEW here \in Steps, Done(t, here)
    PROVE  at' \subseteq Sites \X Steps /\ MayArm
  BY DEF Done, TypeOK, MayArm, Arming

\* Recording an outcome ends an open task or changes nothing.
LEMMA RecordFacts ==
    ASSUME TypeOK, NEW t \in Sites, NEW here \in Steps,
           NEW outcomes \in SUBSET {"succeeded", "failed", "skipped"}, NEW next,
           next \in {ThenEvaluate, ThenHalt}, Record(t, here, outcomes, next)
    PROVE  /\ at' \subseteq Sites \X Steps /\ MayArm
           /\ task' \in [Sites -> {"pending", "running"} \cup Terminal]
           /\ \A u \in Sites : MayMove(u)
<1>1. /\ next.recorded \in Steps \ ArmSteps
      /\ next.refused \in Steps \ ArmSteps
  BY DEF ThenEvaluate, ThenHalt, Steps, EndSteps, ArmSteps
<1>2. CASE Open(t) /\ Move(t, here, next.recorded)
           /\ \E o \in outcomes : task' = [task EXCEPT ![t] = o]
  <2>1. at' \subseteq Sites \X Steps /\ MayArm
    BY <1>1, <1>2, MoveFacts
  <2>2. PICK o \in outcomes : task' = [task EXCEPT ![t] = o]
    BY <1>2
  <2> QED  BY <1>2, <2>1, <2>2 DEF TypeOK, Terminal, MayMove, Open
<1>3. CASE ~Open(t) /\ Move(t, here, next.refused) /\ UNCHANGED task
  <2>1. at' \subseteq Sites \X Steps /\ MayArm
    BY <1>1, <1>3, MoveFacts
  <2> QED  BY <1>3, <2>1 DEF TypeOK, MayMove
<1> QED  BY <1>2, <1>3 DEF Record

-----------------------------------------------------------------------------
\* EnsureRunRunning, Arm and Answer keep to the summary; only Arm contacts a
\* site, and only for the worker that holds its claim.
LEMMA ArmFacts ==
    ASSUME TypeOK, NEW t \in Sites, EnsureRunRunning(t) \/ Arm(t) \/ Answer(t)
    PROVE  StepFacts
<1> USE DEF Steps, ArmSteps, PollSteps, EndSteps
<1>1. CASE EnsureRunRunning(t)
  <2>1. at' \subseteq Sites \X Steps /\ MayArm
    <3>1. CASE Move(t, "claimed", IF run = "pending" THEN "setrun" ELSE "send")
      BY <3>1, MoveFacts
    <3>2. CASE Move(t, "setrun", "send")
      BY <3>2, MoveFacts
    <3> QED  BY <1>1, <3>1, <3>2 DEF EnsureRunRunning
  <2>2. run' \in {run, "running"} /\ (run = "halted" => run' = run)
    BY <1>1 DEF EnsureRunRunning, SetRunStatus
  <2> QED  BY <1>1, <2>1, <2>2 DEF EnsureRunRunning, TypeOK, StepFacts, MayMove, MayRun
<1>2. CASE Arm(t)
  <2>1. CASE Record(t, "send", {"failed"}, ThenEvaluate) /\ UNCHANGED contacted
    <3>1. /\ at' \subseteq Sites \X Steps /\ MayArm
          /\ task' \in [Sites -> {"pending", "running"} \cup Terminal]
          /\ \A u \in Sites : MayMove(u)
      BY <2>1, RecordFacts
    <3> QED  BY <1>2, <2>1, <3>1 DEF Arm, TypeOK, StepFacts, MayRun
  <2>2. CASE Move(t, "send", "answer") /\ contacted' = contacted \cup {t} /\ UNCHANGED task
    <3>1. at' \subseteq Sites \X Steps /\ MayArm
      BY <2>2, MoveFacts
    <3>2. \A u \in contacted' : u \in contacted \/ Arming(u)
      BY <2>2 DEF Arming, Move
    <3> QED  BY <1>2, <2>2, <3>1, <3>2 DEF Arm, TypeOK, StepFacts, MayMove, MayRun
  <2> QED  BY <1>2, <2>1, <2>2 DEF Arm
<1>3. CASE Answer(t)
  <2>1. /\ at' \subseteq Sites \X Steps /\ MayArm
        /\ task' \in [Sites -> {"pending", "running"} \cup Terminal]
        /\ \A u \in Sites : MayMove(u)
    <3>1. CASE Record(t, "answer", {"succeeded", "failed", "skipped"}, ThenEvaluate)
      BY <3>1, RecordFacts
    <3>2. CASE Move(t, "answer", "confirm") /\ UNCHANGED task
      <4>1. at' \subseteq Sites \X Steps /\ MayArm
        BY <3>2, MoveFacts
      <4> QED  BY <3>2, <4>1 DEF TypeOK, MayMove
    <3>3. CASE Record(t, "answer", {"succeeded", "skipped"}, ThenHalt)
      BY <3>3, RecordFacts
    <3> QED  BY <1>3, <3>1, <3>2, <3>3 DEF Answer
  <2> QED  BY <1>3, <2>1 DEF Answer, TypeOK, StepFacts, MayRun
<1> QED  BY <1>1, <1>2, <1>3

\* So do the confirmation poll and the kill switch's outcome.
LEMMA OutcomeFacts ==
    ASSUME TypeOK, NEW t \in Sites, Confirm(t) \/ SkipTask(t)
    PROVE  StepFacts
<1> USE DEF Steps, ArmSteps, PollSteps, EndSteps
<1>1. /\ at' \subseteq Sites \X Steps /\ MayArm
      /\ task' \in [Sites -> {"pending", "running"} \cup Terminal]
      /\ \A u \in Sites : MayMove(u)
  <2>1. CASE Move(t, "confirm", "resolve") /\ UNCHANGED task
    <3>1. at' \subseteq Sites \X Steps /\ MayArm
      BY <2>1, MoveFacts
    <3> QED  BY <2>1, <3>1 DEF TypeOK, MayMove
  <2>2. CASE Done(t, "confirm") /\ UNCHANGED task
    <3>1. at' \subseteq Sites \X Steps /\ MayArm
      BY <2>2, DoneFacts
    <3> QED  BY <2>2, <3>1 DEF TypeOK, MayMove
  <2>3. CASE Record(t, "resolve", {"succeeded", "failed", "skipped"}, ThenEvaluate)
    BY <2>3, RecordFacts
  <2>4. CASE Record(t, "kill", {"skipped"}, ThenHalt)
    BY <2>4, RecordFacts
  <2> QED  BY <2>1, <2>2, <2>3, <2>4 DEF Confirm, SkipTask
<1> QED  BY <1>1 DEF Confirm, SkipTask, TypeOK, StepFacts, MayRun

\* What follows an outcome: completion, the wave gate, the next wave, the halt.
LEMMA EndFacts ==
    ASSUME TypeOK, NEW t \in Sites,
           \/ MaybeCompleteRun(t) \/ EvaluateAgentRun(t) \/ HaltAgentRun(t)
           \/ \E i \in 0..2 : EnqueueWave(t, i)
    PROVE  StepFacts
<1> USE DEF Steps, ArmSteps, PollSteps, EndSteps
<1>1. \A i \in 0..2 : EnqueueStep(i) \in {"enqueue0", "enqueue1", "enqueue2"}
  BY DEF EnqueueStep
<1>2. CASE MaybeCompleteRun(t)
  <2>1. at' \subseteq Sites \X Steps /\ MayArm
    <3>1. CASE Move(t, "close", "evaluate")
      BY <3>1, MoveFacts
    <3>2. CASE Move(t, "closing", "halting")
      BY <3>2, MoveFacts
    <3> QED  BY <1>2, <3>1, <3>2 DEF MaybeCompleteRun
  <2>2. MayRun /\ run' \in {run, "completed"}
    BY <1>2 DEF MaybeCompleteRun, SetRunStatus, MayRun
  <2> QED  BY <1>2, <2>1, <2>2 DEF MaybeCompleteRun, TypeOK, StepFacts, MayMove
<1>3. CASE EvaluateAgentRun(t)
  <2>1. CASE run = "halted" \/ Halt(task)
    <3>1. Done(t, "evaluate") /\ HaltLocked
      BY <1>3, <2>1 DEF EvaluateAgentRun
    <3>2. at' \subseteq Sites \X Steps /\ MayArm
      BY <3>1, DoneFacts
    <3> QED  BY <1>3, <3>1, <3>2 DEF EvaluateAgentRun, HaltLocked, SetRunStatus, TypeOK,
                Terminal, StepFacts, MayMove, MayRun
  <2>2. CASE ~(run = "halted" \/ Halt(task))
    <3>1. at' \subseteq Sites \X Steps /\ MayArm
      <4>1. CASE Done(t, "evaluate")
        BY <4>1, DoneFacts
      <4>2. ASSUME NEW u \in Sites, Move(t, "evaluate", EnqueueStep(WaveIndexOf[u]))
            PROVE  at' \subseteq Sites \X Steps /\ MayArm
        <5>1. EnqueueStep(WaveIndexOf[u]) \in {"enqueue0", "enqueue1", "enqueue2"}
          BY <1>1, WaveFacts
        <5> QED  BY <4>2, <5>1, MoveFacts
      <4> QED  BY <1>3, <2>2, <4>1, <4>2 DEF EvaluateAgentRun, DispatchableTasks
    <3> QED  BY <1>3, <2>2, <3>1 DEF EvaluateAgentRun, TypeOK, StepFacts, MayMove, MayRun
  <2> QED  BY <2>1, <2>2
<1>4. CASE HaltAgentRun(t)
  <2>1. at' \subseteq Sites \X Steps /\ MayArm
    BY <1>4, DoneFacts DEF HaltAgentRun
  <2> QED  BY <1>4, <2>1 DEF HaltAgentRun, HaltLocked, SetRunStatus, TypeOK, Terminal,
              StepFacts, MayMove, MayRun
<1>5. ASSUME NEW i \in 0..2, EnqueueWave(t, i)
      PROVE  StepFacts
  <2>1. at' \subseteq Sites \X Steps /\ MayArm
    BY <1>1, <1>5, DoneFacts DEF EnqueueWave
  <2>2. queued' \subseteq Sites
    BY <1>5, WaveFacts DEF EnqueueWave, TypeOK
  <2> QED  BY <1>5, <2>1, <2>2 DEF EnqueueWave, TypeOK, StepFacts, MayMove, MayRun
<1> QED  BY <1>2, <1>3, <1>4, <1>5

\* The reaper, crashes, lost jobs and the operator's switch.
LEMMA FaultFacts ==
    ASSUME TypeOK,
           \/ \E t \in Sites : Reap(t) \/ Crash(t) \/ JobLost(t)
           \/ ReapComplete \/ SetChannel
    PROVE  StepFacts
<1> USE DEF Steps, ArmSteps, PollSteps, EndSteps
<1>1. ASSUME NEW t \in Sites, Reap(t) PROVE StepFacts
  BY <1>1 DEF Reap, Open, Terminal, TypeOK, StepFacts, MayMove, MayRun, MayArm, Arming
<1>2. ASSUME NEW t \in Sites, Crash(t) PROVE StepFacts
  <2>1. at' \subseteq Sites \X Steps /\ MayArm
    <3>1. ASSUME NEW s \in Steps, Done(t, s) PROVE at' \subseteq Sites \X Steps /\ MayArm
      BY <3>1, DoneFacts
    <3>2. CASE Move(t, "resolve", "confirm")
      BY <3>2, MoveFacts
    <3> QED  BY <1>2, <3>1, <3>2 DEF Crash
  <2>2. queued' \subseteq Sites /\ faults' \in 0..MaxFaults
    BY <1>2, SizeAssumption DEF Crash, TypeOK
  <2> QED  BY <1>2, <2>1, <2>2 DEF Crash, TypeOK, StepFacts, MayMove, MayRun
<1>3. ASSUME NEW t \in Sites, JobLost(t) PROVE StepFacts
  BY <1>3, SizeAssumption DEF JobLost, TypeOK, StepFacts, MayMove, MayRun, MayArm, Arming
<1>4. CASE ReapComplete
  BY <1>4 DEF ReapComplete, SetRunStatus, TypeOK, StepFacts, MayMove, MayRun, MayArm, Arming
<1>5. CASE SetChannel
  BY <1>5 DEF SetChannel, TypeOK, StepFacts, MayMove, MayRun, MayArm, Arming
<1> QED  BY <1>1, <1>2, <1>3, <1>4, <1>5

LEMMA EveryStep == ASSUME TypeOK, [Next]_vars PROVE StepFacts
<1>1. CASE UNCHANGED vars
  BY <1>1 DEF vars, TypeOK, StepFacts, MayMove, MayRun, MayArm, Arming
<1>2. ASSUME NEW t \in Sites, WorkerStep(t) PROVE StepFacts
  BY <1>2, ClaimFacts, ArmFacts, OutcomeFacts, EndFacts DEF WorkerStep
<1> QED  BY <1>1, <1>2, FaultFacts DEF Next

-----------------------------------------------------------------------------
LEMMA InitInv == Init => IInv
<1> SUFFICES ASSUME Init PROVE IInv
  OBVIOUS
<1>1. /\ queued \subseteq Sites /\ run \in {"pending", "running", "completed"}
      /\ task \in [Sites -> {"pending", "skipped"}]
      /\ run = "completed" => \A t \in Sites : task[t] = "skipped"
  <2>1. CASE StartsNow
    BY <2>1, WaveFacts DEF StartsNow
  <2>2. CASE StartsScheduled
    BY <2>2 DEF StartsScheduled
  <2> QED  BY <2>1, <2>2 DEF Init
<1>2. TypeOK
  <2>1. task \in [Sites -> {"pending", "running"} \cup Terminal]
    BY <1>1 DEF Terminal
  <2>2. at \subseteq Sites \X Steps /\ contacted \subseteq Sites /\ faults \in 0..MaxFaults
    BY SizeAssumption DEF Init
  <2> QED  BY <1>1, <2>1, <2>2 DEF Init, TypeOK
<1>3. CompletedIsOver
  BY <1>1 DEF CompletedIsOver, Open
<1>4. ClaimsPassedGate /\ ClaimsAreKept
  BY <1>1 DEF Init, ClaimsPassedGate, ClaimsAreKept, Arming
<1> QED  BY <1>2, <1>3, <1>4 DEF IInv

LEMMA NextInv == ASSUME IInv, [Next]_vars PROVE IInv'
<1>1. StepFacts
  BY EveryStep DEF IInv
<1>2. TypeOK /\ TypeOK'
  BY <1>1 DEF IInv, StepFacts
<1>3. \A t \in Sites : task[t] \in Terminal => task'[t] = task[t]
  BY <1>1 DEF StepFacts, MayMove, Terminal
<1>4. ASSUME NEW t \in Sites, GateOf(t) PROVE GateOf(t)'
  <2>1. \A k \in 0..2 : k < WaveIndexOf[t] => Passed(k, task')
    BY <1>3, <1>4, PassedStays DEF GateOf
  <2>2. t # 1 => task'[1] = "succeeded"
    BY <1>3, <1>4, WaveFacts DEF GateOf, Terminal
  <2> QED  BY <2>1, <2>2 DEF GateOf
<1>5. \A t \in Sites : Arming(t)' => Arming(t) \/ (task[t] = "pending" /\ task'[t] = "running")
  BY <1>1 DEF StepFacts, MayArm, Arming
<1>6. \A t \in Sites : t \in contacted' => t \in contacted \/ Arming(t)
  BY <1>1 DEF StepFacts
<1>7. ClaimsPassedGate'
  <2> SUFFICES ASSUME NEW t \in Sites, t \in contacted' \/ task'[t] = "running" \/ Arming(t)'
               PROVE  GateOf(t)'
    BY DEF ClaimsPassedGate
  <2>1. CASE t \in contacted \/ task[t] = "running" \/ Arming(t)
    BY <1>4, <2>1 DEF IInv, ClaimsPassedGate
  <2>2. CASE task[t] # "running" /\ task'[t] = "running"
    <3>1. GateOpenFor(t, task)
      BY <1>1, <2>2 DEF StepFacts, MayMove
    <3> QED  BY <1>2, <1>4, <3>1, OpenGate
  <2> QED  BY <1>5, <1>6, <2>1, <2>2
<1>8. ClaimsAreKept'
  <2> SUFFICES ASSUME NEW t \in Sites, t \in contacted' \/ Arming(t)'
               PROVE  task'[t] \notin {"pending", "cancelled"}
    BY DEF ClaimsAreKept
  <2>1. CASE t \in contacted \/ Arming(t)
    <3>1. task[t] \notin {"pending", "cancelled"}
      BY <2>1 DEF IInv, ClaimsAreKept
    <3> QED  BY <1>1, <3>1 DEF StepFacts, MayMove
  <2> QED  BY <1>5, <1>6, <2>1
<1>9. CompletedIsOver'
  <2> SUFFICES ASSUME run' = "completed", NEW t \in Sites PROVE ~Open(t)'
    BY DEF CompletedIsOver
  <2>1. ~Open(t)
    BY <1>1 DEF StepFacts, MayRun, IInv, CompletedIsOver
  <2> QED  BY <1>2, <1>3, <2>1 DEF Open, TypeOK, Terminal
<1> QED  BY <1>2, <1>7, <1>8, <1>9 DEF IInv

LEMMA Inductive == Spec => []IInv
<1>1. IInv /\ [Next]_vars => IInv'
  BY NextInv
<1> QED  BY <1>1, InitInv, PTL DEF Spec

-----------------------------------------------------------------------------
\* Every row, position and counter of a rollout keeps a value the schema and
\* the workers allow; in particular no agent task is ever rolled back.
THEOREM TypeCorrect == Spec => []TypeOK
  BY Inductive, PTL DEF IInv

\* For any number of sites, crashes, duplicate jobs and late workers: a site
\* is claimed or contacted only after every earlier wave passed its gate
\* (ClaimAgentWaveTask under the run's lock), and the waves stay passed.
THEOREM GateIsHeld == Spec => []GateHeld
<1>1. IInv => GateHeld
  BY DEF IInv, ClaimsPassedGate, GateOf, GateHeld
<1> QED  BY <1>1, Inductive, PTL

\* A task the halt cancelled (haltLocked) was never sent to its site.
THEOREM CancelledMeansUntouched == Spec => []CancelledUntouched
<1>1. IInv => CancelledUntouched
  BY DEF IInv, ClaimsAreKept, CancelledUntouched
<1> QED  BY <1>1, Inductive, PTL

\* maybeCompleteRun is right for ever: a completed rollout has no open task.
THEOREM CompletedRunsAreOver == Spec => []CompletedIsOver
  BY Inductive, PTL DEF IInv

\* No later write of SetUpdateRunStatus and no late job reopens a halted run.
THEOREM HaltsAreFinal == Spec => HaltIsFinal
<1>1. IInv /\ [Next]_vars => [run = "halted" =>
          /\ run' = "halted"
          /\ \A t \in Sites : task'[t] = "running" => task[t] = "running"]_vars
  BY EveryStep DEF IInv, StepFacts, MayRun, MayMove
<1> QED  BY <1>1, Inductive, PTL DEF Spec, HaltIsFinal
=============================================================================

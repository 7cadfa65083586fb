------------------------ MODULE AbilityRequestProofs ------------------------
(***************************************************************************)
(* Proofs about AbilityRequest, for any number of requests and passes and  *)
(* any durations that TimingAssumption allows.  All that is known of a     *)
(* request concerns its own row, job, commands, ledger row and draft, and  *)
(* the passes that are at it (RInv); a step of one request leaves the      *)
(* others alone (Frame).  What two requests share is the reservation       *)
(* (OneUnresolved).                                                        *)
(***************************************************************************)
EXTENDS AbilityRequest, TLAPS

\* States of a request that nothing was reserved for.
Unsent == {"none", "pending", "approved", "declined", "withdrawn", "expired"}
\* A job that holds the reservation.
Sending == {"send", "wait"} \cup Answers
\* Verdicts on a write that left a ledger row.
Traced == {"created", "refused", "left", "interrupted"}

Untouched(r) == post[r] = "none" /\ ~write[r] /\ at[r] = "idle" /\ phase[r] = "none"
Gone(r) == post[r] \in {"none", "trash"}

\* An undo, in whatever hands it is.
UndoStarted(r) ==
    \/ undo[r] # "none" \/ undoer[r] # "none" \/ revert[r] # {}
    \/ at[r] \in RevertSteps \/ (at[r] = "answer" /\ caller[r] # "job")

\* An outcome is recorded only for what was sent or closed unsent, and only a
\* write that made a draft is undone.
RowOK(r) ==
    /\ state[r] \in Unsent \cup {"dispatched"} => outcome[r] = "none"
    /\ UndoStarted(r) => outcome[r] \in {"created", "left"}
    /\ outcome[r] \in {"created", "left"} => phase[r] # "none"

\* A job that has reserved keeps its row dispatched, too fresh to be given up.
JobOK(r) ==
    /\ job[r] \in {"check", "reserve"} => state[r] \in {"approved", "not_sent"}
    /\ job[r] \in Sending => state[r] = "dispatched" /\ sent[r] < StaleAfter

\* Before the send, and after the send that never was, the site has nothing.
UntouchedOK(r) ==
    \/ state[r] \in Unsent \cup {"not_sent"}
    \/ job[r] \in {"send", "not_sent"}
    \/ outcome[r] = "not_received"
    => Untouched(r)

\* A write on its way or running belongs to an unresolved request, and is no
\* older than its token and its run allow.
WriteOK(r) ==
    /\ Writing(r) => Unresolved(r) /\ job[r] \in {"none", "wait", "unknown"}
    /\ write[r] => /\ at[r] = "idle" /\ phase[r] = "none" /\ sent[r] <= TokenTTL
                   /\ Resolving(r) => unknown[r] <= sent[r]
    /\ at[r] # "idle" /\ Resolving(r) => unknown[r] <= TokenTTL + ran[r]
    /\ at[r] = "idle" => ran[r] = 0

\* Where the agent's command stands says whose it is, what it holds and what it
\* has put into the ledger.
StepOK(r) ==
    /\ at[r] = "idle" => caller[r] = "nobody"
    /\ at[r] \in WriteSteps => caller[r] = "job"
    /\ at[r] \in RevertSteps => caller[r] # "job"
    /\ at[r] \in WriteSteps \ {"start"} => claim[r] = "held"
    /\ at[r] \in {"start", "claimed"} => phase[r] = "none"
    /\ at[r] \in WriteSteps \ {"start", "claimed"} => phase[r] \notin {"none", "failed"}
    /\ at[r] = "failing" => answer[r] \in {"refused", "left"}
    /\ at[r] = "answer" /\ caller[r] = "job" => answer[r] \in {"created", "refused", "left"}
    /\ at[r] = "answer" /\ caller[r] = "undo" => answer[r] \in UndoAnswers

\* Answers that speak of a draft are right about the ledger.
TraceOK(r) ==
    /\ at[r] = "answer" /\ caller[r] = "job" /\ answer[r] # "refused" => phase[r] # "none"
    /\ job[r] \in {"created", "left"} => phase[r] # "none"

\* The draft: not there before its ledger row, gone where a failure or an undo
\* says so.
PostOK(r) ==
    /\ phase[r] = "none" \/ at[r] \in {"start", "claimed", "rowed"} => post[r] = "none"
    /\ phase[r] = "failed" \/ job[r] = "refused" \/ outcome[r] = "refused" => Gone(r)
    /\ at[r] = "answer" /\ caller[r] = "job" /\ answer[r] = "refused" => Gone(r)
    /\ at[r] = "failing" /\ answer[r] = "refused" => post[r] = "trash"
    /\ \/ trashed[r] \/ at[r] = "gone" \/ (at[r] = "answer" /\ answer[r] = "reverted")
       \/ undoer[r] = "reverted" \/ undo[r] = "undone"
       => post[r] = "trash"

\* What a pass has read of a request it is at.
PassAt(p, r) ==
    /\ state[r] \notin Unsent \cup {"dispatched"}
    /\ saw[p].step = "row" => saw[p].what \in Phases \cup UndoReads
    /\ saw[p].step = "verdict" =>
          saw[p].what \in Traced \cup {"not_received", "wait", "undecided"} \cup UndoReads
    /\ saw[p].age >= Settled => ~Writing(r)
    /\ saw[p].step = "row" /\ saw[p].what \in Phases \ {"none"} => phase[r] # "none"
    /\ saw[p].step = "verdict" /\ saw[p].what \in Traced => phase[r] # "none" /\ ~Writing(r)
    /\ \/ saw[p].step = "row" /\ saw[p].what = "none" /\ saw[p].age >= Settled
       \/ saw[p].step = "verdict" /\ saw[p].what = "not_received"
       => Untouched(r)
    /\ saw[p].step = "row" /\ saw[p].what = "failed" => phase[r] = "failed"
    /\ saw[p].step = "verdict" /\ saw[p].what = "refused" => Gone(r)
    /\ saw[p].what = "trashed" => post[r] = "trash"
PassOK(r) == \A p \in Passes : saw[p] # Idle /\ saw[p].req = r => PassAt(p, r)

RInv(r) == /\ RowOK(r) /\ JobOK(r) /\ UntouchedOK(r) /\ WriteOK(r) /\ StepOK(r)
           /\ TraceOK(r) /\ PostOK(r) /\ PassOK(r)

\* The reservation lets one request of the site be unresolved.
OneUnresolved == \A q, r \in Requests : Unresolved(q) /\ Unresolved(r) => q = r

\* The inductive invariant.
IInv == TypeOK /\ OneUnresolved /\ \A r \in Requests : RInv(r)

-----------------------------------------------------------------------------
(***************************************************************************)
(* What a step of request r does.                                          *)
(***************************************************************************)
Frame(r) ==
    /\ \A q \in Requests \ {r} :
        /\ state'[q] = state[q] /\ outcome'[q] = outcome[q] /\ undo'[q] = undo[q]
        /\ late'[q] = late[q] /\ sent'[q] = sent[q] /\ unknown'[q] = unknown[q]
        /\ since'[q] = since[q] /\ job'[q] = job[q] /\ undoer'[q] = undoer[q]
        /\ write'[q] = write[q] /\ revert'[q] = revert[q] /\ at'[q] = at[q]
        /\ answer'[q] = answer[q] /\ ran'[q] = ran[q] /\ caller'[q] = caller[q]
        /\ claim'[q] = claim[q] /\ target'[q] = target[q] /\ phase'[q] = phase[q]
        /\ trashed'[q] = trashed[q] /\ post'[q] = post[q]
    /\ \A p \in Passes : saw'[p] = saw[p] \/ saw'[p] = Idle \/ saw'[p].req = r

Keeps(r) ==
    /\ outcome[r] # "none" => outcome'[r] = outcome[r] /\ state'[r] = state[r]
    /\ undo[r] \in UndoEnds => undo'[r] = undo[r]
    /\ Unresolved(r)' => Unresolved(r) \/ ~InFlightOnSite

Sound(r) == TypeOK' /\ Frame(r) /\ Keeps(r) /\ RInv(r)'

\* Proposal, decision and the closes before a send.
LEMMA DecisionSound ==
    ASSUME TypeOK, NEW r \in Requests, RInv(r), NEW from, NEW to, Decision(r, from, to),
           \/ from \in {"none", "pending"} /\ to \in Unsent
           \/ from = "approved" /\ to = "not_sent"
    PROVE  Sound(r)
<1> USE DEF Decision, Move, clockVars, netVars, agentVars
<1>1. TypeOK'
  BY DEF TypeOK, RowTypes, ClockTypes, PlaneTypes, CommandTypes, LedgerTypes, States, Outcomes,
         Unsent
<1>2. Frame(r)
  BY DEF TypeOK, RowTypes, ClockTypes, PlaneTypes, CommandTypes, LedgerTypes, Frame
<1>3. Keeps(r)
  BY DEF TypeOK, RowTypes, ClockTypes, PlaneTypes, CommandTypes, LedgerTypes, Keeps, RInv, RowOK,
         Unresolved, Unsent
<1>4. RowOK(r)' /\ JobOK(r)' /\ UntouchedOK(r)'
  BY DEF TypeOK, RowTypes, ClockTypes, PlaneTypes, CommandTypes, LedgerTypes, RInv, RowOK, JobOK,
         UntouchedOK, Untouched, UndoStarted, Unsent, Sending, Answers
<1>5. WriteOK(r)' /\ StepOK(r)' /\ TraceOK(r)'
  BY DEF TypeOK, RowTypes, ClockTypes, PlaneTypes, CommandTypes, LedgerTypes, RInv, WriteOK,
         StepOK, TraceOK, UntouchedOK, Untouched, Writing, Unresolved, Resolving, Unsent, WriteSteps
<1>6. PostOK(r)'
  BY DEF TypeOK, RowTypes, ClockTypes, PlaneTypes, CommandTypes, LedgerTypes, RInv, PostOK, Gone,
         UntouchedOK, RowOK, Unsent
<1>7. PassOK(r)'
  BY DEF TypeOK, RowTypes, ClockTypes, PlaneTypes, CommandTypes, LedgerTypes, RInv, PassOK,
         PassAt, Gone, Untouched, Writing, Unsent
<1> QED  BY <1>1, <1>2, <1>3, <1>4, <1>5, <1>6, <1>7 DEF Sound, RInv

\* Whoever records an outcome leaves a row the schema allows.
LEMMA WriteOutcomeTypes ==
    ASSUME TypeOK, NEW r \in Requests, NEW oc \in Answers \cup Failures, WriteOutcome(r, oc)
    PROVE  RowTypes' /\ unknown' \in [Requests -> 0..Window]
<1> USE DEF TypeOK, RowTypes, ClockTypes
<1>1. CASE oc = "unknown"
  BY <1>1, TimingAssumption DEF WriteOutcome, States
<1>2. CASE oc # "unknown" /\ Unresolved(r)
  <2>1. oc \in Outcomes
    BY <1>2 DEF Answers, Failures, Outcomes
  <2> QED  BY <1>2, <2>1 DEF WriteOutcome, States
<1>3. CASE oc # "unknown" /\ ~Unresolved(r)
  BY <1>3 DEF WriteOutcome
<1> QED  BY <1>1, <1>2, <1>3

\* An outcome is recorded once, and recording it reserves nothing.
LEMMA WriteOutcomeKeeps ==
    ASSUME TypeOK, NEW r \in Requests, NEW oc, RowOK(r), WriteOutcome(r, oc)
    PROVE  Keeps(r)
<1> USE DEF TypeOK, RowTypes, RowOK, Keeps, UndoEnds, UndoStarted, Unresolved
<1>1. CASE oc = "unknown"
  BY <1>1 DEF WriteOutcome
<1>2. CASE oc # "unknown" /\ Unresolved(r)
  BY <1>2 DEF WriteOutcome
<1>3. CASE oc # "unknown" /\ ~Unresolved(r)
  BY <1>3 DEF WriteOutcome
<1> QED  BY <1>1, <1>2, <1>3

\* Settling an undo starts none.
LEMMA SettleUndoKeeps ==
    ASSUME TypeOK, NEW r \in Requests, NEW v, SettleUndoTo(r, v)
    PROVE  undo'[r] # "none" => undo[r] # "none"
<1>1. CASE undo[r] # "in_progress"
  BY <1>1 DEF TypeOK, RowTypes, SettleUndoTo
<1> QED  BY <1>1

\* The dispatch job's steps, and its death.
LEMMA JobSound ==
    ASSUME TypeOK, NEW r \in Requests, RInv(r),
           JobStep(r) \/ JobCrash(r)
    PROVE  Sound(r)
<1> USE DEF TypeOK, RInv
<1>1. CASE Scan(r)
  <2> USE DEF Scan, SetJob, rowVars, clockVars, netVars, agentVars
  <2>1. PlaneTypes'
    BY <1>1 DEF PlaneTypes
  <2>2. RowTypes' /\ ClockTypes' /\ CommandTypes' /\ LedgerTypes'
    BY <1>1 DEF RowTypes, ClockTypes, CommandTypes, LedgerTypes
  <2>3. Frame(r)
    BY <1>1 DEF Frame, RowTypes, ClockTypes, PlaneTypes, CommandTypes, LedgerTypes
  <2>4. Keeps(r)
    BY <1>1 DEF Keeps, UndoEnds, RowTypes, Unresolved
  <2>5. JobOK(r)'
    BY <1>1 DEF JobOK, Sending, Answers
  <2>6. UntouchedOK(r)'
    BY <1>1 DEF UntouchedOK, Untouched
  <2>7. WriteOK(r)'
    BY <1>1 DEF WriteOK, Writing, Unresolved, Resolving
  <2>8. TraceOK(r)'
    BY <1>1 DEF TraceOK
  <2>9. PostOK(r)'
    BY <1>1 DEF PostOK, Gone
  <2>10. RowOK(r)' /\ StepOK(r)' /\ PassOK(r)'
    BY <1>1 DEF RowOK, StepOK, PassOK, UndoStarted, PassAt, Gone, Untouched, Writing
  <2> QED  BY <2>1, <2>2, <2>3, <2>4, <2>5, <2>6, <2>7, <2>8, <2>9, <2>10 DEF Sound
<1>2. CASE CloseNotSent(r)
  <2> USE DEF CloseNotSent, Move, SetJob, clockVars, netVars, agentVars
  <2>1. RowTypes'
    BY <1>2 DEF RowTypes, States, Outcomes
  <2>2. PlaneTypes'
    BY <1>2 DEF PlaneTypes
  <2>3. ClockTypes' /\ CommandTypes' /\ LedgerTypes'
    BY <1>2 DEF ClockTypes, CommandTypes, LedgerTypes
  <2>4. Frame(r)
    BY <1>2 DEF Frame, RowTypes, ClockTypes, PlaneTypes, CommandTypes, LedgerTypes
  <2>5. Keeps(r)
    BY <1>2 DEF Keeps, RowTypes, RowOK, Unresolved, Unsent
  <2>6. RowOK(r)'
    BY <1>2 DEF RowTypes, RowOK, Unsent, UndoStarted
  <2>7. JobOK(r)'
    BY <1>2 DEF JobOK, Sending, Answers
  <2>8. UntouchedOK(r)'
    BY <1>2 DEF UntouchedOK, Unsent, Untouched
  <2>9. WriteOK(r)'
    BY <1>2 DEF WriteOK, Writing, Resolving
  <2>10. TraceOK(r)'
    BY <1>2 DEF TraceOK
  <2>11. PostOK(r)'
    BY <1>2 DEF PostOK, Gone
  <2>12. PassOK(r)'
    BY <1>2 DEF PassOK, Unsent, PassAt
  <2>13. StepOK(r)'
    BY <1>2 DEF StepOK
  <2> QED  BY <2>1, <2>2, <2>3, <2>4, <2>5, <2>6, <2>7, <2>8, <2>9, <2>10, <2>11, <2>12, <2>13
           DEF Sound
<1>3. CASE DispatchLater(r)
  <2> USE DEF DispatchLater, SetJob, rowVars, clockVars, netVars, agentVars
  <2>1. PlaneTypes'
    BY <1>3 DEF PlaneTypes
  <2>2. RowTypes' /\ ClockTypes' /\ CommandTypes' /\ LedgerTypes'
    BY <1>3 DEF RowTypes, ClockTypes, CommandTypes, LedgerTypes
  <2>3. Frame(r)
    BY <1>3 DEF Frame, RowTypes, ClockTypes, PlaneTypes, CommandTypes, LedgerTypes
  <2>4. Keeps(r)
    BY <1>3 DEF Keeps, UndoEnds, RowTypes, Unresolved
  <2>5. JobOK(r)'
    BY <1>3 DEF JobOK, Sending, Answers
  <2>6. UntouchedOK(r)'
    BY <1>3 DEF UntouchedOK, Untouched
  <2>7. WriteOK(r)'
    BY <1>3 DEF WriteOK, Writing, Resolving
  <2>8. TraceOK(r)'
    BY <1>3 DEF TraceOK
  <2>9. PostOK(r)'
    BY <1>3 DEF PostOK, Gone
  <2>10. RowOK(r)' /\ StepOK(r)' /\ PassOK(r)'
    BY <1>3 DEF RowOK, StepOK, PassOK, UndoStarted, PassAt, Gone, Untouched, Writing
  <2> QED  BY <2>1, <2>2, <2>3, <2>4, <2>5, <2>6, <2>7, <2>8, <2>9, <2>10 DEF Sound
<1>4. CASE CheckSite(r)
  <2> USE DEF CheckSite, SetJob, rowVars, clockVars, netVars, agentVars
  <2>1. PlaneTypes'
    BY <1>4 DEF PlaneTypes
  <2>2. RowTypes' /\ ClockTypes' /\ CommandTypes' /\ LedgerTypes'
    BY <1>4 DEF RowTypes, ClockTypes, CommandTypes, LedgerTypes
  <2>3. Frame(r)
    BY <1>4 DEF Frame, RowTypes, ClockTypes, PlaneTypes, CommandTypes, LedgerTypes
  <2>4. Keeps(r)
    BY <1>4 DEF Keeps, UndoEnds, RowTypes, Unresolved
  <2>5. JobOK(r)'
    BY <1>4 DEF JobOK, Sending, Answers
  <2>6. UntouchedOK(r)'
    BY <1>4 DEF UntouchedOK, Untouched
  <2>7. WriteOK(r)'
    BY <1>4 DEF WriteOK, Writing, Resolving
  <2>8. TraceOK(r)'
    BY <1>4 DEF TraceOK
  <2>9. PostOK(r)'
    BY <1>4 DEF PostOK, Gone
  <2>10. RowOK(r)' /\ StepOK(r)' /\ PassOK(r)'
    BY <1>4 DEF RowOK, StepOK, PassOK, UndoStarted, PassAt, Gone, Untouched, Writing
  <2> QED  BY <2>1, <2>2, <2>3, <2>4, <2>5, <2>6, <2>7, <2>8, <2>9, <2>10 DEF Sound
<1>5. CASE Reserve(r)
  <2> USE DEF Reserve, Move, SetJob, netVars, agentVars, InFlightOnSite
  <2>1. RowTypes'
    BY <1>5 DEF RowTypes, States
  <2>2. ClockTypes'
    BY <1>5, TimingAssumption DEF ClockTypes
  <2>3. PlaneTypes'
    BY <1>5 DEF PlaneTypes
  <2>4. CommandTypes' /\ LedgerTypes'
    BY <1>5 DEF CommandTypes, LedgerTypes
  <2>5. Frame(r)
    BY <1>5 DEF Frame, RowTypes, ClockTypes, PlaneTypes, CommandTypes, LedgerTypes
  <2>6. Keeps(r)
    BY <1>5 DEF Keeps, RowTypes, RowOK, Unsent
  <2>7. RowOK(r)'
    BY <1>5 DEF RowOK, Unsent, UndoStarted
  <2>8. JobOK(r)'
    BY <1>5, TimingAssumption DEF RowTypes, ClockTypes, PlaneTypes, JobOK
  <2>9. UntouchedOK(r)'
    BY <1>5 DEF UntouchedOK, Unsent, Untouched
  <2>10. WriteOK(r)'
    BY <1>5 DEF WriteOK, Writing, Resolving
  <2>11. TraceOK(r)'
    BY <1>5 DEF TraceOK
  <2>12. PostOK(r)'
    BY <1>5 DEF PostOK, Gone
  <2>13. PassOK(r)'
    BY <1>5 DEF PassOK, Unsent, PassAt
  <2>14. StepOK(r)'
    BY <1>5 DEF StepOK
  <2> QED  BY <2>1, <2>2, <2>3, <2>4, <2>5, <2>6, <2>7, <2>8, <2>9, <2>10, <2>11, <2>12, <2>13,
              <2>14 DEF Sound
<1>6. CASE Send(r)
  <2> USE DEF Send, SetJob, rowVars, agentVars
  <2>1. ClockTypes'
    BY <1>6, TimingAssumption DEF ClockTypes
  <2>2. PlaneTypes'
    BY <1>6 DEF PlaneTypes, Answers
  <2>3. CommandTypes'
    BY <1>6 DEF CommandTypes
  <2>4. RowTypes' /\ LedgerTypes'
    BY <1>6 DEF RowTypes, LedgerTypes
  <2>5. Frame(r)
    BY <1>6 DEF Frame, RowTypes, ClockTypes, PlaneTypes, CommandTypes, LedgerTypes
  <2>6. Keeps(r)
    BY <1>6 DEF Keeps, UndoEnds, RowTypes, Unresolved
  <2>7. JobOK(r)'
    BY <1>6, TimingAssumption DEF PlaneTypes, JobOK, Sending
  <2>8. UntouchedOK(r)'
    BY <1>6 DEF PlaneTypes, RowOK, JobOK, UntouchedOK, Unsent, Sending, Untouched
  <2>9. WriteOK(r)'
    BY <1>6, TimingAssumption DEF ClockTypes, PlaneTypes, RowOK, JobOK, UntouchedOK, WriteOK,
       Sending, Untouched, Writing, Unresolved, Resolving
  <2>10. TraceOK(r)'
    BY <1>6 DEF PlaneTypes, TraceOK
  <2>11. PostOK(r)'
    BY <1>6 DEF PlaneTypes, PostOK, Gone
  <2>12. PassOK(r)'
    BY <1>6 DEF JobOK, PassOK, Sending, PassAt
  <2>13. RowOK(r)' /\ StepOK(r)'
    BY <1>6 DEF RowOK, StepOK, UndoStarted
  <2> QED  BY <2>1, <2>2, <2>3, <2>4, <2>5, <2>6, <2>7, <2>8, <2>9, <2>10, <2>11, <2>12, <2>13
           DEF Sound
<1>7. CASE SendUncertain(r)
  <2> USE DEF SendUncertain, SetJob, rowVars, clockVars, netVars, agentVars
  <2>1. PlaneTypes'
    BY <1>7 DEF PlaneTypes, Answers
  <2>2. RowTypes' /\ ClockTypes' /\ CommandTypes' /\ LedgerTypes'
    BY <1>7 DEF RowTypes, ClockTypes, CommandTypes, LedgerTypes
  <2>3. Frame(r)
    BY <1>7 DEF Frame, RowTypes, ClockTypes, PlaneTypes, CommandTypes, LedgerTypes
  <2>4. Keeps(r)
    BY <1>7 DEF Keeps, UndoEnds, RowTypes, Unresolved
  <2>5. JobOK(r)'
    BY <1>7 DEF JobOK, Sending
  <2>6. UntouchedOK(r)'
    BY <1>7 DEF UntouchedOK, Untouched
  <2>7. WriteOK(r)'
    BY <1>7 DEF WriteOK, Writing, Unresolved, Resolving
  <2>8. TraceOK(r)'
    BY <1>7 DEF TraceOK
  <2>9. PostOK(r)'
    BY <1>7 DEF PostOK, Gone
  <2>10. RowOK(r)' /\ StepOK(r)' /\ PassOK(r)'
    BY <1>7 DEF RowOK, StepOK, PassOK, UndoStarted, PassAt, Gone, Untouched, Writing
  <2> QED  BY <2>1, <2>2, <2>3, <2>4, <2>5, <2>6, <2>7, <2>8, <2>9, <2>10 DEF Sound
<1>8. CASE RecordOutcome(r)
  <2> USE DEF RecordOutcome, SetJob, WriteOutcome, netVars, agentVars
  <2>1. RowTypes' /\ ClockTypes'
    BY <1>8, WriteOutcomeTypes DEF ClockTypes
  <2>3. PlaneTypes'
    BY <1>8 DEF PlaneTypes
  <2>4. CommandTypes' /\ LedgerTypes'
    BY <1>8 DEF CommandTypes, LedgerTypes
  <2>5. Frame(r)
    BY <1>8 DEF Frame, RowTypes, ClockTypes, PlaneTypes, CommandTypes, LedgerTypes
  <2>6. Keeps(r)
    BY <1>8 DEF Keeps, RowTypes, RowOK, UndoEnds, UndoStarted, Unresolved
  <2>7. RowOK(r)'
    BY <1>8 DEF RowTypes, RowOK, TraceOK, Unsent, UndoStarted, Unresolved
  <2>8. JobOK(r)'
    BY <1>8 DEF PlaneTypes, JobOK, Sending, Answers
  <2>9. UntouchedOK(r)'
    BY <1>8 DEF RowTypes, UntouchedOK, Unsent, Answers, Untouched
  <2>10. WriteOK(r)'
    BY <1>8, TimingAssumption DEF RowTypes, ClockTypes, WriteOK, Answers, Writing, Unresolved,
       Resolving
  <2>11. TraceOK(r)'
    BY <1>8 DEF TraceOK
  <2>12. PostOK(r)'
    BY <1>8 DEF RowTypes, PostOK, Gone
  <2>13. PassOK(r)'
    BY <1>8 DEF RowTypes, PassOK, Unsent, Untouched, Gone, Writing, PassAt
  <2>14. StepOK(r)'
    BY <1>8 DEF StepOK
  <2> QED  BY <2>1, <2>3, <2>4, <2>5, <2>6, <2>7, <2>8, <2>9, <2>10, <2>11, <2>12, <2>13, <2>14
           DEF Sound
<1>9. CASE JobCrash(r)
  <2> USE DEF JobCrash, SetJob, rowVars, clockVars, netVars, agentVars
  <2>1. PlaneTypes'
    BY <1>9 DEF PlaneTypes
  <2>2. RowTypes' /\ ClockTypes' /\ CommandTypes' /\ LedgerTypes'
    BY <1>9 DEF RowTypes, ClockTypes, CommandTypes, LedgerTypes
  <2>3. Frame(r)
    BY <1>9 DEF Frame, RowTypes, ClockTypes, PlaneTypes, CommandTypes, LedgerTypes
  <2>4. Keeps(r)
    BY <1>9 DEF Keeps, UndoEnds, RowTypes, Unresolved
  <2>5. JobOK(r)'
    BY <1>9 DEF JobOK, Sending, Answers
  <2>6. UntouchedOK(r)'
    BY <1>9 DEF UntouchedOK, Untouched
  <2>7. WriteOK(r)'
    BY <1>9 DEF WriteOK, Writing, Unresolved, Resolving
  <2>8. TraceOK(r)'
    BY <1>9 DEF TraceOK
  <2>9. PostOK(r)'
    BY <1>9 DEF PostOK, Gone
  <2>10. RowOK(r)' /\ StepOK(r)' /\ PassOK(r)'
    BY <1>9 DEF RowOK, StepOK, PassOK, UndoStarted, PassAt, Gone, Untouched, Writing
  <2> QED  BY <2>1, <2>2, <2>3, <2>4, <2>5, <2>6, <2>7, <2>8, <2>9, <2>10 DEF Sound
<1> QED  BY <1>1, <1>2, <1>3, <1>4, <1>5, <1>6, <1>7, <1>8, <1>9 DEF JobStep

\* The periodic closes: an expired proposal, a missed deadline, a send without an answer.
LEMMA SweepSound ==
    ASSUME TypeOK, NEW r \in Requests, RInv(r),
           SweepStep(r) \/ Lapse(r)
    PROVE  Sound(r)
<1> USE DEF TypeOK, RInv
<1>1. CASE Expire(r)
  BY <1>1, DecisionSound DEF Expire, Unsent
<1>2. CASE ClosePastDeadline(r)
  BY <1>2, DecisionSound DEF ClosePastDeadline, Unsent
<1>3. CASE ReconcileStale(r)
  <2> USE DEF ReconcileStale, WriteOutcome, netVars, agentVars
  <2>1. RowTypes' /\ ClockTypes'
    BY <1>3, WriteOutcomeTypes DEF ClockTypes, Answers
  <2>3. PlaneTypes' /\ CommandTypes' /\ LedgerTypes'
    BY <1>3 DEF PlaneTypes, CommandTypes, LedgerTypes
  <2>4. Frame(r)
    BY <1>3 DEF Frame, RowTypes, ClockTypes, PlaneTypes, CommandTypes, LedgerTypes
  <2>5. Keeps(r)
    BY <1>3 DEF Keeps, UndoEnds, RowTypes, Unresolved
  <2>6. RowOK(r)'
    BY <1>3 DEF RowOK, UndoStarted
  <2>7. JobOK(r)'
    BY <1>3, TimingAssumption DEF ClockTypes, JobOK
  <2>8. UntouchedOK(r)'
    BY <1>3 DEF RowTypes, UntouchedOK, Unsent, Untouched
  <2>9. WriteOK(r)'
    BY <1>3, TimingAssumption DEF RowTypes, ClockTypes, WriteOK, Writing, Unresolved
  <2>10. PostOK(r)'
    BY <1>3 DEF PostOK, Gone
  <2>11. PassOK(r)'
    BY <1>3 DEF PassOK, PassAt
  <2>12. StepOK(r)' /\ TraceOK(r)'
    BY <1>3 DEF StepOK, TraceOK
  <2> QED  BY <2>1, <2>3, <2>4, <2>5, <2>6, <2>7, <2>8, <2>9, <2>10, <2>11, <2>12 DEF Sound
<1>4. CASE Lapse(r)
  <2> USE DEF Lapse, clockVars, netVars, agentVars
  <2>1. RowTypes'
    BY <1>4 DEF RowTypes
  <2>2. ClockTypes' /\ PlaneTypes' /\ CommandTypes' /\ LedgerTypes'
    BY <1>4 DEF ClockTypes, PlaneTypes, CommandTypes, LedgerTypes
  <2>3. Frame(r)
    BY <1>4 DEF Frame, RowTypes, ClockTypes, PlaneTypes, CommandTypes, LedgerTypes
  <2>4. Keeps(r)
    BY <1>4 DEF Keeps, UndoEnds, RowTypes, Unresolved
  <2>5. RowOK(r)' /\ JobOK(r)' /\ UntouchedOK(r)' /\ WriteOK(r)' /\ StepOK(r)'
        /\ TraceOK(r)' /\ PostOK(r)' /\ PassOK(r)'
    BY <1>4 DEF RowOK, JobOK, UntouchedOK, WriteOK, StepOK, TraceOK, PostOK, PassOK,
       UndoStarted, Untouched, Writing, Unresolved, Resolving, Gone, PassAt
  <2> QED  BY <2>1, <2>2, <2>3, <2>4, <2>5 DEF Sound
<1> QED  BY <1>1, <1>2, <1>3, <1>4 DEF SweepStep

\* A person's undo, its handler's steps and its death.
LEMMA UndoSound ==
    ASSUME TypeOK, NEW r \in Requests, RInv(r),
           BeginUndo(r) \/ UndoStep(r) \/ UndoCrash(r)
    PROVE  Sound(r)
<1> USE DEF TypeOK, RInv
<1>1. CASE BeginUndo(r)
  <2> USE DEF BeginUndo, netVars, agentVars
  <2>1. RowTypes'
    BY <1>1 DEF RowTypes
  <2>2. ClockTypes'
    BY <1>1, TimingAssumption DEF ClockTypes
  <2>3. PlaneTypes'
    BY <1>1 DEF PlaneTypes
  <2>4. CommandTypes' /\ LedgerTypes'
    BY <1>1 DEF CommandTypes, LedgerTypes
  <2>5. Frame(r)
    BY <1>1 DEF Frame, RowTypes, ClockTypes, PlaneTypes, CommandTypes, LedgerTypes
  <2>6. Keeps(r)
    BY <1>1 DEF Keeps, UndoEnds, RowTypes, Unresolved
  <2>7. RowOK(r)'
    BY <1>1 DEF RowOK, UndoStarted
  <2>8. PostOK(r)'
    BY <1>1 DEF PostOK, Gone
  <2>9. JobOK(r)' /\ UntouchedOK(r)' /\ WriteOK(r)' /\ StepOK(r)' /\ TraceOK(r)' /\ PassOK(r)'
    BY <1>1 DEF JobOK, UntouchedOK, WriteOK, StepOK, TraceOK, PassOK, Untouched, Writing,
       Unresolved, Resolving, PassAt, Gone
  <2> QED  BY <2>1, <2>2, <2>3, <2>4, <2>5, <2>6, <2>7, <2>8, <2>9 DEF Sound
<1>2. CASE UndoSend(r)
  <2> USE DEF UndoSend, rowVars, clockVars, agentVars
  <2>1. PlaneTypes'
    BY <1>2 DEF PlaneTypes, UndoAnswers
  <2>2. CommandTypes'
    BY <1>2 DEF CommandTypes
  <2>3. RowTypes' /\ ClockTypes' /\ LedgerTypes'
    BY <1>2 DEF RowTypes, ClockTypes, LedgerTypes
  <2>4. Frame(r)
    BY <1>2 DEF Frame, RowTypes, ClockTypes, PlaneTypes, CommandTypes, LedgerTypes
  <2>5. Keeps(r)
    BY <1>2 DEF Keeps, UndoEnds, RowTypes, Unresolved
  <2>6. RowOK(r)'
    BY <1>2 DEF RowOK, UndoStarted
  <2>7. PostOK(r)'
    BY <1>2 DEF PlaneTypes, PostOK, Gone
  <2>8. JobOK(r)' /\ UntouchedOK(r)' /\ WriteOK(r)' /\ StepOK(r)' /\ TraceOK(r)' /\ PassOK(r)'
    BY <1>2 DEF JobOK, UntouchedOK, WriteOK, StepOK, TraceOK, PassOK, Untouched, Writing,
       Unresolved, Resolving, PassAt, Gone
  <2> QED  BY <2>1, <2>2, <2>3, <2>4, <2>5, <2>6, <2>7, <2>8 DEF Sound
<1>3. CASE UndoWaitOver(r)
  <2> USE DEF UndoWaitOver, Orphan, rowVars, clockVars
  <2>1. PlaneTypes'
    BY <1>3 DEF PlaneTypes, UndoAnswers
  <2>2. CommandTypes'
    BY <1>3 DEF CommandTypes
  <2>3. RowTypes' /\ ClockTypes' /\ LedgerTypes'
    BY <1>3 DEF RowTypes, ClockTypes, LedgerTypes
  <2>4. Frame(r)
    BY <1>3 DEF Frame, RowTypes, ClockTypes, PlaneTypes, CommandTypes, LedgerTypes
  <2>5. Keeps(r)
    BY <1>3 DEF Keeps, UndoEnds, RowTypes, Unresolved
  <2>6. RowOK(r)'
    BY <1>3 DEF RowOK, UndoStarted
  <2>7. StepOK(r)'
    BY <1>3 DEF StepOK
  <2>8. TraceOK(r)'
    BY <1>3 DEF TraceOK
  <2>9. PostOK(r)'
    BY <1>3 DEF PostOK, Gone
  <2>10. JobOK(r)' /\ UntouchedOK(r)' /\ WriteOK(r)' /\ PassOK(r)'
    BY <1>3 DEF JobOK, UntouchedOK, WriteOK, PassOK, Untouched, Writing, Unresolved, Resolving,
       PassAt, Gone
  <2> QED  BY <2>1, <2>2, <2>3, <2>4, <2>5, <2>6, <2>7, <2>8, <2>9, <2>10 DEF Sound
<1>4. CASE FinishUndo(r)
  <2> USE DEF FinishUndo, SettleUndoTo, clockVars, netVars, agentVars
  <2>1. RowTypes'
    BY <1>4 DEF RowTypes
  <2>2. PlaneTypes'
    BY <1>4 DEF PlaneTypes
  <2>3. ClockTypes' /\ CommandTypes' /\ LedgerTypes'
    BY <1>4 DEF ClockTypes, CommandTypes, LedgerTypes
  <2>4. Frame(r)
    BY <1>4 DEF Frame, RowTypes, ClockTypes, PlaneTypes, CommandTypes, LedgerTypes
  <2>5. Keeps(r)
    BY <1>4 DEF Keeps, UndoEnds, RowTypes, Unresolved
  <2>6. RowOK(r)'
    BY <1>4 DEF RowOK, UndoStarted
  <2>7. PostOK(r)'
    BY <1>4 DEF PostOK, Gone
  <2>8. JobOK(r)' /\ UntouchedOK(r)' /\ WriteOK(r)' /\ StepOK(r)' /\ TraceOK(r)' /\ PassOK(r)'
    BY <1>4 DEF JobOK, UntouchedOK, WriteOK, StepOK, TraceOK, PassOK, Untouched, Writing,
       Unresolved, Resolving, PassAt, Gone
  <2> QED  BY <2>1, <2>2, <2>3, <2>4, <2>5, <2>6, <2>7, <2>8 DEF Sound
<1>5. CASE UndoCrash(r)
  <2> USE DEF UndoCrash, Orphan, rowVars, clockVars
  <2>1. PlaneTypes'
    BY <1>5 DEF PlaneTypes
  <2>2. CommandTypes'
    BY <1>5 DEF CommandTypes
  <2>3. RowTypes' /\ ClockTypes' /\ LedgerTypes'
    BY <1>5 DEF RowTypes, ClockTypes, LedgerTypes
  <2>4. Frame(r)
    BY <1>5 DEF Frame, RowTypes, ClockTypes, PlaneTypes, CommandTypes, LedgerTypes
  <2>5. Keeps(r)
    BY <1>5 DEF Keeps, UndoEnds, RowTypes, Unresolved
  <2>6. RowOK(r)'
    BY <1>5 DEF RowOK, UndoStarted
  <2>7. StepOK(r)'
    BY <1>5 DEF StepOK
  <2>8. TraceOK(r)'
    BY <1>5 DEF TraceOK
  <2>9. PostOK(r)'
    BY <1>5 DEF PostOK, Gone
  <2>10. JobOK(r)' /\ UntouchedOK(r)' /\ WriteOK(r)' /\ PassOK(r)'
    BY <1>5 DEF JobOK, UntouchedOK, WriteOK, PassOK, Untouched, Writing, Unresolved, Resolving,
       PassAt, Gone
  <2> QED  BY <2>1, <2>2, <2>3, <2>4, <2>5, <2>6, <2>7, <2>8, <2>9, <2>10 DEF Sound
<1> QED  BY <1>1, <1>2, <1>3, <1>4, <1>5 DEF UndoStep

\* The agent's write, from the command's arrival to the recorded failure.
LEMMA WriteSound ==
    ASSUME TypeOK, NEW r \in Requests, RInv(r),
           Deliver(r) \/ ClaimRequest(r) \/ CreateRow(r) \/ InsertPost(r) \/ RecordPost(r)
           \/ Verify(r) \/ Cleanup(r) \/ RecordFailure(r)
    PROVE  Sound(r)
<1> USE DEF TypeOK, RInv
<1>1. CASE Deliver(r)
  <2> USE DEF Deliver, To, rowVars, clockVars
  <2>1. CommandTypes'
    BY <1>1 DEF CommandTypes, WriteSteps
  <2>2. RowTypes' /\ ClockTypes' /\ PlaneTypes' /\ LedgerTypes'
    BY <1>1 DEF RowTypes, ClockTypes, PlaneTypes, LedgerTypes
  <2>3. Frame(r)
    BY <1>1 DEF Frame, RowTypes, ClockTypes, PlaneTypes, CommandTypes, LedgerTypes
  <2>4. Keeps(r)
    BY <1>1 DEF Keeps, UndoEnds, RowTypes, Unresolved
  <2>5. RowOK(r)'
    BY <1>1 DEF RowOK, RevertSteps, UndoStarted
  <2>6. UntouchedOK(r)'
    BY <1>1 DEF UntouchedOK, Untouched
  <2>7. WriteOK(r)'
    BY <1>1, TimingAssumption DEF ClockTypes, CommandTypes, WriteOK, Writing, Unresolved,
       Resolving
  <2>8. StepOK(r)'
    BY <1>1 DEF CommandTypes, WriteOK, StepOK, RevertSteps
  <2>9. TraceOK(r)'
    BY <1>1 DEF TraceOK
  <2>10. PostOK(r)'
    BY <1>1 DEF WriteOK, PostOK, Gone
  <2>11. PassOK(r)'
    BY <1>1 DEF PassOK, Untouched, Gone, Writing, PassAt
  <2>12. JobOK(r)'
    BY <1>1 DEF JobOK
  <2> QED  BY <2>1, <2>2, <2>3, <2>4, <2>5, <2>6, <2>7, <2>8, <2>9, <2>10, <2>11, <2>12 DEF Sound
<1>2. CASE ClaimRequest(r)
  <2> USE DEF ClaimRequest, To, agentOnly, rowVars, clockVars, netVars
  <2>1. CommandTypes'
    BY <1>2 DEF CommandTypes, WriteSteps
  <2>2. LedgerTypes'
    BY <1>2 DEF LedgerTypes
  <2>3. RowTypes' /\ ClockTypes' /\ PlaneTypes'
    BY <1>2 DEF RowTypes, ClockTypes, PlaneTypes
  <2>4. Frame(r)
    BY <1>2 DEF Frame, RowTypes, ClockTypes, PlaneTypes, CommandTypes, LedgerTypes
  <2>5. Keeps(r)
    BY <1>2 DEF Keeps, UndoEnds, RowTypes, Unresolved
  <2>6. RowOK(r)'
    BY <1>2 DEF RowOK, RevertSteps, UndoStarted
  <2>7. UntouchedOK(r)'
    BY <1>2 DEF UntouchedOK, Untouched
  <2>8. WriteOK(r)'
    BY <1>2 DEF WriteOK, WriteSteps, Writing, Unresolved, Resolving
  <2>9. StepOK(r)'
    BY <1>2 DEF LedgerTypes, StepOK, WriteSteps, RevertSteps
  <2>10. TraceOK(r)'
    BY <1>2 DEF TraceOK
  <2>11. PostOK(r)'
    BY <1>2 DEF PostOK, Gone
  <2>12. PassOK(r)'
    BY <1>2 DEF PassOK, WriteSteps, Untouched, Gone, Writing, PassAt
  <2>13. JobOK(r)'
    BY <1>2 DEF JobOK
  <2> QED  BY <2>1, <2>2, <2>3, <2>4, <2>5, <2>6, <2>7, <2>8, <2>9, <2>10, <2>11, <2>12, <2>13
           DEF Sound
<1>3. CASE CreateRow(r)
  <2> USE DEF CreateRow, To, Answer, SetPhase, agentOnly, rowVars, clockVars, netVars
  <2>1. CommandTypes'
    BY <1>3 DEF CommandTypes, WriteSteps, UndoAnswers
  <2>2. LedgerTypes'
    BY <1>3 DEF LedgerTypes, Phases
  <2>3. RowTypes' /\ ClockTypes' /\ PlaneTypes'
    BY <1>3 DEF RowTypes, ClockTypes, PlaneTypes
  <2>4. Frame(r)
    BY <1>3 DEF Frame, RowTypes, ClockTypes, PlaneTypes, CommandTypes, LedgerTypes
  <2>5. Keeps(r)
    BY <1>3 DEF Keeps, UndoEnds, RowTypes, Unresolved
  <2>6. RowOK(r)'
    BY <1>3 DEF CommandTypes, RowOK, StepOK, RevertSteps, UndoStarted
  <2>7. UntouchedOK(r)'
    BY <1>3 DEF UntouchedOK, Untouched
  <2>8. WriteOK(r)'
    BY <1>3 DEF CommandTypes, WriteOK, WriteSteps, Writing, Unresolved, Resolving
  <2>9. StepOK(r)'
    BY <1>3 DEF CommandTypes, LedgerTypes, StepOK, WriteSteps, RevertSteps
  <2>10. TraceOK(r)'
    BY <1>3 DEF CommandTypes, LedgerTypes, TraceOK
  <2>11. PostOK(r)'
    BY <1>3 DEF CommandTypes, PostOK, Gone
  <2>12. PassOK(r)'
    BY <1>3 DEF StepOK, PassOK, WriteSteps, Untouched, Gone, Writing, PassAt
  <2>13. JobOK(r)'
    BY <1>3 DEF JobOK
  <2> QED  BY <2>1, <2>2, <2>3, <2>4, <2>5, <2>6, <2>7, <2>8, <2>9, <2>10, <2>11, <2>12, <2>13
           DEF Sound
<1>4. CASE InsertPost(r)
  <2> USE DEF InsertPost, To, Answer, agentOnly, rowVars, clockVars, netVars
  <2>1. CommandTypes'
    BY <1>4 DEF CommandTypes, WriteSteps, UndoAnswers
  <2>2. LedgerTypes'
    BY <1>4 DEF LedgerTypes, Phases
  <2>3. RowTypes' /\ ClockTypes' /\ PlaneTypes'
    BY <1>4 DEF RowTypes, ClockTypes, PlaneTypes
  <2>4. Frame(r)
    BY <1>4 DEF Frame, RowTypes, ClockTypes, PlaneTypes, CommandTypes, LedgerTypes
  <2>5. Keeps(r)
    BY <1>4 DEF Keeps, UndoEnds, RowTypes, Unresolved
  <2>6. RowOK(r)'
    BY <1>4 DEF CommandTypes, LedgerTypes, RowOK, StepOK, RevertSteps, UndoStarted
  <2>7. UntouchedOK(r)'
    BY <1>4 DEF UntouchedOK, Untouched
  <2>8. WriteOK(r)'
    BY <1>4 DEF CommandTypes, WriteOK, WriteSteps, Writing, Unresolved, Resolving
  <2>9. StepOK(r)'
    BY <1>4 DEF CommandTypes, StepOK, WriteSteps, RevertSteps
  <2>10. TraceOK(r)'
    BY <1>4 DEF CommandTypes, LedgerTypes, TraceOK
  <2>11. PostOK(r)'
    BY <1>4 DEF CommandTypes, WriteOK, StepOK, PostOK, RevertSteps, Gone, Writing, Unresolved
  <2>12. PassOK(r)'
    BY <1>4 DEF LedgerTypes, PostOK, PassOK, WriteSteps, Traced, Untouched, Writing, PassAt
  <2>13. JobOK(r)'
    BY <1>4 DEF JobOK
  <2> QED  BY <2>1, <2>2, <2>3, <2>4, <2>5, <2>6, <2>7, <2>8, <2>9, <2>10, <2>11, <2>12, <2>13
           DEF Sound
<1>5. CASE RecordPost(r)
  <2> USE DEF RecordPost, To, SetPhase, agentOnly, rowVars, clockVars, netVars
  <2>1. CommandTypes'
    BY <1>5 DEF CommandTypes, WriteSteps
  <2>2. LedgerTypes'
    BY <1>5 DEF LedgerTypes, Phases
  <2>3. RowTypes' /\ ClockTypes' /\ PlaneTypes'
    BY <1>5 DEF RowTypes, ClockTypes, PlaneTypes
  <2>4. Frame(r)
    BY <1>5 DEF Frame, RowTypes, ClockTypes, PlaneTypes, CommandTypes, LedgerTypes
  <2>5. Keeps(r)
    BY <1>5 DEF Keeps, UndoEnds, RowTypes, Unresolved
  <2>6. RowOK(r)'
    BY <1>5 DEF CommandTypes, LedgerTypes, RowOK, RevertSteps, UndoStarted
  <2>7. UntouchedOK(r)'
    BY <1>5 DEF UntouchedOK, Untouched
  <2>8. WriteOK(r)'
    BY <1>5 DEF CommandTypes, WriteOK, WriteSteps, Writing, Unresolved, Resolving
  <2>9. StepOK(r)'
    BY <1>5 DEF CommandTypes, LedgerTypes, StepOK, RevertSteps
  <2>10. TraceOK(r)'
    BY <1>5 DEF CommandTypes, LedgerTypes, TraceOK
  <2>11. PostOK(r)'
    BY <1>5 DEF CommandTypes, LedgerTypes, PostOK, Gone
  <2>12. PassOK(r)'
    BY <1>5 DEF LedgerTypes, StepOK, PassOK, WriteSteps, Untouched, Gone, Writing, PassAt
  <2>13. JobOK(r)'
    BY <1>5 DEF JobOK
  <2> QED  BY <2>1, <2>2, <2>3, <2>4, <2>5, <2>6, <2>7, <2>8, <2>9, <2>10, <2>11, <2>12, <2>13
           DEF Sound
<1>6. CASE Verify(r)
  <2> USE DEF Verify, To, Answer, agentOnly, rowVars, clockVars, netVars
  <2>1. CommandTypes'
    BY <1>6 DEF CommandTypes, WriteSteps
  <2>2. LedgerTypes'
    BY <1>6 DEF LedgerTypes, Phases
  <2>3. RowTypes' /\ ClockTypes' /\ PlaneTypes'
    BY <1>6 DEF RowTypes, ClockTypes, PlaneTypes
  <2>4. Frame(r)
    BY <1>6 DEF Frame, RowTypes, ClockTypes, PlaneTypes, CommandTypes, LedgerTypes
  <2>5. Keeps(r)
    BY <1>6 DEF Keeps, UndoEnds, RowTypes, Unresolved
  <2>6. RowOK(r)'
    BY <1>6 DEF CommandTypes, LedgerTypes, RowOK, StepOK, RevertSteps, UndoStarted
  <2>7. UntouchedOK(r)'
    BY <1>6 DEF UntouchedOK, Untouched
  <2>8. WriteOK(r)'
    BY <1>6 DEF CommandTypes, WriteOK, WriteSteps, Writing, Unresolved, Resolving
  <2>9. StepOK(r)'
    BY <1>6 DEF CommandTypes, StepOK, WriteSteps, RevertSteps
  <2>10. TraceOK(r)'
    BY <1>6 DEF CommandTypes, LedgerTypes, StepOK, TraceOK
  <2>11. PostOK(r)'
    BY <1>6 DEF CommandTypes, LedgerTypes, PostOK, Gone
  <2>12. PassOK(r)'
    BY <1>6 DEF LedgerTypes, StepOK, PassOK, WriteSteps, Untouched, Gone, Writing, PassAt
  <2>13. JobOK(r)'
    BY <1>6 DEF JobOK
  <2> QED  BY <2>1, <2>2, <2>3, <2>4, <2>5, <2>6, <2>7, <2>8, <2>9, <2>10, <2>11, <2>12, <2>13
           DEF Sound
<1>7. CASE Cleanup(r)
  <2> USE DEF Cleanup, agentOnly, rowVars, clockVars, netVars
  <2>1. CommandTypes'
    BY <1>7 DEF CommandTypes, WriteSteps, UndoAnswers
  <2>2. LedgerTypes'
    BY <1>7 DEF LedgerTypes
  <2>3. RowTypes' /\ ClockTypes' /\ PlaneTypes'
    BY <1>7 DEF RowTypes, ClockTypes, PlaneTypes
  <2>4. Frame(r)
    BY <1>7 DEF Frame, RowTypes, ClockTypes, PlaneTypes, CommandTypes, LedgerTypes
  <2>5. Keeps(r)
    BY <1>7 DEF Keeps, UndoEnds, RowTypes, Unresolved
  <2>6. RowOK(r)'
    BY <1>7 DEF RowOK, RevertSteps, UndoStarted
  <2>7. UntouchedOK(r)'
    BY <1>7 DEF UntouchedOK, Untouched
  <2>8. WriteOK(r)'
    BY <1>7 DEF WriteOK, WriteSteps, Writing, Unresolved, Resolving
  <2>9. StepOK(r)'
    BY <1>7 DEF CommandTypes, StepOK, RevertSteps
  <2>10. TraceOK(r)'
    BY <1>7 DEF TraceOK
  <2>11. PostOK(r)'
    BY <1>7 DEF CommandTypes, LedgerTypes, RowOK, StepOK, PostOK, Gone, UndoStarted
  <2>12. PassOK(r)'
    BY <1>7 DEF LedgerTypes, PassOK, WriteSteps, Untouched, Gone, Writing, PassAt
  <2>13. JobOK(r)'
    BY <1>7 DEF JobOK
  <2> QED  BY <2>1, <2>2, <2>3, <2>4, <2>5, <2>6, <2>7, <2>8, <2>9, <2>10, <2>11, <2>12, <2>13
           DEF Sound
<1>8. CASE RecordFailure(r)
  <2> USE DEF RecordFailure, SetPhase, agentOnly, rowVars, clockVars, netVars
  <2>1. CommandTypes'
    BY <1>8 DEF CommandTypes
  <2>2. LedgerTypes'
    BY <1>8 DEF LedgerTypes, Phases
  <2>3. RowTypes' /\ ClockTypes' /\ PlaneTypes'
    BY <1>8 DEF RowTypes, ClockTypes, PlaneTypes
  <2>4. Frame(r)
    BY <1>8 DEF Frame, RowTypes, ClockTypes, PlaneTypes, CommandTypes, LedgerTypes
  <2>5. Keeps(r)
    BY <1>8 DEF Keeps, UndoEnds, RowTypes, Unresolved
  <2>6. RowOK(r)'
    BY <1>8 DEF CommandTypes, LedgerTypes, RowOK, StepOK, RevertSteps, UndoStarted
  <2>7. UntouchedOK(r)'
    BY <1>8 DEF UntouchedOK, Untouched
  <2>8. WriteOK(r)'
    BY <1>8 DEF WriteOK, WriteSteps, Writing, Unresolved, Resolving
  <2>9. StepOK(r)'
    BY <1>8 DEF CommandTypes, StepOK, WriteSteps, RevertSteps
  <2>10. TraceOK(r)'
    BY <1>8 DEF CommandTypes, LedgerTypes, StepOK, TraceOK
  <2>11. PostOK(r)'
    BY <1>8 DEF LedgerTypes, StepOK, PostOK, Gone
  <2>12. PassOK(r)'
    BY <1>8 DEF LedgerTypes, StepOK, PassOK, WriteSteps, Untouched, Gone, Writing, PassAt
  <2>13. JobOK(r)'
    BY <1>8 DEF JobOK
  <2> QED  BY <2>1, <2>2, <2>3, <2>4, <2>5, <2>6, <2>7, <2>8, <2>9, <2>10, <2>11, <2>12, <2>13
           DEF Sound
<1> QED  BY <1>1, <1>2, <1>3, <1>4, <1>5, <1>6, <1>7, <1>8

\* The agent's revert.
LEMMA RevertSound ==
    ASSUME TypeOK, NEW r \in Requests, RInv(r),
           ClaimRecovered(r) \/ ClaimTarget(r) \/ CheckPost(r) \/ TrashPost(r) \/
           RecordRevert(r)
    PROVE  Sound(r)
<1> USE DEF TypeOK, RInv
<1>1. CASE ClaimRecovered(r)
  <2> USE DEF ClaimRecovered, To, Answer, agentOnly, rowVars, clockVars, netVars
  <2>1. CommandTypes'
    BY <1>1 DEF CommandTypes, RevertSteps, UndoAnswers
  <2>2. LedgerTypes'
    BY <1>1 DEF LedgerTypes
  <2>3. RowTypes' /\ ClockTypes' /\ PlaneTypes'
    BY <1>1 DEF RowTypes, ClockTypes, PlaneTypes
  <2>4. Frame(r)
    BY <1>1 DEF Frame, RowTypes, ClockTypes, PlaneTypes, CommandTypes, LedgerTypes
  <2>5. Keeps(r)
    BY <1>1 DEF Keeps, UndoEnds, RowTypes, Unresolved
  <2>6. RowOK(r)'
    BY <1>1 DEF RowOK, RevertSteps, UndoStarted
  <2>7. UntouchedOK(r)'
    BY <1>1 DEF UntouchedOK, Untouched
  <2>8. WriteOK(r)'
    BY <1>1 DEF CommandTypes, WriteOK, WriteSteps, Writing, Resolving
  <2>9. StepOK(r)'
    BY <1>1 DEF CommandTypes, StepOK, UndoAnswers, WriteSteps
  <2>10. TraceOK(r)'
    BY <1>1 DEF CommandTypes, StepOK, TraceOK
  <2>11. PostOK(r)'
    BY <1>1 DEF CommandTypes, PostOK, Gone
  <2>12. PassOK(r)'
    BY <1>1 DEF CommandTypes, PassOK, WriteSteps, Untouched, Gone, Writing, PassAt
  <2>13. JobOK(r)'
    BY <1>1 DEF JobOK
  <2> QED  BY <2>1, <2>2, <2>3, <2>4, <2>5, <2>6, <2>7, <2>8, <2>9, <2>10, <2>11, <2>12, <2>13
           DEF Sound
<1>2. CASE ClaimTarget(r)
  <2> USE DEF ClaimTarget, To, Answer, agentOnly, rowVars, clockVars, netVars
  <2>1. CommandTypes'
    BY <1>2 DEF CommandTypes, RevertSteps, UndoAnswers
  <2>2. LedgerTypes'
    BY <1>2 DEF LedgerTypes
  <2>3. RowTypes' /\ ClockTypes' /\ PlaneTypes'
    BY <1>2 DEF RowTypes, ClockTypes, PlaneTypes
  <2>4. Frame(r)
    BY <1>2 DEF Frame, RowTypes, ClockTypes, PlaneTypes, CommandTypes, LedgerTypes
  <2>5. Keeps(r)
    BY <1>2 DEF Keeps, UndoEnds, RowTypes, Unresolved
  <2>6. RowOK(r)'
    BY <1>2 DEF RowOK, RevertSteps, UndoStarted
  <2>7. UntouchedOK(r)'
    BY <1>2 DEF UntouchedOK, Untouched
  <2>8. WriteOK(r)'
    BY <1>2 DEF CommandTypes, WriteOK, WriteSteps, Writing, Resolving
  <2>9. StepOK(r)'
    BY <1>2 DEF CommandTypes, StepOK, UndoAnswers, WriteSteps
  <2>10. TraceOK(r)'
    BY <1>2 DEF CommandTypes, StepOK, TraceOK
  <2>11. PostOK(r)'
    BY <1>2 DEF CommandTypes, PostOK, Gone
  <2>12. PassOK(r)'
    BY <1>2 DEF CommandTypes, PassOK, WriteSteps, Untouched, Gone, Writing, PassAt
  <2>13. JobOK(r)'
    BY <1>2 DEF JobOK
  <2> QED  BY <2>1, <2>2, <2>3, <2>4, <2>5, <2>6, <2>7, <2>8, <2>9, <2>10, <2>11, <2>12, <2>13
           DEF Sound
<1>3. CASE CheckPost(r)
  <2> USE DEF CheckPost, To, Answer, agentOnly, rowVars, clockVars, netVars
  <2>1. CommandTypes'
    BY <1>3 DEF CommandTypes, RevertSteps, UndoAnswers
  <2>2. RowTypes' /\ ClockTypes' /\ PlaneTypes' /\ LedgerTypes'
    BY <1>3 DEF RowTypes, ClockTypes, PlaneTypes, LedgerTypes
  <2>3. Frame(r)
    BY <1>3 DEF Frame, RowTypes, ClockTypes, PlaneTypes, CommandTypes, LedgerTypes
  <2>4. Keeps(r)
    BY <1>3 DEF Keeps, UndoEnds, RowTypes, Unresolved
  <2>5. RowOK(r)'
    BY <1>3 DEF RowOK, RevertSteps, UndoStarted
  <2>6. UntouchedOK(r)'
    BY <1>3 DEF UntouchedOK, Untouched
  <2>7. WriteOK(r)'
    BY <1>3 DEF CommandTypes, WriteOK, WriteSteps, Writing, Resolving
  <2>8. StepOK(r)'
    BY <1>3 DEF CommandTypes, StepOK, UndoAnswers, WriteSteps
  <2>9. TraceOK(r)'
    BY <1>3 DEF CommandTypes, TraceOK
  <2>10. PostOK(r)'
    BY <1>3 DEF CommandTypes, StepOK, PostOK, RevertSteps, Gone
  <2>11. PassOK(r)'
    BY <1>3 DEF CommandTypes, PassOK, WriteSteps, Untouched, Gone, Writing, PassAt
  <2>12. JobOK(r)'
    BY <1>3 DEF JobOK
  <2> QED  BY <2>1, <2>2, <2>3, <2>4, <2>5, <2>6, <2>7, <2>8, <2>9, <2>10, <2>11, <2>12 DEF Sound
<1>4. CASE TrashPost(r)
  <2> USE DEF TrashPost, To, Answer, agentOnly, rowVars, clockVars, netVars
  <2>1. CommandTypes'
    BY <1>4 DEF CommandTypes, RevertSteps, UndoAnswers
  <2>2. LedgerTypes'
    BY <1>4 DEF LedgerTypes
  <2>3. RowTypes' /\ ClockTypes' /\ PlaneTypes'
    BY <1>4 DEF RowTypes, ClockTypes, PlaneTypes
  <2>4. Frame(r)
    BY <1>4 DEF Frame, RowTypes, ClockTypes, PlaneTypes, CommandTypes, LedgerTypes
  <2>5. Keeps(r)
    BY <1>4 DEF Keeps, UndoEnds, RowTypes, Unresolved
  <2>6. RowOK(r)'
    BY <1>4 DEF RowOK, RevertSteps, UndoStarted
  <2>7. UntouchedOK(r)'
    BY <1>4 DEF UntouchedOK, Untouched
  <2>8. WriteOK(r)'
    BY <1>4 DEF CommandTypes, WriteOK, WriteSteps, Writing, Resolving
  <2>9. StepOK(r)'
    BY <1>4 DEF CommandTypes, StepOK, UndoAnswers, WriteSteps
  <2>10. TraceOK(r)'
    BY <1>4 DEF CommandTypes, TraceOK
  <2>11. PostOK(r)'
    BY <1>4 DEF CommandTypes, LedgerTypes, RowOK, StepOK, PostOK, RevertSteps, Gone, UndoStarted
  <2>12. PassOK(r)'
    BY <1>4 DEF CommandTypes, LedgerTypes, PassOK, WriteSteps, Untouched, Gone, Writing, PassAt
  <2>13. JobOK(r)'
    BY <1>4 DEF JobOK
  <2> QED  BY <2>1, <2>2, <2>3, <2>4, <2>5, <2>6, <2>7, <2>8, <2>9, <2>10, <2>11, <2>12, <2>13
           DEF Sound
<1>5. CASE RecordRevert(r)
  <2> USE DEF RecordRevert, Answer, agentOnly, rowVars, clockVars, netVars
  <2>1. CommandTypes'
    BY <1>5 DEF CommandTypes, UndoAnswers
  <2>2. LedgerTypes'
    BY <1>5 DEF LedgerTypes
  <2>3. RowTypes' /\ ClockTypes' /\ PlaneTypes'
    BY <1>5 DEF RowTypes, ClockTypes, PlaneTypes
  <2>4. Frame(r)
    BY <1>5 DEF Frame, RowTypes, ClockTypes, PlaneTypes, CommandTypes, LedgerTypes
  <2>5. Keeps(r)
    BY <1>5 DEF Keeps, UndoEnds, RowTypes, Unresolved
  <2>6. RowOK(r)'
    BY <1>5 DEF RowOK, RevertSteps, UndoStarted
  <2>7. UntouchedOK(r)'
    BY <1>5 DEF UntouchedOK, Untouched
  <2>8. WriteOK(r)'
    BY <1>5 DEF WriteOK, WriteSteps, Writing, Resolving
  <2>9. StepOK(r)'
    BY <1>5 DEF CommandTypes, StepOK, UndoAnswers, WriteSteps
  <2>10. TraceOK(r)'
    BY <1>5 DEF TraceOK, PostOK
  <2>11. PostOK(r)'
    BY <1>5 DEF PostOK, Gone
  <2>12. PassOK(r)'
    BY <1>5 DEF PassOK, WriteSteps, Untouched, Gone, Writing, PassAt
  <2>13. JobOK(r)'
    BY <1>5 DEF JobOK
  <2> QED  BY <2>1, <2>2, <2>3, <2>4, <2>5, <2>6, <2>7, <2>8, <2>9, <2>10, <2>11, <2>12, <2>13
           DEF Sound
<1> QED  BY <1>1, <1>2, <1>3, <1>4, <1>5

\* A command ends, or PHP dies, or a claim becomes stale, or the draft is edited.
LEMMA ReplySound ==
    ASSUME TypeOK, NEW r \in Requests, RInv(r),
           Release(r) \/ PhpCrash(r) \/ ClaimLapse(r) \/ Touch(r)
    PROVE  Sound(r)
<1> USE DEF TypeOK, RInv
<1>1. CASE Release(r)
  <2> USE DEF Release, Idles, rowVars, clockVars, netVars
  <2>1. ClockTypes'
    BY <1>1, TimingAssumption DEF ClockTypes
  <2>2. PlaneTypes'
    BY <1>1 DEF PlaneTypes, Answers, StepOK
  <2>3. CommandTypes'
    BY <1>1 DEF CommandTypes
  <2>4. LedgerTypes'
    BY <1>1 DEF LedgerTypes
  <2>5. RowTypes'
    BY <1>1 DEF RowTypes
  <2>6. Frame(r)
    BY <1>1 DEF Frame, RowTypes, ClockTypes, PlaneTypes, CommandTypes, LedgerTypes
  <2>7. Keeps(r)
    BY <1>1 DEF Keeps, UndoEnds, RowTypes, Unresolved
  <2>8. RowOK(r)'
    BY <1>1 DEF CommandTypes, RowOK, RevertSteps, UndoStarted
  <2>9. JobOK(r)'
    BY <1>1 DEF JobOK, StepOK, Sending
  <2>10. UntouchedOK(r)'
    BY <1>1 DEF UntouchedOK, StepOK, Untouched
  <2>11. WriteOK(r)'
    BY <1>1 DEF ClockTypes, CommandTypes, WriteOK, WriteSteps, Writing
  <2>12. StepOK(r)'
    BY <1>1 DEF CommandTypes, StepOK, WriteSteps
  <2>13. TraceOK(r)'
    BY <1>1 DEF CommandTypes, TraceOK
  <2>14. PostOK(r)'
    BY <1>1 DEF PostOK, Gone
  <2>15. PassOK(r)'
    BY <1>1 DEF PassOK, WriteSteps, Untouched, Gone, Writing, PassAt
  <2> QED  BY <2>1, <2>2, <2>3, <2>4, <2>5, <2>6, <2>7, <2>8, <2>9, <2>10, <2>11, <2>12, <2>13,
              <2>14, <2>15 DEF Sound
<1>2. CASE PhpCrash(r)
  <2> USE DEF PhpCrash, Idles, rowVars, clockVars, netVars
  <2>1. ClockTypes'
    BY <1>2, TimingAssumption DEF ClockTypes
  <2>2. CommandTypes'
    BY <1>2 DEF CommandTypes
  <2>3. LedgerTypes'
    BY <1>2 DEF LedgerTypes
  <2>4. RowTypes' /\ PlaneTypes'
    BY <1>2 DEF RowTypes, PlaneTypes
  <2>5. Frame(r)
    BY <1>2 DEF Frame, RowTypes, ClockTypes, PlaneTypes, CommandTypes, LedgerTypes
  <2>6. Keeps(r)
    BY <1>2 DEF Keeps, UndoEnds, RowTypes, Unresolved
  <2>7. RowOK(r)'
    BY <1>2 DEF CommandTypes, RowOK, RevertSteps, UndoStarted
  <2>8. UntouchedOK(r)'
    BY <1>2 DEF UntouchedOK, Untouched
  <2>9. WriteOK(r)'
    BY <1>2 DEF ClockTypes, CommandTypes, WriteOK, WriteSteps, Writing
  <2>10. StepOK(r)'
    BY <1>2 DEF CommandTypes, StepOK, WriteSteps
  <2>11. TraceOK(r)'
    BY <1>2 DEF CommandTypes, TraceOK
  <2>12. PostOK(r)'
    BY <1>2 DEF PostOK, Gone
  <2>13. PassOK(r)'
    BY <1>2 DEF PassOK, WriteSteps, Untouched, Gone, Writing, PassAt
  <2>14. JobOK(r)'
    BY <1>2 DEF JobOK
  <2> QED  BY <2>1, <2>2, <2>3, <2>4, <2>5, <2>6, <2>7, <2>8, <2>9, <2>10, <2>11, <2>12, <2>13,
              <2>14 DEF Sound
<1>3. CASE ClaimLapse(r)
  <2> USE DEF ClaimLapse, agentOnly, rowVars, clockVars, netVars
  <2>1. LedgerTypes'
    BY <1>3 DEF LedgerTypes
  <2>2. RowTypes' /\ ClockTypes' /\ PlaneTypes' /\ CommandTypes'
    BY <1>3 DEF RowTypes, ClockTypes, PlaneTypes, CommandTypes
  <2>3. Frame(r)
    BY <1>3 DEF Frame, RowTypes, ClockTypes, PlaneTypes, CommandTypes, LedgerTypes
  <2>4. Keeps(r)
    BY <1>3 DEF Keeps, UndoEnds, RowTypes, Unresolved
  <2>5. StepOK(r)'
    BY <1>3 DEF StepOK
  <2>6. RowOK(r)' /\ JobOK(r)' /\ UntouchedOK(r)' /\ WriteOK(r)' /\ TraceOK(r)'
        /\ PostOK(r)' /\ PassOK(r)'
    BY <1>3 DEF RowOK, JobOK, UntouchedOK, WriteOK, TraceOK, PostOK, PassOK, UndoStarted,
       Untouched, Writing, Unresolved, Resolving, Gone, PassAt
  <2> QED  BY <2>1, <2>2, <2>3, <2>4, <2>5, <2>6 DEF Sound
<1>4. CASE Touch(r)
  <2> USE DEF Touch, agentOnly, rowVars, clockVars, netVars
  <2>1. LedgerTypes'
    BY <1>4 DEF LedgerTypes
  <2>2. RowTypes' /\ ClockTypes' /\ PlaneTypes' /\ CommandTypes'
    BY <1>4 DEF RowTypes, ClockTypes, PlaneTypes, CommandTypes
  <2>3. Frame(r)
    BY <1>4 DEF Frame, RowTypes, ClockTypes, PlaneTypes, CommandTypes, LedgerTypes
  <2>4. Keeps(r)
    BY <1>4 DEF Keeps, UndoEnds, RowTypes, Unresolved
  <2>5. UntouchedOK(r)'
    BY <1>4 DEF UntouchedOK, Untouched
  <2>6. PostOK(r)'
    BY <1>4 DEF PostOK, Gone
  <2>7. PassOK(r)'
    BY <1>4 DEF PassOK, Untouched, Gone, Writing, PassAt
  <2>8. RowOK(r)' /\ JobOK(r)' /\ WriteOK(r)' /\ StepOK(r)' /\ TraceOK(r)'
    BY <1>4 DEF RowOK, JobOK, WriteOK, StepOK, TraceOK, UndoStarted, Writing, Unresolved,
       Resolving
  <2> QED  BY <2>1, <2>2, <2>3, <2>4, <2>5, <2>6, <2>7, <2>8 DEF Sound
<1> QED  BY <1>1, <1>2, <1>3, <1>4

\* A revert reaches the site.
LEMMA DeliverSound ==
    ASSUME TypeOK, NEW r \in Requests, RInv(r), NEW who, DeliverRevert(r, who)
    PROVE  Sound(r)
<1> USE DEF TypeOK, RInv
<1>1. CASE DeliverRevert(r, who)
  <2> USE DEF DeliverRevert, RowAnswer, To, Answer, rowVars, clockVars
  <2>1. PlaneTypes'
    BY <1>1 DEF PlaneTypes, UndoAnswers
  <2>2. CommandTypes'
    BY <1>1 DEF CommandTypes, RevertSteps, UndoAnswers
  <2>3. RowTypes' /\ ClockTypes' /\ LedgerTypes'
    BY <1>1 DEF RowTypes, ClockTypes, LedgerTypes
  <2>4. Frame(r)
    BY <1>1 DEF Frame, RowTypes, ClockTypes, PlaneTypes, CommandTypes, LedgerTypes
  <2>5. Keeps(r)
    BY <1>1 DEF Keeps, UndoEnds, RowTypes, Unresolved
  <2>6. RowOK(r)'
    BY <1>1 DEF RowOK, UndoStarted
  <2>7. UntouchedOK(r)'
    BY <1>1 DEF RowOK, UntouchedOK, Untouched, UndoStarted
  <2>8. WriteOK(r)'
    BY <1>1 DEF CommandTypes, RowOK, WriteOK, WriteSteps, UndoStarted, Writing, Unresolved,
       Resolving
  <2>9. StepOK(r)'
    BY <1>1 DEF CommandTypes, StepOK, UndoAnswers, WriteSteps
  <2>10. TraceOK(r)'
    BY <1>1 DEF CommandTypes, TraceOK
  <2>11. PostOK(r)'
    BY <1>1 DEF PlaneTypes, CommandTypes, PostOK, Gone
  <2>12. PassOK(r)'
    BY <1>1 DEF CommandTypes, RowOK, PassOK, WriteSteps, Untouched, Gone, UndoStarted, Writing,
       PassAt
  <2>13. JobOK(r)'
    BY <1>1 DEF JobOK
  <2> QED  BY <2>1, <2>2, <2>3, <2>4, <2>5, <2>6, <2>7, <2>8, <2>9, <2>10, <2>11, <2>12, <2>13
           DEF Sound
<1> QED  BY <1>1

\* A pass reads a request's ledger, concludes, and acts on its conclusion.
LEMMA PassSound ==
    ASSUME TypeOK, NEW p \in Passes, NEW r \in Requests, RInv(r),
           saw[p] # Idle => saw[p].req = r, LedgerRow(p, r) \/ PassStep(p)
    PROVE  Sound(r)
<1> USE DEF TypeOK, RInv
<1>1. CASE LedgerRow(p, r)
  <2> USE DEF LedgerRow, Saw, rowVars, clockVars, netVars, agentVars, StuckUndo
  <2>1. PlaneTypes'
    <3>1. PICK step \in {"row", "verdict"}, what \in Phases \cup UndoReads \cup {"wait"}, age \in 0..Window :
             saw' = [saw EXCEPT ![p] = [step |-> step, req |-> r, what |-> what, age |-> age]]
      <4>1. unknown[r] \in 0..Window /\ phase[r] \in Phases /\ 0 \in 0..Window
        BY TimingAssumption DEF TypeOK, ClockTypes, LedgerTypes
      <4> QED  BY <1>1, <4>1 DEF UndoReads
    <3> QED  BY <1>1, <3>1 DEF TypeOK, PlaneTypes
  <2>2. RowTypes' /\ ClockTypes' /\ CommandTypes' /\ LedgerTypes'
    BY <1>1 DEF RowTypes, ClockTypes, CommandTypes, LedgerTypes
  <2>3. Frame(r)
    BY <1>1 DEF Frame, RowTypes, ClockTypes, PlaneTypes, CommandTypes, LedgerTypes
  <2>4. Keeps(r)
    BY <1>1 DEF Keeps, UndoEnds, RowTypes, Unresolved
  <2>5. PassOK(r)'
    BY <1>1, TimingAssumption DEF ClockTypes, PlaneTypes, LedgerTypes, RowOK, WriteOK, PostOK,
       PassOK, Unsent, WriteSteps, Phases, UndoReads, Traced, Untouched, Gone, UndoStarted,
       Writing, Resolving, PassAt
  <2>6. RowOK(r)' /\ JobOK(r)' /\ UntouchedOK(r)' /\ WriteOK(r)' /\ StepOK(r)'
        /\ TraceOK(r)' /\ PostOK(r)'
    BY <1>1 DEF RowOK, JobOK, UntouchedOK, WriteOK, StepOK, TraceOK, PostOK, UndoStarted,
       Untouched, Writing, Unresolved, Resolving, Gone
  <2> QED  BY <2>1, <2>2, <2>3, <2>4, <2>5, <2>6 DEF Sound
<1>2. CASE LedgerInflight(p)
  <2> USE DEF LedgerInflight, Saw, LedgerVerdict, rowVars, clockVars, netVars, agentVars
  <2>0. saw[p] # Idle /\ saw[p].req = r /\ PassAt(p, r)
    BY <1>2 DEF PassOK, Idle
  <2>1. PlaneTypes'
    BY <1>2, <2>0 DEF PlaneTypes, Outcomes, Failures
  <2>2. RowTypes' /\ ClockTypes' /\ CommandTypes' /\ LedgerTypes'
    BY <1>2, <2>0 DEF RowTypes, ClockTypes, CommandTypes, LedgerTypes
  <2>3. Frame(r)
    BY <1>2, <2>0 DEF Frame, RowTypes, ClockTypes, PlaneTypes, CommandTypes, LedgerTypes
  <2>4. Keeps(r)
    BY <1>2, <2>0 DEF Keeps, UndoEnds, RowTypes, Unresolved
  <2>5. PassOK(r)'
    BY <1>2, <2>0 DEF WriteOK, StepOK, PostOK, PassOK, Phases, UndoReads, Traced, Untouched,
       Gone, Writing, PassAt
  <2>6. RowOK(r)' /\ JobOK(r)' /\ UntouchedOK(r)' /\ WriteOK(r)' /\ StepOK(r)'
        /\ TraceOK(r)' /\ PostOK(r)'
    BY <1>2, <2>0 DEF RowOK, JobOK, UntouchedOK, WriteOK, StepOK, TraceOK, PostOK, UndoStarted,
       Untouched, Writing, Unresolved, Resolving, Gone
  <2> QED  BY <2>1, <2>2, <2>3, <2>4, <2>5, <2>6 DEF Sound
<1>3. CASE ResolveOne(p)
  <2> USE DEF ResolveOne, WriteOutcome, GiveUp, rowVars, netVars, agentVars
  <2>0. saw[p] # Idle /\ saw[p].req = r /\ PassAt(p, r)
    BY <1>3 DEF PassOK, Idle
  <2>1. RowTypes' /\ ClockTypes'
    BY <1>3, <2>0, WriteOutcomeTypes DEF RowTypes, ClockTypes, PassAt, Traced, Answers,
       Failures, Outcomes
  <2>3. PlaneTypes'
    BY <1>3, <2>0 DEF PlaneTypes
  <2>4. CommandTypes' /\ LedgerTypes'
    BY <1>3, <2>0 DEF CommandTypes, LedgerTypes
  <2>5. Frame(r)
    BY <1>3, <2>0 DEF Frame, RowTypes, ClockTypes, PlaneTypes, CommandTypes, LedgerTypes
  <2>6. Keeps(r)
    <3>1. CASE saw[p].what # "wait"
      BY <1>3, <2>0, <3>1, WriteOutcomeKeeps DEF RInv
    <3>2. CASE saw[p].what = "wait"
      <4> HIDE DEF WriteOutcome
      <4>1. state' = state /\ undo' = undo /\ (outcome'[r] = outcome[r] \/ Resolving(r))
        BY <1>3, <2>0, <3>2 DEF TypeOK, RowTypes
      <4> QED  BY <4>1 DEF TypeOK, RowTypes, Keeps, Unresolved, Resolving
    <3> QED  BY <3>1, <3>2
  <2>7. RowOK(r)'
    BY <1>3, <2>0 DEF RowTypes, RowOK, Unsent, UndoStarted, Unresolved, Resolving, PassAt
  <2>8. JobOK(r)'
    BY <1>3, <2>0 DEF JobOK, Unresolved, PassAt
  <2>9. UntouchedOK(r)'
    BY <1>3, <2>0 DEF RowTypes, UntouchedOK, Unsent, Traced, Untouched, PassAt
  <2>10. WriteOK(r)'
    BY <1>3, <2>0, TimingAssumption DEF PlaneTypes, WriteOK, WriteSteps, Untouched, Writing,
       Unresolved, Resolving, PassAt
  <2>11. PostOK(r)'
    BY <1>3, <2>0 DEF RowTypes, PostOK, Gone, PassAt
  <2>12. PassOK(r)'
    BY <1>3, <2>0 DEF RowTypes, PassOK, Unsent, Untouched, Gone, Writing, PassAt
  <2>13. StepOK(r)' /\ TraceOK(r)'
    BY <1>3, <2>0 DEF StepOK, TraceOK
  <2> QED  BY <2>1, <2>3, <2>4, <2>5, <2>6, <2>7, <2>8, <2>9, <2>10, <2>11, <2>12, <2>13 DEF Sound
<1>4. CASE ReconcileUndo(p)
  <2> USE DEF ReconcileUndo, SettleUndoTo, clockVars, netVars, agentVars
  <2>0. saw[p] # Idle /\ saw[p].req = r /\ PassAt(p, r)
    BY <1>4 DEF PassOK, Idle
  <2>1. RowTypes'
    BY <1>4, <2>0 DEF RowTypes
  <2>2. PlaneTypes'
    BY <1>4, <2>0 DEF PlaneTypes
  <2>3. ClockTypes' /\ CommandTypes' /\ LedgerTypes'
    BY <1>4, <2>0 DEF ClockTypes, CommandTypes, LedgerTypes
  <2>4. Frame(r)
    BY <1>4, <2>0 DEF Frame, RowTypes, ClockTypes, PlaneTypes, CommandTypes, LedgerTypes
  <2>5. Keeps(r)
    BY <1>4, <2>0 DEF Keeps, UndoEnds, RowTypes, Unresolved
  <2>6. RowOK(r)'
    <3>1. undo'[r] # "none" => undo[r] # "none"
      BY <1>4, <2>0, SettleUndoKeeps
    <3> QED  BY <1>4, <3>1 DEF RInv, RowOK, UndoStarted
  <2>7. PostOK(r)'
    BY <1>4, <2>0 DEF RowTypes, PostOK, Gone, PassAt
  <2>8. PassOK(r)'
    BY <1>4, <2>0 DEF PassOK, Untouched, Gone, Writing, PassAt
  <2>9. JobOK(r)' /\ UntouchedOK(r)' /\ WriteOK(r)' /\ StepOK(r)' /\ TraceOK(r)'
    BY <1>4, <2>0 DEF JobOK, UntouchedOK, WriteOK, StepOK, TraceOK, Untouched, Writing,
       Unresolved, Resolving
  <2> QED  BY <2>1, <2>2, <2>3, <2>4, <2>5, <2>6, <2>7, <2>8, <2>9 DEF Sound
<1> QED  BY <1>1, <1>2, <1>3, <1>4 DEF PassStep

-----------------------------------------------------------------------------
(***************************************************************************)
(* All requests together.                                                  *)
(***************************************************************************)
\* A step of r keeps what is known of every other request.
LEMMA FrameKeeps ==
    ASSUME TypeOK, TypeOK', NEW r \in Requests, NEW q \in Requests \ {r}, RInv(q), Frame(r)
    PROVE  RInv(q)'
<1> USE DEF Frame
<1>1. RowOK(q)' /\ JobOK(q)' /\ UntouchedOK(q)'
  BY DEF RInv, RowOK, UndoStarted, JobOK, UntouchedOK, Untouched
<1>2. WriteOK(q)' /\ StepOK(q)' /\ TraceOK(q)' /\ PostOK(q)'
  BY DEF RInv, WriteOK, Writing, Unresolved, Resolving, StepOK, TraceOK, PostOK, Gone
<1>3. PassOK(q)'
  BY DEF RInv, PassOK, PassAt, Untouched, Writing, Gone
<1> QED  BY <1>1, <1>2, <1>3 DEF RInv

\* What a step keeps of every request: its outcome and the end of its undo.
OutcomesKept ==
    \A q \in Requests :
        /\ outcome[q] # "none" => outcome'[q] = outcome[q] /\ state'[q] = state[q]
        /\ undo[q] \in UndoEnds => undo'[q] = undo[q]

\* A sound step of r keeps the invariant and every outcome.
LEMMA SoundStep ==
    ASSUME IInv, NEW r \in Requests, Sound(r)
    PROVE  /\ IInv'
           /\ OutcomesKept
<1>1. ASSUME NEW q \in Requests PROVE RInv(q)'
  BY <1>1, FrameKeeps DEF IInv, Sound
<1>2. OneUnresolved'
  <2>1. ASSUME NEW q \in Requests \ {r} PROVE Unresolved(q)' <=> Unresolved(q)
    BY <2>1 DEF Sound, Frame, Unresolved
  <2>2. ASSUME NEW q \in Requests, NEW s \in Requests, Unresolved(q)', Unresolved(s)' PROVE q = s
    BY <2>1, <2>2 DEF IInv, OneUnresolved, Sound, Keeps, InFlightOnSite
  <2> QED  BY <2>2 DEF OneUnresolved
<1>3. OutcomesKept
  BY DEF Sound, Frame, Keeps, OutcomesKept
<1> QED  BY <1>1, <1>2, <1>3 DEF IInv, Sound

\* Time: a write reaches the site within its token and ends within its run, so
\* an unknown outcome that has settled has no write behind it.
LEMMA TickSound ==
    ASSUME IInv, Tick
    PROVE  IInv' /\ UNCHANGED <<outcome, state, undo>>
<1> USE DEF Tick, rowVars
<1>1. TypeOK'
  <2>1. ClockTypes'
    BY TimingAssumption DEF IInv, TypeOK, ClockTypes, AgeTo
  <2>2. CommandTypes'
    BY DEF IInv, TypeOK, CommandTypes
  <2>3. RowTypes' /\ PlaneTypes' /\ LedgerTypes'
    BY DEF IInv, TypeOK, RowTypes, PlaneTypes, LedgerTypes
  <2> QED  BY <2>1, <2>2, <2>3 DEF TypeOK
<1>2. ASSUME NEW r \in Requests PROVE RInv(r)'
  <2>0. RInv(r) /\ TypeOK
    BY DEF IInv
  <2>1. RowOK(r)' /\ StepOK(r)' /\ TraceOK(r)' /\ PostOK(r)'
    BY <2>0 DEF TypeOK, CommandTypes, RInv, RowOK, StepOK, TraceOK, PostOK, UndoStarted, Gone
  <2>2. JobOK(r)'
    BY <2>0, TimingAssumption DEF TypeOK, ClockTypes, RInv, JobOK, Sending, Unresolved, AgeTo
  <2>3. UntouchedOK(r)'
    BY <2>0 DEF TypeOK, CommandTypes, RInv, UntouchedOK, Untouched
  <2>4. WriteOK(r)'
    <3> USE <2>0 DEF TypeOK, RInv, WriteOK
    <3>1. Writing(r)' => Writing(r)
      BY DEF CommandTypes, Writing
    <3>2. Unresolved(r)' <=> Unresolved(r)
      BY DEF Unresolved
    <3>3. Resolving(r)' <=> Resolving(r)
      BY DEF Resolving
    <3>4. write'[r] => sent'[r] <= TokenTTL /\ (Resolving(r) => unknown'[r] <= sent'[r])
      <4>1. ASSUME write[r], sent[r] < TokenTTL
            PROVE  sent'[r] = sent[r] + 1 /\ sent'[r] <= TokenTTL
        BY <4>1, TimingAssumption DEF ClockTypes, Writing, AgeTo
      <4>2. ASSUME Resolving(r) PROVE unknown'[r] <= unknown[r] + 1
        BY <4>2, TimingAssumption DEF ClockTypes, AgeTo
      <4>3. ASSUME write'[r] PROVE write[r] /\ sent[r] < TokenTTL
        BY <4>3 DEF CommandTypes
      <4>4. /\ sent[r] \in Int /\ unknown[r] \in Int /\ unknown'[r] \in Int
            /\ write[r] /\ Resolving(r) => unknown[r] <= sent[r]
        BY <1>1 DEF ClockTypes
      <4> QED  BY <4>1, <4>2, <4>3, <4>4
    <3>5. at'[r] # "idle" /\ Resolving(r) => unknown'[r] <= TokenTTL + ran'[r]
      BY TimingAssumption DEF ClockTypes, AgeTo
    <3>6. at'[r] = "idle" => ran'[r] = 0
      OBVIOUS
    <3> QED  BY <3>1, <3>2, <3>3, <3>4, <3>5, <3>6 DEF CommandTypes
  <2>5. PassOK(r)'
    BY <2>0 DEF TypeOK, CommandTypes, RInv, PassOK, PassAt, Untouched, Writing, Gone
  <2> QED  BY <2>1, <2>2, <2>3, <2>4, <2>5 DEF RInv
<1>3. OneUnresolved'
  BY DEF IInv, OneUnresolved, Unresolved
<1> QED  BY <1>1, <1>2, <1>3 DEF IInv

\* Before the first request nothing is reserved, sent or written.
LEMMA InitInv ==
    ASSUME Init
    PROVE  IInv
<1> USE DEF Init
<1>1. TypeOK
  <2>1. RowTypes /\ ClockTypes
    BY TimingAssumption DEF RowTypes, ClockTypes, States, Outcomes
  <2>2. PlaneTypes /\ CommandTypes /\ LedgerTypes
    BY DEF PlaneTypes, CommandTypes, LedgerTypes, Phases
  <2> QED  BY <2>1, <2>2 DEF TypeOK
<1>2. ASSUME NEW r \in Requests PROVE RInv(r)
  <2>1. RowOK(r) /\ JobOK(r) /\ UntouchedOK(r)
    BY DEF RowOK, JobOK, UntouchedOK, Untouched, UndoStarted, Sending, Answers, RevertSteps
  <2>2. WriteOK(r) /\ StepOK(r) /\ TraceOK(r) /\ PostOK(r)
    BY DEF WriteOK, StepOK, TraceOK, PostOK, Writing, Gone, WriteSteps, RevertSteps
  <2>3. PassOK(r)
    BY DEF PassOK
  <2> QED  BY <2>1, <2>2, <2>3 DEF RInv
<1>3. OneUnresolved
  BY DEF OneUnresolved, Unresolved
<1> QED  BY <1>1, <1>2, <1>3 DEF IInv

\* Every step keeps the invariant and the outcomes.
LEMMA StepInv ==
    ASSUME IInv, [Next]_vars
    PROVE  /\ IInv'
           /\ OutcomesKept
<1>1. CASE Tick
  BY <1>1, TickSound DEF OutcomesKept
<1>2. ASSUME NEW p \in Passes, PassStep(p) \/ \E r \in Requests : LedgerRow(p, r)
      PROVE  \E r \in Requests : Sound(r)
  <2>1. CASE PassStep(p)
    <3>1. saw[p] # Idle
      BY <2>1 DEF PassStep, LedgerInflight, ResolveOne, ReconcileUndo, Idle
    <3>2. saw[p].req \in Requests
      BY <3>1 DEF IInv, TypeOK, PlaneTypes
    <3> QED  BY <2>1, <3>2, PassSound DEF IInv
  <2>2. CASE \E r \in Requests : LedgerRow(p, r)
    <3>1. PICK r \in Requests : LedgerRow(p, r)
      BY <2>2
    <3>2. saw[p] = Idle
      BY <3>1 DEF LedgerRow
    <3> QED  BY <3>1, <3>2, PassSound DEF IInv
  <2> QED  BY <1>2, <2>1, <2>2
<1>3. ASSUME NEW r \in Requests,
             \/ Propose(r) \/ Approve(r) \/ Decline(r) \/ Withdraw(r) \/ CloseForGrant(r)
             \/ SweepStep(r) \/ Lapse(r)
      PROVE  Sound(r)
  BY <1>3, DecisionSound, SweepSound
     DEF IInv, Propose, Approve, Decline, Withdraw, CloseForGrant, Unsent
<1>4. ASSUME NEW r \in Requests,
             \/ JobStep(r) \/ JobCrash(r) \/ BeginUndo(r) \/ UndoStep(r) \/ UndoCrash(r)
      PROVE  Sound(r)
  BY <1>4, JobSound, UndoSound DEF IInv
<1>5. ASSUME NEW r \in Requests,
             \/ Deliver(r) \/ \E who \in {"waited", "orphan"} : DeliverRevert(r, who)
             \/ AgentStep(r) \/ PhpCrash(r) \/ ClaimLapse(r) \/ Touch(r)
      PROVE  Sound(r)
  BY <1>5, WriteSound, RevertSound, ReplySound, DeliverSound DEF IInv, AgentStep
<1>6. CASE UNCHANGED vars
  <2> USE <1>6 DEF vars, rowVars, clockVars, netVars, agentVars
  <2>1. TypeOK' /\ OneUnresolved'
    BY DEF IInv, TypeOK, RowTypes, ClockTypes, PlaneTypes, CommandTypes, LedgerTypes,
       OneUnresolved, Unresolved
  <2>2. ASSUME NEW r \in Requests PROVE RInv(r)'
    BY DEF IInv, RInv, RowOK, JobOK, UntouchedOK, WriteOK, StepOK, TraceOK, PostOK, PassOK,
       PassAt, Untouched, Gone, UndoStarted, Writing, Unresolved, Resolving
  <2> QED  BY <2>1, <2>2 DEF IInv, OutcomesKept
<1> QED  BY <1>1, <1>2, <1>3, <1>4, <1>5, <1>6, SoundStep DEF Next

\* The invariant holds in every reachable state.
LEMMA Invariance == Spec => []IInv
<1>1. Init => IInv
  BY InitInv
<1>2. IInv /\ [Next]_vars => IInv'
  BY StepInv
<1> QED  BY <1>1, <1>2, PTL DEF Spec

-----------------------------------------------------------------------------
\* Every variable keeps to the values the code can store: no undo state,
\* answer, ledger phase or pass outside the ones the handlers tell apart.
THEOREM TypeCorrect == Spec => []TypeOK
<1>1. IInv => TypeOK
  BY DEF IInv
<1> QED  BY <1>1, Invariance, PTL

\* What is recorded as never sent, never decided for or never received made no
\* draft and can make none: the compare-and-set of the reservation covers the
\* first two, and for the last a pass that reads an empty ledger concludes
\* "not received" only when token and run are over (ledgerVerdictFor).
THEOREM NothingIsWritten == Spec => []NothingWritten
<1>1. IInv => NothingWritten
  BY DEF IInv, RInv, UntouchedOK, Untouched, NothingWritten, Unsent
<1> QED  BY <1>1, Invariance, PTL

\* The site's reservation (ReserveAbilityRequest) holds until the write is over,
\* also when its job has died and its outcome is unknown, so no two writes of
\* assistants run on the site together.
THEOREM OneWriteAtATime == Spec => []OneWriteOnSite
<1>1. IInv => OneWriteOnSite
  BY DEF IInv, RInv, WriteOK, OneUnresolved, OneWriteOnSite
<1> QED  BY <1>1, Invariance, PTL

\* A write recorded as refused left no draft and an undo recorded as done did
\* trash it, whether the answer, a late answer or the ledger said so.
THEOREM DraftsAreGone == Spec => []DraftsGone
<1>1. IInv => DraftsGone
  BY DEF IInv, RInv, PostOK, Gone, DraftsGone
<1> QED  BY <1>1, Invariance, PTL

\* writeOutcomeTx keeps the first outcome: no late answer, second pass or sweep
\* changes a request's outcome or state once one is recorded.
THEOREM OutcomesStand == Spec => OutcomeStands
<1>1. IInv /\ [Next]_vars =>
        [\A r \in Requests :
           /\ outcome[r] # "none" => outcome'[r] = outcome[r] /\ state'[r] = state[r]
           /\ undo[r] \in UndoEnds => undo'[r] = undo[r]]_vars
  BY StepInv DEF OutcomesKept
<1> QED  BY <1>1, Invariance, PTL DEF Spec, OutcomeStands

=============================================================================

--------------------------- MODULE AbilityRequest ---------------------------
(***************************************************************************)
(* Changes an assistant proposes and a person approves                     *)
(* (apps/api/internal/abilityrequest), for the ability that creates a      *)
(* draft page, on one site: the decision, the one send, the agent's write  *)
(* with its ledger row, the resolution of a lost answer from that ledger,  *)
(* and the person's undo with its reconciler.  Every action is one         *)
(* transaction of the control plane, one message, or one statement of the  *)
(* agent's database.  A command's token is single-use, so a command is     *)
(* delivered at most once.                                                 *)
(***************************************************************************)
EXTENDS Integers

CONSTANTS
    Requests,   \* requests on one site, each of its own connection
    Passes,     \* passes of the reconcilers, which may overlap
    TokenTTL,   \* ticks a command that was sent may still reach the site
    RunMax,     \* ticks PHP may let a command run on the site; no constant of the code
    Settled,    \* tokenSettled
    StaleAfter, \* StaleDispatchAfter, less what a job may spend before the send
    Window,     \* ledgerResolveWindow
    Stuck       \* StuckUndoAfter

\* A command is over, delivered and run or lapsed, before the control plane
\* concludes anything from the ledger having no trace of it.
ASSUME TimingAssumption ==
    /\ TokenTTL \in Nat /\ RunMax \in Nat /\ Settled \in Nat /\ StaleAfter \in Nat
    /\ Window \in Nat /\ Stuck \in Nat
    /\ TokenTTL + RunMax < Settled /\ Settled <= Window
    /\ TokenTTL + RunMax < Stuck /\ TokenTTL < StaleAfter

VARIABLES
    state, outcome, \* the request row; outcome "none" is NULL
    undo,       \* undo_state, "none" is NULL
    late,       \* expires_at, dispatch_deadline_at or undo_available_until has passed
    sent,       \* ticks since the reservation, then since the send
    unknown,    \* ticks since unknown_since
    since,      \* ticks since undo_started_at
    job,        \* where the request's dispatch job stands, or the answer it holds
    undoer,     \* where the handler of a person's undo stands, or its answer
    saw,        \* the request a pass is at, and what it read of the site's ledger
    write, revert, \* commands on their way to the site; an undo whose handler
                \* has given up is an "orphan", and orphans count as one
    at, answer, ran, \* the agent's command: its step, its answer, its age
    caller,     \* who still waits for that answer
    claim, target, \* the agent's claims on the request and on its post
    phase,      \* the ledger row's phase, which says what result is stored
    trashed,    \* the ledger row's undo_state is "trashed"
    post        \* the draft the request made

rowVars == <<state, outcome, undo, late>>
clockVars == <<sent, unknown, since>>
netVars == <<write, revert>>
agentVars == <<at, answer, ran, caller, claim, target, phase, trashed, post>>
vars == <<rowVars, clockVars, job, undoer, saw, netVars, agentVars>>

\* What a write's answer, or the ledger, settles.  "left" is a failed write that
\* names a post it made and did not trash.
Failures == {"refused", "left", "interrupted", "not_received"}
Answers == {"created", "refused", "left", "unknown", "not_sent"}
UndoAnswers == {"reverted", "refused", "retry"}
Phases == {"none", "started", "post_created", "completed", "failed", "failed_left"}
WriteSteps == {"start", "claimed", "rowed", "inserted", "noted", "cleanup", "failing"}
RevertSteps == {"recover", "revert", "held", "checked", "gone"}
UndoReads == {"trashed", "kept"}
Idle == [step |-> "idle"]

Unresolved(r) == state[r] \in {"dispatched", "outcome_unknown"} /\ outcome[r] = "none"
\* AbilityRequestInFlightOnSite
InFlightOnSite == \E r \in Requests : Unresolved(r)
InFlightDispatched == \E r \in Requests : state[r] = "dispatched"

Init ==
    /\ state = [r \in Requests |-> "none"] /\ outcome = [r \in Requests |-> "none"]
    /\ undo = [r \in Requests |-> "none"] /\ late = [r \in Requests |-> FALSE]
    /\ sent = [r \in Requests |-> 0] /\ unknown = [r \in Requests |-> 0]
    /\ since = [r \in Requests |-> 0]
    /\ job = [r \in Requests |-> "none"] /\ undoer = [r \in Requests |-> "none"]
    /\ saw = [p \in Passes |-> Idle]
    /\ write = [r \in Requests |-> FALSE] /\ revert = [r \in Requests |-> {}]
    /\ at = [r \in Requests |-> "idle"] /\ answer = [r \in Requests |-> "none"]
    /\ ran = [r \in Requests |-> 0] /\ caller = [r \in Requests |-> "nobody"]
    /\ claim = [r \in Requests |-> "free"] /\ target = [r \in Requests |-> "free"]
    /\ phase = [r \in Requests |-> "none"] /\ trashed = [r \in Requests |-> FALSE]
    /\ post = [r \in Requests |-> "none"]

-----------------------------------------------------------------------------
(***************************************************************************)
(* Proposal, decision, and the closes before anything is sent: each a      *)
(* compare-and-set on the state.                                           *)
(***************************************************************************)
Move(r, from, to) ==
    /\ state[r] = from
    /\ state' = [state EXCEPT ![r] = to]
    /\ outcome' = IF to = "not_sent" THEN [outcome EXCEPT ![r] = "not_sent"] ELSE outcome

Decision(r, from, to) ==
    /\ Move(r, from, to)
    /\ late' = [late EXCEPT ![r] = FALSE]
    /\ UNCHANGED <<undo, clockVars, job, undoer, saw, netVars, agentVars>>

Propose(r) == Decision(r, "none", "pending")
\* A person, or the site's setting (ApproveAbilityRequestByPolicy).
Approve(r) == ~late[r] /\ Decision(r, "pending", "approved")
Decline(r) == ~late[r] /\ Decision(r, "pending", "declined")
\* CloseAbilityRequestsForGrantTx, when the connection is revoked.
Withdraw(r) == Decision(r, "pending", "withdrawn")
CloseForGrant(r) == Decision(r, "approved", "not_sent")
Expire(r) == late[r] /\ Decision(r, "pending", "expired")
ClosePastDeadline(r) == late[r] /\ Decision(r, "approved", "not_sent")

\* Time passes a row's deadline.
Lapse(r) ==
    /\ ~late[r]
    /\ state[r] \in {"pending", "approved"} \/ undo[r] \in {"available", "in_progress"}
    /\ late' = [late EXCEPT ![r] = TRUE]
    /\ UNCHANGED <<state, outcome, undo, clockVars, job, undoer, saw, netVars, agentVars>>

(***************************************************************************)
(* The dispatch job: one live job per request, never retried.              *)
(***************************************************************************)
SetJob(r, step) == job' = [job EXCEPT ![r] = step]

Scan(r) ==
    /\ state[r] = "approved" /\ job[r] = "none"
    /\ SetJob(r, "check")
    /\ UNCHANGED <<rowVars, clockVars, undoer, saw, netVars, agentVars>>

\* A pre-send check failed: the row is closed unless another path was first.
CloseNotSent(r) ==
    /\ job[r] \in {"check", "reserve"}
    /\ Move(r, "approved", "not_sent")
    /\ SetJob(r, "none")
    /\ UNCHANGED <<undo, late, clockVars, undoer, saw, netVars, agentVars>>

\* A transient reason, or a row that is no longer approved: the job ends.
DispatchLater(r) ==
    /\ job[r] \in {"check", "reserve"}
    /\ SetJob(r, "none")
    /\ UNCHANGED <<rowVars, clockVars, undoer, saw, netVars, agentVars>>

CheckSite(r) ==
    /\ job[r] = "check" /\ state[r] = "approved"
    /\ SetJob(r, "reserve")
    /\ UNCHANGED <<rowVars, clockVars, undoer, saw, netVars, agentVars>>

ReserveBesideUnknown(r) ==
    /\ job[r] = "reserve" /\ ~late[r] /\ ~InFlightDispatched /\ Move(r, "approved", "dispatched")
    /\ sent' = [sent EXCEPT ![r] = 0]
    /\ SetJob(r, "send")
    /\ UNCHANGED <<undo, late, unknown, since, undoer, saw, netVars, agentVars>>
\* One transaction, under the site's dispatch lock.
Reserve(r) ==
    /\ job[r] = "reserve" /\ ~late[r] /\ ~InFlightOnSite
    /\ Move(r, "approved", "dispatched")
    /\ sent' = [sent EXCEPT ![r] = 0]
    /\ SetJob(r, "send")
    /\ UNCHANGED <<undo, late, unknown, since, undoer, saw, netVars, agentVars>>

Send(r) ==
    /\ job[r] = "send"
    /\ \/ SetJob(r, "wait") /\ write' = [write EXCEPT ![r] = TRUE]
       \/ SetJob(r, "not_sent") /\ UNCHANGED write
    /\ sent' = [sent EXCEPT ![r] = 0]
    /\ UNCHANGED <<rowVars, unknown, since, undoer, saw, revert, agentVars>>

\* The send ends without a definite answer.
SendUncertain(r) ==
    /\ job[r] = "wait"
    /\ SetJob(r, "unknown")
    /\ UNCHANGED <<rowVars, clockVars, undoer, saw, netVars, agentVars>>

WriteOutcomeAnyway(r, oc) ==
    /\ state' = [state EXCEPT ![r] = CASE oc = "created"  -> "done"
                                       [] oc = "not_sent" -> "not_sent"
                                       [] oc = "unknown"  -> "outcome_unknown"
                                       [] OTHER -> "failed"]
    /\ outcome' = IF oc = "unknown" THEN outcome ELSE [outcome EXCEPT ![r] = oc]
    /\ undo' = IF oc = "created" THEN [undo EXCEPT ![r] = "available"] ELSE undo
    /\ late' = IF oc = "created" THEN [late EXCEPT ![r] = FALSE] ELSE late
    /\ unknown' = IF oc = "unknown" THEN [unknown EXCEPT ![r] = 0] ELSE unknown
\* writeOutcomeTx: the first outcome of a row that was sent is kept; a created
\* draft opens the undo.
WriteOutcome(r, oc) ==
    IF oc = "unknown"
    THEN /\ IF state[r] = "dispatched"
            THEN /\ state' = [state EXCEPT ![r] = "outcome_unknown"]
                 /\ unknown' = [unknown EXCEPT ![r] = 0]
            ELSE UNCHANGED <<state, unknown>>
         /\ UNCHANGED <<outcome, undo, late>>
    ELSE IF Unresolved(r)
    THEN /\ state' = [state EXCEPT ![r] = CASE oc = "created"  -> "done"
                                            [] oc = "not_sent" -> "not_sent"
                                            [] OTHER -> "failed"]
         /\ outcome' = [outcome EXCEPT ![r] = oc]
         /\ undo' = IF oc = "created" THEN [undo EXCEPT ![r] = "available"] ELSE undo
         /\ late' = IF oc = "created" THEN [late EXCEPT ![r] = FALSE] ELSE late
         /\ UNCHANGED unknown
    ELSE UNCHANGED <<state, outcome, undo, late, unknown>>

RecordOutcome(r) ==
    /\ job[r] \in Answers
    /\ WriteOutcome(r, job[r])
    /\ SetJob(r, "none")
    /\ UNCHANGED <<sent, since, undoer, saw, netVars, agentVars>>

\* The process dies, the job times out, or a transaction fails.
JobCrash(r) ==
    /\ job[r] # "none"
    /\ SetJob(r, "none")
    /\ UNCHANGED <<rowVars, clockVars, undoer, saw, netVars, agentVars>>

(***************************************************************************)
(* The reconcilers.  The agent answers mode "ledger" with two reads: the   *)
(* row, then the in-flight claim.                                          *)
(***************************************************************************)
ReconcileStale(r) ==
    /\ state[r] = "dispatched" /\ outcome[r] = "none" /\ sent[r] >= StaleAfter
    /\ WriteOutcome(r, "unknown")
    /\ UNCHANGED <<sent, since, job, undoer, saw, netVars, agentVars>>

Saw(p, r, step, what, age) ==
    saw' = [saw EXCEPT ![p] = [step |-> step, req |-> r, what |-> what, age |-> age]]

\* The request is resolving; a pass takes its age as unknownFor.
Resolving(r) == state[r] = "outcome_unknown" /\ outcome[r] = "none"
StuckUndo(r) == undo[r] = "in_progress" /\ since[r] >= Stuck

LedgerRow(p, r) ==
    /\ saw[p] = Idle
    /\ \/ Resolving(r) /\ Saw(p, r, "row", phase[r], unknown[r])
       \/ StuckUndo(r) /\ Saw(p, r, "row", IF trashed[r] THEN "trashed" ELSE "kept", 0)
       \* The site does not answer, or the pass ends here.
       \/ Resolving(r) /\ Saw(p, r, "verdict", "wait", unknown[r])
    /\ UNCHANGED <<rowVars, clockVars, job, undoer, netVars, agentVars>>

LedgerVerdictEager(what, age) ==
    CASE what = "none" -> "not_received"
      [] what = "completed" -> "created"
      [] what = "failed" -> "refused"
      [] what \in {"failed_left", "post_created"} -> "left"
      [] what = "started" -> "interrupted"
      [] OTHER -> what
\* ledgerVerdictFor and undoVerdictFor, for a request with no claim in flight.
LedgerVerdict(what, age) ==
    CASE what = "none" -> IF age >= Settled THEN "not_received" ELSE "wait"
      [] what = "completed" -> "created"
      [] what = "failed" -> "refused"
      [] what \in {"failed_left", "post_created"} -> "left"
      [] what = "started" -> "interrupted"
      [] OTHER -> what

LedgerInflight(p) ==
    /\ saw[p].step = "row"
    /\ LET q == saw[p]
       IN  Saw(p, q.req, "verdict", IF claim[q.req] = "free" THEN LedgerVerdict(q.what, q.age)
                                    ELSE IF q.what \in UndoReads THEN "undecided" ELSE "wait",
               q.age)
    /\ UNCHANGED <<rowVars, clockVars, job, undoer, netVars, agentVars>>

GiveUp(r) ==
    /\ outcome' = IF Resolving(r) THEN [outcome EXCEPT ![r] = "given_up"] ELSE outcome
    /\ UNCHANGED <<state, undo, late, unknown>>

ResolveForever(p) ==
    /\ saw[p].step = "verdict" /\ saw[p].what \notin UndoReads \cup {"undecided"}
    /\ IF saw[p].what # "wait" THEN WriteOutcome(saw[p].req, saw[p].what) ELSE UNCHANGED <<rowVars, unknown>>
    /\ saw' = [saw EXCEPT ![p] = Idle]
    /\ UNCHANGED <<sent, since, job, undoer, netVars, agentVars>>
ResolveOne(p) ==
    /\ saw[p].step = "verdict" /\ saw[p].what \notin UndoReads \cup {"undecided"}
    /\ IF saw[p].what # "wait" THEN WriteOutcome(saw[p].req, saw[p].what)
       ELSE IF saw[p].age >= Window THEN GiveUp(saw[p].req)
       ELSE UNCHANGED <<rowVars, unknown>>
    /\ saw' = [saw EXCEPT ![p] = Idle]
    /\ UNCHANGED <<sent, since, job, undoer, netVars, agentVars>>

(***************************************************************************)
(* A person's undo: begin, one revert, and what its answer settles.        *)
(***************************************************************************)
BeginUndo(r) ==
    /\ undoer[r] = "none"
    /\ \/ state[r] = "done" /\ undo[r] = "available" /\ ~late[r] /\ UNCHANGED late
       \* Recovery: a failed write that named the draft it left.
       \/ /\ state[r] = "failed" /\ outcome[r] = "left" /\ undo[r] = "none"
          /\ late' = [late EXCEPT ![r] = FALSE]
    /\ undo' = [undo EXCEPT ![r] = "in_progress"]
    /\ since' = [since EXCEPT ![r] = 0]
    /\ undoer' = [undoer EXCEPT ![r] = "send"]
    /\ UNCHANGED <<state, outcome, sent, unknown, job, saw, netVars, agentVars>>

UndoSend(r) ==
    /\ undoer[r] = "send"
    /\ \/ /\ undoer' = [undoer EXCEPT ![r] = "wait"]
          /\ revert' = [revert EXCEPT ![r] = @ \cup {"waited"}]
       \* Nothing was sent, or the site's web server refused the call.
       \/ /\ undoer' \in {[undoer EXCEPT ![r] = a] : a \in {"retry", "refused"}}
          /\ UNCHANGED revert
    /\ UNCHANGED <<rowVars, clockVars, job, saw, write, agentVars>>

\* What the handler waited for has no one to answer any more.
Orphan(r) ==
    /\ revert' = [revert EXCEPT ![r] = IF @ = {} THEN @ ELSE {"orphan"}]
    /\ caller' = IF caller[r] = "undo" THEN [caller EXCEPT ![r] = "nobody"] ELSE caller

\* The send budget is over without an answer: undoRetryable.
UndoWaitOver(r) ==
    /\ undoer[r] = "wait"
    /\ undoer' = [undoer EXCEPT ![r] = "retry"]
    /\ Orphan(r)
    /\ UNCHANGED <<rowVars, clockVars, job, saw, write, at, answer, ran, claim, target, phase,
                   trashed, post>>

UndoCrash(r) ==
    /\ undoer[r] # "none"
    /\ undoer' = [undoer EXCEPT ![r] = "none"]
    /\ Orphan(r)
    /\ UNCHANGED <<rowVars, clockVars, job, saw, write, at, answer, ran, claim, target, phase,
                   trashed, post>>

SettleUndoVerbatim(r, verdict) ==
    undo' = [undo EXCEPT ![r] = IF @ = "in_progress" THEN verdict ELSE @]
\* FinishAbilityRequestUndo, and releaseOrFail for what may be tried again:
\* both act only on an undo in progress.
SettleUndoTo(r, verdict) ==
    undo' = [undo EXCEPT ![r] =
        IF @ # "in_progress" THEN @
        ELSE CASE verdict = "reverted" -> "undone"
               [] verdict = "refused"  -> "refused"
               [] verdict = "retry" /\ late[r] -> "failed"
               [] OTHER -> IF state[r] = "done" THEN "available" ELSE "none"]

FinishUndo(r) ==
    /\ undoer[r] \in UndoAnswers
    /\ SettleUndoTo(r, undoer[r])
    /\ undoer' = [undoer EXCEPT ![r] = "none"]
    /\ UNCHANGED <<state, outcome, late, clockVars, job, saw, netVars, agentVars>>

\* reconcileUndoOne, once it has the ledger's answer.
ReconcileUndo(p) ==
    /\ saw[p].step = "verdict" /\ saw[p].what \in UndoReads \cup {"undecided"}
    /\ IF saw[p].what = "undecided" THEN UNCHANGED undo
       ELSE SettleUndoTo(saw[p].req, IF saw[p].what = "trashed" THEN "reverted" ELSE "retry")
    /\ saw' = [saw EXCEPT ![p] = Idle]
    /\ UNCHANGED <<state, outcome, late, clockVars, job, undoer, netVars, agentVars>>

-----------------------------------------------------------------------------
(***************************************************************************)
(* The agent.                                                              *)
(***************************************************************************)
To(r, step) == at' = [at EXCEPT ![r] = step] /\ UNCHANGED answer
Answer(r, a) == at' = [at EXCEPT ![r] = "answer"] /\ answer' = [answer EXCEPT ![r] = a]
SetPhase(r, p) == phase' = [phase EXCEPT ![r] = p]
agentOnly == <<rowVars, clockVars, job, undoer, saw, netVars, ran, caller>>

Deliver(r) ==
    /\ write[r] /\ at[r] = "idle"
    /\ write' = [write EXCEPT ![r] = FALSE]
    /\ To(r, "start")
    /\ caller' = [caller EXCEPT ![r] = "job"]
    /\ UNCHANGED <<rowVars, clockVars, job, undoer, saw, revert, ran, claim, target, phase, trashed,
                   post>>

ClaimRequest(r) ==
    /\ at[r] = "start"
    /\ claim' = [claim EXCEPT ![r] = "held"]
    /\ To(r, "claimed")
    /\ UNCHANGED <<agentOnly, target, phase, trashed, post>>

\* The re-check of what was approved, and the ledger row before any effect.
CreateRow(r) ==
    /\ at[r] = "claimed"
    /\ \/ Answer(r, "refused") /\ UNCHANGED phase
       \/ To(r, "rowed") /\ SetPhase(r, "started")
    /\ UNCHANGED <<agentOnly, claim, target, trashed, post>>

InsertPost(r) ==
    /\ at[r] = "rowed"
    /\ \/ Answer(r, "refused") /\ phase' \in {phase, [phase EXCEPT ![r] = "failed"]} /\ UNCHANGED post
       \/ To(r, "inserted") /\ post' = [post EXCEPT ![r] = "draft"] /\ UNCHANGED phase
    /\ UNCHANGED <<agentOnly, claim, target, trashed>>

RecordPost(r) ==
    /\ at[r] = "inserted"
    /\ \/ To(r, "noted") /\ SetPhase(r, "post_created")
       \/ To(r, "cleanup") /\ UNCHANGED phase
    /\ UNCHANGED <<agentOnly, claim, target, trashed, post>>

\* A verified draft is reported as created even if the ledger cannot say so.
Verify(r) ==
    /\ at[r] = "noted"
    /\ \/ Answer(r, "created") /\ phase' \in {phase, [phase EXCEPT ![r] = "completed"]}
       \/ To(r, "cleanup") /\ UNCHANGED phase
    /\ UNCHANGED <<agentOnly, claim, target, trashed, post>>

CleanupUnconfirmed(r) ==
    /\ at[r] = "cleanup"
    /\ at' = [at EXCEPT ![r] = "failing"]
    /\ answer' = [answer EXCEPT ![r] = "refused"]
    /\ post' \in {post, [post EXCEPT ![r] = "trash"]}
    /\ UNCHANGED <<agentOnly, claim, target, phase, trashed>>
\* trashOwn, confirmed by reading the post back.
Cleanup(r) ==
    /\ at[r] = "cleanup"
    /\ at' = [at EXCEPT ![r] = "failing"]
    /\ \/ post' = [post EXCEPT ![r] = "trash"] /\ answer' = [answer EXCEPT ![r] = "refused"]
       \/ answer' = [answer EXCEPT ![r] = "left"] /\ UNCHANGED post
    /\ UNCHANGED <<agentOnly, claim, target, phase, trashed>>

RecordFailure(r) ==
    /\ at[r] = "failing"
    /\ at' = [at EXCEPT ![r] = "answer"]
    /\ \/ /\ SetPhase(r, IF answer[r] = "refused" THEN "failed" ELSE "failed_left")
          /\ trashed' = [trashed EXCEPT ![r] = answer[r] = "refused"]
       \/ UNCHANGED <<phase, trashed>>
    /\ UNCHANGED <<agentOnly, answer, claim, target, post>>

\* What the ledger row alone answers a revert.
RowAnswer(r) ==
    CASE trashed[r] -> "reverted"
      [] ~trashed[r] /\ phase[r] \in {"completed", "post_created", "failed_left"} -> "none"
      [] OTHER -> "refused"

\* Another command holds what this revert would have to claim.
ClaimTaken(r) == target[r] # "free" \/ (phase[r] # "completed" /\ claim[r] # "free")

\* A revert reads the ledger row and then claims.  While another command works
\* on the request it gets no further than the claim; a claim still free stays
\* with the command that was there first.
DeliverRevert(r, who) ==
    /\ who \in revert[r]
    /\ revert' = [revert EXCEPT ![r] = @ \ {who}]
    /\ IF at[r] # "idle"
       THEN /\ RowAnswer(r) # "none" \/ ClaimTaken(r)
            /\ undoer' = IF who = "orphan" THEN undoer
                         ELSE [undoer EXCEPT ![r] = IF RowAnswer(r) = "none" THEN "retry" ELSE RowAnswer(r)]
            /\ UNCHANGED <<at, answer, caller>>
       ELSE /\ caller' = [caller EXCEPT ![r] = IF who = "waited" THEN "undo" ELSE "nobody"]
            /\ CASE RowAnswer(r) # "none" -> Answer(r, RowAnswer(r))
                 [] phase[r] = "completed" /\ ~trashed[r] -> To(r, "revert")
                 [] OTHER -> To(r, "recover")
            /\ UNCHANGED undoer
    /\ UNCHANGED <<rowVars, clockVars, job, saw, write, ran, claim, target, phase, trashed, post>>

\* A draft without a completed record may belong to a write still running.
ClaimRecovered(r) ==
    /\ at[r] = "recover"
    /\ IF claim[r] = "free" THEN claim' = [claim EXCEPT ![r] = "held"] /\ To(r, "revert")
       ELSE Answer(r, "retry") /\ UNCHANGED claim
    /\ UNCHANGED <<agentOnly, target, phase, trashed, post>>

ClaimTarget(r) ==
    /\ at[r] = "revert"
    /\ IF target[r] = "free" THEN target' = [target EXCEPT ![r] = "held"] /\ To(r, "held")
       ELSE Answer(r, "retry") /\ UNCHANGED target
    /\ UNCHANGED <<agentOnly, claim, phase, trashed, post>>

\* Only an unchanged draft is trashed; the check may also fail on its own.
CheckPost(r) ==
    /\ at[r] = "held"
    /\ \/ post[r] = "draft" /\ To(r, "checked")
       \/ Answer(r, "refused")
    /\ UNCHANGED <<agentOnly, claim, target, phase, trashed, post>>

TrashPost(r) ==
    /\ at[r] = "checked"
    /\ \/ To(r, "gone") /\ post' = [post EXCEPT ![r] = "trash"]
       \/ Answer(r, "refused") /\ UNCHANGED post
    /\ UNCHANGED <<agentOnly, claim, target, phase, trashed>>

RecordRevert(r) ==
    /\ at[r] = "gone"
    /\ trashed' \in {trashed, [trashed EXCEPT ![r] = TRUE]}
    /\ Answer(r, "reverted")
    /\ UNCHANGED <<agentOnly, claim, target, phase, post>>

Idles(r) ==
    /\ at' = [at EXCEPT ![r] = "idle"] /\ answer' = [answer EXCEPT ![r] = "none"]
    /\ ran' = [ran EXCEPT ![r] = 0] /\ caller' = [caller EXCEPT ![r] = "nobody"]

\* The command gives its claims back and replies.
Release(r) ==
    /\ at[r] = "answer"
    /\ claim' = IF claim[r] = "held" THEN [claim EXCEPT ![r] = "free"] ELSE claim
    /\ target' = IF target[r] = "held" THEN [target EXCEPT ![r] = "free"] ELSE target
    /\ job' = IF caller[r] = "job" /\ job[r] = "wait" THEN [job EXCEPT ![r] = answer[r]] ELSE job
    /\ undoer' = IF caller[r] = "undo" THEN [undoer EXCEPT ![r] = answer[r]] ELSE undoer
    /\ Idles(r)
    /\ UNCHANGED <<rowVars, clockVars, saw, netVars, phase, trashed, post>>

\* PHP dies; its claims stay until they are stale.
PhpCrash(r) ==
    /\ at[r] # "idle"
    /\ claim' = IF claim[r] = "held" THEN [claim EXCEPT ![r] = "left"] ELSE claim
    /\ target' = IF target[r] = "held" THEN [target EXCEPT ![r] = "left"] ELSE target
    /\ Idles(r)
    /\ UNCHANGED <<rowVars, clockVars, job, undoer, saw, netVars, phase, trashed, post>>

\* CLAIM_TTL has passed.
ClaimLapse(r) ==
    /\ claim[r] = "left" \/ target[r] = "left"
    /\ claim' = IF claim[r] = "left" THEN [claim EXCEPT ![r] = "free"] ELSE claim
    /\ target' = IF target[r] = "left" THEN [target EXCEPT ![r] = "free"] ELSE target
    /\ UNCHANGED <<agentOnly, at, answer, phase, trashed, post>>

\* Someone edits the draft in WordPress.
Touch(r) ==
    /\ post[r] = "draft"
    /\ post' = [post EXCEPT ![r] = "touched"]
    /\ UNCHANGED <<agentOnly, at, answer, claim, target, phase, trashed>>

-----------------------------------------------------------------------------
\* Time passes for everyone: not past what a running command, a sending job or
\* an undo handler may take.  A command whose token has lapsed is refused.
AgeTo(n, max) == IF n < max THEN n + 1 ELSE n
Tick ==
    /\ \A r \in Requests :
          /\ at[r] # "idle" => ran[r] < RunMax
          /\ job[r] \in {"send", "wait"} \cup Answers => job[r] # "send" /\ sent[r] + 1 < StaleAfter
          /\ undoer[r] # "none" => since[r] + 1 < Stuck
    /\ sent' = [r \in Requests |-> IF Unresolved(r) THEN AgeTo(sent[r], StaleAfter) ELSE 0]
    /\ unknown' = [r \in Requests |-> IF Resolving(r) THEN AgeTo(unknown[r], Window) ELSE 0]
    /\ since' = [r \in Requests |-> IF undo[r] = "in_progress" THEN AgeTo(since[r], Stuck) ELSE 0]
    /\ ran' = [r \in Requests |-> IF at[r] # "idle" THEN ran[r] + 1 ELSE 0]
    /\ write' = [r \in Requests |-> write[r] /\ sent[r] < TokenTTL]
    /\ revert' = [r \in Requests |-> IF since[r] < TokenTTL THEN revert[r] ELSE {}]
    /\ UNCHANGED <<rowVars, job, undoer, saw, at, answer, caller, claim, target, phase, trashed, post>>

JobStep(r) == Scan(r) \/ CloseNotSent(r) \/ DispatchLater(r) \/ CheckSite(r) \/ Reserve(r) \/ Send(r)
              \/ SendUncertain(r) \/ RecordOutcome(r)
SweepStep(r) == Expire(r) \/ ClosePastDeadline(r) \/ ReconcileStale(r)
PassStep(p) == LedgerInflight(p) \/ ResolveOne(p) \/ ReconcileUndo(p)
UndoStep(r) == UndoSend(r) \/ UndoWaitOver(r) \/ FinishUndo(r)
AgentStep(r) ==
    \/ ClaimRequest(r) \/ CreateRow(r) \/ InsertPost(r) \/ RecordPost(r) \/ Verify(r) \/ Cleanup(r)
    \/ RecordFailure(r) \/ ClaimRecovered(r) \/ ClaimTarget(r) \/ CheckPost(r) \/ TrashPost(r)
    \/ RecordRevert(r) \/ Release(r)

Next ==
    \/ Tick
    \/ \E p \in Passes : PassStep(p) \/ \E r \in Requests : LedgerRow(p, r)
    \/ \E r \in Requests :
         \/ Propose(r) \/ Approve(r) \/ Decline(r) \/ Withdraw(r) \/ CloseForGrant(r) \/ Lapse(r)
         \/ JobStep(r) \/ JobCrash(r) \/ SweepStep(r)
         \/ BeginUndo(r) \/ UndoStep(r) \/ UndoCrash(r)
         \/ Deliver(r) \/ \E who \in {"waited", "orphan"} : DeliverRevert(r, who)
         \/ AgentStep(r) \/ PhpCrash(r) \/ ClaimLapse(r) \/ Touch(r)

Spec == Init /\ [][Next]_vars

\* Jobs, sweeps and reconcilers are run again and again, a handler and a running
\* command take their next step, and time passes.
Fairness ==
    /\ \A r \in Requests :
         /\ WF_vars(JobStep(r)) /\ WF_vars(SweepStep(r)) /\ WF_vars(UndoStep(r))
         /\ WF_vars(AgentStep(r)) /\ WF_vars(Lapse(r))
         /\ WF_vars(\E p \in Passes : LedgerRow(p, r))
    /\ \A p \in Passes : WF_vars(PassStep(p))
    /\ SF_vars(Tick)
FairSpec == Spec /\ Fairness

-----------------------------------------------------------------------------
States == {"none", "pending", "approved", "declined", "withdrawn", "expired", "dispatched",
           "outcome_unknown", "done", "failed", "not_sent"}
Outcomes == {"none", "created", "not_sent", "given_up"} \cup Failures

RowTypes ==
    /\ state \in [Requests -> States] /\ outcome \in [Requests -> Outcomes]
    /\ undo \in [Requests -> {"none", "available", "in_progress", "undone", "refused", "failed"}]
    /\ late \in [Requests -> BOOLEAN]
ClockTypes ==
    /\ sent \in [Requests -> 0..StaleAfter] /\ unknown \in [Requests -> 0..Window]
    /\ since \in [Requests -> 0..Stuck] /\ ran \in [Requests -> 0..RunMax]
PlaneTypes ==
    /\ job \in [Requests -> {"none", "check", "reserve", "send", "wait"} \cup Answers]
    /\ undoer \in [Requests -> {"none", "send", "wait"} \cup UndoAnswers]
    /\ saw \in [Passes -> {Idle} \cup
                   [step : {"row", "verdict"}, req : Requests, age : 0..Window,
                    what : Outcomes \cup Phases \cup UndoReads \cup {"wait", "undecided"}]]
CommandTypes ==
    /\ write \in [Requests -> BOOLEAN] /\ revert \in [Requests -> SUBSET {"waited", "orphan"}]
    /\ at \in [Requests -> {"idle", "answer"} \cup WriteSteps \cup RevertSteps]
    /\ answer \in [Requests -> {"none", "created", "left"} \cup UndoAnswers]
    /\ caller \in [Requests -> {"nobody", "job", "undo"}]
LedgerTypes ==
    /\ claim \in [Requests -> {"free", "held", "left"}] /\ target \in [Requests -> {"free", "held", "left"}]
    /\ phase \in [Requests -> Phases] /\ trashed \in [Requests -> BOOLEAN]
    /\ post \in [Requests -> {"none", "draft", "touched", "trash"}]
\* Every variable holds a value the code can store.
TypeOK == RowTypes /\ ClockTypes /\ PlaneTypes /\ CommandTypes /\ LedgerTypes

\* What is recorded as never sent, never decided for, or never received by the
\* site made no draft on it, and cannot make one later.
NothingWritten ==
    \A r \in Requests :
        \/ state[r] \in {"pending", "approved", "declined", "withdrawn", "expired", "not_sent"}
        \/ outcome[r] = "not_received"
        => post[r] = "none" /\ ~write[r] /\ at[r] = "idle"

\* The site runs one assistant write at a time, as the reservation promises.
Writing(r) == write[r] \/ at[r] \in WriteSteps
OneWriteOnSite == \A q, r \in Requests : Writing(q) /\ Writing(r) => q = r

\* A write recorded as refused left no draft, and an undo recorded as done did
\* move the draft to the trash, whichever of the answer, a late answer or the
\* ledger it was recorded from.
DraftsGone ==
    \A r \in Requests :
        /\ outcome[r] = "refused" => post[r] \in {"none", "trash"}
        /\ undo[r] = "undone" => post[r] = "trash"

\* The first outcome recorded for a request is the one it keeps, and so is the
\* end of its undo: a late answer, a second ledger verdict, a reconciler or an
\* orphaned undo changes neither, nor opens the undo again.
UndoEnds == {"undone", "refused", "failed"}
OutcomeStands ==
    [][\A r \in Requests :
         /\ outcome[r] # "none" => outcome'[r] = outcome[r] /\ state'[r] = state[r]
         /\ undo[r] \in UndoEnds => undo'[r] = undo[r]]_vars

\* Every proposal comes to an end, even when the job dies, the answer is lost
\* and the site never answers again.
Settles(r) == state[r] \in {"declined", "withdrawn", "expired"} \/ outcome[r] # "none"
RequestsSettle == \A r \in Requests : state[r] = "pending" ~> Settles(r)

=============================================================================

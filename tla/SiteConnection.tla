--------------------------- MODULE SiteConnection ---------------------------
(***************************************************************************)
(* The connection lifecycle of a managed WordPress site: the rows of the   *)
(* sites and pairing_codes tables, the API handlers and the River timeout  *)
(* sweep that change them, and the agents that enroll, beat, say goodbye   *)
(* and tear themselves down.                                               *)
(*                                                                         *)
(* One action is one database transaction of the control plane (or one     *)
(* step of an agent).  A handler that runs several transactions keeps what *)
(* it read between them in req (agent requests, operator rechecks and the  *)
(* heartbeats the sweep records), mint (the operator's two-transaction     *)
(* code mint) or sweep (the sweep's lists), so other actors interleave     *)
(* exactly where the code lets them.                                       *)
(***************************************************************************)
EXTENDS Naturals, FiniteSets

CONSTANTS
  Sites,            \* ids of the tenant's sites, one per URL
  Keys,             \* agent key pairs
  Codes,            \* pairing codes (a bound on how many are ever minted)
  Workers,          \* concurrent API requests
  Sweepers,         \* concurrent runs of the River sweep job
  Operators,        \* operators minting codes concurrently
  NoSite, NoKey,
  DegradeAfter,     \* ticks of silence after which a connected site is overdue
  DisconnectAfter,  \* ticks of silence after which a degraded site is overdue
  MissThreshold,    \* overdue evaluations before a site is degraded
  SiteCap,          \* the plan's limit on non-archived sites
  ActiveVerify,     \* WPMGR_SWEEP_ACTIVE_VERIFY
  MaxGeneration     \* bound on connection_generation

ASSUME ConstantsAssumption ==
  /\ NoSite \notin Sites
  /\ NoKey \notin Keys
  /\ Workers \cap Sweepers = {}
  /\ DegradeAfter \in Nat
  /\ DisconnectAfter \in Nat
  /\ MissThreshold \in Nat \ {0}
  /\ SiteCap \in Nat
  /\ ActiveVerify \in BOOLEAN
  /\ MaxGeneration \in Nat

ASSUME FiniteAssumption == IsFiniteSet(Sites) /\ IsFiniteSet(Codes)

VARIABLES
  conn,         \* connection_state of each site row ("none": no row yet)
  generation,   \* connection_generation
  agentKey,     \* agent_public_key
  age,          \* now - last_seen_at, saturated one tick past DisconnectAfter
  missed,       \* missed_heartbeats, saturated at MissThreshold
  archivedAt,   \* archived_at IS NOT NULL
  enrolledGens, \* generations with an "enrolled" row in site_connection_history
  codeSite,     \* site a pairing code is bound to
  codeStatus,   \* where a pairing code is in its life
  agentSite,    \* site_id an agent stores once it is enrolled
  keyHeld,      \* key pairs still in some agent's keystore
  mint,         \* per operator: the site whose code is still to be inserted
  req,          \* per request: what RecordHeartbeat and friends hold between
                \* transactions
  sweep         \* per sweep run: its lists and verdicts

rowVars   == <<conn, generation, agentKey, age, missed, archivedAt, enrolledGens>>
codeVars  == <<codeSite, codeStatus>>
agentVars == <<agentSite, keyHeld>>
vars      == <<rowVars, codeVars, agentVars, mint, req, sweep>>

ConnectionStates ==
  {"pending_enrollment", "connected", "degraded", "disconnected", "revoked", "archived"}

MaxAge == DisconnectAfter + 1
Procs  == Workers \cup Sweepers

Idle      == [pc |-> "idle", site |-> NoSite, key |-> NoKey]
SweepIdle == [pc |-> "idle", todo |-> {}, alive |-> {}, crossed |-> {}]

Init ==
  /\ conn         = [s \in Sites |-> "none"]
  /\ generation   = [s \in Sites |-> 0]
  /\ agentKey     = [s \in Sites |-> NoKey]
  /\ age          = [s \in Sites |-> MaxAge]
  /\ missed       = [s \in Sites |-> 0]
  /\ archivedAt   = [s \in Sites |-> FALSE]
  /\ enrolledGens = [s \in Sites |-> {}]
  /\ codeSite     = [c \in Codes |-> NoSite]
  /\ codeStatus   = [c \in Codes |-> "unminted"]
  /\ agentSite    = [k \in Keys |-> NoSite]
  /\ keyHeld      = Keys
  /\ mint         = [o \in Operators |-> NoSite]
  /\ req          = [p \in Procs |-> Idle]
  /\ sweep        = [w \in Sweepers |-> SweepIdle]

-----------------------------------------------------------------------------
(* The transition table and the locked transition transaction. *)

legalTransitions ==
  [pending_enrollment |-> {"connected", "archived"},
   connected          |-> {"degraded", "disconnected", "revoked", "archived"},
   degraded           |-> {"connected", "disconnected", "revoked", "archived"},
   disconnected       |-> {"connected", "pending_enrollment", "revoked", "archived"},
   revoked            |-> {"pending_enrollment", "archived"},
   archived           |-> {"disconnected", "pending_enrollment"}]

CanTransition(from, to) == from = to \/ to \in legalTransitions[from]

\* The site has a row.
Exists(s) == conn[s] \in ConnectionStates

\* Sites CountActiveSitesForBilling counts.
ActiveSites == {s \in Sites : Exists(s) /\ conn[s] # "archived"}

\* One more active site fits under the cap.
CheckSiteCreate == Cardinality(ActiveSites) < SiteCap

\* Mutant: the cap is checked by Restore only.
CapCheckedOnRestoreOnly(s, to) ==
  /\ Exists(s)
  /\ CanTransition(conn[s], to)
  /\ (conn[s] = "archived" /\ to = "disconnected") => CheckSiteCreate

\* Transition commits: the row is there, the move is legal, and a move out of
\* archived fits under the site cap.
MayTransition(s, to) ==
  /\ Exists(s)
  /\ CanTransition(conn[s], to)
  /\ (conn[s] = "archived" /\ to # "archived") => CheckSiteCreate

MarkSiteConnected(s) ==
  /\ MayTransition(s, "connected")
  /\ conn' = [conn EXCEPT ![s] = "connected"]
  /\ IF conn[s] = "connected"
     THEN UNCHANGED <<age, missed>>
     ELSE /\ age' = [age EXCEPT ![s] = 0]
          /\ missed' = [missed EXCEPT ![s] = 0]
  /\ UNCHANGED <<generation, agentKey, archivedAt, enrolledGens>>

\* MarkSiteDegraded, MarkSiteDisconnected and MarkSiteRevoked write only the
\* state (and reason columns); archived_at in particular is left alone.
MarkSite(s, to) ==
  /\ MayTransition(s, to)
  /\ conn' = [conn EXCEPT ![s] = to]
  /\ UNCHANGED <<generation, agentKey, age, missed, archivedAt, enrolledGens>>

-----------------------------------------------------------------------------
(* Operators: add, re-enroll, cancel, revoke, archive, restore, delete. *)

\* First transaction of MintEnrollmentCode: the pending row, under the cap.
CreatePending(o, s) ==
  /\ mint[o] = NoSite
  /\ conn[s] = "none"
  /\ CheckSiteCreate
  /\ conn' = [conn EXCEPT ![s] = "pending_enrollment"]
  /\ mint' = [mint EXCEPT ![o] = s]
  /\ UNCHANGED <<generation, agentKey, age, missed, archivedAt, enrolledGens,
                 codeVars, agentVars, req, sweep>>

\* First transaction of BeginReEnrollment; on a site that is pending already
\* the transition is a no-op and only a further code is minted.
BeginReEnrollment(o, s) ==
  /\ mint[o] = NoSite
  /\ MayTransition(s, "pending_enrollment")
  /\ mint' = [mint EXCEPT ![o] = s]
  /\ IF conn[s] = "pending_enrollment"
     THEN UNCHANGED <<conn, generation, archivedAt>>
     ELSE /\ generation[s] < MaxGeneration
          /\ conn' = [conn EXCEPT ![s] = "pending_enrollment"]
          /\ generation' = [generation EXCEPT ![s] = @ + 1]
          /\ archivedAt' = [archivedAt EXCEPT ![s] = FALSE]
  /\ UNCHANGED <<agentKey, age, missed, enrolledGens, codeVars, agentVars, req, sweep>>

\* Mutant: the code is inserted without its site_id.
MintUnboundCode(o, c) ==
  /\ mint[o] # NoSite
  /\ Exists(mint[o])
  /\ codeStatus[c] = "unminted"
  /\ codeStatus' = [codeStatus EXCEPT ![c] = "live"]
  /\ mint' = [mint EXCEPT ![o] = NoSite]
  /\ UNCHANGED <<rowVars, codeSite, agentVars, req, sweep>>

\* Second transaction of both: insert the site-bound code.
MintSiteBoundCode(o, c) ==
  /\ mint[o] # NoSite
  /\ Exists(mint[o])
  /\ codeStatus[c] = "unminted"
  /\ codeStatus' = [codeStatus EXCEPT ![c] = "live"]
  /\ codeSite' = [codeSite EXCEPT ![c] = mint[o]]
  /\ mint' = [mint EXCEPT ![o] = NoSite]
  /\ UNCHANGED <<rowVars, agentVars, req, sweep>>

\* The second transaction never commits: the process died, the insert failed,
\* or the site row is gone and the foreign key refuses the code.
MintAbandoned(o) ==
  /\ mint[o] # NoSite
  /\ mint' = [mint EXCEPT ![o] = NoSite]
  /\ UNCHANGED <<rowVars, codeVars, agentVars, req, sweep>>

\* DELETE FROM sites: the row, its history and its codes go together.
DeleteRow(s) ==
  /\ conn' = [conn EXCEPT ![s] = "deleted"]
  /\ agentKey' = [agentKey EXCEPT ![s] = NoKey]
  /\ archivedAt' = [archivedAt EXCEPT ![s] = FALSE]
  /\ enrolledGens' = [enrolledGens EXCEPT ![s] = {}]
  /\ codeStatus' = [c \in Codes |-> IF codeSite[c] = s THEN "gone" ELSE codeStatus[c]]
  /\ UNCHANGED <<generation, age, missed, codeSite, agentVars, mint, req, sweep>>

\* The conditional delete of a site no agent ever enrolled.
CancelEnrollment(s) ==
  /\ conn[s] = "pending_enrollment"
  /\ enrolledGens[s] = {}
  /\ agentKey[s] = NoKey
  /\ DeleteRow(s)

\* The unconditional hard delete.
Delete(s) == Exists(s) /\ DeleteRow(s)

\* Mutant: revoking a site clears its agent key.
RevokeNullsKey(s) ==
  /\ MayTransition(s, "revoked")
  /\ conn' = [conn EXCEPT ![s] = "revoked"]
  /\ agentKey' = [agentKey EXCEPT ![s] = NoKey]
  /\ UNCHANGED <<generation, age, missed, archivedAt, enrolledGens,
                 codeVars, agentVars, mint, req, sweep>>

Revoke(s) ==
  /\ MarkSite(s, "revoked")
  /\ UNCHANGED <<codeVars, agentVars, mint, req, sweep>>

Archive(s) ==
  /\ MayTransition(s, "archived")
  /\ conn' = [conn EXCEPT ![s] = "archived"]
  /\ archivedAt' = [archivedAt EXCEPT ![s] = TRUE]
  /\ UNCHANGED <<generation, agentKey, age, missed, enrolledGens,
                 codeVars, agentVars, mint, req, sweep>>

Restore(s) ==
  /\ conn[s] = "archived"
  /\ MayTransition(s, "disconnected")
  /\ conn' = [conn EXCEPT ![s] = "disconnected"]
  /\ archivedAt' = [archivedAt EXCEPT ![s] = FALSE]
  /\ UNCHANGED <<generation, agentKey, age, missed, enrolledGens,
                 codeVars, agentVars, mint, req, sweep>>

-----------------------------------------------------------------------------
(* Enrollment: one transaction consumes the code and attaches the key. *)

\* What a committed enrollment writes.
Attach(k, c, s) ==
  /\ codeStatus' = [codeStatus EXCEPT ![c] = "consumed"]
  /\ conn' = [conn EXCEPT ![s] = "connected"]
  /\ agentKey' = [agentKey EXCEPT ![s] = k]
  /\ age' = [age EXCEPT ![s] = 0]
  /\ enrolledGens' = [enrolledGens EXCEPT ![s] = @ \cup {generation[s]}]
  /\ \/ agentSite' = [agentSite EXCEPT ![k] = s]
     \/ UNCHANGED agentSite
  /\ UNCHANGED <<generation, missed, archivedAt, codeSite, keyHeld, mint, req, sweep>>

\* Mutant: any live code connects its site, whatever state the site is in.
ConsumeInAnyState(k, c) ==
  /\ k \in keyHeld
  /\ codeStatus[c] = "live"
  /\ \A t \in Sites \ {codeSite[c]} : agentKey[t] # k
  /\ Attach(k, c, codeSite[c])

\* An agent presents a code.  A code that is unknown, used or expired, a site
\* that is not pending, or a key another site holds makes the transaction roll
\* back, the consumption of the code included.  The answer may get lost, and
\* then the agent does not learn that it is enrolled.
ConsumeEnrollmentCode(k, c) ==
  /\ k \in keyHeld
  /\ codeStatus[c] = "live"
  /\ conn[codeSite[c]] = "pending_enrollment"
  /\ \A t \in Sites \ {codeSite[c]} : agentKey[t] # k
  /\ Attach(k, c, codeSite[c])

\* A code outlives its fifteen minutes.
ExpireCode(c) ==
  /\ codeStatus[c] = "live"
  /\ codeStatus' = [codeStatus EXCEPT ![c] = "expired"]
  /\ UNCHANGED <<rowVars, codeSite, agentVars, mint, req, sweep>>

-----------------------------------------------------------------------------
(* Agent requests. *)

\* The Authenticator resolves the site by the key that signed the request; the
\* site's state plays no part.  An enrolled agent sends heartbeats, metadata
\* pushes and last wills.
Authenticate(p, k, s, kind) ==
  /\ req[p] = Idle
  /\ k \in keyHeld
  /\ agentSite[k] # NoSite
  /\ agentKey[s] = k
  /\ req' = [req EXCEPT ![p] = [pc |-> kind, site |-> s, key |-> k]]
  /\ UNCHANGED <<rowVars, codeVars, agentVars, mint, sweep>>

\* UpdateSiteMetadata: last_seen_at moves, the miss counter does not.
ApplyAgentMetadata(p) ==
  /\ req[p].pc = "metadata"
  /\ age' = IF Exists(req[p].site) THEN [age EXCEPT ![req[p].site] = 0] ELSE age
  /\ req' = [req EXCEPT ![p] = Idle]
  /\ UNCHANGED <<conn, generation, agentKey, missed, archivedAt, enrolledGens,
                 codeVars, agentVars, mint, sweep>>

\* Mutant: a revoked site's beat is answered like any other.
AfterTouchWithoutRevoke(r) ==
  IF conn[r.site] \in {"degraded", "disconnected"} THEN [r EXCEPT !.pc = "recover"] ELSE Idle

\* Mutant: only a degraded site recovers on a beat.
AfterTouchDegradedOnly(r) ==
  CASE conn[r.site] = "revoked" /\ r.key # NoKey -> [r EXCEPT !.pc = "instruct"]
    [] conn[r.site] = "degraded" -> [r EXCEPT !.pc = "recover"]
    [] OTHER -> Idle

\* What RecordHeartbeat does next, given the state its first transaction read.
\* Only an answer to an agent (not a recheck or a sweep) carries an instruction.
AfterTouch(r) ==
  CASE conn[r.site] = "revoked" /\ r.key # NoKey -> [r EXCEPT !.pc = "instruct"]
    [] conn[r.site] \in {"degraded", "disconnected"} -> [r EXCEPT !.pc = "recover"]
    [] OTHER -> Idle

\* First transaction of RecordHeartbeat (TouchSiteHeartbeat), in any state.
RecordHeartbeat(p) ==
  LET s == req[p].site IN
  /\ req[p].pc = "heartbeat"
  /\ IF Exists(s)
     THEN /\ age' = [age EXCEPT ![s] = 0]
          /\ missed' = [missed EXCEPT ![s] = 0]
          /\ req' = [req EXCEPT ![p] = AfterTouch(req[p])]
     ELSE /\ req' = [req EXCEPT ![p] = Idle]
          /\ UNCHANGED <<age, missed>>
  /\ UNCHANGED <<conn, generation, agentKey, archivedAt, enrolledGens,
                 codeVars, agentVars, mint, sweep>>

\* Second transaction of RecordHeartbeat; a refused transition is swallowed.
RecoverConnection(p) ==
  /\ req[p].pc = "recover"
  /\ IF MayTransition(req[p].site, "connected")
     THEN MarkSiteConnected(req[p].site)
     ELSE UNCHANGED rowVars
  /\ req' = [req EXCEPT ![p] = Idle]
  /\ UNCHANGED <<codeVars, agentVars, mint, sweep>>

\* RecordLastWillTenant is MarkDisconnectedTenant; a refusal is answered 409.
RecordLastWill(p) ==
  /\ req[p].pc = "lastwill"
  /\ IF MayTransition(req[p].site, "disconnected")
     THEN MarkSite(req[p].site, "disconnected")
     ELSE UNCHANGED rowVars
  /\ req' = [req EXCEPT ![p] = Idle]
  /\ UNCHANGED <<codeVars, agentVars, mint, sweep>>

\* The agent receives the revoke instruction with its token.  It tears itself
\* down only if the token names the site it is enrolled as.
HandleInstructions(p) ==
  LET k == req[p].key IN
  /\ req[p].pc = "instruct"
  /\ IF agentSite[k] = req[p].site
     THEN /\ keyHeld' = keyHeld \ {k}
          /\ agentSite' = [agentSite EXCEPT ![k] = NoSite]
     ELSE UNCHANGED agentVars
  /\ req' = [req EXCEPT ![p] = Idle]
  /\ UNCHANGED <<rowVars, codeVars, mint, sweep>>

\* The request dies between two of its steps, one of its queries fails, or its
\* answer is lost; the sweep ignores an error of the heartbeat it records.
DropRequest(p) ==
  /\ req[p] # Idle
  /\ req' = [req EXCEPT ![p] = Idle]
  /\ UNCHANGED <<rowVars, codeVars, agentVars, mint, sweep>>

\* The agent wipes its identity: disconnect, re-enroll or uninstall on the
\* WordPress side.  Whether the last will it sent first arrived is up to
\* Authenticate and DropRequest.
WipeIdentity(k) ==
  /\ k \in keyHeld
  /\ keyHeld' = keyHeld \ {k}
  /\ agentSite' = [agentSite EXCEPT ![k] = NoSite]
  /\ UNCHANGED <<rowVars, codeVars, mint, req, sweep>>

\* A signed command to the site can be answered: some agent is enrolled as it.
Reachable(s) == \E k \in keyHeld : agentSite[k] = s

\* The operator's recheck: the agent answered the metadata command, the
\* metadata is applied, and a heartbeat is recorded.
Recheck(p, s) ==
  /\ req[p] = Idle
  /\ Exists(s)
  /\ Reachable(s)
  /\ age' = [age EXCEPT ![s] = 0]
  /\ req' = [req EXCEPT ![p] = [pc |-> "heartbeat", site |-> s, key |-> NoKey]]
  /\ UNCHANGED <<conn, generation, agentKey, missed, archivedAt, enrolledGens,
                 codeVars, agentVars, mint, sweep>>

-----------------------------------------------------------------------------
(* The timeout sweep. *)

\* Mutant: both lists select connected sites.
ConnectedPastDisconnect == {s \in Sites : conn[s] = "connected" /\ age[s] > DisconnectAfter}

OverdueToDisconnect == {s \in Sites : conn[s] = "degraded" /\ age[s] > DisconnectAfter}
OverdueToDegrade    == {s \in Sites : conn[s] = "connected" /\ age[s] > DegradeAfter}

\* ListToDisconnect.
SweepListToDisconnect(w) ==
  /\ sweep[w].pc = "idle"
  /\ sweep' = [sweep EXCEPT ![w].pc = "dialDisconnect", ![w].todo = OverdueToDisconnect]
  /\ UNCHANGED <<rowVars, codeVars, agentVars, mint, req>>

\* activeVerifyBatch: some of the sites are skipped (the budget ran out), some
\* answer.  In passive mode nothing is dialled and every site is acted on.
ActiveVerifyBatch(w, from, to, refs) ==
  /\ sweep[w].pc = from
  /\ IF ActiveVerify
     THEN \E todo \in SUBSET refs :
          \E alive \in SUBSET {s \in todo : Reachable(s)} :
            sweep' = [sweep EXCEPT ![w] =
                        [pc |-> to, todo |-> todo, alive |-> alive, crossed |-> {}]]
     ELSE sweep' = [sweep EXCEPT ![w] =
                        [pc |-> to, todo |-> refs, alive |-> {}, crossed |-> {}]]
  /\ UNCHANGED <<rowVars, codeVars, agentVars, mint, req>>

\* The sweep acts on one site: a site that answered gets a heartbeat recorded,
\* any other is marked; a refused transition ends the whole sweep.
SweepAct(w, s, to) ==
  /\ s \in sweep[w].todo
  /\ req[w] = Idle
  /\ \/ /\ s \in sweep[w].alive
        /\ req' = [req EXCEPT ![w] = [pc |-> "heartbeat", site |-> s, key |-> NoKey]]
        /\ sweep' = [sweep EXCEPT ![w].todo = @ \ {s}]
        /\ UNCHANGED rowVars
     \/ /\ s \notin sweep[w].alive
        /\ MarkSite(s, to)
        /\ sweep' = [sweep EXCEPT ![w].todo = @ \ {s}]
        /\ UNCHANGED req
     \/ /\ s \notin sweep[w].alive
        /\ ~MayTransition(s, to)
        /\ sweep' = [sweep EXCEPT ![w] = SweepIdle]
        /\ UNCHANGED <<rowVars, req>>
  /\ UNCHANGED <<codeVars, agentVars, mint>>

SweepDialDisconnect(w) == ActiveVerifyBatch(w, "dialDisconnect", "disconnect", sweep[w].todo)

SweepDisconnect(w, s) == sweep[w].pc = "disconnect" /\ SweepAct(w, s, "disconnected")

\* ListToDegrade, once the disconnect loop is through.
SweepListToDegrade(w) ==
  /\ sweep[w].pc = "disconnect"
  /\ sweep[w].todo = {}
  /\ req[w] = Idle
  /\ sweep' = [sweep EXCEPT ![w] =
                 [pc |-> "count", todo |-> OverdueToDegrade, alive |-> {}, crossed |-> {}]]
  /\ UNCHANGED <<rowVars, codeVars, agentVars, mint, req>>

\* IncrementMissedHeartbeats: unconditional on the state, an error when the row
\* is gone, which ends the sweep.
SweepCount(w, s) ==
  LET n == IF missed[s] < MissThreshold THEN missed[s] + 1 ELSE MissThreshold IN
  /\ sweep[w].pc = "count"
  /\ s \in sweep[w].todo
  /\ IF Exists(s)
     THEN /\ missed' = [missed EXCEPT ![s] = n]
          /\ sweep' = [sweep EXCEPT ![w].todo = @ \ {s},
                                    ![w].crossed = IF n >= MissThreshold THEN @ \cup {s} ELSE @]
     ELSE /\ sweep' = [sweep EXCEPT ![w] = SweepIdle]
          /\ UNCHANGED missed
  /\ UNCHANGED <<conn, generation, agentKey, age, archivedAt, enrolledGens,
                 codeVars, agentVars, mint, req>>

SweepDialDegrade(w) ==
  /\ sweep[w].todo = {}
  /\ ActiveVerifyBatch(w, "count", "degrade", sweep[w].crossed)

SweepDegrade(w, s) == sweep[w].pc = "degrade" /\ SweepAct(w, s, "degraded")

SweepDone(w) ==
  /\ sweep[w].pc = "degrade"
  /\ sweep[w].todo = {}
  /\ req[w] = Idle
  /\ sweep' = [sweep EXCEPT ![w] = SweepIdle]
  /\ UNCHANGED <<rowVars, codeVars, agentVars, mint, req>>

\* The job's process dies, or one of its queries fails.
SweepCrash(w) ==
  /\ sweep[w].pc # "idle"
  /\ sweep' = [sweep EXCEPT ![w] = SweepIdle]
  /\ req' = [req EXCEPT ![w] = Idle]
  /\ UNCHANGED <<rowVars, codeVars, agentVars, mint>>

-----------------------------------------------------------------------------
\* Time passes for every site.
Tick ==
  /\ \E s \in Sites : age[s] < MaxAge
  /\ age' = [s \in Sites |-> IF age[s] < MaxAge THEN age[s] + 1 ELSE MaxAge]
  /\ UNCHANGED <<conn, generation, agentKey, missed, archivedAt, enrolledGens,
                 codeVars, agentVars, mint, req, sweep>>

OperatorStep ==
  \/ \E o \in Operators : \/ \E s \in Sites : CreatePending(o, s) \/ BeginReEnrollment(o, s)
                          \/ \E c \in Codes : MintSiteBoundCode(o, c)
                          \/ MintAbandoned(o)
  \/ \E s \in Sites : \/ CancelEnrollment(s)
                      \/ Delete(s)
                      \/ Revoke(s)
                      \/ Archive(s)
                      \/ Restore(s)
                      \/ \E p \in Workers : Recheck(p, s)

AgentStep ==
  \/ \E k \in Keys : \/ \E c \in Codes : ConsumeEnrollmentCode(k, c)
                     \/ \E p \in Workers, s \in Sites :
                        \E kind \in {"heartbeat", "metadata", "lastwill"} :
                          Authenticate(p, k, s, kind)
                     \/ WipeIdentity(k)
  \/ \E c \in Codes : ExpireCode(c)

RequestStep(p) ==
  \/ ApplyAgentMetadata(p)
  \/ RecordHeartbeat(p)
  \/ RecoverConnection(p)
  \/ RecordLastWill(p)
  \/ HandleInstructions(p)

SweepStep(w) ==
  \/ SweepListToDisconnect(w)
  \/ SweepDialDisconnect(w)
  \/ \E s \in Sites : SweepDisconnect(w, s)
  \/ SweepListToDegrade(w)
  \/ \E s \in Sites : SweepCount(w, s)
  \/ SweepDialDegrade(w)
  \/ \E s \in Sites : SweepDegrade(w, s)
  \/ SweepDone(w)

Next ==
  \/ OperatorStep
  \/ AgentStep
  \/ \E p \in Procs : RequestStep(p) \/ DropRequest(p)
  \/ \E w \in Sweepers : SweepStep(w) \/ SweepCrash(w)
  \/ Tick

Spec == Init /\ [][Next]_vars

\* River runs the sweep every fifteen seconds and runs a failed or killed job
\* again, so no step of a sweep is cut short for ever.
SweepFairness ==
  /\ WF_vars(Tick)
  /\ \A w \in Sweepers :
       /\ SF_vars(SweepListToDisconnect(w))
       /\ SF_vars(SweepDialDisconnect(w))
       /\ SF_vars(SweepListToDegrade(w))
       /\ SF_vars(SweepDialDegrade(w))
       /\ WF_vars(SweepDone(w))
       /\ SF_vars(RequestStep(w))
       /\ \A s \in Sites : /\ SF_vars(SweepDisconnect(w, s))
                           /\ SF_vars(SweepCount(w, s))
                           /\ SF_vars(SweepDegrade(w, s))

\* An agent that is enrolled beats every sixty seconds, and its requests are
\* not all dropped.
AgentFairness ==
  \A p \in Workers :
    /\ WF_vars(RequestStep(p))
    /\ \A k \in Keys, s \in Sites :
         /\ SF_vars(Authenticate(p, k, s, "heartbeat"))
         /\ SF_vars(req[p].key = k /\ RecordHeartbeat(p))
         /\ SF_vars(req[p].key = k /\ RecoverConnection(p))
         /\ SF_vars(req[p].key = k /\ HandleInstructions(p))

SweptSpec   == Spec /\ SweepFairness
BeatingSpec == Spec /\ AgentFairness

-----------------------------------------------------------------------------
(* Properties. *)

CodeStatuses == {"unminted", "live", "consumed", "expired", "gone"}
RequestPCs   == {"idle", "heartbeat", "metadata", "lastwill", "recover", "instruct"}
SweepPCs     == {"idle", "dialDisconnect", "disconnect", "count", "degrade"}

Requests ==
  {r \in [pc : RequestPCs, site : Sites \cup {NoSite}, key : Keys \cup {NoKey}] :
     /\ r.pc # "idle" => r.site \in Sites
     /\ r.pc = "instruct" => r.key \in Keys}

SweepRuns ==
  [pc : SweepPCs, todo : SUBSET Sites, alive : SUBSET Sites, crossed : SUBSET Sites]

RowsOK ==
  /\ conn \in [Sites -> ConnectionStates \cup {"none", "deleted"}]
  /\ generation \in [Sites -> 0..MaxGeneration]
  /\ agentKey \in [Sites -> Keys \cup {NoKey}]
  /\ age \in [Sites -> 0..MaxAge]
  /\ missed \in [Sites -> 0..MissThreshold]
  /\ archivedAt \in [Sites -> BOOLEAN]
  /\ enrolledGens \in [Sites -> SUBSET (0..MaxGeneration)]

\* A minted code is bound to a site.
CodesOK ==
  /\ codeSite \in [Codes -> Sites \cup {NoSite}]
  /\ codeStatus \in [Codes -> CodeStatuses]
  /\ \A c \in Codes : codeStatus[c] # "unminted" => codeSite[c] \in Sites

AgentsOK ==
  /\ agentSite \in [Keys -> Sites \cup {NoSite}]
  /\ keyHeld \in SUBSET Keys

JobsOK ==
  /\ mint \in [Operators -> Sites \cup {NoSite}]
  /\ req \in [Procs -> Requests]
  /\ sweep \in [Sweepers -> SweepRuns]

\* Every row, code, agent and in-flight job holds values the schema and the
\* handlers' local variables can hold.
TypeOK == RowsOK /\ CodesOK /\ AgentsOK /\ JobsOK

\* A site the dashboard shows as connected or degraded has an agent: its row
\* holds a key and its history an enrollment, whichever of enrollment, heartbeat
\* recovery, recheck, archive, restore and re-enrollment led there.
LiveSiteHasAgent ==
  \A s \in Sites : conn[s] \in {"connected", "degraded"} =>
                     agentKey[s] # NoKey /\ enrolledGens[s] # {}

ConsumedCodes(s) == {c \in Codes : codeSite[c] = s /\ codeStatus[c] = "consumed"}

\* Every consumed code paid for exactly one enrollment and no two enrollments
\* fall in the same generation: a failed consume burns no code, and of several
\* codes live for one pending site at most one is ever redeemed per generation.
OneEnrollmentPerGeneration ==
  \A s \in Sites : Cardinality(ConsumedCodes(s)) = Cardinality(enrolledGens[s])

\* No interleaving of creates, restores, re-enrollments, last wills and sweeps
\* takes the tenant past its site cap.
SiteCapHolds == Cardinality(ActiveSites) <= SiteCap

\* connection_state only ever moves along the transition table, by any writer:
\* enrollment, which does not consult CanTransition, included.
LegalMovesOnly ==
  [][\A s \in Sites : Exists(s) /\ conn'[s] # "deleted" => CanTransition(conn[s], conn'[s])]_conn

\* A site whose agent has gone silent does not stay connected or degraded: the
\* sweeps disconnect it, however often one crashes or is aborted on the way.
SilentSiteIsNoticed ==
  \A s \in Sites : []<>(conn[s] \notin {"connected", "degraded"} \/ age[s] = 0)

\* The agent of a revoked site that still beats is told, and wipes its key.
RevokeReachesAgent ==
  \A s \in Sites, k \in Keys :
    (conn[s] = "revoked" /\ agentKey[s] = k /\ agentSite[k] = s)
      ~> (k \notin keyHeld \/ conn[s] # "revoked")

\* A degraded or disconnected site whose agent beats again leaves that state,
\* also when the recovery transaction of one beat is lost.
BeatingSiteRecovers ==
  \A s \in Sites, k \in Keys :
    (conn[s] \in {"degraded", "disconnected"} /\ agentKey[s] = k /\ agentSite[k] = s)
      ~> (conn[s] \notin {"degraded", "disconnected"} \/ k \notin keyHeld)

=============================================================================

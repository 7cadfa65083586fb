------------------------ MODULE SiteConnectionProofs ------------------------
(***************************************************************************)
(* Proofs about SiteConnection, for every number of sites, keys, codes,    *)
(* requests and sweeps and every setting of the timeouts and the cap.      *)
(***************************************************************************)
EXTENDS SiteConnection, FiniteSetTheorems, TLAPS

-----------------------------------------------------------------------------
(* Type correctness. *)

LEMMA IdleType == Idle \in Requests /\ SweepIdle \in SweepRuns
  BY DEF Idle, SweepIdle, Requests, SweepRuns, RequestPCs, SweepPCs

LEMMA ZeroType == /\ 0 \in 0..MaxAge /\ MaxAge \in 0..MaxAge
                  /\ 0 \in 0..MissThreshold /\ 0 \in 0..MaxGeneration
  BY ConstantsAssumption DEF MaxAge

LEMMA TypeInit == Init => TypeOK
  BY IdleType, ZeroType
  DEF Init, TypeOK, RowsOK, CodesOK, AgentsOK, JobsOK, CodeStatuses, ConnectionStates

LEMMA MarkType ==
  ASSUME NEW s \in Sites, RowsOK, NEW to \in ConnectionStates, MarkSite(s, to)
  PROVE  RowsOK'
  BY DEF RowsOK, MarkSite

LEMMA ConnectedType ==
  ASSUME NEW s \in Sites, RowsOK, MarkSiteConnected(s)
  PROVE  RowsOK'
  BY ZeroType DEF RowsOK, MarkSiteConnected, ConnectionStates

LEMMA OperatorType == TypeOK /\ OperatorStep => TypeOK'
<1> SUFFICES ASSUME TypeOK, OperatorStep PROVE TypeOK'
  OBVIOUS
<1> USE DEF TypeOK, rowVars, codeVars, agentVars
<1>1. ASSUME NEW o \in Operators, NEW s \in Sites, CreatePending(o, s) PROVE TypeOK'
  BY <1>1 DEF CreatePending, RowsOK, CodesOK, AgentsOK, JobsOK, ConnectionStates
<1>2. ASSUME NEW o \in Operators, NEW s \in Sites, BeginReEnrollment(o, s) PROVE TypeOK'
  <2>1. generation' \in [Sites -> 0..MaxGeneration]
    BY <1>2, ConstantsAssumption DEF BeginReEnrollment, RowsOK
  <2>2. RowsOK'
    BY <1>2, <2>1 DEF BeginReEnrollment, RowsOK, ConnectionStates
  <2> QED
    BY <1>2, <2>2 DEF BeginReEnrollment, CodesOK, AgentsOK, JobsOK
<1>3. ASSUME NEW o \in Operators, NEW c \in Codes, MintSiteBoundCode(o, c) PROVE TypeOK'
  BY <1>3 DEF MintSiteBoundCode, RowsOK, CodesOK, AgentsOK, JobsOK, CodeStatuses
<1>4. ASSUME NEW o \in Operators, MintAbandoned(o) PROVE TypeOK'
  BY <1>4 DEF MintAbandoned, RowsOK, CodesOK, AgentsOK, JobsOK
<1>5. ASSUME NEW s \in Sites, DeleteRow(s) PROVE TypeOK'
  BY <1>5 DEF DeleteRow, RowsOK, CodesOK, AgentsOK, JobsOK, CodeStatuses
<1>6. ASSUME NEW s \in Sites, CancelEnrollment(s) \/ Delete(s) PROVE TypeOK'
  BY <1>5, <1>6 DEF CancelEnrollment, Delete
<1>7. ASSUME NEW s \in Sites, Revoke(s) PROVE TypeOK'
  BY <1>7, MarkType DEF Revoke, ConnectionStates, CodesOK, AgentsOK, JobsOK
<1>8. ASSUME NEW s \in Sites, Archive(s) PROVE TypeOK'
  BY <1>8 DEF Archive, RowsOK, CodesOK, AgentsOK, JobsOK, ConnectionStates
<1>9. ASSUME NEW s \in Sites, Restore(s) PROVE TypeOK'
  BY <1>9 DEF Restore, RowsOK, CodesOK, AgentsOK, JobsOK, ConnectionStates
<1>10. ASSUME NEW s \in Sites, NEW p \in Workers, Recheck(p, s) PROVE TypeOK'
  <2>1. [pc |-> "heartbeat", site |-> s, key |-> NoKey] \in Requests
    BY DEF Requests, RequestPCs
  <2> QED
    BY <1>10, <2>1, ZeroType DEF Recheck, Procs, RowsOK, CodesOK, AgentsOK, JobsOK
<1> QED
  BY <1>1, <1>2, <1>3, <1>4, <1>6, <1>7, <1>8, <1>9, <1>10 DEF OperatorStep

LEMMA AgentType == TypeOK /\ AgentStep => TypeOK'
<1> SUFFICES ASSUME TypeOK, AgentStep PROVE TypeOK'
  OBVIOUS
<1> USE DEF TypeOK, rowVars, codeVars, agentVars
<1>1. ASSUME NEW k \in Keys, NEW c \in Codes, ConsumeEnrollmentCode(k, c) PROVE TypeOK'
  <2>1. codeSite[c] \in Sites
    BY <1>1 DEF ConsumeEnrollmentCode, CodesOK
  <2>2. RowsOK'
    BY <1>1, <2>1, ZeroType DEF ConsumeEnrollmentCode, Attach, RowsOK, ConnectionStates
  <2> QED
    BY <1>1, <2>1, <2>2
    DEF ConsumeEnrollmentCode, Attach, CodesOK, AgentsOK, JobsOK, CodeStatuses
<1>2. ASSUME NEW k \in Keys, NEW p \in Workers, NEW s \in Sites,
             NEW kind \in {"heartbeat", "metadata", "lastwill"}, Authenticate(p, k, s, kind)
      PROVE  TypeOK'
  <2>1. [pc |-> kind, site |-> s, key |-> k] \in Requests
    BY DEF Requests, RequestPCs
  <2> QED
    BY <1>2, <2>1 DEF Authenticate, Procs, RowsOK, CodesOK, AgentsOK, JobsOK
<1>3. ASSUME NEW k \in Keys, WipeIdentity(k) PROVE TypeOK'
  BY <1>3 DEF WipeIdentity, RowsOK, CodesOK, AgentsOK, JobsOK
<1>4. ASSUME NEW c \in Codes, ExpireCode(c) PROVE TypeOK'
  BY <1>4 DEF ExpireCode, RowsOK, CodesOK, AgentsOK, JobsOK, CodeStatuses
<1> QED
  BY <1>1, <1>2, <1>3, <1>4 DEF AgentStep

LEMMA RequestType ==
  ASSUME NEW p \in Procs, TypeOK, RequestStep(p) \/ DropRequest(p)
  PROVE  TypeOK'
<1> USE DEF TypeOK, rowVars, codeVars, agentVars
<1>a. req[p] \in Requests
  BY DEF JobsOK
<1>1. CASE ApplyAgentMetadata(p)
  BY <1>1, IdleType, ZeroType DEF ApplyAgentMetadata, RowsOK, CodesOK, AgentsOK, JobsOK
<1>2. CASE RecordHeartbeat(p)
  <2>1. req[p].site \in Sites
    BY <1>2, <1>a DEF RecordHeartbeat, Requests
  <2>2. AfterTouch(req[p]) \in Requests
    BY <2>1, <1>a, IdleType DEF AfterTouch, Requests, RequestPCs
  <2>3. req' \in [Procs -> Requests]
    BY <1>2, <2>2, IdleType DEF RecordHeartbeat, JobsOK
  <2>4. RowsOK'
    BY <1>2, <2>1, ZeroType DEF RecordHeartbeat, RowsOK
  <2> QED
    BY <1>2, <2>3, <2>4 DEF RecordHeartbeat, CodesOK, AgentsOK, JobsOK
<1>3. CASE RecoverConnection(p)
  <2>1. req[p].site \in Sites
    BY <1>3, <1>a DEF RecoverConnection, Requests
  <2>2. RowsOK'
    BY <1>3, <2>1, ConnectedType DEF RecoverConnection, RowsOK
  <2> QED
    BY <1>3, <2>2, IdleType DEF RecoverConnection, CodesOK, AgentsOK, JobsOK
<1>4. CASE RecordLastWill(p)
  <2>1. req[p].site \in Sites
    BY <1>4, <1>a DEF RecordLastWill, Requests
  <2>2. RowsOK'
    BY <1>4, <2>1, MarkType DEF RecordLastWill, RowsOK, ConnectionStates
  <2> QED
    BY <1>4, <2>2, IdleType DEF RecordLastWill, CodesOK, AgentsOK, JobsOK
<1>5. CASE HandleInstructions(p)
  BY <1>5, IdleType DEF HandleInstructions, RowsOK, CodesOK, AgentsOK, JobsOK
<1>6. CASE DropRequest(p)
  BY <1>6, IdleType DEF DropRequest, RowsOK, CodesOK, AgentsOK, JobsOK
<1> QED
  BY <1>1, <1>2, <1>3, <1>4, <1>5, <1>6 DEF RequestStep

LEMMA ActType ==
  ASSUME NEW w \in Sweepers, NEW s \in Sites, NEW to \in ConnectionStates,
         TypeOK, SweepAct(w, s, to)
  PROVE  TypeOK'
<1> USE DEF TypeOK, rowVars, codeVars, agentVars
<1>1. [sweep EXCEPT ![w].todo = @ \ {s}] \in [Sweepers -> SweepRuns]
  <2>1. [sweep[w] EXCEPT !.todo = @ \ {s}] \in SweepRuns
    BY DEF JobsOK, SweepRuns
  <2> QED
    BY <2>1 DEF JobsOK
<1>2. [pc |-> "heartbeat", site |-> s, key |-> NoKey] \in Requests
  BY DEF Requests, RequestPCs
<1>3. sweep' \in [Sweepers -> SweepRuns]
  BY <1>1, IdleType DEF SweepAct, JobsOK
<1>4. req' \in [Procs -> Requests]
  BY <1>2 DEF SweepAct, JobsOK, Procs
<1>5. RowsOK'
  BY MarkType DEF SweepAct, RowsOK
<1> QED
  BY <1>3, <1>4, <1>5 DEF SweepAct, CodesOK, AgentsOK, JobsOK

LEMMA SweepType ==
  ASSUME NEW w \in Sweepers, TypeOK, SweepStep(w) \/ SweepCrash(w)
  PROVE  TypeOK'
<1> USE DEF TypeOK, rowVars, codeVars, agentVars
<1>a. ASSUME sweep' \in [Sweepers -> SweepRuns], UNCHANGED <<rowVars, codeVars, agentVars, mint, req>>
      PROVE  TypeOK'
  BY <1>a DEF RowsOK, CodesOK, AgentsOK, JobsOK
<1>b. sweep[w] \in SweepRuns
  BY DEF JobsOK
<1>1. CASE SweepListToDisconnect(w)
  <2>1. [sweep[w] EXCEPT !.pc = "dialDisconnect", !.todo = OverdueToDisconnect] \in SweepRuns
    BY <1>b DEF SweepRuns, SweepPCs, OverdueToDisconnect
  <2>2. sweep' \in [Sweepers -> SweepRuns]
    BY <1>1, <2>1 DEF SweepListToDisconnect, JobsOK
  <2> QED
    BY <1>1, <2>2, <1>a DEF SweepListToDisconnect
<1>2. ASSUME NEW from, NEW to \in SweepPCs, NEW refs \in SUBSET Sites,
             ActiveVerifyBatch(w, from, to, refs)
      PROVE  TypeOK'
  <2>1. PICK todo \in SUBSET Sites, alive \in SUBSET Sites :
           sweep' = [sweep EXCEPT ![w] = [pc |-> to, todo |-> todo, alive |-> alive, crossed |-> {}]]
    BY <1>2 DEF ActiveVerifyBatch
  <2>2. [pc |-> to, todo |-> todo, alive |-> alive, crossed |-> {}] \in SweepRuns
    BY DEF SweepRuns
  <2>3. sweep' \in [Sweepers -> SweepRuns]
    BY <2>1, <2>2 DEF JobsOK
  <2> QED
    BY <1>2, <2>3, <1>a DEF ActiveVerifyBatch
<1>3. CASE SweepDialDisconnect(w)
  <2>1. sweep[w].todo \in SUBSET Sites /\ "disconnect" \in SweepPCs
    BY <1>b DEF SweepRuns, SweepPCs
  <2> QED
    BY <1>3, <1>2, <2>1 DEF SweepDialDisconnect
<1>4. ASSUME NEW s \in Sites, SweepDisconnect(w, s) \/ SweepDegrade(w, s) PROVE TypeOK'
  BY <1>4, ActType DEF SweepDisconnect, SweepDegrade, ConnectionStates
<1>5. CASE SweepListToDegrade(w)
  <2>1. [pc |-> "count", todo |-> OverdueToDegrade, alive |-> {}, crossed |-> {}] \in SweepRuns
    BY DEF SweepRuns, SweepPCs, OverdueToDegrade
  <2> QED
    BY <1>5, <2>1, <1>a DEF SweepListToDegrade, JobsOK
<1>6. ASSUME NEW s \in Sites, SweepCount(w, s) PROVE TypeOK'
  <2> DEFINE n == IF missed[s] < MissThreshold THEN missed[s] + 1 ELSE MissThreshold
             counted == [sweep[w] EXCEPT !.todo = @ \ {s},
                           !.crossed = IF n >= MissThreshold THEN @ \cup {s} ELSE @]
  <2>1. n \in 0..MissThreshold
    BY ConstantsAssumption DEF RowsOK
  <2>2. \/ missed' = [missed EXCEPT ![s] = n] /\ sweep' = [sweep EXCEPT ![w] = counted]
        \/ UNCHANGED missed /\ sweep' = [sweep EXCEPT ![w] = SweepIdle]
    BY <1>6 DEF SweepCount
  <2>3. counted \in SweepRuns
    BY <1>b DEF SweepRuns
  <2>4. sweep' \in [Sweepers -> SweepRuns]
    BY <2>2, <2>3, IdleType DEF JobsOK
  <2>5. missed' \in [Sites -> 0..MissThreshold]
    BY <2>1, <2>2 DEF RowsOK
  <2> QED
    BY <1>6, <2>4, <2>5 DEF SweepCount, RowsOK, CodesOK, AgentsOK, JobsOK
<1>7. CASE SweepDialDegrade(w)
  <2>1. sweep[w].crossed \in SUBSET Sites /\ "degrade" \in SweepPCs
    BY <1>b DEF SweepRuns, SweepPCs
  <2> QED
    BY <1>7, <1>2, <2>1 DEF SweepDialDegrade
<1>8. CASE SweepDone(w)
  BY <1>8, IdleType, <1>a DEF SweepDone, JobsOK
<1>9. CASE SweepCrash(w)
  BY <1>9, IdleType DEF SweepCrash, Procs, RowsOK, CodesOK, AgentsOK, JobsOK
<1> QED
  BY <1>1, <1>3, <1>4, <1>5, <1>6, <1>7, <1>8, <1>9 DEF SweepStep

LEMMA TypeInductive == TypeOK /\ [Next]_vars => TypeOK'
<1> SUFFICES ASSUME TypeOK, [Next]_vars PROVE TypeOK'
  OBVIOUS
<1> USE DEF TypeOK, RowsOK, CodesOK, AgentsOK, JobsOK, rowVars, codeVars, agentVars
<1>1. CASE Tick
  <2>1. age' \in [Sites -> 0..MaxAge]
    BY <1>1, ConstantsAssumption DEF Tick, MaxAge
  <2> QED
    BY <1>1, <2>1 DEF Tick
<1>2. CASE UNCHANGED vars
  BY <1>2 DEF vars
<1> QED
  BY <1>1, <1>2, OperatorType, AgentType, RequestType, SweepType DEF Next

\* Every row, code, agent and job keeps values the schema and the handlers'
\* variables can hold.
THEOREM TypeCorrect == Spec => []TypeOK
  BY TypeInit, TypeInductive, PTL DEF Spec

-----------------------------------------------------------------------------
(* A live site has an agent. *)

WithAgent == {s \in Sites : agentKey[s] # NoKey /\ enrolledGens[s] # {}}
Settled   == WithAgent \cup {s \in Sites : conn[s] = "deleted"}

\* The strengthening that makes LiveSiteHasAgent inductive.  A heartbeat may
\* recover a site two transactions after its key was looked up, and a recheck or
\* a sweep may start one from an answer of the agent alone, so whatever still
\* refers to a site as having an agent must be right about it, unless the site
\* has been deleted meanwhile: the agents themselves, requests in flight and
\* sites a sweep found alive.
AgentRefs ==
  /\ \A s \in Sites : agentKey[s] # NoKey => s \in WithAgent
  /\ \A k \in Keys : agentSite[k] \in Settled \cup {NoSite}
  /\ \A p \in Procs : req[p].pc # "idle" => req[p].site \in Settled
  /\ \A w \in Sweepers : sweep[w].alive \subseteq Settled

AgentInv == TypeOK /\ LiveSiteHasAgent /\ AgentRefs

LEMMA DegradeSource ==
  ASSUME NEW s, MayTransition(s, "degraded")
  PROVE  conn[s] \in {"connected", "degraded"}
  BY DEF MayTransition, Exists, ConnectionStates, CanTransition, legalTransitions

LEMMA AgentInit == Init => AgentInv
  BY TypeInit DEF Init, AgentInv, LiveSiteHasAgent, AgentRefs, Idle, SweepIdle

\* A row update that leaves the key and the history alone is harmless if the
\* site it makes live has an agent.
LEMMA AgentRowMove ==
  ASSUME AgentInv, NEW s \in Sites, NEW to,
         conn[s] # "deleted",
         to \in {"connected", "degraded"} => s \in WithAgent,
         conn' = [conn EXCEPT ![s] = to],
         UNCHANGED <<agentKey, enrolledGens>>
  PROVE  LiveSiteHasAgent' /\ WithAgent' = WithAgent /\ Settled \subseteq Settled'
  BY DEF AgentInv, TypeOK, RowsOK, LiveSiteHasAgent, WithAgent, Settled

\* After a step that keeps the rows, or moves one as above, AgentInv holds if
\* every new reference is to a settled site.
LEMMA AgentRefsKept ==
  ASSUME AgentInv, TypeOK', LiveSiteHasAgent',
         UNCHANGED agentKey, WithAgent' = WithAgent, Settled \subseteq Settled',
         \A k \in Keys : agentSite'[k] \in {NoSite, agentSite[k]},
         \A p \in Procs : \/ req'[p].pc = "idle"
                          \/ req[p].pc # "idle" /\ req'[p].site = req[p].site
                          \/ req'[p].site \in Settled,
         \A w \in Sweepers : sweep'[w].alive \subseteq sweep[w].alive \cup Settled
  PROVE  AgentInv'
<1>1. \A k \in Keys : agentSite'[k] \in Settled' \cup {NoSite}
  BY DEF AgentInv, AgentRefs
<1>2. \A p \in Procs : req'[p].pc # "idle" => req'[p].site \in Settled'
  BY DEF AgentInv, AgentRefs
<1>3. \A w \in Sweepers : sweep'[w].alive \subseteq Settled'
  BY DEF AgentInv, AgentRefs
<1> QED
  BY <1>1, <1>2, <1>3 DEF AgentInv, AgentRefs

LEMMA RowsKept ==
  ASSUME AgentInv, UNCHANGED <<conn, agentKey, enrolledGens>>
  PROVE  LiveSiteHasAgent' /\ WithAgent' = WithAgent /\ Settled \subseteq Settled'
  BY DEF AgentInv, LiveSiteHasAgent, WithAgent, Settled

LEMMA AgentOperator == ASSUME AgentInv, TypeOK', OperatorStep PROVE AgentInv'
<1> USE DEF rowVars, codeVars, agentVars
<1>a. ASSUME NEW s \in Sites, NEW to \in ConnectionStates \ {"connected", "degraded"},
             conn[s] # "deleted", conn' = [conn EXCEPT ![s] = to],
             UNCHANGED <<agentKey, enrolledGens, agentSite, req, sweep>>
      PROVE  AgentInv'
  BY <1>a, AgentRowMove, AgentRefsKept
<1>b. ASSUME UNCHANGED <<conn, agentKey, enrolledGens, agentSite, req, sweep>> PROVE AgentInv'
  BY <1>b, RowsKept, AgentRefsKept
<1>c. \A s \in Sites : Exists(s) => conn[s] # "deleted"
  BY DEF Exists, ConnectionStates
<1>1. ASSUME NEW o \in Operators, NEW s \in Sites, CreatePending(o, s) PROVE AgentInv'
  BY <1>1, <1>a DEF CreatePending, ConnectionStates
<1>2. ASSUME NEW o \in Operators, NEW s \in Sites, BeginReEnrollment(o, s) PROVE AgentInv'
  BY <1>2, <1>a, <1>b, <1>c DEF BeginReEnrollment, MayTransition, ConnectionStates
<1>3. ASSUME NEW o \in Operators, NEW c \in Codes, MintSiteBoundCode(o, c) PROVE AgentInv'
  BY <1>3, <1>b DEF MintSiteBoundCode
<1>4. ASSUME NEW o \in Operators, MintAbandoned(o) PROVE AgentInv'
  BY <1>4, <1>b DEF MintAbandoned
<1>5. ASSUME NEW s \in Sites, DeleteRow(s) PROVE AgentInv'
  <2>1. Settled \subseteq Settled'
    BY <1>5 DEF DeleteRow, WithAgent, Settled, AgentInv, TypeOK, RowsOK
  <2>2. LiveSiteHasAgent'
    BY <1>5 DEF DeleteRow, LiveSiteHasAgent, AgentInv, TypeOK, RowsOK
  <2>3. \A t \in Sites : agentKey'[t] # NoKey => t \in WithAgent'
    BY <1>5 DEF DeleteRow, WithAgent, AgentRefs, AgentInv, TypeOK, RowsOK
  <2> QED
    BY <1>5, <2>1, <2>2, <2>3 DEF DeleteRow, AgentRefs, AgentInv
<1>6. ASSUME NEW s \in Sites, CancelEnrollment(s) \/ Delete(s) PROVE AgentInv'
  BY <1>5, <1>6 DEF CancelEnrollment, Delete
<1>7. ASSUME NEW s \in Sites, Revoke(s) PROVE AgentInv'
  BY <1>7, <1>a, <1>c DEF Revoke, MarkSite, MayTransition, ConnectionStates
<1>8. ASSUME NEW s \in Sites, Archive(s) PROVE AgentInv'
  BY <1>8, <1>a, <1>c DEF Archive, MayTransition, ConnectionStates
<1>9. ASSUME NEW s \in Sites, Restore(s) PROVE AgentInv'
  BY <1>9, <1>a, <1>c DEF Restore, MayTransition, ConnectionStates
<1>10. ASSUME NEW s \in Sites, NEW p \in Workers, Recheck(p, s) PROVE AgentInv'
  <2>1. s \in Settled
    BY <1>10, ConstantsAssumption DEF Recheck, Reachable, AgentInv, AgentRefs, TypeOK, AgentsOK
  <2>2. \A q \in Procs : req'[q] = req[q] \/ req'[q].site = s
    BY <1>10 DEF Recheck, AgentInv, TypeOK, JobsOK
  <2> QED
    BY <1>10, <2>1, <2>2, RowsKept, AgentRefsKept DEF Recheck
<1> QED
  BY <1>1, <1>2, <1>3, <1>4, <1>6, <1>7, <1>8, <1>9, <1>10 DEF OperatorStep

LEMMA AgentAgent == ASSUME AgentInv, TypeOK', AgentStep PROVE AgentInv'
<1> USE DEF rowVars, codeVars, agentVars
<1>1. ASSUME NEW k \in Keys, NEW c \in Codes, ConsumeEnrollmentCode(k, c) PROVE AgentInv'
  <2> DEFINE s == codeSite[c]
  <2>1. s \in Sites /\ k # NoKey
    BY <1>1, ConstantsAssumption DEF ConsumeEnrollmentCode, AgentInv, TypeOK, CodesOK
  <2>2. WithAgent' = WithAgent \cup {s}
    <3>1. \A t \in Sites \ {s} : agentKey'[t] = agentKey[t] /\ enrolledGens'[t] = enrolledGens[t]
      BY <1>1, <2>1 DEF ConsumeEnrollmentCode, Attach, AgentInv, TypeOK, RowsOK
    <3>2. agentKey'[s] = k /\ generation[s] \in enrolledGens'[s]
      BY <1>1, <2>1 DEF ConsumeEnrollmentCode, Attach, AgentInv, TypeOK, RowsOK
    <3> QED
      BY <2>1, <3>1, <3>2 DEF WithAgent
  <2>3. LiveSiteHasAgent'
    BY <1>1, <2>1 DEF ConsumeEnrollmentCode, Attach, LiveSiteHasAgent, AgentInv, TypeOK, RowsOK
  <2>4. Settled \subseteq Settled' /\ s \in Settled'
    BY <1>1, <2>1, <2>2 DEF ConsumeEnrollmentCode, Attach, Settled, AgentInv, TypeOK, RowsOK
  <2>5. \A t \in Sites : agentKey'[t] # NoKey => t \in WithAgent'
    BY <1>1, <2>1, <2>2 DEF ConsumeEnrollmentCode, Attach, AgentRefs, AgentInv, TypeOK, RowsOK
  <2>6. \A j \in Keys : agentSite'[j] \in Settled' \cup {NoSite}
    BY <1>1, <2>1, <2>4 DEF ConsumeEnrollmentCode, Attach, AgentRefs, AgentInv, TypeOK, AgentsOK
  <2>7. UNCHANGED <<req, sweep>>
    BY <1>1 DEF ConsumeEnrollmentCode, Attach
  <2> QED
    BY <2>3, <2>4, <2>5, <2>6, <2>7 DEF AgentInv, AgentRefs
<1>2. ASSUME NEW k \in Keys, NEW p \in Workers, NEW s \in Sites,
             NEW kind \in {"heartbeat", "metadata", "lastwill"}, Authenticate(p, k, s, kind)
      PROVE  AgentInv'
  <2>1. s \in Settled
    BY <1>2, ConstantsAssumption DEF Authenticate, AgentInv, AgentRefs, Settled
  <2>2. \A q \in Procs : req'[q] = req[q] \/ req'[q].site = s
    BY <1>2 DEF Authenticate, AgentInv, TypeOK, JobsOK
  <2> QED
    BY <1>2, <2>1, <2>2, RowsKept, AgentRefsKept DEF Authenticate
<1>3. ASSUME NEW k \in Keys, WipeIdentity(k) PROVE AgentInv'
  <2>1. \A j \in Keys : agentSite'[j] \in {NoSite, agentSite[j]}
    BY <1>3 DEF WipeIdentity, AgentInv, TypeOK, AgentsOK
  <2> QED
    BY <1>3, <2>1, RowsKept, AgentRefsKept DEF WipeIdentity
<1>4. ASSUME NEW c \in Codes, ExpireCode(c) PROVE AgentInv'
  BY <1>4, RowsKept, AgentRefsKept DEF ExpireCode
<1> QED
  BY <1>1, <1>2, <1>3, <1>4 DEF AgentStep

LEMMA AgentRequest ==
  ASSUME AgentInv, TypeOK', NEW p \in Procs, RequestStep(p) \/ DropRequest(p)
  PROVE  AgentInv'
<1> USE DEF rowVars, codeVars, agentVars
<1>a. ASSUME NEW r, req' = [req EXCEPT ![p] = r],
             r.pc = "idle" \/ (req[p].pc # "idle" /\ r.site = req[p].site)
      PROVE  \A q \in Procs : \/ req'[q].pc = "idle"
                              \/ req[q].pc # "idle" /\ req'[q].site = req[q].site
                              \/ req'[q].site \in Settled
  <2>1. \A q \in Procs : req'[q] = req[q] \/ (q = p /\ req'[q] = r)
    BY <1>a DEF AgentInv, TypeOK, JobsOK
  <2> QED
    BY <1>a, <2>1 DEF AgentInv, AgentRefs
<1>b. Idle.pc = "idle"
  BY DEF Idle
<1>c. req[p].pc # "idle" => req[p].site \in Sites
  BY DEF AgentInv, TypeOK, JobsOK, Requests
<1>1. CASE ApplyAgentMetadata(p)
  BY <1>1, <1>a, <1>b, RowsKept, AgentRefsKept DEF ApplyAgentMetadata
<1>2. CASE RecordHeartbeat(p)
  <2>1. AfterTouch(req[p]).pc = "idle" \/ AfterTouch(req[p]).site = req[p].site
    BY <1>b DEF AfterTouch, AgentInv, TypeOK, JobsOK, Requests
  <2>2. PICK r : req' = [req EXCEPT ![p] = r] /\ (r.pc = "idle" \/ r.site = req[p].site)
    BY <1>2, <1>b, <2>1 DEF RecordHeartbeat
  <2> QED
    BY <1>2, <1>a, <2>2, RowsKept, AgentRefsKept DEF RecordHeartbeat
<1>3. CASE RecoverConnection(p)
  <2> DEFINE s == req[p].site
  <2>1. s \in Sites /\ s \in Settled
    BY <1>3, <1>c DEF RecoverConnection, AgentInv, AgentRefs
  <2>2. CASE MayTransition(s, "connected")
    <3>1. conn[s] # "deleted" /\ s \in WithAgent
      BY <2>1, <2>2 DEF MayTransition, Exists, ConnectionStates, Settled
    <3>2. LiveSiteHasAgent' /\ WithAgent' = WithAgent /\ Settled \subseteq Settled'
      BY <1>3, <2>1, <2>2, <3>1, AgentRowMove DEF RecoverConnection, MarkSiteConnected
    <3> QED
      BY <1>3, <1>a, <1>b, <2>2, <3>2, AgentRefsKept DEF RecoverConnection, MarkSiteConnected
  <2>3. CASE ~MayTransition(s, "connected")
    BY <1>3, <1>a, <1>b, <2>3, RowsKept, AgentRefsKept DEF RecoverConnection
  <2> QED
    BY <2>2, <2>3
<1>4. CASE RecordLastWill(p)
  <2> DEFINE s == req[p].site
  <2>1. s \in Sites
    BY <1>4, <1>c DEF RecordLastWill
  <2>2. CASE MayTransition(s, "disconnected")
    <3>1. conn[s] # "deleted"
      BY <2>2 DEF MayTransition, Exists, ConnectionStates
    <3>2. LiveSiteHasAgent' /\ WithAgent' = WithAgent /\ Settled \subseteq Settled'
      BY <1>4, <2>1, <2>2, <3>1, AgentRowMove DEF RecordLastWill, MarkSite
    <3> QED
      BY <1>4, <1>a, <1>b, <2>2, <3>2, AgentRefsKept DEF RecordLastWill, MarkSite
  <2>3. CASE ~MayTransition(s, "disconnected")
    BY <1>4, <1>a, <1>b, <2>3, RowsKept, AgentRefsKept DEF RecordLastWill
  <2> QED
    BY <2>2, <2>3
<1>5. CASE HandleInstructions(p)
  <2>1. \A j \in Keys : agentSite'[j] \in {NoSite, agentSite[j]}
    BY <1>5 DEF HandleInstructions, AgentInv, TypeOK, AgentsOK
  <2> QED
    BY <1>5, <1>a, <1>b, <2>1, RowsKept, AgentRefsKept DEF HandleInstructions
<1>6. CASE DropRequest(p)
  BY <1>6, <1>a, <1>b, RowsKept, AgentRefsKept DEF DropRequest
<1> QED
  BY <1>1, <1>2, <1>3, <1>4, <1>5, <1>6 DEF RequestStep

LEMMA AgentSweep ==
  ASSUME AgentInv, TypeOK', NEW w \in Sweepers, SweepStep(w) \/ SweepCrash(w)
  PROVE  AgentInv'
<1> USE DEF rowVars, codeVars, agentVars
<1>a. ASSUME NEW v, sweep' = [sweep EXCEPT ![w] = v], v.alive \subseteq sweep[w].alive \cup Settled
      PROVE  \A u \in Sweepers : sweep'[u].alive \subseteq sweep[u].alive \cup Settled
  <2>1. \A u \in Sweepers : sweep'[u] = sweep[u] \/ (u = w /\ sweep'[u] = v)
    BY <1>a DEF AgentInv, TypeOK, JobsOK
  <2> QED
    BY <1>a, <2>1
<1>b. SweepIdle.alive = {} /\ Idle.pc = "idle" /\ w \in Procs
  BY DEF SweepIdle, Idle, Procs
<1>c. sweep[w] \in SweepRuns
  BY DEF AgentInv, TypeOK, JobsOK
<1>1. CASE SweepListToDisconnect(w)
  <2> DEFINE v == [sweep[w] EXCEPT !.pc = "dialDisconnect", !.todo = OverdueToDisconnect]
  <2>1. sweep' = [sweep EXCEPT ![w] = v] /\ v.alive = sweep[w].alive
    BY <1>1, <1>c DEF SweepListToDisconnect, SweepRuns
  <2>2. \A u \in Sweepers : sweep'[u].alive \subseteq sweep[u].alive \cup Settled
    BY <2>1, <1>a
  <2> QED
    BY <1>1, <2>2, RowsKept, AgentRefsKept DEF SweepListToDisconnect
<1>2. ASSUME NEW from, NEW to, NEW refs \in SUBSET Sites, ActiveVerifyBatch(w, from, to, refs)
      PROVE  AgentInv'
  <2>1. {s \in Sites : Reachable(s)} \subseteq Settled
    BY ConstantsAssumption DEF Reachable, AgentInv, AgentRefs, TypeOK, AgentsOK
  <2>2. PICK todo \in SUBSET refs, alive \in SUBSET {s \in Sites : Reachable(s)} :
           sweep' = [sweep EXCEPT ![w] = [pc |-> to, todo |-> todo, alive |-> alive, crossed |-> {}]]
    BY <1>2 DEF ActiveVerifyBatch
  <2>3. alive \subseteq Settled
    BY <2>1, <2>2
  <2>4. \A u \in Sweepers : sweep'[u].alive \subseteq sweep[u].alive \cup Settled
    BY <2>2, <2>3, <1>a
  <2> QED
    BY <1>2, <2>4, RowsKept, AgentRefsKept DEF ActiveVerifyBatch
<1>3. CASE SweepDialDisconnect(w)
  BY <1>2, <1>3, <1>c DEF SweepDialDisconnect, SweepRuns
<1>4. ASSUME NEW s \in Sites, NEW to \in {"degraded", "disconnected"}, SweepAct(w, s, to)
      PROVE  AgentInv'
  <2>0. ASSUME sweep' = [sweep EXCEPT ![w].todo = @ \ {s}]
        PROVE  \A u \in Sweepers : sweep'[u].alive \subseteq sweep[u].alive \cup Settled
    <3>1. [sweep[w] EXCEPT !.todo = @ \ {s}].alive = sweep[w].alive
      BY <1>c DEF SweepRuns
    <3> QED
      BY <2>0, <3>1, <1>a
  <2>1. CASE /\ s \in sweep[w].alive
             /\ req' = [req EXCEPT ![w] = [pc |-> "heartbeat", site |-> s, key |-> NoKey]]
             /\ sweep' = [sweep EXCEPT ![w].todo = @ \ {s}]
             /\ UNCHANGED rowVars
    <3>1. s \in Settled
      BY <2>1 DEF AgentInv, AgentRefs
    <3>2. \A q \in Procs : req'[q] = req[q] \/ req'[q].site = s
      BY <2>1 DEF AgentInv, TypeOK, JobsOK
    <3> QED
      BY <1>4, <2>0, <2>1, <3>1, <3>2, RowsKept, AgentRefsKept DEF SweepAct
  <2>2. CASE /\ MarkSite(s, to)
             /\ sweep' = [sweep EXCEPT ![w].todo = @ \ {s}]
             /\ UNCHANGED req
    <3>1. conn[s] # "deleted" /\ (to = "degraded" => s \in WithAgent)
      BY <2>2, DegradeSource
      DEF MarkSite, MayTransition, Exists, ConnectionStates, AgentInv, LiveSiteHasAgent, WithAgent
    <3>2. LiveSiteHasAgent' /\ WithAgent' = WithAgent /\ Settled \subseteq Settled'
      BY <2>2, <3>1, AgentRowMove DEF MarkSite
    <3> QED
      BY <1>4, <2>0, <2>2, <3>2, AgentRefsKept DEF SweepAct, MarkSite
  <2>3. CASE /\ sweep' = [sweep EXCEPT ![w] = SweepIdle]
             /\ UNCHANGED <<rowVars, req>>
    BY <1>4, <1>a, <1>b, <2>3, RowsKept, AgentRefsKept DEF SweepAct
  <2> QED
    BY <1>4, <2>1, <2>2, <2>3 DEF SweepAct
<1>5. ASSUME NEW s \in Sites, SweepDisconnect(w, s) \/ SweepDegrade(w, s) PROVE AgentInv'
  BY <1>4, <1>5 DEF SweepDisconnect, SweepDegrade
<1>6. CASE SweepListToDegrade(w)
  BY <1>6, <1>a, RowsKept, AgentRefsKept DEF SweepListToDegrade
<1>7. ASSUME NEW s \in Sites, SweepCount(w, s) PROVE AgentInv'
  <2> DEFINE n == IF missed[s] < MissThreshold THEN missed[s] + 1 ELSE MissThreshold
             v == [sweep[w] EXCEPT !.todo = @ \ {s},
                     !.crossed = IF n >= MissThreshold THEN @ \cup {s} ELSE @]
  <2>2. v.alive = sweep[w].alive
    BY <1>c DEF SweepRuns
  <2>3. sweep' = [sweep EXCEPT ![w] = v] \/ sweep' = [sweep EXCEPT ![w] = SweepIdle]
    BY <1>7 DEF SweepCount
  <2>4. \A u \in Sweepers : sweep'[u].alive \subseteq sweep[u].alive \cup Settled
    BY <2>2, <2>3, <1>a, <1>b
  <2> QED
    BY <1>7, <2>4, RowsKept, AgentRefsKept DEF SweepCount
<1>8. CASE SweepDialDegrade(w)
  BY <1>2, <1>8, <1>c DEF SweepDialDegrade, SweepRuns
<1>9. CASE SweepDone(w)
  BY <1>9, <1>a, <1>b, RowsKept, AgentRefsKept DEF SweepDone
<1>10. CASE SweepCrash(w)
  <2>1. \A q \in Procs : req'[q] = req[q] \/ req'[q].pc = "idle"
    BY <1>10, <1>b DEF SweepCrash, AgentInv, TypeOK, JobsOK
  <2>2. \A q \in Procs : \/ req'[q].pc = "idle"
                         \/ req[q].pc # "idle" /\ req'[q].site = req[q].site
    BY <2>1
  <2> QED
    BY <1>10, <1>a, <1>b, <2>2, RowsKept, AgentRefsKept DEF SweepCrash
<1> QED
  BY <1>1, <1>3, <1>5, <1>6, <1>7, <1>8, <1>9, <1>10 DEF SweepStep

LEMMA AgentInductive == AgentInv /\ [Next]_vars => AgentInv'
<1> SUFFICES ASSUME AgentInv, [Next]_vars PROVE AgentInv'
  OBVIOUS
<1>a. TypeOK'
  BY TypeInductive DEF AgentInv
<1>1. CASE Tick \/ UNCHANGED vars
  BY <1>1, <1>a, RowsKept, AgentRefsKept DEF Tick, vars, rowVars, codeVars, agentVars
<1> QED
  BY <1>a, <1>1, AgentOperator, AgentAgent, AgentRequest, AgentSweep DEF Next

\* A connected or degraded site has an agent key and an enrollment behind it,
\* whatever heartbeats, rechecks, sweeps and re-enrollments interleave.
THEOREM LiveSitesHaveAgents == Spec => []LiveSiteHasAgent
<1>1. AgentInv => LiveSiteHasAgent
  BY DEF AgentInv
<1> QED
  BY <1>1, AgentInit, AgentInductive, PTL DEF Spec

-----------------------------------------------------------------------------
(* What requests and sweeps do to the rows, whatever they are about: at most  *)
(* one legal move to connected, degraded or disconnected.                     *)

LiveMove ==
  /\ UNCHANGED <<generation, agentKey, enrolledGens, codeVars>>
  /\ \/ UNCHANGED conn
     \/ \E s \in Sites, to \in {"connected", "degraded", "disconnected"} :
          MayTransition(s, to) /\ conn' = [conn EXCEPT ![s] = to]

LEMMA RequestMoves ==
  ASSUME TypeOK, NEW p \in Procs, RequestStep(p) \/ DropRequest(p)
  PROVE  LiveMove
<1> USE DEF rowVars, LiveMove
<1>a. req[p].pc # "idle" => req[p].site \in Sites
  BY DEF TypeOK, JobsOK, Requests
<1>1. CASE ApplyAgentMetadata(p)
  BY <1>1 DEF ApplyAgentMetadata
<1>2. CASE RecordHeartbeat(p)
  BY <1>2 DEF RecordHeartbeat
<1>3. CASE RecoverConnection(p)
  BY <1>3, <1>a DEF RecoverConnection, MarkSiteConnected
<1>4. CASE RecordLastWill(p)
  BY <1>4, <1>a DEF RecordLastWill, MarkSite
<1>5. CASE HandleInstructions(p) \/ DropRequest(p)
  BY <1>5 DEF HandleInstructions, DropRequest
<1> QED
  BY <1>1, <1>2, <1>3, <1>4, <1>5 DEF RequestStep

LEMMA SweepMoves ==
  ASSUME NEW w \in Sweepers, SweepStep(w) \/ SweepCrash(w)
  PROVE  LiveMove
<1> USE DEF rowVars, LiveMove
<1>1. ASSUME NEW s \in Sites, NEW to \in {"degraded", "disconnected"}, SweepAct(w, s, to)
      PROVE  LiveMove
  BY <1>1 DEF SweepAct, MarkSite
<1>2. ASSUME NEW s \in Sites, SweepDisconnect(w, s) \/ SweepDegrade(w, s) PROVE LiveMove
  BY <1>1, <1>2 DEF SweepDisconnect, SweepDegrade
<1>3. ASSUME NEW s \in Sites, SweepCount(w, s) PROVE LiveMove
  BY <1>3 DEF SweepCount
<1>4. CASE SweepListToDisconnect(w) \/ SweepListToDegrade(w) \/ SweepDone(w) \/ SweepCrash(w)
  BY <1>4 DEF SweepListToDisconnect, SweepListToDegrade, SweepDone, SweepCrash
<1>5. CASE SweepDialDisconnect(w) \/ SweepDialDegrade(w)
  BY <1>5 DEF SweepDialDisconnect, SweepDialDegrade, ActiveVerifyBatch
<1> QED
  BY <1>2, <1>3, <1>4, <1>5 DEF SweepStep

LEMMA QuietMoves == ASSUME Tick \/ UNCHANGED vars PROVE LiveMove
  BY DEF Tick, vars, rowVars, LiveMove

LEMMA EnrollMove ==
  ASSUME TypeOK, NEW k \in Keys, NEW c \in Codes, ConsumeEnrollmentCode(k, c)
  PROVE  codeSite[c] \in Sites /\ MayTransition(codeSite[c], "connected")
  BY DEF ConsumeEnrollmentCode, TypeOK, CodesOK, MayTransition, Exists, ConnectionStates,
         CanTransition, legalTransitions

-----------------------------------------------------------------------------
(* The transition table and the site cap. *)

\* A step of the connection_state of one row.
ConnMove ==
  \E s \in Sites, to \in ConnectionStates \cup {"deleted"} :
    /\ conn' = [conn EXCEPT ![s] = to]
    /\ \/ conn[s] = "none" /\ to = "pending_enrollment" /\ CheckSiteCreate
       \/ Exists(s) /\ to = "deleted"
       \/ MayTransition(s, to)

LEMMA StepMovesOneRow == TypeOK /\ [Next]_vars => ConnMove \/ UNCHANGED conn
<1> SUFFICES ASSUME TypeOK, [Next]_vars PROVE ConnMove \/ UNCHANGED conn
  OBVIOUS
<1> USE DEF rowVars
<1>1. LiveMove => ConnMove \/ UNCHANGED conn
  BY DEF LiveMove, ConnMove, ConnectionStates
<1>2. ASSUME NEW o \in Operators, NEW s \in Sites, CreatePending(o, s) \/ BeginReEnrollment(o, s)
      PROVE  ConnMove \/ UNCHANGED conn
  BY <1>2 DEF CreatePending, BeginReEnrollment, ConnMove, ConnectionStates
<1>3. ASSUME NEW o \in Operators, NEW c \in Codes, MintSiteBoundCode(o, c)
      PROVE  UNCHANGED conn
  BY <1>3 DEF MintSiteBoundCode
<1>4. ASSUME NEW o \in Operators, MintAbandoned(o) PROVE UNCHANGED conn
  BY <1>4 DEF MintAbandoned
<1>5. ASSUME NEW s \in Sites, CancelEnrollment(s) \/ Delete(s) PROVE ConnMove
  BY <1>5 DEF CancelEnrollment, Delete, DeleteRow, ConnMove, Exists, ConnectionStates
<1>6. ASSUME NEW s \in Sites, Revoke(s) \/ Archive(s) \/ Restore(s) PROVE ConnMove
  BY <1>6 DEF Revoke, MarkSite, Archive, Restore, ConnMove, ConnectionStates
<1>7. ASSUME NEW s \in Sites, NEW p \in Workers, Recheck(p, s) PROVE UNCHANGED conn
  BY <1>7 DEF Recheck
<1>8. OperatorStep => ConnMove \/ UNCHANGED conn
  BY <1>2, <1>3, <1>4, <1>5, <1>6, <1>7 DEF OperatorStep
<1>9. ASSUME NEW k \in Keys, NEW c \in Codes, ConsumeEnrollmentCode(k, c) PROVE ConnMove
  BY <1>9, EnrollMove DEF ConsumeEnrollmentCode, Attach, ConnMove, ConnectionStates
<1>10. AgentStep => ConnMove \/ UNCHANGED conn
  BY <1>9 DEF AgentStep, Authenticate, WipeIdentity, ExpireCode
<1> QED
  BY <1>1, <1>8, <1>10, RequestMoves, SweepMoves, QuietMoves DEF Next

\* No writer of connection_state, enrollment included, moves a site along an edge
\* the transition table does not have.
THEOREM OnlyLegalMoves == Spec => LegalMovesOnly
<1>1. TypeOK /\ [Next]_vars =>
        [\A s \in Sites : Exists(s) /\ conn'[s] # "deleted" => CanTransition(conn[s], conn'[s])]_conn
  <2> SUFFICES ASSUME TypeOK, [Next]_vars, conn' # conn, NEW s \in Sites, Exists(s), conn'[s] # "deleted"
               PROVE  CanTransition(conn[s], conn'[s])
    OBVIOUS
  <2>1. PICK t \in Sites, to \in ConnectionStates \cup {"deleted"} :
          /\ conn' = [conn EXCEPT ![t] = to]
          /\ \/ conn[t] = "none"
             \/ Exists(t) /\ to = "deleted"
             \/ MayTransition(t, to)
    BY StepMovesOneRow DEF ConnMove
  <2>2. CASE s # t
    BY <2>1, <2>2 DEF TypeOK, RowsOK, CanTransition
  <2>3. CASE s = t
    BY <2>1, <2>3 DEF TypeOK, RowsOK, Exists, ConnectionStates, MayTransition
  <2> QED
    BY <2>2, <2>3
<1> QED
  BY <1>1, TypeCorrect, PTL DEF Spec, LegalMovesOnly

LEMMA CapInit == Init => SiteCapHolds
<1> SUFFICES ASSUME Init PROVE SiteCapHolds
  OBVIOUS
<1>1. ActiveSites = {}
  BY DEF Init, ActiveSites, Exists, ConnectionStates
<1> QED
  BY <1>1, FS_EmptySet, ConstantsAssumption DEF SiteCapHolds

LEMMA CapInductive == TypeOK /\ SiteCapHolds /\ [Next]_vars => SiteCapHolds'
<1> SUFFICES ASSUME TypeOK, SiteCapHolds, [Next]_vars PROVE SiteCapHolds'
  OBVIOUS
<1>a. IsFiniteSet(ActiveSites) /\ Cardinality(ActiveSites) \in Nat
  <2>1. ActiveSites \in SUBSET Sites
    BY DEF ActiveSites
  <2>2. IsFiniteSet(ActiveSites)
    BY <2>1, FiniteAssumption, FS_Subset
  <2> QED
    BY <2>2, FS_CardinalityType
<1>1. CASE UNCHANGED conn
  BY <1>1 DEF SiteCapHolds, ActiveSites, Exists
<1>2. CASE ConnMove
  <2>1. PICK s \in Sites, to \in ConnectionStates \cup {"deleted"} :
          /\ conn' = [conn EXCEPT ![s] = to]
          /\ \/ conn[s] = "none" /\ to = "pending_enrollment" /\ CheckSiteCreate
             \/ Exists(s) /\ to = "deleted"
             \/ MayTransition(s, to)
    BY <1>2 DEF ConnMove
  <2>2. CASE s \in ActiveSites \/ to \in {"archived", "deleted"}
    <3>1. ActiveSites' \in SUBSET ActiveSites
      BY <2>1, <2>2 DEF ActiveSites, Exists, ConnectionStates, TypeOK, RowsOK
    <3>2. IsFiniteSet(ActiveSites') /\ Cardinality(ActiveSites') <= Cardinality(ActiveSites)
      BY <3>1, <1>a, FS_Subset
    <3>3. Cardinality(ActiveSites') \in Nat
      BY <3>2, FS_CardinalityType
    <3> QED
      BY <1>a, <3>2, <3>3, ConstantsAssumption DEF SiteCapHolds
  <2>3. CASE s \notin ActiveSites /\ to \notin {"archived", "deleted"}
    <3>1. ActiveSites' = ActiveSites \cup {s}
      BY <2>1, <2>3 DEF ActiveSites, Exists, ConnectionStates, TypeOK, RowsOK
    <3>2. CheckSiteCreate
      BY <2>1, <2>3 DEF MayTransition, Exists, ActiveSites, ConnectionStates
    <3>3. Cardinality(ActiveSites') = Cardinality(ActiveSites) + 1
      BY <3>1, <1>a, <2>3, FS_AddElement
    <3> QED
      BY <1>a, <3>2, <3>3, ConstantsAssumption DEF SiteCapHolds, CheckSiteCreate
  <2> QED
    BY <2>2, <2>3
<1> QED
  BY <1>1, <1>2, StepMovesOneRow

\* The tenant never has more non-archived sites than its cap, whoever takes sites
\* out of the archive and however many do it at once.
THEOREM SiteCapIsKept == Spec => []SiteCapHolds
  BY CapInit, CapInductive, TypeCorrect, PTL DEF Spec

-----------------------------------------------------------------------------
(* One enrollment per generation. *)

\* The strengthening that makes OneEnrollmentPerGeneration inductive: a pending
\* site's generation has no enrollment yet, because every way back to pending
\* takes the next generation, and codes and mints name sites whose row exists
\* or existed.
EnrollmentRefs ==
  /\ \A s \in Sites : \A g \in enrolledGens[s] : g <= generation[s]
  /\ \A s \in Sites : conn[s] = "pending_enrollment" => generation[s] \notin enrolledGens[s]
  /\ \A s \in Sites : conn[s] \in {"none", "deleted"} => enrolledGens[s] = {}
  /\ \A c \in Codes : codeStatus[c] \in {"live", "consumed"} => Exists(codeSite[c])

EnrollmentInv == TypeOK /\ OneEnrollmentPerGeneration /\ EnrollmentRefs

LEMMA EnrollmentInit == Init => EnrollmentInv
<1> SUFFICES ASSUME Init PROVE EnrollmentInv
  OBVIOUS
<1>1. \A s \in Sites : ConsumedCodes(s) = {} /\ enrolledGens[s] = {}
  BY DEF Init, ConsumedCodes
<1>2. OneEnrollmentPerGeneration
  BY <1>1 DEF OneEnrollmentPerGeneration
<1> QED
  BY <1>1, <1>2, TypeInit DEF Init, EnrollmentInv, EnrollmentRefs

\* A step that neither enrolls nor deletes.
LEMMA EnrollmentKept ==
  ASSUME EnrollmentInv, TypeOK', UNCHANGED enrolledGens,
         \A s \in Sites : ConsumedCodes(s)' = ConsumedCodes(s),
         \A s \in Sites : generation[s] <= generation'[s],
         \A s \in Sites : conn'[s] \in {"none", "deleted"} => conn[s] \in {"none", "deleted"},
         \A s \in Sites : conn'[s] = "pending_enrollment" =>
                           \/ conn[s] \in {"none", "pending_enrollment"} /\ generation'[s] = generation[s]
                           \/ generation[s] < generation'[s],
         \A c \in Codes : codeStatus'[c] \in {"live", "consumed"} =>
                           conn'[codeSite'[c]] \in ConnectionStates
  PROVE  EnrollmentInv'
<1> USE DEF EnrollmentInv
<1>1. OneEnrollmentPerGeneration'
  BY DEF OneEnrollmentPerGeneration
<1>2. ASSUME NEW s \in Sites
      PROVE  /\ \A g \in enrolledGens'[s] : g <= generation'[s]
             /\ conn'[s] = "pending_enrollment" => generation'[s] \notin enrolledGens'[s]
             /\ conn'[s] \in {"none", "deleted"} => enrolledGens'[s] = {}
  <2>1. generation[s] \in Nat /\ generation'[s] \in Nat /\ enrolledGens[s] \subseteq Nat
    BY ConstantsAssumption DEF TypeOK, RowsOK
  <2>2. /\ \A g \in enrolledGens[s] : g <= generation[s]
        /\ conn[s] = "pending_enrollment" => generation[s] \notin enrolledGens[s]
        /\ conn[s] \in {"none", "deleted"} => enrolledGens[s] = {}
    BY DEF EnrollmentRefs
  <2>3. generation[s] <= generation'[s]
    OBVIOUS
  <2>4. \A g \in enrolledGens'[s] : g <= generation'[s]
    BY <2>1, <2>2, <2>3
  <2>5. conn'[s] = "pending_enrollment" => generation'[s] \notin enrolledGens'[s]
    BY <2>1, <2>2
  <2> QED
    BY <2>2, <2>4, <2>5
<1>3. (\A c \in Codes : codeStatus[c] \in {"live", "consumed"} => Exists(codeSite[c]))'
  BY DEF Exists
<1> QED
  BY <1>1, <1>2, <1>3 DEF EnrollmentRefs

\* The codes' side of EnrollmentKept when no code changes.
LEMMA EnrollmentCodes ==
  ASSUME EnrollmentInv, UNCHANGED codeVars,
         \A s \in Sites : conn[s] \in ConnectionStates => conn'[s] \in ConnectionStates
  PROVE  /\ \A s \in Sites : ConsumedCodes(s)' = ConsumedCodes(s)
         /\ \A c \in Codes : codeStatus'[c] \in {"live", "consumed"} =>
                              conn'[codeSite'[c]] \in ConnectionStates
<1>1. \A c \in Codes : codeStatus[c] \in {"live", "consumed"} =>
                       codeSite[c] \in Sites /\ conn[codeSite[c]] \in ConnectionStates
  BY DEF EnrollmentInv, EnrollmentRefs, TypeOK, CodesOK, Exists
<1>2. UNCHANGED <<codeSite, codeStatus>>
  BY DEF codeVars
<1> QED
  BY <1>1, <1>2 DEF ConsumedCodes

\* A step that changes neither code nor generation and takes no site to pending.
LEMMA EnrollmentStay ==
  ASSUME EnrollmentInv, TypeOK', UNCHANGED <<generation, enrolledGens, codeVars>>,
         \A s \in Sites : /\ Exists(s) => conn'[s] \in ConnectionStates
                          /\ conn'[s] \in {"none", "deleted"} => conn[s] \in {"none", "deleted"}
                          /\ conn'[s] = "pending_enrollment" => conn[s] = "pending_enrollment"
  PROVE  EnrollmentInv'
<1>1. \A s \in Sites : generation[s] <= generation'[s]
  BY ConstantsAssumption DEF EnrollmentInv, TypeOK, RowsOK
<1>2. \A s \in Sites : conn[s] \in ConnectionStates => conn'[s] \in ConnectionStates
  BY DEF Exists
<1> QED
  BY <1>1, <1>2, EnrollmentCodes, EnrollmentKept

LEMMA EnrollmentLiveMove ==
  ASSUME EnrollmentInv, TypeOK', LiveMove
  PROVE  EnrollmentInv'
<1>1. \A s \in Sites : conn'[s] = conn[s] \/ conn'[s] \in {"connected", "degraded", "disconnected"}
  BY DEF LiveMove, EnrollmentInv, TypeOK, RowsOK
<1>2. \A s \in Sites : /\ Exists(s) => conn'[s] \in ConnectionStates
                       /\ conn'[s] \in {"none", "deleted"} => conn[s] \in {"none", "deleted"}
                       /\ conn'[s] = "pending_enrollment" => conn[s] = "pending_enrollment"
  BY <1>1 DEF Exists, ConnectionStates
<1> QED
  BY <1>2, EnrollmentStay DEF LiveMove

LEMMA EnrollmentDelete ==
  ASSUME EnrollmentInv, TypeOK', NEW s \in Sites, DeleteRow(s)
  PROVE  EnrollmentInv'
<1> USE DEF EnrollmentInv, TypeOK, RowsOK, CodesOK
<1>1. ConsumedCodes(s)' = {} /\ enrolledGens'[s] = {}
  BY DEF DeleteRow, ConsumedCodes
<1>2. \A t \in Sites \ {s} : ConsumedCodes(t)' = ConsumedCodes(t) /\ enrolledGens'[t] = enrolledGens[t]
  BY DEF DeleteRow, ConsumedCodes
<1>3. OneEnrollmentPerGeneration'
  BY <1>1, <1>2 DEF OneEnrollmentPerGeneration
<1>4. EnrollmentRefs'
  <2>1. \A t \in Sites \ {s} : conn'[t] = conn[t] /\ generation'[t] = generation[t]
    BY DEF DeleteRow
  <2>2. conn'[s] = "deleted"
    BY DEF DeleteRow
  <2>3. (\A c \in Codes : codeStatus[c] \in {"live", "consumed"} => Exists(codeSite[c]))'
    BY <2>1 DEF DeleteRow, EnrollmentRefs, Exists
  <2> QED
    BY <1>1, <1>2, <2>1, <2>2, <2>3 DEF EnrollmentRefs
<1> QED
  BY <1>3, <1>4

LEMMA EnrollmentConsume ==
  ASSUME EnrollmentInv, TypeOK', NEW k \in Keys, NEW c \in Codes, ConsumeEnrollmentCode(k, c)
  PROVE  EnrollmentInv'
<1> USE DEF EnrollmentInv, TypeOK, RowsOK, CodesOK
<1>1. PICK s \in Sites, g \in 0..MaxGeneration :
        /\ s = codeSite[c] /\ g = generation[s]
        /\ conn[s] = "pending_enrollment" /\ codeStatus[c] = "live"
  BY DEF ConsumeEnrollmentCode
<1>2. /\ g \notin enrolledGens[s] /\ c \notin ConsumedCodes(s)
      /\ IsFiniteSet(enrolledGens[s]) /\ IsFiniteSet(ConsumedCodes(s))
  <2>0. IsFiniteSet(0..MaxGeneration)
    <3>1. 0 \in Int /\ MaxGeneration \in Int
      BY ConstantsAssumption
    <3> HIDE DEF EnrollmentInv, TypeOK, RowsOK, CodesOK
    <3> QED
      BY <3>1, FS_Interval
  <2>1. enrolledGens[s] \in SUBSET (0..MaxGeneration)
    BY <1>1
  <2>2. ConsumedCodes(s) \in SUBSET Codes
    BY DEF ConsumedCodes
  <2>3. IsFiniteSet(enrolledGens[s])
    BY <2>0, <2>1, FS_Subset
  <2>4. IsFiniteSet(ConsumedCodes(s))
    BY <2>2, FiniteAssumption, FS_Subset
  <2> QED
    BY <1>1, <2>3, <2>4 DEF EnrollmentRefs, ConsumedCodes
<1>3. ConsumedCodes(s)' = ConsumedCodes(s) \cup {c} /\ enrolledGens'[s] = enrolledGens[s] \cup {g}
  BY <1>1 DEF ConsumeEnrollmentCode, Attach, ConsumedCodes
<1>4. \A t \in Sites \ {s} : ConsumedCodes(t)' = ConsumedCodes(t) /\ enrolledGens'[t] = enrolledGens[t]
  BY <1>1 DEF ConsumeEnrollmentCode, Attach, ConsumedCodes
<1>5. Cardinality(ConsumedCodes(s)') = Cardinality(enrolledGens'[s])
  <2>1. Cardinality(ConsumedCodes(s) \cup {c}) = Cardinality(ConsumedCodes(s)) + 1
    BY <1>2, FS_AddElement
  <2>2. Cardinality(enrolledGens[s] \cup {g}) = Cardinality(enrolledGens[s]) + 1
    BY <1>2, FS_AddElement
  <2> QED
    BY <1>1, <1>3, <2>1, <2>2 DEF OneEnrollmentPerGeneration
<1>6. OneEnrollmentPerGeneration'
  BY <1>4, <1>5 DEF OneEnrollmentPerGeneration
<1>7. EnrollmentRefs'
  <2>1. conn' = [conn EXCEPT ![s] = "connected"] /\ UNCHANGED <<generation, codeSite>>
        /\ codeStatus' = [codeStatus EXCEPT ![c] = "consumed"]
    BY <1>1 DEF ConsumeEnrollmentCode, Attach
  <2>2. \A t \in Sites : \A h \in enrolledGens'[t] : h <= generation'[t]
    <3>1. g <= g /\ generation'[s] = g
      BY <1>1, <2>1, ConstantsAssumption
    <3>2. \A t \in Sites : \A h \in enrolledGens[t] : h <= generation'[t]
      BY <2>1 DEF EnrollmentRefs
    <3> HIDE DEF EnrollmentInv, TypeOK, RowsOK, CodesOK
    <3> QED
      BY <1>3, <1>4, <3>1, <3>2
  <2>3. \A t \in Sites : /\ conn'[t] = "pending_enrollment" => generation'[t] \notin enrolledGens'[t]
                         /\ conn'[t] \in {"none", "deleted"} => enrolledGens'[t] = {}
    BY <2>1, <1>1, <1>4 DEF EnrollmentRefs
  <2>4. (\A d \in Codes : codeStatus[d] \in {"live", "consumed"} => Exists(codeSite[d]))'
    BY <2>1, <1>1 DEF EnrollmentRefs, Exists, ConnectionStates
  <2> HIDE DEF EnrollmentInv, TypeOK, RowsOK, CodesOK
  <2> QED
    BY <2>2, <2>3, <2>4 DEF EnrollmentRefs, Exists
<1> QED
  BY <1>6, <1>7

LEMMA EnrollmentOperator == ASSUME EnrollmentInv, TypeOK', OperatorStep PROVE EnrollmentInv'
<1> USE DEF rowVars, codeVars
<1>a. ASSUME NEW s \in Sites, NEW to \in ConnectionStates \ {"pending_enrollment"},
             Exists(s), conn' = [conn EXCEPT ![s] = to],
             UNCHANGED <<generation, enrolledGens, codeVars>>
      PROVE  EnrollmentInv'
  <2>1. \A t \in Sites : /\ Exists(t) => conn'[t] \in ConnectionStates
                         /\ conn'[t] \in {"none", "deleted"} => conn[t] \in {"none", "deleted"}
                         /\ conn'[t] = "pending_enrollment" => conn[t] = "pending_enrollment"
    BY <1>a DEF EnrollmentInv, TypeOK, RowsOK, Exists, ConnectionStates
  <2> QED
    BY <1>a, <2>1, EnrollmentStay
<1>b. ASSUME UNCHANGED <<conn, generation, enrolledGens, codeVars>> PROVE EnrollmentInv'
  BY <1>b, EnrollmentStay DEF Exists
<1>1. ASSUME NEW o \in Operators, NEW s \in Sites, CreatePending(o, s) PROVE EnrollmentInv'
  <2>1. \A t \in Sites : /\ generation'[t] = generation[t] /\ generation[t] \in Nat
                         /\ conn[t] \in ConnectionStates => conn'[t] \in ConnectionStates
                         /\ conn'[t] \in {"none", "deleted"} => conn[t] \in {"none", "deleted"}
                         /\ conn'[t] = "pending_enrollment" => conn[t] \in {"none", "pending_enrollment"}
    BY <1>1, ConstantsAssumption
    DEF CreatePending, EnrollmentInv, TypeOK, RowsOK, ConnectionStates
  <2>2. \A t \in Sites : generation[t] <= generation'[t]
    BY <2>1
  <2> QED
    BY <1>1, <2>1, <2>2, EnrollmentKept, EnrollmentCodes DEF CreatePending
<1>2. ASSUME NEW o \in Operators, NEW s \in Sites, BeginReEnrollment(o, s) PROVE EnrollmentInv'
  <2>1. CASE conn[s] = "pending_enrollment"
    BY <1>2, <1>b, <2>1 DEF BeginReEnrollment
  <2>2. CASE conn[s] # "pending_enrollment"
    <3>1. Exists(s) /\ conn' = [conn EXCEPT ![s] = "pending_enrollment"]
          /\ generation' = [generation EXCEPT ![s] = @ + 1]
      BY <1>2, <2>2 DEF BeginReEnrollment, MayTransition
    <3>2. \A t \in Sites : generation[t] <= generation'[t] /\ (t = s => generation[t] < generation'[t])
      <4>1. \A t \in Sites : generation[t] \in Nat
        BY ConstantsAssumption DEF EnrollmentInv, TypeOK, RowsOK
      <4> QED
        BY <3>1, <4>1 DEF EnrollmentInv, TypeOK, RowsOK
    <3>3. \A t \in Sites : /\ conn[t] \in ConnectionStates => conn'[t] \in ConnectionStates
                           /\ conn'[t] \in {"none", "deleted"} => conn[t] \in {"none", "deleted"}
                           /\ t # s => conn'[t] = conn[t] /\ generation'[t] = generation[t]
      BY <3>1 DEF EnrollmentInv, TypeOK, RowsOK, ConnectionStates
    <3> QED
      BY <1>2, <3>2, <3>3, EnrollmentKept, EnrollmentCodes DEF BeginReEnrollment
  <2> QED
    BY <2>1, <2>2
<1>3. ASSUME NEW o \in Operators, NEW c \in Codes, MintSiteBoundCode(o, c) PROVE EnrollmentInv'
  <2>1. \A s \in Sites : ConsumedCodes(s)' = ConsumedCodes(s)
    BY <1>3 DEF MintSiteBoundCode, ConsumedCodes, EnrollmentInv, TypeOK, CodesOK
  <2>2. \A d \in Codes : codeStatus'[d] \in {"live", "consumed"} => conn'[codeSite'[d]] \in ConnectionStates
    BY <1>3 DEF MintSiteBoundCode, EnrollmentInv, EnrollmentRefs, TypeOK, CodesOK, Exists
  <2>3. \A t \in Sites : generation[t] <= generation'[t]
    BY <1>3, ConstantsAssumption DEF MintSiteBoundCode, EnrollmentInv, TypeOK, RowsOK
  <2> QED
    BY <1>3, <2>1, <2>2, <2>3, EnrollmentKept DEF MintSiteBoundCode
<1>4. ASSUME NEW o \in Operators, MintAbandoned(o) PROVE EnrollmentInv'
  BY <1>4, <1>b DEF MintAbandoned
<1>5. ASSUME NEW s \in Sites, CancelEnrollment(s) \/ Delete(s) PROVE EnrollmentInv'
  BY <1>5, EnrollmentDelete DEF CancelEnrollment, Delete
<1>6. ASSUME NEW s \in Sites, Revoke(s) \/ Archive(s) \/ Restore(s) PROVE EnrollmentInv'
  BY <1>6, <1>a DEF Revoke, MarkSite, Archive, Restore, MayTransition, ConnectionStates
<1>7. ASSUME NEW s \in Sites, NEW p \in Workers, Recheck(p, s) PROVE EnrollmentInv'
  BY <1>7, <1>b DEF Recheck
<1> QED
  BY <1>1, <1>2, <1>3, <1>4, <1>5, <1>6, <1>7 DEF OperatorStep

LEMMA EnrollmentAgent == ASSUME EnrollmentInv, TypeOK', AgentStep PROVE EnrollmentInv'
<1> USE DEF rowVars, codeVars
<1>1. ASSUME NEW k \in Keys, NEW p \in Workers, NEW s \in Sites, NEW kind, Authenticate(p, k, s, kind)
      PROVE  EnrollmentInv'
  BY <1>1, EnrollmentStay DEF Authenticate, Exists
<1>2. ASSUME NEW k \in Keys, WipeIdentity(k) PROVE EnrollmentInv'
  BY <1>2, EnrollmentStay DEF WipeIdentity, Exists
<1>3. ASSUME NEW c \in Codes, ExpireCode(c) PROVE EnrollmentInv'
  <2>1. \A s \in Sites : ConsumedCodes(s)' = ConsumedCodes(s)
    BY <1>3 DEF ExpireCode, ConsumedCodes, EnrollmentInv, TypeOK, CodesOK
  <2>2. \A d \in Codes : codeStatus'[d] \in {"live", "consumed"} => conn'[codeSite'[d]] \in ConnectionStates
    BY <1>3 DEF ExpireCode, EnrollmentInv, EnrollmentRefs, TypeOK, CodesOK, Exists
  <2>3. \A t \in Sites : generation[t] <= generation'[t]
    BY <1>3, ConstantsAssumption DEF ExpireCode, EnrollmentInv, TypeOK, RowsOK
  <2> QED
    BY <1>3, <2>1, <2>2, <2>3, EnrollmentKept DEF ExpireCode
<1> QED
  BY <1>1, <1>2, <1>3, EnrollmentConsume DEF AgentStep

LEMMA EnrollmentInductive == EnrollmentInv /\ [Next]_vars => EnrollmentInv'
<1> SUFFICES ASSUME EnrollmentInv, [Next]_vars PROVE EnrollmentInv'
  OBVIOUS
<1>1. TypeOK /\ TypeOK'
  BY TypeInductive DEF EnrollmentInv
<1>2. CASE OperatorStep \/ AgentStep
  BY <1>1, <1>2, EnrollmentOperator, EnrollmentAgent
<1>3. CASE LiveMove
  BY <1>1, <1>3, EnrollmentLiveMove
<1> QED
  BY <1>1, <1>2, <1>3, RequestMoves, SweepMoves, QuietMoves DEF Next

\* However many codes are live for a site, each generation of it is enrolled at
\* most once, and a code is used up exactly when its enrollment is recorded.
THEOREM EnrollsOncePerGeneration == Spec => []OneEnrollmentPerGeneration
<1>1. EnrollmentInv => OneEnrollmentPerGeneration
  BY DEF EnrollmentInv
<1> QED
  BY <1>1, EnrollmentInit, EnrollmentInductive, PTL DEF Spec
=============================================================================

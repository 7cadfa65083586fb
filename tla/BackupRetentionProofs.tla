----------------------- MODULE BackupRetentionProofs -----------------------
(***************************************************************************)
(* Proofs about BackupRetention, for every number of sites, snapshots,     *)
(* chunks, requests and passes and every retention setting.                *)
(***************************************************************************)
EXTENDS BackupRetention, WellFoundedInduction, TLAPS

-----------------------------------------------------------------------------
(* Least and greatest elements, for the CHOOSEs of the model. *)

LEMMA NatMin ==
  ASSUME NEW S \in SUBSET Nat, S # {}
  PROVE  \E x \in S : \A y \in S : x <= y
<1> DEFINE R == OpToRel(<, Nat)
<1>1. IsWellFoundedOn(R, Nat)
  BY NatLessThanWellFounded, Zenon
<1>2. \A x, y \in Nat : <<y, x>> \in R <=> y < x
  BY DEF OpToRel
<1> HIDE DEF R
<1>3. PICK x \in S : \A y \in S : ~(<<y, x>> \in R)
  BY <1>1, WFMin, Zenon
<1>4. \A y \in S : x <= y
  <2> TAKE y \in S
  <2>1. x \in Nat /\ y \in Nat
    OBVIOUS
  <2>2. ~(y < x)
    BY <2>1, <1>2, <1>3
  <2> QED
    BY <2>1, <2>2
<1> QED
  BY <1>4

LEMMA NatMax ==
  ASSUME NEW N \in Nat, NEW S \in SUBSET (0..N), S # {}
  PROVE  \E x \in S : \A y \in S : y <= x
<1> DEFINE T == {u \in 0..N : N - u \in S}
<1>1. T \in SUBSET Nat
  OBVIOUS
<1>2. T # {}
  <2>1. PICK y \in S : y \in 0..N
    OBVIOUS
  <2>2. N - y \in 0..N /\ N - (N - y) = y
    BY <2>1
  <2> QED
    BY <2>1, <2>2
<1>3. PICK z \in T : \A u \in T : z <= u
  <2> HIDE DEF T
  <2> QED
    BY <1>1, <1>2, NatMin
<1>4. \A y \in S : y <= N - z
  <2> TAKE y \in S
  <2>1. N - y \in 0..N /\ N - (N - y) = y /\ y \in Int /\ z \in Int
    OBVIOUS
  <2>2. N - y \in T
    BY <2>1
  <2> QED
    BY <1>3, <2>1, <2>2
<1> QED
  BY <1>4

-----------------------------------------------------------------------------
(* Type correctness. *)

LEMMA Zeros == 0 \in Times /\ 0 \in Depths /\ 0 \in 0..MaxAborts
  BY ConstantsAssumption DEF Times, Depths

LEMMA IdleType == Idle \in Passes /\ NoPlan \in Plans
  BY Zeros DEF Idle, NoPlan, Passes, Plans, PassSteps, SnapIds

LEMMA TypeInit == Init => TypeOK
  BY Zeros, IdleType
  DEF Init, TypeOK, RowsTyped, ChunksTyped, AgentsTyped, PassesTyped, SnapIds, Statuses

\* Settle only moves a pass on to its next phase.
LEMMA SettleType == ASSUME NEW p \in Passes PROVE Settle(p) \in Passes
<1> DEFINE q == IF p.pc = "expand" /\ p.todo = {}
                THEN [p EXCEPT !.pc = "mark", !.todo = p.mark] ELSE p
<1>1. q \in Passes
  BY DEF Passes, PassSteps
<1>2. Idle.chainMax \in [Snaps -> Depths \cup {-1}]
  BY DEF Idle
<1> HIDE DEF q
<1>3. [q EXCEPT !.pc = "prune", !.todo = q.expired \ q.mark,
                !.expired = {}, !.mark = {}, !.chainMax = Idle.chainMax] \in Passes
  BY <1>1, <1>2 DEF Passes, PassSteps
<1> QED
  BY <1>1, <1>3 DEF Settle, q

LEMMA SettleKeeps ==
  ASSUME NEW p \in Passes, p.pc \in {"expand", "mark"}
  PROVE  /\ Settle(p).floor = p.floor /\ Settle(p).cur = p.cur
         /\ Settle(p).pc \in {"expand", "mark", "prune"}
  BY DEF Settle, Passes

LEMMA DeleteType ==
  ASSUME RowsTyped, NEW s, DeleteSnapshot(s)
  PROVE  RowsTyped'
  BY DEF RowsTyped, DeleteSnapshot, Unlink, SnapIds, Statuses, Exists

LEMMA TxnStartType ==
  ASSUME TypeOK, NEW s \in Snaps, NEW at \in TxnStart(s)
  PROVE  at \in Times
  BY ConstantsAssumption DEF TypeOK, RowsTyped, TxnStart, Later, Times

LEMMA TouchType ==
  ASSUME ChunksTyped, NEW C, NEW at \in Times, Touch(C, at)
  PROVE  chunkRef' \in [Chunks -> Times]
  BY DEF ChunksTyped, Touch

LEMMA ChainAfterType ==
  ASSUME TypeOK, NEW p \in Snaps
  PROVE  ChainAfter(p) \in [inc : BOOLEAN, parent : SnapIds, base : SnapIds,
                            chain : SnapIds, gen : Depths]
<1>1. genOf[p] < MaxChainDepth => genOf[p] + 1 \in Depths
  BY ConstantsAssumption DEF TypeOK, RowsTyped, Depths
<1>2. genOf[p] \in Int /\ MaxChainDepth \in Int
  BY ConstantsAssumption DEF TypeOK, RowsTyped, Depths
<1>3. CASE genOf[p] >= MaxChainDepth
  <2>1. ChainAfter(p) = BaseIncrement
    BY <1>3, Zenon DEF ChainAfter
  <2> QED
    BY <2>1, Zeros DEF BaseIncrement, SnapIds
<1>4. CASE genOf[p] < MaxChainDepth
  <2>1. genOf[p] + 1 \in Depths
    BY <1>1, <1>4
  <2>2. 1 \in Depths
    BY <1>4, ConstantsAssumption DEF TypeOK, RowsTyped, Depths
  <2> QED
    BY <2>1, <2>2, Zeros DEF ChainAfter, BaseIncrement, SnapIds, TypeOK, RowsTyped
<1> QED
  BY <1>2, <1>3, <1>4

LEMMA CreateType == TypeOK /\ CreateStep => TypeOK'
<1> SUFFICES ASSUME TypeOK, NEW o \in Operators,
                    \/ \E st \in Sites, inc \in Modes : CreateBackup(o, st, inc)
                    \/ \E s \in Snaps : CreateSnapshot(o, s)
                    \/ CreateRefused(o)
             PROVE  TypeOK'
  BY DEF CreateStep
<1> USE DEF rowVars, chunkVars, agentVars, gcVars
<1>1. ASSUME NEW st \in Sites, NEW inc \in Modes, CreateBackup(o, st, inc) PROVE TypeOK'
  <2> DEFINE Chains == [inc : BOOLEAN, parent : SnapIds, base : SnapIds,
                        chain : SnapIds, gen : Depths]
  <2>1. BaseIncrement \in Chains /\ [BaseIncrement EXCEPT !.inc = FALSE] \in Chains
    BY Zeros DEF BaseIncrement, SnapIds
  <2>2. \A p \in LatestCompleted(st) : ChainAfter(p) \in Chains
    BY ChainAfterType DEF LatestCompleted, Completed
  <2>3. PICK r \in Chains :
          plan' = [plan EXCEPT ![o] =
                     [pc |-> "insert", site |-> st, inc |-> r.inc, parent |-> r.parent,
                      base |-> r.base, chain |-> r.chain, gen |-> r.gen]]
    <3> HIDE DEF Chains
    <3> QED
      BY <1>1, <2>1, <2>2 DEF CreateBackup
  <2>4. plan' \in [Operators -> Plans]
    BY <2>3 DEF TypeOK, Plans
  <2> QED
    BY <1>1, <2>4 DEF CreateBackup, TypeOK, RowsTyped, ChunksTyped, AgentsTyped, PassesTyped
<1>2. ASSUME NEW s \in Snaps, CreateSnapshot(o, s) PROVE TypeOK'
  <2>1. plan[o] \in Plans
    BY DEF TypeOK
  <2>2. now + 1 \in Times
    BY <1>2, ConstantsAssumption DEF CreateSnapshot, TypeOK, Times
  <2>3. RowsTyped'
    BY <1>2, <2>1, <2>2 DEF CreateSnapshot, TypeOK, RowsTyped, Plans, SnapIds, Statuses
  <2>4. AgentsTyped'
    BY <1>2, <2>1 DEF CreateSnapshot, TypeOK, AgentsTyped, Plans
  <2> QED
    BY <1>2, <2>2, <2>3, <2>4, IdleType DEF CreateSnapshot, TypeOK, ChunksTyped, PassesTyped
<1>3. ASSUME CreateRefused(o) PROVE TypeOK'
  BY <1>3, IdleType
  DEF CreateRefused, TypeOK, RowsTyped, ChunksTyped, AgentsTyped, PassesTyped
<1> QED
  BY <1>1, <1>2, <1>3

LEMMA BackupType == TypeOK /\ BackupStep => TypeOK'
<1> SUFFICES ASSUME TypeOK, BackupStep PROVE TypeOK'
  OBVIOUS
<1> USE DEF TypeOK, rowVars, chunkVars, agentVars, gcVars
<1>1. ASSUME NEW s \in Snaps, MarkRunning(s) PROVE TypeOK'
  BY <1>1 DEF MarkRunning, RowsTyped, ChunksTyped, AgentsTyped, PassesTyped, Statuses
<1>2. ASSUME NEW s \in Snaps, FailSnapshot(s) PROVE TypeOK'
  BY <1>2 DEF FailSnapshot, RowsTyped, ChunksTyped, AgentsTyped, PassesTyped, Statuses
<1>3. ASSUME NEW s \in Snaps, DispatchBroken(s) PROVE TypeOK'
  BY <1>2, <1>3 DEF DispatchBroken
<1>4. ASSUME NEW s \in Snaps, NEW at \in TxnStart(s), Dispatch(s, at) PROVE TypeOK'
  <2>1. chunkRef' \in [Chunks -> Times]
    BY <1>4, TxnStartType, TouchType DEF Dispatch
  <2> QED
    BY <1>4, <2>1 DEF Dispatch, RowsTyped, ChunksTyped, AgentsTyped, PassesTyped
<1>5. ASSUME NEW s \in Snaps, NEW c \in Chunks, NEW at \in TxnStart(s), PresignChunks(s, c, at)
      PROVE  TypeOK'
  <2>1. chunkRef' \in [Chunks -> Times]
    BY <1>5, TxnStartType, TouchType DEF PresignChunks, ChunksTyped
  <2>2. AgentsTyped'
    BY <1>5 DEF PresignChunks, AgentsTyped
  <2> QED
    BY <1>5, <2>1, <2>2 DEF PresignChunks, RowsTyped, ChunksTyped, PassesTyped
<1>6. ASSUME NEW s \in Snaps, NEW c \in Chunks, UploadChunk(s, c) PROVE TypeOK'
  BY <1>6 DEF UploadChunk, RowsTyped, ChunksTyped, AgentsTyped, PassesTyped
<1>7. ASSUME NEW s \in Snaps, SubmitManifest(s) PROVE TypeOK'
  BY <1>7 DEF SubmitManifest, RowsTyped, ChunksTyped, AgentsTyped, PassesTyped
<1>8. ASSUME NEW s \in Snaps, NEW db \in SUBSET Chunks, NEW at \in TxnStart(s),
             RecordManifest(s, db, at)
      PROVE  TypeOK'
  <2>1. at \in Times
    BY TxnStartType
  <2>2. AgentsTyped'
    BY <1>8 DEF RecordManifest, AgentsTyped
  <2>3. RowsTyped'
    BY <1>8 DEF RecordManifest, RowsTyped, AgentsTyped, Statuses
  <2>4. ChunksTyped'
    BY <1>8, <2>1, TouchType DEF RecordManifest, ChunksTyped, AgentsTyped
  <2> QED
    BY <1>8, <2>2, <2>3, <2>4 DEF RecordManifest, PassesTyped
<1> QED
  BY <1>1, <1>2, <1>3, <1>4, <1>5, <1>6, <1>7, <1>8 DEF BackupStep

LEMMA OperatorType == TypeOK /\ OperatorStep => TypeOK'
<1> SUFFICES ASSUME TypeOK, OperatorStep PROVE TypeOK'
  OBVIOUS
<1> USE DEF TypeOK, rowVars, chunkVars, agentVars, gcVars
<1>1. ASSUME NEW s \in Snaps, NEW on \in BOOLEAN, SetSnapshotLocked(s, on) PROVE TypeOK'
  BY <1>1 DEF SetSnapshotLocked, RowsTyped, ChunksTyped, AgentsTyped, PassesTyped
<1>2. ASSUME NEW s \in Snaps, CreateRestore(s) PROVE TypeOK'
  BY <1>2 DEF CreateRestore, RowsTyped, ChunksTyped, AgentsTyped, PassesTyped
<1>3. ASSUME NEW s \in Snaps, EndRestore(s) PROVE TypeOK'
  BY <1>3 DEF EndRestore, RowsTyped, ChunksTyped, AgentsTyped, PassesTyped
<1>4. ASSUME NEW s \in Snaps, NEW at \in TxnStart(s), PlanRestore(s, at) PROVE TypeOK'
  <2>1. chunkRef' \in [Chunks -> Times]
    BY <1>4, TxnStartType, TouchType DEF PlanRestore, ChunksTyped
  <2> QED
    BY <1>4, <2>1 DEF PlanRestore, RowsTyped, ChunksTyped, AgentsTyped, PassesTyped
<1>5. ASSUME NEW s \in Snaps, NEW w \in Procs, DeleteRequest(w, s) PROVE TypeOK'
  <2>0. proc[w] \in Passes
    BY DEF PassesTyped
  <2>1. [proc[w] EXCEPT !.pc = "delete", !.snap = s] \in Passes
    BY <2>0 DEF Passes, PassSteps, SnapIds
  <2>2. proc' = [proc EXCEPT ![w] = [proc[w] EXCEPT !.pc = "delete", !.snap = s]]
    BY <1>5 DEF DeleteRequest, PassesTyped, Passes
  <2> QED
    BY <1>5, <2>1, <2>2 DEF DeleteRequest, RowsTyped, ChunksTyped, AgentsTyped, PassesTyped
<1> QED
  BY <1>1, <1>2, <1>3, <1>4, <1>5 DEF OperatorStep

\* A pass that changes only its own locals keeps the types.
LEMMA LocalType ==
  ASSUME TypeOK, NEW w \in Procs, NEW p \in Passes, proc' = [proc EXCEPT ![w] = p],
         UNCHANGED <<now, rowVars, chunkVars, objects, agentVars, plan, gcLock, aborts, restore>>
  PROVE  TypeOK'
  BY DEF TypeOK, RowsTyped, ChunksTyped, AgentsTyped, PassesTyped, rowVars, chunkVars, agentVars

\* The highest generation kept in a chain, of which GCSelect takes account.
KeptGens(w, st, ch) ==
  {genOf[s] : s \in {t \in Completed(st) \ Expired(st, proc[w].started) : chainOf[t] = ch}}

\* GCSelect raises a chain's maximum to the highest generation it keeps.
LEMMA SelectTips ==
  ASSUME TypeOK, NEW w \in Procs, NEW st \in Sites, GCSelect(w, st), NEW ch \in Snaps
  PROVE  /\ proc'[w].chainMax[ch] \in {proc[w].chainMax[ch]} \cup KeptGens(w, st, ch)
         /\ proc'[w].chainMax[ch] \in Depths \cup {-1}
         /\ proc[w].chainMax[ch] <= proc'[w].chainMax[ch]
         /\ \A g \in KeptGens(w, st, ch) : g <= proc'[w].chainMax[ch]
<1> DEFINE m == proc[w].chainMax[ch]
           S == KeptGens(w, st, ch)
           T == {m} \cup S
<1>1. proc[w] \in Passes /\ m \in Depths \cup {-1}
  BY DEF TypeOK, PassesTyped, Passes
<1>2. S \subseteq Depths
  BY DEF KeptGens, Completed, TypeOK, RowsTyped
<1>3. proc'[w].chainMax[ch] = CHOOSE g \in T : \A h \in T : h <= g
  BY <1>1 DEF GCSelect, KeptGens, TypeOK, PassesTyped, Passes
<1>4. \E g \in T : \A h \in T : h <= g
  <2> HIDE DEF S, m
  <2>1. CASE S = {}
    BY <1>1, <2>1 DEF Depths
  <2>2. CASE S # {}
    <3>1. PICK g \in S : \A h \in S : h <= g
      BY <1>2, <2>2, NatMax, ConstantsAssumption DEF Depths
    <3>2. g \in Int /\ m \in Int
      BY <1>1, <1>2, <3>1 DEF Depths
    <3>3. CASE m <= g
      BY <3>1, <3>3
    <3>4. CASE g <= m
      <4>1. ASSUME NEW h \in S PROVE h <= m
        <5>1. h <= g /\ h \in Int
          BY <1>2, <3>1 DEF Depths
        <5> QED
          BY <3>2, <3>4, <5>1
      <4> QED
        BY <3>2, <4>1
    <3> QED
      BY <3>2, <3>3, <3>4
  <2> QED
    BY <2>1, <2>2
<1>5. proc'[w].chainMax[ch] \in T /\ \A h \in T : h <= proc'[w].chainMax[ch]
  <2> HIDE DEF T
  <2> QED
    BY <1>3, <1>4
<1> QED
  BY <1>1, <1>2, <1>5

LEMMA SelectType ==
  ASSUME TypeOK, NEW w \in Procs, NEW st \in Sites, GCSelect(w, st)
  PROVE  TypeOK'
<1> DEFINE q == proc[w]
           gone == Expired(st, q.started)
           tips == [ch \in Snaps |->
                      CHOOSE g \in {q.chainMax[ch]} \cup KeptGens(w, st, ch) :
                        \A h \in {q.chainMax[ch]} \cup KeptGens(w, st, ch) : h <= g]
           r == [q EXCEPT !.sites = @ \ {st}, !.expired = @ \cup gone, !.chainMax = tips]
<1>1. q \in Passes
  BY DEF TypeOK, PassesTyped
<1>2. gone \subseteq Snaps
  BY DEF Expired, gatherExpiredForSite, Completed
<1>3. proc' = [proc EXCEPT ![w] = r]
  BY <1>1 DEF GCSelect, KeptGens, TypeOK, PassesTyped, Passes
<1>4. tips \in [Snaps -> Depths \cup {-1}]
  <2>1. proc'[w] = r
    <3> HIDE DEF r
    <3> QED
      BY <1>3 DEF TypeOK, PassesTyped
  <2>2. r.chainMax = tips
    <3> HIDE DEF tips, gone, q
    <3> QED
      BY <1>1 DEF Passes
  <2>3. \A ch \in Snaps : tips[ch] \in Depths \cup {-1}
    <3> HIDE DEF tips, r
    <3> QED
      BY <2>1, <2>2, SelectTips
  <2>4. tips = [ch \in Snaps |-> tips[ch]]
    OBVIOUS
  <2> HIDE DEF tips
  <2> QED
    BY <2>3, <2>4
<1>5. r \in Passes
  <2> HIDE DEF tips, gone, q
  <2> QED
    BY <1>1, <1>2, <1>4 DEF Passes
<1> QED
  <2> HIDE DEF r
  <2> QED
    BY <1>3, <1>5, LocalType DEF GCSelect

LEMMA LeastIsLeast ==
  ASSUME NEW S \in SUBSET Nat, NEW x \in Nat
  PROVE  /\ Least(S, x) \in S \cup {x} /\ Least(S, x) <= x
         /\ \A y \in S : Least(S, x) <= y
<1> DEFINE below == {t \in S : t < x}
<1>1. CASE below = {}
  BY <1>1 DEF Least
<1>2. CASE below # {}
  <2>1. \E t \in below : \A u \in below : t <= u
    <3>1. below \in SUBSET Nat
      OBVIOUS
    <3> HIDE DEF below
    <3> QED
      BY <3>1, <1>2, NatMin
  <2>2. Least(S, x) = CHOOSE t \in below : \A u \in below : t <= u
    BY <1>2, Zenon DEF Least
  <2>3. Least(S, x) \in below /\ \A u \in below : Least(S, x) <= u
    <3> HIDE DEF below
    <3> QED
      BY <2>1, <2>2
  <2>4. Least(S, x) \in S /\ Least(S, x) \in Nat /\ Least(S, x) < x
    BY <2>3
  <2>5. ASSUME NEW y \in S PROVE Least(S, x) <= y
    <3>1. y \in Nat /\ (y < x => y \in below)
      OBVIOUS
    <3> QED
      BY <2>3, <2>4, <3>1
  <2> QED
    BY <2>4, <2>5
<1> QED
  BY <1>1, <1>2

LEMMA FloorValue ==
  ASSUME TypeOK, NEW x \in Times
  PROVE  /\ Least(InFlightStarts, x) \in Times /\ Least(InFlightStarts, x) <= x
         /\ \A s \in Snaps : status[s] \in InFlight => Least(InFlightStarts, x) <= createdAt[s]
<1>1. InFlightStarts \subseteq Times
  BY DEF InFlightStarts, TypeOK, RowsTyped
<1>2. \A s \in Snaps : status[s] \in InFlight => createdAt[s] \in InFlightStarts
  BY DEF InFlightStarts
<1>3. Times \subseteq Nat
  BY ConstantsAssumption DEF Times
<1> QED
  BY <1>1, <1>2, <1>3, LeastIsLeast

LEMMA ReachableType ==
  ASSUME TypeOK, NEW s \in Snaps, NEW m
  PROVE  Reachable(s, m) \subseteq Chunks
<1>1. \A t \in Snaps : manFiles[t] \subseteq Chunks /\ manDb[t] \subseteq Chunks
  BY DEF TypeOK, RowsTyped
<1>2. ASSUME NEW S \in SUBSET Snaps
      PROVE  ChainParts(S) \subseteq Chunks /\ ChainDump(S) \subseteq Chunks
  BY <1>1 DEF ChainParts, ChainDump, LatestDump
<1>3. CompletedChain(chainOf[s], m) \in SUBSET Snaps
  BY DEF CompletedChain, ChainRows
<1> QED
  BY <1>1, <1>2, <1>3 DEF Reachable, Manifest

LEMMA ProcType == ASSUME TypeOK, NEW w \in Procs, ProcStep(w) \/ GCAbort(w) PROVE TypeOK'
<1> DEFINE q == proc[w]
<1>0. q \in Passes
  BY DEF TypeOK, PassesTyped
<1>1. CASE DeleteForUser(w)
  <2>1. [Idle EXCEPT !.pc = "list"] \in Passes
    BY IdleType DEF Passes, PassSteps
  <2> QED
    BY <1>1, <2>1, DeleteType
    DEF DeleteForUser, TypeOK, ChunksTyped, AgentsTyped, PassesTyped, chunkVars, agentVars
<1>2. CASE GCListSites(w)
  <2> DEFINE S == {siteOf[s] : s \in {t \in Snaps : Exists(t)}}
             r == [q EXCEPT !.pc = "select", !.started = now, !.sites = S]
  <2>1. S \subseteq Sites \cup {NoSite}
    BY DEF TypeOK, RowsTyped
  <2>2. r \in Passes
    <3> HIDE DEF S, q
    <3> QED
      BY <1>0, <2>1 DEF Passes, PassSteps, TypeOK
  <2>3. proc' = [proc EXCEPT ![w] = r]
    BY <1>0, <1>2 DEF GCListSites, TypeOK, PassesTyped, Passes
  <2> QED
    BY <1>2, <2>2, <2>3, LocalType DEF GCListSites
<1>3. CASE \E st \in Sites : GCSelect(w, st)
  BY <1>3, SelectType
<1>4. CASE GCClock(w)
  <2> DEFINE r == [q EXCEPT !.pc = "floor", !.floor = now, !.started = 0]
  <2>1. r \in Passes
    <3> HIDE DEF q
    <3> QED
      BY <1>0, Zeros DEF Passes, PassSteps, TypeOK
  <2>2. proc' = [proc EXCEPT ![w] = r]
    BY <1>0, <1>4 DEF GCClock, TypeOK, PassesTyped, Passes
  <2> QED
    BY <1>4, <2>1, <2>2, LocalType DEF GCClock
<1>5. CASE GCFloor(w)
  <2> DEFINE r == [q EXCEPT !.pc = "expand", !.floor = Least(InFlightStarts, q.floor),
                            !.todo = {ch \in Snaps : q.chainMax[ch] >= 0}]
  <2>1. Least(InFlightStarts, q.floor) \in Times
    BY <1>0, FloorValue DEF Passes
  <2>2. r \in Passes
    BY <1>0, <2>1 DEF Passes, PassSteps
  <2>3. proc' = [proc EXCEPT ![w] = Settle(r)]
    BY <1>5 DEF GCFloor
  <2> QED
    BY <1>5, <2>2, <2>3, SettleType, LocalType DEF GCFloor
<1>6. ASSUME NEW ch \in Snaps, GCExpand(w, ch) PROVE TypeOK'
  <2> DEFINE r == [q EXCEPT !.todo = q.todo \ {ch},
                            !.mark = q.mark \cup CompletedChain(ch, q.chainMax[ch])]
  <2>1. CompletedChain(ch, q.chainMax[ch]) \subseteq Snaps
    BY DEF CompletedChain, ChainRows
  <2>2. r \in Passes
    BY <1>0, <2>1 DEF Passes
  <2>3. proc' = [proc EXCEPT ![w] = Settle(r)]
    BY <1>6 DEF GCExpand
  <2> QED
    BY <1>6, <2>2, <2>3, SettleType, LocalType DEF GCExpand
<1>7. ASSUME NEW s \in Snaps, GCMark(w, s) PROVE TypeOK'
  <2> DEFINE n == Reachable(s, q.chainMax[chainOf[s]])
             r == [q EXCEPT !.todo = q.todo \ {s}, !.live = q.live \cup n]
  <2>1. n \subseteq Chunks
    BY ReachableType
  <2>2. r \in Passes
    <3> HIDE DEF n
    <3> QED
      BY <1>0, <2>1 DEF Passes
  <2>3. proc' = [proc EXCEPT ![w] = Settle(r)]
    BY <1>7 DEF GCMark
  <2> QED
    BY <1>7, <2>2, <2>3, SettleType, LocalType DEF GCMark
<1>8. ASSUME NEW s \in Snaps, GCPrune(w, s) PROVE TypeOK'
  <2>1. [q EXCEPT !.todo = @ \ {s}] \in Passes
    BY <1>0 DEF Passes
  <2>2. proc' = [proc EXCEPT ![w] = [q EXCEPT !.todo = @ \ {s}]]
    BY <1>0, <1>8 DEF GCPrune, TypeOK, PassesTyped, Passes
  <2> QED
    BY <1>8, <2>1, <2>2, DeleteType
    DEF GCPrune, TypeOK, ChunksTyped, AgentsTyped, PassesTyped, chunkVars, agentVars
<1> DEFINE Frame == UNCHANGED <<now, rowVars, plan, restore, agentVars>>
<1>a. ASSUME Frame, proc' \in [Procs -> Passes], gcLock' \in Procs \cup {NoProc},
             aborts' \in 0..MaxAborts, ChunksTyped', objects' \subseteq Chunks
      PROVE  TypeOK'
  BY <1>a DEF TypeOK, RowsTyped, AgentsTyped, PassesTyped, rowVars, agentVars
<1>9. CASE SweepTenantChunks(w)
  <2>1. [q EXCEPT !.pc = "sweep", !.page = chunkRows] \in Passes
    BY <1>0 DEF Passes, PassSteps, TypeOK, ChunksTyped
  <2>2. proc' \in {[proc EXCEPT ![w] = [q EXCEPT !.pc = "sweep", !.page = chunkRows]],
                   [proc EXCEPT ![w] = Idle]}
    BY <1>0, <1>9 DEF SweepTenantChunks, TypeOK, PassesTyped, Passes
  <2>3. proc' \in [Procs -> Passes]
    BY <2>1, <2>2, IdleType DEF TypeOK, PassesTyped
  <2> QED
    BY <1>9, <1>a, <2>3 DEF SweepTenantChunks, TypeOK, PassesTyped, ChunksTyped, chunkVars
<1>10. ASSUME NEW c \in Chunks, SweepObject(w, c) PROVE TypeOK'
  <2> DEFINE r == [q EXCEPT !.page = @ \ {c}, !.pc = IF Sweepable(w, c) THEN "row" ELSE @,
                            !.cur = IF Sweepable(w, c) THEN c ELSE @]
  <2>1. r \in Passes
    BY <1>0 DEF Passes, PassSteps
  <2>2. proc' = [proc EXCEPT ![w] = r]
    BY <1>0, <1>10 DEF SweepObject, TypeOK, PassesTyped, Passes
  <2> QED
    BY <1>10, <1>a, <2>1, <2>2 DEF SweepObject, TypeOK, PassesTyped, ChunksTyped, chunkVars
<1>11. CASE SweepRow(w)
  <2>1. [q EXCEPT !.pc = "sweep", !.cur = NoChunk] \in Passes
    BY <1>0 DEF Passes, PassSteps
  <2>2. proc' = [proc EXCEPT ![w] = [q EXCEPT !.pc = "sweep", !.cur = NoChunk]]
    BY <1>0, <1>11 DEF SweepRow, TypeOK, PassesTyped, Passes
  <2>3. ChunksTyped'
    BY <1>11, Zeros DEF SweepRow, TypeOK, ChunksTyped
  <2> QED
    BY <1>11, <1>a, <2>1, <2>2, <2>3 DEF SweepRow, TypeOK, PassesTyped
<1>12. CASE SweepDone(w)
  BY <1>12, <1>a, IdleType DEF SweepDone, TypeOK, PassesTyped, ChunksTyped, chunkVars
<1>13. CASE GCAbort(w)
  <2>1. aborts' \in 0..MaxAborts
    BY <1>13, ConstantsAssumption DEF GCAbort, TypeOK, PassesTyped
  <2> QED
    BY <1>13, <1>a, <2>1, IdleType DEF GCAbort, TypeOK, PassesTyped, ChunksTyped, chunkVars
<1> QED
  BY <1>1, <1>2, <1>3, <1>4, <1>5, <1>6, <1>7, <1>8, <1>9, <1>10, <1>11, <1>12, <1>13
  DEF ProcStep

LEMMA TypeStep == TypeOK /\ [Next]_vars => TypeOK'
<1> SUFFICES ASSUME TypeOK, [Next]_vars PROVE TypeOK'
  OBVIOUS
<1>1. CASE Tick
  <2>1. now' \in Times
    BY <1>1, ConstantsAssumption DEF Tick, TypeOK, Times
  <2> QED
    BY <1>1, <2>1 DEF Tick, TypeOK, RowsTyped, ChunksTyped, AgentsTyped, PassesTyped,
                      rowVars, chunkVars, agentVars, gcVars
<1>2. CASE UNCHANGED vars
  BY <1>2 DEF TypeOK, RowsTyped, ChunksTyped, AgentsTyped, PassesTyped,
              vars, rowVars, chunkVars, agentVars, gcVars
<1> QED
  BY <1>1, <1>2, CreateType, BackupType, OperatorType, ProcType DEF Next

\* The types hold in every reachable state; in particular chains never grow
\* past BackupMaxChainDepth.
THEOREM TypeCorrect == Spec => []TypeOK
  BY TypeInit, TypeStep, PTL DEF Spec

-----------------------------------------------------------------------------
(***************************************************************************)
(* The grace floor.  No pass past its floor step has a floor above the     *)
(* start of a backup in flight.  A chunk that such a backup was promised,  *)
(* or is about to upload, is older than the backup by no more than TxSpan  *)
(* when it has a row, and not at all unless a step has set the chunk's     *)
(* time back (Backdates).                                                  *)
(***************************************************************************)

PastFloor == {"expand", "mark", "prune", "sweep", "row"}

ClockInv ==
  /\ \A s \in Snaps : createdAt[s] <= now
  /\ \A w \in Procs : proc[w].floor <= now

FreshInv ==
  \A s \in Snaps : status[s] = "none" => agent[s] = "idle" /\ puts[s] = {} /\ held[s] = {}

FloorInv ==
  \A w \in Procs, s \in Snaps :
    proc[w].pc \in PastFloor /\ status[s] \in InFlight => proc[w].floor <= createdAt[s]

TouchInv ==
  \A s \in Snaps : status[s] \in InFlight =>
    \A c \in (puts[s] \cup held[s]) \cap chunkRows : createdAt[s] <= Boundary(c) + TxSpan

\* The same with nothing set back.
ExactInv ==
  \A s \in Snaps : status[s] \in InFlight =>
    \A c \in (puts[s] \cup held[s]) \cap chunkRows : createdAt[s] <= Boundary(c)

GraceInv == ClockInv /\ FreshInv /\ FloorInv /\ TouchInv

\* What a step may do to the rows, to the passes, and to chunks and agents.
RowStep ==
  /\ now' \in {now, now + 1}
  /\ \A s \in Snaps :
       \/ /\ createdAt'[s] = createdAt[s]
          /\ status'[s] \in InFlight => status[s] \in InFlight
          /\ status'[s] = "none" => status[s] = "none"
       \/ /\ createdAt'[s] = now' /\ now' = now + 1
          /\ status[s] = "none" /\ status'[s] = "pending"
          /\ puts'[s] = puts[s] /\ held'[s] = held[s]

PassStep ==
  \A w \in Procs :
    /\ proc'[w].floor <= now
    /\ proc'[w].pc \in PastFloor =>
         \/ proc[w].pc \in PastFloor /\ proc'[w].floor = proc[w].floor
         \/ \A s \in Snaps : status[s] \in InFlight => proc'[w].floor <= createdAt[s]

ChunkStep ==
  \A c \in chunkRows' : \/ c \in chunkRows /\ Boundary(c)' = Boundary(c)
                        \/ now <= Boundary(c)' + TxSpan

AgentStep ==
  \A s \in Snaps :
    /\ status[s] = "none" => agent'[s] = "idle" /\ puts'[s] = {} /\ held'[s] = {}
    /\ \A c \in (puts'[s] \cup held'[s]) \cap chunkRows' :
         c \in puts[s] \cup held[s] \/ createdAt[s] <= Boundary(c)'

NumbersOK ==
  /\ now \in Nat /\ TxSpan \in Nat
  /\ \A s \in Snaps : createdAt[s] \in Nat
  /\ \A w \in Procs : proc[w].floor \in Nat /\ proc[w] \in Passes
  /\ \A c \in Chunks : chunkCreated[c] \in Nat /\ chunkRef[c] \in Nat /\ Boundary(c) \in Nat

LEMMA Numbers == TypeOK => NumbersOK
<1> SUFFICES ASSUME TypeOK PROVE NumbersOK
  OBVIOUS
<1>1. Times \subseteq Nat
  BY ConstantsAssumption DEF Times
<1>2. \A c \in Chunks : chunkCreated[c] \in Nat /\ chunkRef[c] \in Nat
  BY <1>1 DEF TypeOK, ChunksTyped
<1>3. \A w \in Procs : proc[w].floor \in Nat /\ proc[w] \in Passes
  BY <1>1 DEF TypeOK, PassesTyped, Passes
<1> QED
  BY <1>1, <1>2, <1>3, ConstantsAssumption DEF NumbersOK, TypeOK, RowsTyped, Boundary, Later

LEMMA GraceFromSteps ==
  ASSUME TypeOK, TypeOK', GraceInv, RowStep, PassStep, ChunkStep, AgentStep
  PROVE  GraceInv'
<1>0. /\ now \in Nat /\ now' \in Nat /\ now <= now'
      /\ \A s \in Snaps : createdAt[s] \in Nat /\ createdAt'[s] \in Nat
      /\ \A w \in Procs : proc[w].floor \in Nat /\ proc'[w].floor \in Nat
  <2>1. NumbersOK /\ NumbersOK'
    BY Numbers, PTL
  <2> QED
    BY <2>1 DEF NumbersOK, RowStep
<1>1. ClockInv'
  BY <1>0 DEF GraceInv, ClockInv, RowStep, PassStep
<1>2. FreshInv'
  <2> SUFFICES ASSUME NEW s \in Snaps, status'[s] = "none"
               PROVE  agent'[s] = "idle" /\ puts'[s] = {} /\ held'[s] = {}
    BY DEF FreshInv
  <2> QED
    BY DEF GraceInv, FreshInv, RowStep, AgentStep
<1>3. FloorInv'
  <2> SUFFICES ASSUME NEW w \in Procs, NEW s \in Snaps,
                      proc'[w].pc \in PastFloor, status'[s] \in InFlight
               PROVE  proc'[w].floor <= createdAt'[s]
    BY DEF FloorInv
  <2>1. CASE createdAt'[s] = createdAt[s] /\ status[s] \in InFlight
    BY <2>1, <1>0 DEF GraceInv, FloorInv, PassStep
  <2>2. CASE createdAt'[s] = now + 1
    BY <2>2, <1>0 DEF PassStep
  <2> QED
    BY <2>1, <2>2 DEF RowStep
<1>4. TouchInv'
  <2> SUFFICES ASSUME NEW s \in Snaps, status'[s] \in InFlight,
                      NEW c \in (puts'[s] \cup held'[s]) \cap chunkRows'
               PROVE  createdAt'[s] <= Boundary(c)' + TxSpan
    BY DEF TouchInv
  <2>0. Boundary(c)' \in Nat /\ (c \in chunkRows => Boundary(c) \in Nat) /\ TxSpan \in Nat
    <3>1. c \in Chunks
      BY DEF TypeOK, ChunksTyped
    <3>2. NumbersOK /\ NumbersOK'
      BY Numbers, PTL
    <3> QED
      BY <3>1, <3>2 DEF NumbersOK
  <2>1. CASE createdAt'[s] = createdAt[s] /\ status[s] \in InFlight
    <3>1. createdAt[s] <= now
      BY DEF GraceInv, ClockInv
    <3>2. \/ now <= Boundary(c)' + TxSpan
          \/ createdAt[s] <= Boundary(c)'
          \/ c \in (puts[s] \cup held[s]) \cap chunkRows /\ Boundary(c)' = Boundary(c)
      BY DEF ChunkStep, AgentStep
    <3>3. c \in (puts[s] \cup held[s]) \cap chunkRows => createdAt[s] <= Boundary(c) + TxSpan
      BY <2>1 DEF GraceInv, TouchInv
    <3> QED
      BY <1>0, <2>0, <2>1, <3>1, <3>2, <3>3
  <2>2. CASE status[s] = "none" /\ puts'[s] = puts[s] /\ held'[s] = held[s]
    BY <2>2 DEF GraceInv, FreshInv
  <2> QED
    BY <2>1, <2>2 DEF RowStep
<1> QED
  BY <1>1, <1>2, <1>3, <1>4 DEF GraceInv

LEMMA ExactFromSteps ==
  ASSUME TypeOK, TypeOK', GraceInv, ExactInv, RowStep, AgentStep, ~Backdates
  PROVE  ExactInv'
<1> SUFFICES ASSUME NEW s \in Snaps, status'[s] \in InFlight,
                    NEW c \in (puts'[s] \cup held'[s]) \cap chunkRows'
             PROVE  createdAt'[s] <= Boundary(c)'
  BY DEF ExactInv
<1>1. createdAt[s] \in Nat /\ Boundary(c)' \in Nat
  <2>1. c \in Chunks
    BY DEF TypeOK, ChunksTyped
  <2>2. NumbersOK /\ NumbersOK'
    BY Numbers, PTL
  <2> QED
    BY <2>1, <2>2 DEF NumbersOK
<1>2. CASE createdAt'[s] = createdAt[s] /\ status[s] \in InFlight
  <2>1. c \notin puts[s] \cup held[s] => createdAt[s] <= Boundary(c)'
    BY DEF AgentStep
  <2>2. CASE c \in puts[s] \cup held[s] /\ c \in chunkRows /\ Boundary(c)' = Boundary(c)
    BY <1>2, <2>2 DEF ExactInv
  <2>3. CASE c \in puts[s] \cup held[s] /\ (c \in chunkRows => Boundary(c)' # Boundary(c))
    BY <1>1, <1>2, <2>3 DEF Backdates
  <2> QED
    BY <1>2, <2>1, <2>2, <2>3
<1>3. CASE status[s] = "none" /\ puts'[s] = puts[s] /\ held'[s] = held[s]
  BY <1>3 DEF GraceInv, FreshInv
<1> QED
  BY <1>2, <1>3 DEF RowStep

\* A transaction that began after its backup did, at most TxSpan ago.
LEMMA TxnBegan ==
  ASSUME TypeOK, NEW s \in Snaps, NEW at \in TxnStart(s)
  PROVE  at \in Nat /\ createdAt[s] <= at /\ now <= at + TxSpan
  BY Numbers DEF NumbersOK, TxnStart, Later

LEMMA RowFrame == ASSUME UNCHANGED <<now, status, createdAt>> PROVE RowStep
  BY DEF RowStep

LEMMA PassFrame == ASSUME ClockInv, UNCHANGED proc PROVE PassStep
  BY DEF PassStep, ClockInv

LEMMA ChunkFrame == ASSUME TypeOK, UNCHANGED chunkVars PROVE ChunkStep
<1>1. \A c \in chunkRows : Boundary(c)' = Boundary(c)
  BY DEF chunkVars, Boundary
<1> QED
  BY <1>1 DEF ChunkStep, chunkVars

LEMMA AgentFrame == ASSUME FreshInv, UNCHANGED <<agent, puts, held>> PROVE AgentStep
  BY DEF AgentStep, FreshInv

LEMMA TouchFrame ==
  ASSUME TypeOK, NEW C, NEW at \in Nat, now <= at + TxSpan, Touch(C, at),
         UNCHANGED <<chunkRows, chunkCreated>>
  PROVE  ChunkStep
<1> SUFFICES ASSUME NEW c \in chunkRows
             PROVE  Boundary(c)' = Boundary(c) \/ now <= Boundary(c)' + TxSpan
  BY DEF ChunkStep
<1>1. c \in Chunks
  BY DEF TypeOK, ChunksTyped
<1>2. chunkRef'[c] \in {chunkRef[c], at} /\ chunkCreated'[c] = chunkCreated[c]
  BY <1>1 DEF Touch
<1> QED
  BY <1>1, <1>2, Numbers DEF NumbersOK, Boundary, Later

GraceSteps == RowStep /\ PassStep /\ ChunkStep /\ AgentStep

LEMMA CreateGrace ==
  ASSUME TypeOK, GraceInv, CreateStep
  PROVE  GraceSteps
<1> USE DEF GraceInv, rowVars, chunkVars, agentVars, gcVars
<1>1. ASSUME NEW o \in Operators, NEW st, NEW inc, CreateBackup(o, st, inc) PROVE GraceSteps
  BY <1>1, RowFrame, PassFrame, ChunkFrame, AgentFrame DEF CreateBackup, GraceSteps
<1>2. ASSUME NEW o \in Operators, NEW s \in Snaps, CreateSnapshot(o, s) PROVE GraceSteps
  <2>1. RowStep
    BY <1>2 DEF CreateSnapshot, RowStep, TypeOK, RowsTyped, InFlight
  <2> QED
    BY <1>2, <2>1, PassFrame, ChunkFrame, AgentFrame DEF CreateSnapshot, GraceSteps
<1>3. ASSUME NEW o \in Operators, CreateRefused(o) PROVE GraceSteps
  BY <1>3, RowFrame, PassFrame, ChunkFrame, AgentFrame DEF CreateRefused, GraceSteps
<1> QED
  BY <1>1, <1>2, <1>3 DEF CreateStep

LEMMA BackupGrace ==
  ASSUME TypeOK, GraceInv, BackupStep
  PROVE  GraceSteps
<1> USE DEF GraceInv, rowVars, chunkVars, agentVars, gcVars
<1>1. ASSUME NEW s \in Snaps, MarkRunning(s) PROVE GraceSteps
  <2>1. RowStep
    BY <1>1 DEF MarkRunning, RowStep, TypeOK, RowsTyped, InFlight
  <2> QED
    BY <1>1, <2>1, PassFrame, ChunkFrame, AgentFrame DEF MarkRunning, GraceSteps
<1>2. ASSUME NEW s \in Snaps, FailSnapshot(s) PROVE GraceSteps
  <2>1. RowStep
    BY <1>2 DEF FailSnapshot, RowStep, TypeOK, RowsTyped, InFlight
  <2> QED
    BY <1>2, <2>1, PassFrame, ChunkFrame, AgentFrame DEF FailSnapshot, GraceSteps
<1>3. ASSUME NEW s \in Snaps, DispatchBroken(s) PROVE GraceSteps
  BY <1>2, <1>3 DEF DispatchBroken
<1>4. ASSUME NEW s \in Snaps, NEW at \in TxnStart(s), Dispatch(s, at) PROVE GraceSteps
  <2>1. at \in Nat /\ createdAt[s] <= at /\ now <= at + TxSpan
    BY TxnBegan
  <2>2. AgentStep
    BY <1>4 DEF Dispatch, AgentStep, FreshInv, TypeOK, AgentsTyped
  <2> QED
    BY <1>4, <2>1, <2>2, RowFrame, PassFrame, TouchFrame DEF Dispatch, GraceSteps
<1>5. ASSUME NEW s \in Snaps, NEW c \in Chunks, NEW at \in TxnStart(s), PresignChunks(s, c, at)
      PROVE  GraceSteps
  <2>1. at \in Nat /\ createdAt[s] <= at /\ now <= at + TxSpan
    BY TxnBegan
  <2>2. CASE c \in chunkRows
    <3>1. Touch({c}, at) /\ UNCHANGED <<puts, agent>> /\ held' = [held EXCEPT ![s] = @ \cup {c}]
      BY <1>5, <2>2 DEF PresignChunks
    <3>2. createdAt[s] <= Boundary(c)'
      BY <1>5, <2>1, <3>1, Numbers DEF PresignChunks, Touch, Boundary, Later, NumbersOK
    <3>3. AgentStep
      BY <1>5, <3>1, <3>2 DEF PresignChunks, AgentStep, FreshInv, InFlight, TypeOK, AgentsTyped
    <3> QED
      BY <1>5, <2>1, <3>1, <3>3, RowFrame, PassFrame, TouchFrame DEF PresignChunks, GraceSteps
  <2>3. CASE c \notin chunkRows
    <3>1. AgentStep
      BY <1>5, <2>3 DEF PresignChunks, AgentStep, FreshInv, InFlight, TypeOK, AgentsTyped
    <3> QED
      BY <1>5, <2>3, <3>1, RowFrame, PassFrame, ChunkFrame DEF PresignChunks, GraceSteps
  <2> QED
    BY <2>2, <2>3
<1>6. ASSUME NEW s \in Snaps, NEW c \in Chunks, UploadChunk(s, c) PROVE GraceSteps
  <2>1. AgentStep
    BY <1>6 DEF UploadChunk, AgentStep, FreshInv, TypeOK, AgentsTyped
  <2> QED
    BY <1>6, <2>1, RowFrame, PassFrame, ChunkFrame DEF UploadChunk, GraceSteps
<1>7. ASSUME NEW s \in Snaps, SubmitManifest(s) PROVE GraceSteps
  <2>1. AgentStep
    BY <1>7 DEF SubmitManifest, AgentStep, FreshInv, InFlight, TypeOK, AgentsTyped
  <2> QED
    BY <1>7, <2>1, RowFrame, PassFrame, ChunkFrame DEF SubmitManifest, GraceSteps
<1>8. ASSUME NEW s \in Snaps, NEW db \in SUBSET Chunks, NEW at \in TxnStart(s),
             RecordManifest(s, db, at)
      PROVE  GraceSteps
  <2>1. at \in Nat /\ createdAt[s] <= at /\ now <= at + TxSpan
    BY TxnBegan
  <2>2. RowStep
    BY <1>8 DEF RecordManifest, RowStep, TypeOK, RowsTyped, InFlight
  <2>3. AgentStep
    BY <1>8 DEF RecordManifest, AgentStep, FreshInv, TypeOK, AgentsTyped
  <2>4. ChunkStep
    <3>1. CASE ~Completes(s)
      BY <1>8, <3>1, ChunkFrame DEF RecordManifest
    <3>2. CASE Completes(s)
      <4> SUFFICES ASSUME NEW c \in chunkRows'
                   PROVE  \/ c \in chunkRows /\ Boundary(c)' = Boundary(c)
                          \/ now <= Boundary(c)' + TxSpan
        BY DEF ChunkStep
      <4>1. c \in Chunks
        BY <1>8, <3>2 DEF RecordManifest, TypeOK, ChunksTyped, AgentsTyped
      <4>2. /\ chunkRef'[c] = IF c \in held[s] THEN at ELSE chunkRef[c]
            /\ chunkCreated'[c] = IF c \in held[s] \ chunkRows THEN at ELSE chunkCreated[c]
            /\ c \in chunkRows \cup held[s]
        BY <1>8, <3>2, <4>1 DEF RecordManifest, Touch
      <4> QED
        BY <2>1, <4>1, <4>2, Numbers DEF NumbersOK, Boundary, Later
    <3> QED
      BY <3>1, <3>2
  <2> QED
    BY <1>8, <2>2, <2>3, <2>4, PassFrame DEF RecordManifest, GraceSteps
<1> QED
  BY <1>1, <1>2, <1>3, <1>4, <1>5, <1>6, <1>7, <1>8 DEF BackupStep

LEMMA OperatorGrace ==
  ASSUME TypeOK, GraceInv, OperatorStep
  PROVE  GraceSteps
<1> USE DEF GraceInv, rowVars, chunkVars, agentVars, gcVars
<1>1. ASSUME NEW s \in Snaps, NEW on, SetSnapshotLocked(s, on) PROVE GraceSteps
  BY <1>1, RowFrame, PassFrame, ChunkFrame, AgentFrame DEF SetSnapshotLocked, GraceSteps
<1>2. ASSUME NEW s \in Snaps, CreateRestore(s) \/ EndRestore(s) PROVE GraceSteps
  BY <1>2, RowFrame, PassFrame, ChunkFrame, AgentFrame DEF CreateRestore, EndRestore, GraceSteps
<1>3. ASSUME NEW s \in Snaps, NEW at \in TxnStart(s), PlanRestore(s, at) PROVE GraceSteps
  <2>1. at \in Nat /\ createdAt[s] <= at /\ now <= at + TxSpan
    BY TxnBegan
  <2>2. ChunkStep
    <3>1. CASE UNCHANGED chunkRef
      BY <1>3, <3>1, ChunkFrame DEF PlanRestore
    <3>2. CASE Touch(Reachable(s, genOf[s]) \cap chunkRows, at)
      BY <1>3, <2>1, <3>2, TouchFrame DEF PlanRestore
    <3> QED
      BY <1>3, <3>1, <3>2 DEF PlanRestore
  <2> QED
    BY <1>3, <2>2, RowFrame, PassFrame, AgentFrame DEF PlanRestore, GraceSteps
<1>4. ASSUME NEW s \in Snaps, NEW w \in Procs, DeleteRequest(w, s) PROVE GraceSteps
  <2>1. PassStep
    BY <1>4, Numbers DEF DeleteRequest, PassStep, PastFloor, ClockInv, NumbersOK, Passes, TypeOK, PassesTyped
  <2> QED
    BY <1>4, <2>1, RowFrame, ChunkFrame, AgentFrame DEF DeleteRequest, GraceSteps
<1> QED
  BY <1>1, <1>2, <1>3, <1>4 DEF OperatorStep

\* A pass that replaces its own locals by p, and leaves the others alone.
LEMMA PassMoves ==
  ASSUME TypeOK, GraceInv, NEW w \in Procs, NEW p \in Passes, proc' = [proc EXCEPT ![w] = p],
         p.floor <= now,
         p.pc \in PastFloor =>
           \/ proc[w].pc \in PastFloor /\ p.floor = proc[w].floor
           \/ \A s \in Snaps : status[s] \in InFlight => p.floor <= createdAt[s]
  PROVE  PassStep
  BY DEF PassStep, GraceInv, ClockInv, TypeOK, PassesTyped

LEMMA DeleteRowStep ==
  ASSUME TypeOK, NEW s, DeleteSnapshot(s), UNCHANGED now
  PROVE  RowStep
  BY DEF DeleteSnapshot, RowStep, TypeOK, RowsTyped, InFlight, Exists

LEMMA IdleFacts == Idle.floor = 0 /\ Idle.pc = "idle" /\ Idle.cur = NoChunk
  BY DEF Idle

LEMMA ProcGrace ==
  ASSUME TypeOK, GraceInv, NEW w \in Procs, ProcStep(w) \/ GCAbort(w)
  PROVE  GraceSteps
<1> DEFINE q == proc[w]
<1> USE DEF rowVars, chunkVars, agentVars
<1>0. /\ q \in Passes /\ q.floor <= now /\ q.floor \in Nat /\ now \in Nat
      /\ ClockInv /\ FreshInv
  BY Numbers DEF NumbersOK, GraceInv, ClockInv
<1>i. ASSUME proc' = [proc EXCEPT ![w] = Idle] PROVE PassStep
  <2>1. Idle \in Passes /\ Idle.floor <= now /\ Idle.pc \notin PastFloor
    BY <1>0, IdleType, IdleFacts DEF PastFloor
  <2> QED
    BY <1>i, <2>1, PassMoves
<1>1. CASE DeleteForUser(w)
  <2> DEFINE r == [Idle EXCEPT !.pc = "list"]
  <2>1. r \in Passes /\ r.floor <= now /\ r.pc \notin PastFloor
    <3>1. r \in Passes /\ r.floor = Idle.floor /\ r.pc = "list"
      BY IdleType DEF Passes, PassSteps
    <3> QED
      BY <1>0, <3>1, IdleFacts DEF PastFloor
  <2>2. proc' = [proc EXCEPT ![w] = r]
    BY <1>1 DEF DeleteForUser
  <2>4. PassStep
    <3> HIDE DEF r
    <3> QED
      BY <2>1, <2>2, PassMoves
  <2>3. RowStep
    BY <1>1, DeleteRowStep DEF DeleteForUser
  <2> QED
    BY <1>0, <1>1, <2>4, <2>3, ChunkFrame, AgentFrame DEF DeleteForUser, GraceSteps
<1>2. CASE GCListSites(w)
  <2>1. PassStep
    BY <1>0, <1>2 DEF GCListSites, PassStep, PastFloor, ClockInv, Passes, TypeOK, PassesTyped
  <2> QED
    BY <1>0, <1>2, <2>1, RowFrame, ChunkFrame, AgentFrame DEF GCListSites, GraceSteps
<1>3. ASSUME NEW st \in Sites, GCSelect(w, st) PROVE GraceSteps
  <2>1. PassStep
    BY <1>0, <1>3 DEF GCSelect, PassStep, PastFloor, ClockInv, Passes, TypeOK, PassesTyped
  <2> QED
    BY <1>0, <1>3, <2>1, RowFrame, ChunkFrame, AgentFrame DEF GCSelect, GraceSteps
<1>4. CASE GCClock(w)
  <2>1. PassStep
    BY <1>0, <1>4 DEF GCClock, PassStep, PastFloor, ClockInv, Passes, TypeOK, PassesTyped
  <2> QED
    BY <1>0, <1>4, <2>1, RowFrame, ChunkFrame, AgentFrame DEF GCClock, GraceSteps
<1>5. CASE GCFloor(w)
  <2> DEFINE m == Least(InFlightStarts, q.floor)
             r == [q EXCEPT !.pc = "expand", !.floor = m,
                            !.todo = {ch \in Snaps : q.chainMax[ch] >= 0}]
  <2>1. /\ m \in Times /\ m <= q.floor
        /\ \A s \in Snaps : status[s] \in InFlight => m <= createdAt[s]
    BY <1>0, FloorValue DEF Passes
  <2>2. r \in Passes /\ r.floor = m /\ r.pc = "expand"
    BY <1>0, <2>1 DEF Passes, PassSteps
  <2>3. proc' = [proc EXCEPT ![w] = Settle(r)]
    BY <1>5 DEF GCFloor
  <2>4. Settle(r) \in Passes /\ Settle(r).floor = m
    BY <2>2, SettleType, SettleKeeps
  <2>5. m <= now
    BY <1>0, <2>1, ConstantsAssumption DEF Times
  <2>6. PassStep
    BY <2>1, <2>3, <2>4, <2>5, PassMoves
  <2> QED
    BY <1>0, <1>5, <2>6, RowFrame, ChunkFrame, AgentFrame DEF GCFloor, GraceSteps
<1>6. ASSUME NEW ch \in Snaps, GCExpand(w, ch) PROVE GraceSteps
  <2> DEFINE r == [q EXCEPT !.todo = q.todo \ {ch},
                            !.mark = q.mark \cup CompletedChain(ch, q.chainMax[ch])]
  <2>1. r \in Passes /\ r.floor = q.floor /\ r.pc = "expand"
    BY <1>0, <1>6 DEF GCExpand, Passes, CompletedChain, ChainRows
  <2>2. proc' = [proc EXCEPT ![w] = Settle(r)]
    BY <1>6 DEF GCExpand
  <2>3. Settle(r) \in Passes /\ Settle(r).floor = q.floor
    BY <2>1, SettleType, SettleKeeps
  <2>4. PassStep
    BY <1>0, <1>6, <2>2, <2>3, PassMoves DEF GCExpand, PastFloor
  <2> QED
    BY <1>0, <1>6, <2>4, RowFrame, ChunkFrame, AgentFrame DEF GCExpand, GraceSteps
<1>7. ASSUME NEW s \in Snaps, GCMark(w, s) PROVE GraceSteps
  <2> DEFINE n == Reachable(s, q.chainMax[chainOf[s]])
             r == [q EXCEPT !.todo = q.todo \ {s}, !.live = q.live \cup n]
  <2>0. n \subseteq Chunks
    BY ReachableType
  <2>1. r \in Passes /\ r.floor = q.floor /\ r.pc = "mark"
    <3> HIDE DEF n
    <3> QED
      BY <1>0, <1>7, <2>0 DEF GCMark, Passes
  <2>2. proc' = [proc EXCEPT ![w] = Settle(r)]
    BY <1>7 DEF GCMark
  <2>3. Settle(r) \in Passes /\ Settle(r).floor = q.floor
    BY <2>1, SettleType, SettleKeeps
  <2>4. PassStep
    BY <1>0, <1>7, <2>2, <2>3, PassMoves DEF GCMark, PastFloor
  <2> QED
    BY <1>0, <1>7, <2>4, RowFrame, ChunkFrame, AgentFrame DEF GCMark, GraceSteps
<1>8. ASSUME NEW s \in Snaps, GCPrune(w, s) PROVE GraceSteps
  <2>1. PassStep
    BY <1>0, <1>8 DEF GCPrune, PassStep, PastFloor, ClockInv, Passes, TypeOK, PassesTyped
  <2>2. RowStep
    BY <1>8, DeleteRowStep DEF GCPrune
  <2> QED
    BY <1>0, <1>8, <2>1, <2>2, ChunkFrame, AgentFrame DEF GCPrune, GraceSteps
<1>9. CASE SweepTenantChunks(w)
  <2>1. PassStep
    <3>1. CASE gcLock = NoProc
      BY <1>0, <1>9, <3>1
      DEF SweepTenantChunks, PassStep, PastFloor, ClockInv, Passes, TypeOK, PassesTyped
    <3>2. CASE gcLock # NoProc
      BY <1>9, <1>i, <3>2 DEF SweepTenantChunks
    <3> QED
      BY <3>1, <3>2
  <2> QED
    BY <1>0, <1>9, <2>1, RowFrame, ChunkFrame, AgentFrame DEF SweepTenantChunks, GraceSteps
<1>10. ASSUME NEW c \in Chunks, SweepObject(w, c) PROVE GraceSteps
  <2>1. PassStep
    BY <1>0, <1>10 DEF SweepObject, PassStep, PastFloor, ClockInv, Passes, TypeOK, PassesTyped
  <2> QED
    BY <1>0, <1>10, <2>1, RowFrame, ChunkFrame, AgentFrame DEF SweepObject, GraceSteps
<1>11. CASE SweepRow(w)
  <2>1. PassStep
    BY <1>0, <1>11 DEF SweepRow, PassStep, PastFloor, ClockInv, Passes, TypeOK, PassesTyped
  <2>2. ChunkStep
    <3> SUFFICES ASSUME NEW c \in chunkRows'
                 PROVE  c \in chunkRows /\ Boundary(c)' = Boundary(c)
      BY DEF ChunkStep
    <3>1. c \in chunkRows /\ c # q.cur /\ c \in Chunks
      BY <1>11 DEF SweepRow, TypeOK, ChunksTyped
    <3>2. chunkCreated'[c] = chunkCreated[c] /\ chunkRef'[c] = chunkRef[c]
      BY <1>11, <3>1 DEF SweepRow, TypeOK, ChunksTyped
    <3> QED
      BY <3>1, <3>2 DEF Boundary
  <2> QED
    BY <1>0, <1>11, <2>1, <2>2, RowFrame, AgentFrame DEF SweepRow, GraceSteps
<1>12. CASE SweepDone(w)
  BY <1>0, <1>12, <1>i, RowFrame, ChunkFrame, AgentFrame DEF SweepDone, GraceSteps
<1>13. CASE GCAbort(w)
  BY <1>0, <1>13, <1>i, RowFrame, ChunkFrame, AgentFrame DEF GCAbort, GraceSteps
<1> QED
  BY <1>1, <1>2, <1>3, <1>4, <1>5, <1>6, <1>7, <1>8, <1>9, <1>10, <1>11, <1>12, <1>13
  DEF ProcStep

LEMMA GraceInit == Init => GraceInv /\ ExactInv
  BY ConstantsAssumption, IdleFacts
  DEF Init, GraceInv, ClockInv, FreshInv, FloorInv, TouchInv, ExactInv, PastFloor, InFlight

LEMMA EveryStep == ASSUME TypeOK, GraceInv, [Next]_vars PROVE GraceSteps
<1>1. CASE CreateStep
  BY <1>1, CreateGrace
<1>2. CASE BackupStep
  BY <1>2, BackupGrace
<1>3. CASE OperatorStep
  BY <1>3, OperatorGrace
<1>4. CASE Tick
  <2>1. RowStep
    BY <1>4 DEF Tick, RowStep, rowVars
  <2> QED
    BY <1>4, <2>1, PassFrame, ChunkFrame, AgentFrame
    DEF Tick, GraceSteps, GraceInv, chunkVars, agentVars, gcVars
<1>5. CASE \E w \in Procs : ProcStep(w) \/ GCAbort(w)
  BY <1>5, ProcGrace
<1>6. CASE UNCHANGED vars
  BY <1>6, RowFrame, PassFrame, ChunkFrame, AgentFrame
  DEF vars, GraceSteps, GraceInv, rowVars, chunkVars, agentVars, gcVars
<1> QED
  BY <1>1, <1>2, <1>3, <1>4, <1>5, <1>6 DEF Next
LEMMA GraceStep ==
  ASSUME TypeOK, GraceInv, [Next]_vars
  PROVE  GraceInv'
  BY EveryStep, TypeStep, GraceFromSteps DEF GraceSteps

LEMMA ExactStep ==
  ASSUME TypeOK, GraceInv, ExactInv, [Next]_vars, ~Backdates
  PROVE  ExactInv'
  BY EveryStep, TypeStep, ExactFromSteps DEF GraceSteps

\* Only the sweep removes objects.
LEMMA OnlySweepRemoves ==
  ASSUME TypeOK, [Next]_vars, NEW c \in objects \ objects'
  PROVE  \E w \in Procs : proc[w].pc = "sweep" /\ Sweepable(w, c)
<1>0. ~UNCHANGED objects
  OBVIOUS
<1>1. ~CreateStep
  BY <1>0 DEF CreateStep, CreateBackup, CreateSnapshot, CreateRefused
<1>2. ~BackupStep
  BY <1>0 DEF BackupStep, MarkRunning, FailSnapshot, DispatchBroken, Dispatch, PresignChunks,
              UploadChunk, SubmitManifest, RecordManifest
<1>3. ~OperatorStep
  BY <1>0 DEF OperatorStep, SetSnapshotLocked, CreateRestore, EndRestore, PlanRestore, DeleteRequest
<1>4. ~Tick /\ ~UNCHANGED vars
  BY <1>0 DEF Tick, vars
<1>5. PICK w \in Procs : ProcStep(w) \/ GCAbort(w)
  BY <1>1, <1>2, <1>3, <1>4 DEF Next
<1>6. PICK d \in Chunks : SweepObject(w, d)
  BY <1>0, <1>5 DEF ProcStep, GCAbort, DeleteForUser, GCListSites, GCSelect, GCClock, GCFloor,
                    GCExpand, GCMark, GCPrune, SweepTenantChunks, SweepRow, SweepDone
<1> QED
  BY <1>6 DEF SweepObject

\* The object that goes is in no manifest, and a backup in flight relies on it
\* only if the chunk's time is before the start of that backup.
LEMMA SweepSparesStep ==
  ASSUME TypeOK, GraceInv, [Next]_vars, NEW c \in objects \ objects', NEW s \in Snaps
  PROVE  /\ c \notin Manifest(s)
         /\ c \in Needed(s) => /\ c \in chunkRows
                               /\ Boundary(c) < createdAt[s]
                               /\ createdAt[s] <= Boundary(c) + TxSpan
<1>1. PICK w \in Procs : proc[w].pc = "sweep" /\ Sweepable(w, c)
  BY OnlySweepRemoves
<1>2. c \notin Manifest(s)
  BY <1>1 DEF Sweepable, StillReferenced
<1>3. ASSUME c \in Needed(s)
      PROVE  /\ c \in chunkRows
             /\ Boundary(c) < createdAt[s]
             /\ createdAt[s] <= Boundary(c) + TxSpan
  <2>1. status[s] \in InFlight /\ c \in held[s] /\ c \in chunkRows /\ Boundary(c) < proc[w].floor
    BY <1>1, <1>3 DEF Needed, Sweepable
  <2>2. createdAt[s] <= Boundary(c) + TxSpan
    BY <2>1 DEF GraceInv, TouchInv
  <2>3. proc[w].floor <= createdAt[s]
    BY <1>1, <2>1 DEF GraceInv, FloorInv, PastFloor
  <2>4. Boundary(c) \in Nat /\ createdAt[s] \in Nat /\ proc[w].floor \in Nat
    BY <2>1, Numbers DEF NumbersOK, TypeOK, ChunksTyped
  <2> QED
    BY <2>1, <2>2, <2>3, <2>4
<1> QED
  BY <1>2, <1>3

\* For chunk transactions of any length the sweep takes no object of a
\* recorded manifest; it takes one that a backup in flight relies on only when
\* the chunk's time lies before the start of that backup, and by at most the
\* length of a transaction.  sweepOneChunk's floor and reference check achieve
\* this for any number of passes, backups, deletes and aborts.
THEOREM SweepSpares == Spec => SweepSparesWithin
<1> DEFINE Spared(c, s) ==
             /\ c \notin Manifest(s)
             /\ c \in Needed(s) =>
                  LET touched == Later(chunkCreated[c], chunkRef[c]) IN
                  touched < createdAt[s] /\ createdAt[s] <= touched + TxSpan
           AllSpared == \A c \in objects \ objects' : \A s \in Snaps : Spared(c, s)
<1>1. TypeOK /\ GraceInv /\ [Next]_vars => GraceInv'
  BY GraceStep
<1>2. TypeOK /\ GraceInv /\ [Next]_vars => AllSpared
  BY SweepSparesStep DEF Boundary
<1> HIDE DEF AllSpared
<1>3. Spec => [][AllSpared]_vars
  BY <1>1, <1>2, GraceInit, TypeCorrect, PTL DEF Spec
<1> QED
  BY <1>3 DEF AllSpared, SweepSparesWithin

-----------------------------------------------------------------------------
(* A finished snapshot stays as it is until its row goes. *)

\* What a step may do to the row of a finished snapshot.
RowFinal(s) ==
  status[s] \in Terminal =>
    \/ status'[s] = "gone"
    \/ /\ status'[s] = status[s] /\ finishedAt'[s] = finishedAt[s]
       /\ manFiles'[s] = manFiles[s] /\ manDb'[s] = manDb[s]
       /\ chainOf'[s] = chainOf[s] /\ genOf'[s] = genOf[s]

LEMMA FinalDelete ==
  ASSUME TypeOK, NEW s, DeleteSnapshot(s), NEW t \in Snaps
  PROVE  RowFinal(t)
  BY DEF DeleteSnapshot, RowFinal, TypeOK, RowsTyped, Exists, Terminal

LEMMA FinalStep == ASSUME TypeOK, [Next]_vars, NEW t \in Snaps PROVE RowFinal(t)
<1> USE DEF rowVars
<1>a. ASSUME UNCHANGED <<status, finishedAt, manFiles, manDb, chainOf, genOf>> PROVE RowFinal(t)
  BY <1>a DEF RowFinal
<1>1. CASE CreateStep
  <2>1. ASSUME NEW o \in Operators, NEW s \in Snaps, CreateSnapshot(o, s) PROVE RowFinal(t)
    BY <2>1 DEF CreateSnapshot, RowFinal, TypeOK, RowsTyped, Terminal
  <2> QED
    BY <1>1, <1>a, <2>1 DEF CreateStep, CreateBackup, CreateRefused
<1>2. CASE BackupStep
  <2>1. ASSUME NEW s \in Snaps, MarkRunning(s) \/ FailSnapshot(s) \/ DispatchBroken(s)
        PROVE  RowFinal(t)
    BY <2>1 DEF MarkRunning, FailSnapshot, DispatchBroken, RowFinal, TypeOK, RowsTyped,
                Terminal, InFlight
  <2>2. ASSUME NEW s \in Snaps, NEW db, NEW at, RecordManifest(s, db, at) PROVE RowFinal(t)
    <3>1. CASE Completes(s)
      BY <2>2, <3>1 DEF RecordManifest, Completes, RowFinal, TypeOK, RowsTyped, Terminal, InFlight
    <3>2. CASE ~Completes(s)
      BY <2>2, <3>2, <1>a DEF RecordManifest
    <3> QED
      BY <3>1, <3>2
  <2>3. ASSUME NEW s, NEW c, NEW at,
               \/ Dispatch(s, at) \/ PresignChunks(s, c, at)
               \/ UploadChunk(s, c) \/ SubmitManifest(s)
        PROVE  RowFinal(t)
    BY <2>3, <1>a DEF Dispatch, PresignChunks, UploadChunk, SubmitManifest
  <2> QED
    BY <1>2, <2>1, <2>2, <2>3 DEF BackupStep
<1>3. CASE OperatorStep
  BY <1>3, <1>a DEF OperatorStep, SetSnapshotLocked, CreateRestore, EndRestore, PlanRestore,
                    DeleteRequest
<1>4. CASE Tick \/ UNCHANGED vars
  BY <1>4, <1>a DEF Tick, vars
<1>5. CASE \E w \in Procs : ProcStep(w) \/ GCAbort(w)
  <2>1. ASSUME NEW w, NEW s, DeleteForUser(w) \/ GCPrune(w, s) PROVE RowFinal(t)
    BY <2>1, FinalDelete DEF DeleteForUser, GCPrune
  <2>2. ASSUME NEW w, NEW s, GCSelect(w, s) \/ GCExpand(w, s) \/ GCMark(w, s) \/ SweepObject(w, s)
        PROVE  RowFinal(t)
    BY <2>2, <1>a DEF GCSelect, GCExpand, GCMark, SweepObject
  <2>3. ASSUME NEW w, \/ GCListSites(w) \/ GCClock(w) \/ GCFloor(w) \/ SweepTenantChunks(w)
                      \/ SweepRow(w) \/ SweepDone(w) \/ GCAbort(w)
        PROVE  RowFinal(t)
    BY <2>3, <1>a DEF GCListSites, GCClock, GCFloor, SweepTenantChunks, SweepRow, SweepDone, GCAbort
  <2> QED
    BY <1>5, <2>1, <2>2, <2>3 DEF ProcStep
<1> QED
  BY <1>1, <1>2, <1>3, <1>4, <1>5 DEF Next

\* A finished snapshot never runs again and its manifest never changes: the
\* late manifest, the stall watchdog and the operator's cancel all lose to the
\* status guard of guardedSnapshotTransition.
THEOREM FinalStates == Spec => TerminalIsFinal
<1> DEFINE Final == \A s \in Snaps : RowFinal(s)
<1>1. TypeOK /\ [Next]_vars => Final
  BY FinalStep
<1> HIDE DEF Final
<1>2. Spec => [][Final]_vars
  BY <1>1, TypeCorrect, PTL DEF Spec
<1> QED
  BY <1>2 DEF Final, RowFinal, TerminalIsFinal

-----------------------------------------------------------------------------
(***************************************************************************)
(* No chunk of a completed snapshot is missing.  A row without an object   *)
(* exists only while the sweep holds the row, so the dedup oracle, which   *)
(* waits for that row, tells the truth; and what a backup was told or has  *)
(* uploaded stays in the store until its manifest lists it.                *)
(***************************************************************************)

LockedRows == {c \in Chunks : RowLocked(c)}

StoredInv ==
  /\ \A s \in Snaps : Manifest(s) # {} => status[s] = "completed"
  /\ \A s \in Snaps : Manifest(s) \subseteq (chunkRows \cap objects) \ LockedRows
  /\ chunkRows \subseteq objects \cup LockedRows
  /\ \A s \in Snaps : status[s] \in InFlight => held[s] \subseteq objects

\* A step that leaves chunks, objects and row locks alone, and at most drops
\* manifests and promises.
QuietStep ==
  /\ UNCHANGED <<chunkRows, objects>> /\ LockedRows' = LockedRows
  /\ \A s \in Snaps :
       /\ \/ Manifest(s)' = {}
          \/ Manifest(s)' = Manifest(s) /\ (status[s] = "completed" => status'[s] = "completed")
       /\ status'[s] \in InFlight => \/ held'[s] = {}
                                     \/ status[s] \in InFlight /\ held'[s] = held[s]

LEMMA QuietKeeps == ASSUME StoredInv, QuietStep PROVE StoredInv'
<1>1. \A s \in Snaps : Manifest(s)' # {} => status'[s] = "completed"
  BY DEF StoredInv, QuietStep
<1>2. \A s \in Snaps : Manifest(s)' \subseteq (chunkRows' \cap objects') \ LockedRows'
  BY DEF StoredInv, QuietStep
<1>3. chunkRows' \subseteq objects' \cup LockedRows'
  BY DEF StoredInv, QuietStep
<1>4. \A s \in Snaps : status'[s] \in InFlight => held'[s] \subseteq objects'
  BY DEF StoredInv, QuietStep
<1> QED
  BY <1>1, <1>2, <1>3, <1>4 DEF StoredInv

LEMMA LocksFrame == UNCHANGED proc => LockedRows' = LockedRows
  BY DEF LockedRows, RowLocked

LEMMA ManifestFrame == ASSUME UNCHANGED <<manFiles, manDb>>, NEW s PROVE Manifest(s)' = Manifest(s)
  BY DEF Manifest

\* Nothing about rows, agents, chunks or objects changes.
LEMMA QuietFrame ==
  ASSUME UNCHANGED <<rowVars, chunkRows, objects, held>>, LockedRows' = LockedRows
  PROVE  QuietStep
  BY ManifestFrame DEF QuietStep, rowVars

\* A pass that neither holds a row before the step nor after it.
LEMMA LocksKept ==
  ASSUME TypeOK, NEW w \in Procs, proc[w].pc # "row", proc'[w].pc # "row",
         \A v \in Procs \ {w} : proc'[v] = proc[v]
  PROVE  LockedRows' = LockedRows
  BY DEF LockedRows, RowLocked

LEMMA CreateStored == ASSUME TypeOK, GraceInv, CreateStep PROVE QuietStep
<1> USE DEF rowVars, chunkVars, agentVars, gcVars
<1>1. ASSUME NEW o \in Operators, NEW s \in Snaps, CreateSnapshot(o, s) PROVE QuietStep
  <2>1. held[s] = {} /\ held' = held
    BY <1>1 DEF CreateSnapshot, GraceInv, FreshInv
  <2>2. \A t \in Snaps : Manifest(t)' = Manifest(t)
    BY <1>1, ManifestFrame DEF CreateSnapshot
  <2>3. LockedRows' = LockedRows
    BY <1>1, LocksFrame DEF CreateSnapshot
  <2>4. \A t \in Snaps : t # s => status'[t] = status[t]
    BY <1>1 DEF CreateSnapshot, TypeOK, RowsTyped
  <2> QED
    BY <1>1, <2>1, <2>2, <2>3, <2>4 DEF CreateSnapshot, QuietStep
<1> QED
  BY <1>1, QuietFrame, LocksFrame DEF CreateStep, CreateBackup, CreateRefused

LEMMA OperatorStored == ASSUME TypeOK, OperatorStep PROVE QuietStep
<1> USE DEF rowVars, chunkVars, agentVars, gcVars
<1>1. ASSUME NEW s, NEW on, SetSnapshotLocked(s, on) PROVE QuietStep
  BY <1>1, LocksFrame, ManifestFrame DEF SetSnapshotLocked, QuietStep
<1>2. ASSUME NEW s, NEW at, CreateRestore(s) \/ EndRestore(s) \/ PlanRestore(s, at) PROVE QuietStep
  BY <1>2, LocksFrame, QuietFrame DEF CreateRestore, EndRestore, PlanRestore
<1>3. ASSUME NEW s, NEW w \in Procs, DeleteRequest(w, s) PROVE QuietStep
  <2>1. LockedRows' = LockedRows
    BY <1>3, LocksKept DEF DeleteRequest, TypeOK, PassesTyped, Passes
  <2> QED
    BY <1>3, <2>1, QuietFrame DEF DeleteRequest
<1> QED
  BY <1>1, <1>2, <1>3 DEF OperatorStep

LEMMA BackupStored == ASSUME TypeOK, StoredInv, BackupStep PROVE StoredInv'
<1> USE DEF rowVars, chunkVars, agentVars, gcVars
<1>1. ASSUME NEW s \in Snaps, MarkRunning(s) \/ FailSnapshot(s) PROVE StoredInv'
  <2>1. LockedRows' = LockedRows /\ \A t \in Snaps : Manifest(t)' = Manifest(t)
    BY <1>1, LocksFrame, ManifestFrame DEF MarkRunning, FailSnapshot
  <2>2. QuietStep
    BY <1>1, <2>1 DEF MarkRunning, FailSnapshot, QuietStep, TypeOK, RowsTyped, InFlight
  <2> QED
    BY <2>2, QuietKeeps
<1>2. ASSUME NEW s \in Snaps, DispatchBroken(s) PROVE StoredInv'
  BY <1>1, <1>2 DEF DispatchBroken
<1>3. ASSUME NEW s, NEW at, Dispatch(s, at) \/ SubmitManifest(s) PROVE StoredInv'
  BY <1>3, LocksFrame, QuietFrame, QuietKeeps DEF Dispatch, SubmitManifest
<1>4. ASSUME NEW s \in Snaps, NEW c \in Chunks, NEW at, PresignChunks(s, c, at) PROVE StoredInv'
  <2>1. CASE c \notin chunkRows
    BY <1>4, <2>1, LocksFrame, QuietFrame, QuietKeeps DEF PresignChunks
  <2>2. CASE c \in chunkRows
    <3>1. c \in objects
      BY <1>4, <2>2 DEF PresignChunks, StoredInv, LockedRows
    <3>2. LockedRows' = LockedRows /\ \A t \in Snaps : Manifest(t)' = Manifest(t)
      BY <1>4, LocksFrame, ManifestFrame DEF PresignChunks
    <3>3. \A t \in Snaps : held'[t] \subseteq held[t] \cup {c}
      BY <1>4, <2>2 DEF PresignChunks, TypeOK, AgentsTyped
    <3> QED
      BY <1>4, <3>1, <3>2, <3>3 DEF PresignChunks, StoredInv
  <2> QED
    BY <2>1, <2>2
<1>5. ASSUME NEW s \in Snaps, NEW c \in Chunks, UploadChunk(s, c) PROVE StoredInv'
  <2>1. LockedRows' = LockedRows /\ \A t \in Snaps : Manifest(t)' = Manifest(t)
    BY <1>5, LocksFrame, ManifestFrame DEF UploadChunk
  <2>2. objects' = objects \cup {c} /\ \A t \in Snaps : held'[t] \subseteq held[t] \cup {c}
    BY <1>5 DEF UploadChunk, TypeOK, AgentsTyped
  <2> QED
    BY <1>5, <2>1, <2>2 DEF UploadChunk, StoredInv
<1>6. ASSUME NEW s \in Snaps, NEW db \in SUBSET Chunks, NEW at, RecordManifest(s, db, at)
      PROVE  StoredInv'
  <2>0. LockedRows' = LockedRows /\ objects' = objects
    BY <1>6, LocksFrame DEF RecordManifest
  <2>1. \A t \in Snaps : held'[t] = IF t = s THEN {} ELSE held[t]
    BY <1>6 DEF RecordManifest, TypeOK, AgentsTyped
  <2>2. CASE ~Completes(s)
    <3>1. \A t \in Snaps : Manifest(t)' = Manifest(t)
      BY <1>6, <2>2, ManifestFrame DEF RecordManifest
    <3>2. QuietStep
      BY <1>6, <2>0, <2>1, <2>2, <3>1 DEF RecordManifest, QuietStep
    <3> QED
      BY <3>2, QuietKeeps
  <2>3. CASE Completes(s)
    <3>1. \A t \in Snaps : status'[t] = IF t = s THEN "completed" ELSE status[t]
      BY <1>6, <2>3 DEF RecordManifest, TypeOK, RowsTyped
    <3>2. \A t \in Snaps : Manifest(t)' = IF t = s THEN held[s] ELSE Manifest(t)
      BY <1>6, <2>3 DEF RecordManifest, TypeOK, RowsTyped, Manifest
    <3>3. chunkRows' = chunkRows \cup held[s]
      BY <1>6, <2>3 DEF RecordManifest
    <3>4. held[s] \subseteq objects \ LockedRows
      BY <1>6, <2>3 DEF RecordManifest, Completes, StoredInv, LockedRows
    <3> QED
      BY <2>0, <2>1, <3>1, <3>2, <3>3, <3>4 DEF StoredInv, InFlight
  <2> QED
    BY <2>2, <2>3
<1> QED
  BY <1>1, <1>2, <1>3, <1>4, <1>5, <1>6 DEF BackupStep

LEMMA DeleteStored ==
  ASSUME TypeOK, NEW s, DeleteSnapshot(s), UNCHANGED <<chunkRows, objects, held>>, LockedRows' = LockedRows
  PROVE  QuietStep
<1>1. \A t \in Snaps : /\ Manifest(t)' = IF t = s THEN {} ELSE Manifest(t)
                       /\ t # s => status'[t] = status[t]
                       /\ status'[t] \in {status[t], "gone"}
  BY DEF DeleteSnapshot, Manifest, TypeOK, RowsTyped
<1> QED
  BY <1>1 DEF QuietStep, InFlight

\* Every step of a pass but the two that delete a chunk.
LEMMA PassStored ==
  ASSUME TypeOK, NEW w \in Procs, NEW x, GCAbort(w) => proc[w].pc # "row",
         \/ DeleteForUser(w) \/ GCListSites(w) \/ GCSelect(w, x) \/ GCClock(w) \/ GCFloor(w)
         \/ GCExpand(w, x) \/ GCMark(w, x) \/ GCPrune(w, x)
         \/ SweepTenantChunks(w) \/ SweepDone(w) \/ GCAbort(w)
         \/ SweepObject(w, x) /\ ~Sweepable(w, x)
  PROVE  QuietStep
<1> USE DEF chunkVars, agentVars
<1>a. ASSUME NEW p, proc' = [proc EXCEPT ![w] = p], p.pc # "row", proc[w].pc # "row"
      PROVE  LockedRows' = LockedRows
  BY <1>a, LocksKept DEF TypeOK, PassesTyped
<1>0. proc[w] \in Passes
  BY DEF TypeOK, PassesTyped
<1>1. CASE DeleteForUser(w)
  <2>1. proc' = [proc EXCEPT ![w] = [Idle EXCEPT !.pc = "list"]] /\ proc[w].pc # "row"
    BY <1>1 DEF DeleteForUser
  <2>2. [Idle EXCEPT !.pc = "list"].pc # "row"
    BY IdleType DEF Passes
  <2>3. LockedRows' = LockedRows
    BY <1>a, <2>1, <2>2
  <2> QED
    BY <1>1, <2>3, DeleteStored DEF DeleteForUser
<1>2. CASE GCListSites(w) \/ GCSelect(w, x) \/ GCClock(w)
  <2>1. proc[w].pc # "row"
    BY <1>2 DEF GCListSites, GCSelect, GCClock
  <2>2. /\ proc'[w].pc \in {"select", "floor"}
        /\ \A v \in Procs \ {w} : proc'[v] = proc[v]
    <3>1. CASE GCListSites(w)
      BY <1>0, <3>1 DEF GCListSites, TypeOK, PassesTyped, Passes
    <3>2. CASE GCSelect(w, x)
      BY <1>0, <3>2 DEF GCSelect, TypeOK, PassesTyped, Passes
    <3>3. CASE GCClock(w)
      BY <1>0, <3>3 DEF GCClock, TypeOK, PassesTyped, Passes
    <3> QED
      BY <1>2, <3>1, <3>2, <3>3
  <2>3. LockedRows' = LockedRows
    BY <2>1, <2>2, LocksKept
  <2> QED
    BY <1>2, <2>3, QuietFrame DEF GCListSites, GCSelect, GCClock
<1>3. ASSUME NEW p \in Passes, p.pc \in {"expand", "mark"}, proc[w].pc # "row",
             proc' = [proc EXCEPT ![w] = Settle(p)]
      PROVE  LockedRows' = LockedRows
  <2>1. Settle(p).pc # "row"
    BY <1>3 DEF Settle, Passes
  <2> HIDE DEF Settle
  <2> QED
    BY <1>3, <1>a, <2>1
<1>9. CASE GCFloor(w)
  <2> DEFINE r == [proc[w] EXCEPT !.pc = "expand",
                                  !.floor = Least(InFlightStarts, proc[w].floor),
                                  !.todo = {ch \in Snaps : proc[w].chainMax[ch] >= 0}]
  <2>1. Least(InFlightStarts, proc[w].floor) \in Times
    BY <1>0, FloorValue DEF Passes
  <2>2. r \in Passes /\ r.pc = "expand"
    BY <1>0, <2>1 DEF Passes, PassSteps
  <2>3. proc' = [proc EXCEPT ![w] = Settle(r)] /\ proc[w].pc # "row"
    BY <1>9 DEF GCFloor
  <2>4. LockedRows' = LockedRows
    <3> HIDE DEF r
    <3> QED
      BY <1>3, <2>2, <2>3
  <2> QED
    BY <1>9, <2>4, QuietFrame DEF GCFloor
<1>10. CASE GCExpand(w, x)
  <2> DEFINE r == [proc[w] EXCEPT
                     !.todo = proc[w].todo \ {x},
                     !.mark = proc[w].mark \cup CompletedChain(x, proc[w].chainMax[x])]
  <2>1. r \in Passes /\ r.pc = "expand"
    BY <1>0, <1>10 DEF GCExpand, Passes, CompletedChain, ChainRows
  <2>2. proc' = [proc EXCEPT ![w] = Settle(r)] /\ proc[w].pc # "row"
    BY <1>10 DEF GCExpand
  <2>3. LockedRows' = LockedRows
    <3> HIDE DEF r
    <3> QED
      BY <1>3, <2>1, <2>2
  <2> QED
    BY <1>10, <2>3, QuietFrame DEF GCExpand
<1>11. CASE GCMark(w, x)
  <2> DEFINE n == Reachable(x, proc[w].chainMax[chainOf[x]])
             r == [proc[w] EXCEPT !.todo = proc[w].todo \ {x}, !.live = proc[w].live \cup n]
  <2>0. n \subseteq Chunks
    BY <1>0, <1>11, ReachableType DEF GCMark, Passes
  <2>1. r \in Passes /\ r.pc = "mark"
    <3> HIDE DEF n
    <3> QED
      BY <1>0, <1>11, <2>0 DEF GCMark, Passes
  <2>2. proc' = [proc EXCEPT ![w] = Settle(r)] /\ proc[w].pc # "row"
    BY <1>11 DEF GCMark
  <2>3. LockedRows' = LockedRows
    <3> HIDE DEF r
    <3> QED
      BY <1>3, <2>1, <2>2
  <2> QED
    BY <1>11, <2>3, QuietFrame DEF GCMark
<1>4. CASE GCPrune(w, x)
  <2>1. LockedRows' = LockedRows
    BY <1>0, <1>4, LocksKept DEF GCPrune, TypeOK, PassesTyped, Passes
  <2> QED
    BY <1>4, <2>1, DeleteStored DEF GCPrune
<1>5. CASE proc' = [proc EXCEPT ![w] = Idle] /\ proc[w].pc # "row"
           /\ UNCHANGED <<rowVars, chunkRows, objects, held>>
  BY <1>5, <1>a, IdleFacts, QuietFrame
<1>6. CASE SweepTenantChunks(w)
  <2>1. CASE gcLock = NoProc
    <3>1. LockedRows' = LockedRows
      BY <1>0, <1>6, <2>1, LocksKept DEF SweepTenantChunks, TypeOK, PassesTyped, Passes
    <3> QED
      BY <1>6, <3>1, QuietFrame DEF SweepTenantChunks
  <2> QED
    BY <1>5, <1>6, <2>1 DEF SweepTenantChunks
<1>7. CASE SweepDone(w) \/ GCAbort(w)
  BY <1>5, <1>7 DEF SweepDone, GCAbort
<1>8. CASE SweepObject(w, x) /\ ~Sweepable(w, x)
  <2>1. LockedRows' = LockedRows
    BY <1>0, <1>8, LocksKept DEF SweepObject, TypeOK, PassesTyped, Passes
  <2> QED
    BY <1>8, <2>1, QuietFrame DEF SweepObject
<1> QED
  BY <1>1, <1>2, <1>4, <1>6, <1>7, <1>8, <1>9, <1>10, <1>11

LEMMA SweepObjectStored ==
  ASSUME TypeOK, GraceInv, ExactInv, StoredInv, NEW w \in Procs, NEW c \in Chunks,
         SweepObject(w, c), Sweepable(w, c), [Next]_vars
  PROVE  StoredInv'
<1> USE DEF rowVars, chunkVars, agentVars
<1>1. objects' = objects \ {c} /\ UNCHANGED <<status, manFiles, manDb, chunkRows, held>>
  BY DEF SweepObject
<1>2. LockedRows' = LockedRows \cup {c}
  <2>1. proc[w].pc = "sweep" /\ proc'[w].pc = "row" /\ proc'[w].cur = c
    BY DEF SweepObject, TypeOK, PassesTyped, Passes
  <2>2. \A v \in Procs \ {w} : proc'[v] = proc[v]
    BY DEF SweepObject, TypeOK, PassesTyped
  <2> QED
    BY <2>1, <2>2 DEF LockedRows, RowLocked
<1>3. \A s \in Snaps : c \notin Manifest(s) /\ Manifest(s)' = Manifest(s)
  BY <1>1, ManifestFrame DEF Sweepable, StillReferenced
<1>4. \A s \in Snaps : status[s] \in InFlight => held[s] \subseteq objects \ {c}
  <2> SUFFICES ASSUME NEW s \in Snaps, status[s] \in InFlight, c \in held[s], c \in objects
               PROVE  FALSE
    BY DEF StoredInv
  <2>1. c \in objects \ objects'
    BY <1>1
  <2>2. c \in chunkRows /\ Boundary(c) < createdAt[s]
    BY <2>1, SweepSparesStep DEF Needed
  <2>3. createdAt[s] <= Boundary(c) /\ createdAt[s] \in Nat /\ Boundary(c) \in Nat
    BY <2>2, Numbers DEF ExactInv, NumbersOK
  <2> QED
    BY <2>2, <2>3
<1> QED
  BY <1>1, <1>2, <1>3, <1>4 DEF StoredInv

LEMMA SweepRowStored ==
  ASSUME TypeOK, StoredInv, NEW w \in Procs, SweepRow(w)
  PROVE  StoredInv'
<1> USE DEF rowVars, agentVars
<1> DEFINE c == proc[w].cur
<1>1. UNCHANGED <<status, manFiles, manDb, objects, held>> /\ chunkRows' = chunkRows \ {c}
  BY DEF SweepRow
<1>2. LockedRows \ {c} \subseteq LockedRows' /\ LockedRows' \subseteq LockedRows
  <2>1. proc[w].pc = "row" /\ proc'[w].pc = "sweep"
    BY DEF SweepRow, TypeOK, PassesTyped, Passes
  <2>2. \A v \in Procs \ {w} : proc'[v] = proc[v]
    BY DEF SweepRow, TypeOK, PassesTyped
  <2> QED
    BY <2>1, <2>2 DEF LockedRows, RowLocked
<1>3. \A s \in Snaps : c \notin Manifest(s) /\ Manifest(s)' = Manifest(s)
  <2>1. c \in Chunks => c \in LockedRows
    BY DEF SweepRow, LockedRows, RowLocked
  <2> QED
    BY <1>1, <2>1, ManifestFrame DEF StoredInv, TypeOK, ChunksTyped
<1> QED
  BY <1>1, <1>2, <1>3 DEF StoredInv

LEMMA StoredInit == Init => StoredInv
  BY DEF Init, StoredInv, Manifest, InFlight

LEMMA StoredStep ==
  ASSUME ~StopsMidSweep, TypeOK, GraceInv, ExactInv, StoredInv, [Next]_vars
  PROVE  StoredInv'
<1>1. CASE CreateStep \/ OperatorStep
  BY <1>1, CreateStored, OperatorStored, QuietKeeps
<1>2. CASE BackupStep
  BY <1>2, BackupStored
<1>3. CASE Tick \/ UNCHANGED vars
  BY <1>3, LocksFrame, QuietFrame, QuietKeeps DEF Tick, vars, chunkVars, agentVars, gcVars
<1>a. ASSUME NEW w \in Procs, GCAbort(w) PROVE proc[w].pc # "row"
  <2>1. proc'[w] = Idle
    BY <1>a DEF GCAbort, TypeOK, PassesTyped
  <2> QED
    BY <2>1, IdleFacts DEF StopsMidSweep
<1>4. ASSUME NEW w \in Procs, NEW c \in Chunks, SweepObject(w, c) PROVE StoredInv'
  BY <1>4, <1>a, SweepObjectStored, PassStored, QuietKeeps
<1>5. ASSUME NEW w \in Procs, ProcStep(w) \/ GCAbort(w) PROVE StoredInv'
  <2>1. CASE \E c \in Chunks : SweepObject(w, c)
    BY <1>4, <2>1
  <2>2. CASE SweepRow(w)
    BY <2>2, SweepRowStored
  <2>3. CASE \/ DeleteForUser(w) \/ GCListSites(w) \/ GCClock(w) \/ GCFloor(w)
             \/ SweepTenantChunks(w) \/ SweepDone(w) \/ GCAbort(w)
    BY <1>a, <2>3, PassStored, QuietKeeps
  <2>4. CASE \/ \E st \in Sites : GCSelect(w, st)
             \/ \E s \in Snaps : GCExpand(w, s) \/ GCMark(w, s) \/ GCPrune(w, s)
    BY <1>a, <2>4, PassStored, QuietKeeps
  <2> QED
    BY <1>5, <2>1, <2>2, <2>3, <2>4 DEF ProcStep
<1> QED
  BY <1>1, <1>2, <1>3, <1>5 DEF Next

\* A step that neither sets a chunk's time back below the start of a backup
\* that relies on it nor stops a pass between the two deletes of a chunk.
Benign == ~Backdates /\ ~StopsMidSweep

\* Those two are the only ways in which a completed snapshot comes to miss a
\* chunk: in a behaviour without them every completed snapshot has all its
\* chunks, as rows and as objects, whatever the length of transactions and for
\* any number of sites, backups, passes, operators and aborts elsewhere.
THEOREM StoredChunks ==
  Spec /\ [][~Backdates /\ ~StopsMidSweep]_vars => []ChunksOfCompletedStored
<1>1. TypeOK /\ GraceInv /\ [Next]_vars => GraceInv'
  BY GraceStep
<1>2. TypeOK /\ GraceInv /\ ExactInv /\ [Next]_vars /\ [Benign]_vars => ExactInv'
  <2>1. CASE Benign
    BY <2>1, ExactStep DEF Benign
  <2>2. CASE UNCHANGED vars
    BY <2>2 DEF vars, rowVars, chunkVars, agentVars, ExactInv, Boundary
  <2> QED
    BY <2>1, <2>2
<1>3. TypeOK /\ GraceInv /\ ExactInv /\ StoredInv /\ [Next]_vars /\ [Benign]_vars => StoredInv'
  <2>1. CASE Benign
    BY <2>1, StoredStep DEF Benign
  <2>2. CASE UNCHANGED vars
    BY <2>2, LocksFrame, QuietFrame, QuietKeeps DEF vars, chunkVars, agentVars, gcVars
  <2> QED
    BY <2>1, <2>2
<1>4. StoredInv => ChunksOfCompletedStored
  BY DEF StoredInv, ChunksOfCompletedStored
<1>5. Spec /\ [][Benign]_vars => []ChunksOfCompletedStored
  BY <1>1, <1>2, <1>3, <1>4, GraceInit, StoredInit, TypeCorrect, PTL DEF Spec
<1> QED
  BY <1>5 DEF Benign

-----------------------------------------------------------------------------
(***************************************************************************)
(* What a recorded manifest lists.  Its rows are not up for the sweep: a   *)
(* manifest is recorded only when no row of it is held FOR UPDATE, and a   *)
(* row that a manifest lists is not taken by sweepOneChunk.                *)
(***************************************************************************)

RecordedInv ==
  /\ \A s \in Snaps : Manifest(s) # {} => status[s] = "completed"
  /\ \A s \in Snaps : Manifest(s) \subseteq chunkRows \ LockedRows

\* A step that adds no row lock, no chunk row and no manifest.
LooseStep ==
  /\ UNCHANGED chunkRows /\ LockedRows' \subseteq LockedRows
  /\ \A s \in Snaps :
       \/ Manifest(s)' = {}
       \/ Manifest(s)' = Manifest(s) /\ (status[s] = "completed" => status'[s] = "completed")

LEMMA LooseKeeps == ASSUME RecordedInv, QuietStep \/ LooseStep PROVE RecordedInv'
  BY DEF RecordedInv, QuietStep, LooseStep

LEMMA BackupRecorded == ASSUME TypeOK, RecordedInv, BackupStep PROVE RecordedInv'
<1> USE DEF rowVars, chunkVars, agentVars, gcVars
<1>1. ASSUME NEW s \in Snaps, MarkRunning(s) \/ FailSnapshot(s) \/ DispatchBroken(s)
      PROVE  RecordedInv'
  <2>1. LockedRows' = LockedRows /\ \A t \in Snaps : Manifest(t)' = Manifest(t)
    BY <1>1, LocksFrame, ManifestFrame DEF MarkRunning, FailSnapshot, DispatchBroken
  <2>2. LooseStep
    BY <1>1, <2>1
    DEF MarkRunning, FailSnapshot, DispatchBroken, LooseStep, TypeOK, RowsTyped, InFlight
  <2> QED
    BY <2>2, LooseKeeps
<1>2. ASSUME NEW s, NEW c, NEW at, \/ Dispatch(s, at) \/ PresignChunks(s, c, at)
                                   \/ UploadChunk(s, c) \/ SubmitManifest(s)
      PROVE  RecordedInv'
  <2>1. UNCHANGED <<rowVars, chunkRows>> /\ LockedRows' = LockedRows
    BY <1>2, LocksFrame DEF Dispatch, PresignChunks, UploadChunk, SubmitManifest
  <2>2. LooseStep
    BY <2>1, ManifestFrame DEF LooseStep
  <2> QED
    BY <2>2, LooseKeeps
<1>3. ASSUME NEW s \in Snaps, NEW db \in SUBSET Chunks, NEW at, RecordManifest(s, db, at)
      PROVE  RecordedInv'
  <2>1. LockedRows' = LockedRows
    BY <1>3, LocksFrame DEF RecordManifest
  <2>2. CASE ~Completes(s)
    <3>1. LooseStep
      BY <1>3, <2>1, <2>2, ManifestFrame DEF RecordManifest, LooseStep
    <3> QED
      BY <3>1, LooseKeeps
  <2>3. CASE Completes(s)
    <3>1. \A t \in Snaps : status'[t] = IF t = s THEN "completed" ELSE status[t]
      BY <1>3, <2>3 DEF RecordManifest, TypeOK, RowsTyped
    <3>2. \A t \in Snaps : Manifest(t)' = IF t = s THEN held[s] ELSE Manifest(t)
      BY <1>3, <2>3 DEF RecordManifest, TypeOK, RowsTyped, Manifest
    <3>3. chunkRows' = chunkRows \cup held[s] /\ held[s] \cap LockedRows = {}
      BY <1>3, <2>3 DEF RecordManifest, LockedRows
    <3> QED
      BY <2>1, <3>1, <3>2, <3>3 DEF RecordedInv
  <2> QED
    BY <2>2, <2>3
<1> QED
  BY <1>1, <1>2, <1>3 DEF BackupStep

LEMMA SweepRecorded ==
  ASSUME TypeOK, RecordedInv, NEW w \in Procs, NEW c \in Chunks, SweepObject(w, c), Sweepable(w, c)
  PROVE  RecordedInv'
<1>1. UNCHANGED <<status, manFiles, manDb, chunkRows>>
  BY DEF SweepObject, rowVars, chunkVars
<1>2. LockedRows' \subseteq LockedRows \cup {c}
  BY DEF SweepObject, LockedRows, RowLocked, TypeOK, PassesTyped, Passes
<1>3. \A s \in Snaps : c \notin Manifest(s) /\ Manifest(s)' = Manifest(s)
  BY <1>1, ManifestFrame DEF Sweepable, StillReferenced
<1> QED
  BY <1>1, <1>2, <1>3 DEF RecordedInv

LEMMA SweepRowRecorded ==
  ASSUME TypeOK, RecordedInv, NEW w \in Procs, SweepRow(w)
  PROVE  RecordedInv'
<1> DEFINE c == proc[w].cur
<1>1. UNCHANGED <<status, manFiles, manDb>> /\ chunkRows' = chunkRows \ {c}
  BY DEF SweepRow, rowVars
<1>2. LockedRows' \subseteq LockedRows
  BY DEF SweepRow, LockedRows, RowLocked, TypeOK, PassesTyped, Passes
<1>3. \A s \in Snaps : c \notin Manifest(s) /\ Manifest(s)' = Manifest(s)
  <2>1. c \in Chunks => c \in LockedRows
    BY DEF SweepRow, LockedRows, RowLocked
  <2> QED
    BY <1>1, <2>1, ManifestFrame DEF RecordedInv, TypeOK, ChunksTyped
<1> QED
  BY <1>1, <1>2, <1>3 DEF RecordedInv

LEMMA AbortRecorded ==
  ASSUME TypeOK, RecordedInv, NEW w \in Procs, GCAbort(w), proc[w].pc = "row"
  PROVE  RecordedInv'
<1>1. proc'[w].pc # "row" /\ \A v \in Procs \ {w} : proc'[v] = proc[v]
  BY IdleFacts DEF GCAbort, TypeOK, PassesTyped
<1>2. LockedRows' \subseteq LockedRows
  BY <1>1 DEF LockedRows, RowLocked
<1>3. LooseStep
  BY <1>2, ManifestFrame DEF GCAbort, LooseStep, rowVars, chunkVars
<1> QED
  BY <1>3, LooseKeeps

LEMMA RecordedInit == Init => RecordedInv
  BY DEF Init, RecordedInv, Manifest

LEMMA RecordedStep ==
  ASSUME TypeOK, GraceInv, RecordedInv, [Next]_vars
  PROVE  RecordedInv'
<1>1. CASE CreateStep \/ OperatorStep
  BY <1>1, CreateStored, OperatorStored, LooseKeeps
<1>2. CASE BackupStep
  BY <1>2, BackupRecorded
<1>3. CASE Tick \/ UNCHANGED vars
  BY <1>3, LocksFrame, QuietFrame, LooseKeeps DEF Tick, vars, chunkVars, agentVars, gcVars
<1>4. ASSUME NEW w \in Procs, NEW c \in Chunks, SweepObject(w, c) PROVE RecordedInv'
  <2>1. ~GCAbort(w) \/ proc[w].pc # "row"
    BY <1>4 DEF SweepObject
  <2> QED
    BY <1>4, <2>1, SweepRecorded, PassStored, LooseKeeps
<1>5. ASSUME NEW w \in Procs, ProcStep(w) \/ GCAbort(w) PROVE RecordedInv'
  <2>1. CASE \E c \in Chunks : SweepObject(w, c)
    BY <1>4, <2>1
  <2>2. CASE SweepRow(w)
    BY <2>2, SweepRowRecorded
  <2>3. CASE \/ DeleteForUser(w) \/ GCListSites(w) \/ GCClock(w) \/ GCFloor(w)
             \/ SweepTenantChunks(w) \/ SweepDone(w)
             \/ GCAbort(w) /\ proc[w].pc # "row"
    <3>1. proc[w].pc # "row"
      BY <2>3 DEF DeleteForUser, GCListSites, GCClock, GCFloor, SweepTenantChunks, SweepDone
    <3> QED
      BY <2>3, <3>1, PassStored, LooseKeeps
  <2>4. CASE \/ \E st \in Sites : GCSelect(w, st)
             \/ \E s \in Snaps : GCExpand(w, s) \/ GCMark(w, s) \/ GCPrune(w, s)
    <3>1. proc[w].pc # "row"
      BY <2>4 DEF GCSelect, GCExpand, GCMark, GCPrune
    <3> QED
      BY <2>4, <3>1, PassStored, LooseKeeps
  <2>5. CASE GCAbort(w) /\ proc[w].pc = "row"
    BY <2>5, AbortRecorded
  <2> QED
    BY <1>5, <2>1, <2>2, <2>3, <2>4, <2>5 DEF ProcStep
<1> QED
  BY <1>1, <1>2, <1>3, <1>5 DEF Next

\* Whatever passes, backups, deletes, aborts and crashes overlap, and however
\* long transactions take, a chunk that a recorded manifest lists keeps its row,
\* and its object if it has one, until the manifest goes.
THEOREM RecordedStay == Spec => RecordedChunksStay
<1> DEFINE Kept == \A s \in Snaps : \A c \in Manifest(s) \cap Manifest(s)' :
                     c \in chunkRows' /\ (c \in objects => c \in objects')
<1>1. TypeOK /\ GraceInv /\ [Next]_vars => GraceInv'
  BY GraceStep
<1>2. TypeOK /\ GraceInv /\ RecordedInv /\ [Next]_vars => RecordedInv'
  BY RecordedStep
<1>3. TypeOK /\ GraceInv /\ RecordedInv /\ [Next]_vars => Kept
  <2> SUFFICES ASSUME TypeOK, GraceInv, RecordedInv, [Next]_vars, NEW s \in Snaps,
                      NEW c \in Manifest(s) \cap Manifest(s)'
               PROVE  c \in chunkRows' /\ (c \in objects => c \in objects')
    OBVIOUS
  <2>1. c \in chunkRows'
    BY RecordedStep DEF RecordedInv
  <2>2. c \notin objects \ objects'
    BY SweepSparesStep
  <2> QED
    BY <2>1, <2>2
<1> HIDE DEF Kept
<1>4. Spec => [][Kept]_vars
  BY <1>1, <1>2, <1>3, GraceInit, RecordedInit, TypeCorrect, PTL DEF Spec
<1> QED
  BY <1>4 DEF Kept, RecordedChunksStay

=============================================================================

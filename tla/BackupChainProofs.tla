------------------------- MODULE BackupChainProofs -------------------------
(***************************************************************************)
(* The chains of kept backups (PrunesAboveKept and RetainedChainsWhole of  *)
(* BackupRetention), for every number of sites, snapshots, requests,       *)
(* passes and generations, every retention setting and every request of    *)
(* an operator.                                                            *)
(***************************************************************************)
EXTENDS BackupRetentionProofs, FiniteSetTheorems

-----------------------------------------------------------------------------
(***************************************************************************)
(* The policy on its own: C is what a site has completed, f its creation   *)
(* instants.                                                               *)
(***************************************************************************)
Newer(f, s, S) == {t \in S : f[t] > f[s]}
Newest(f, C) ==
  {s \in C : \A t \in Newer(f, s, C) : f[t] \div MonthLength # f[s] \div MonthLength}
Archive(f, C) == {s \in Newest(f, C) : Cardinality(Newer(f, s, Newest(f, C))) < ArchiveKeep}
Candidates(f, C) == C \ Archive(f, C)
Exp(f, C, at) ==
  {s \in Candidates(f, C) :
     /\ f[s] <= at - Horizon
     /\ \/ f[s] <= at - RetentionAge
        \/ Scheduled /\ Cardinality(Newer(f, s, Candidates(f, C))) >= KeepLast}

\* Numbers that the policy compares.
LEMMA PolicyNumbers ==
  /\ RetentionAge \in Nat /\ KeepLast \in Nat /\ ArchiveKeep \in Nat /\ Horizon \in Nat
  BY ConstantsAssumption

\* What it means to be expired.
LEMMA ExpiredMeans ==
  ASSUME NEW f, NEW C, NEW at, NEW s
  PROVE  s \in Exp(f, C, at) <=>
           /\ s \in Candidates(f, C) /\ f[s] <= at - Horizon
           /\ \/ f[s] <= at - RetentionAge
              \/ Scheduled /\ Cardinality(Newer(f, s, Candidates(f, C))) >= KeepLast
  BY DEF Exp

\* A larger set counts for more.
LEMMA CountUp ==
  ASSUME NEW B, IsFiniteSet(B), NEW A \in SUBSET B
  PROVE  Cardinality(A) \in Nat /\ Cardinality(B) \in Nat /\ Cardinality(A) <= Cardinality(B)
  BY FS_Subset, FS_CardinalityType

\* So does one in which an element is exchanged for another.
LEMMA CountSwap ==
  ASSUME NEW A, NEW B, IsFiniteSet(A), IsFiniteSet(B), NEW x \in A, NEW n \in B \ A,
         A \ {x} \subseteq B
  PROVE  Cardinality(A) <= Cardinality(B)
<1>1. IsFiniteSet(A \ {x}) /\ Cardinality(A \ {x}) = Cardinality(A) - 1
  BY FS_RemoveElement
<1>2. Cardinality((A \ {x}) \cup {n}) = Cardinality(A \ {x}) + 1
  BY <1>1, FS_AddElement
<1>3. Cardinality((A \ {x}) \cup {n}) <= Cardinality(B)
  BY CountUp
<1> QED
  BY <1>1, <1>2, <1>3, FS_CardinalityType

\* The creation instants of what is not completed do not matter.
LEMMA PolicyAgree ==
  ASSUME NEW f, NEW g, NEW C, NEW at, \A s \in C : f[s] = g[s]
  PROVE  Exp(f, C, at) = Exp(g, C, at)
<1>1. ASSUME NEW S \in SUBSET C, NEW s \in C PROVE Newer(f, s, S) = Newer(g, s, S)
  BY <1>1 DEF Newer
<1>2. Newest(f, C) = Newest(g, C)
  <2>1. ASSUME NEW s \in C PROVE s \in Newest(f, C) <=> s \in Newest(g, C)
    BY <1>1, <2>1, Zenon DEF Newest, Newer
  <2> QED  BY <2>1 DEF Newest
<1>3. Newest(f, C) \subseteq C
  BY DEF Newest
<1>4. Archive(f, C) = Archive(g, C)
  BY <1>1, <1>2, <1>3 DEF Archive
<1>5. Candidates(f, C) = Candidates(g, C) /\ Candidates(f, C) \subseteq C
  BY <1>4 DEF Candidates
<1> QED
  BY <1>1, <1>5 DEF Exp

\* Time only adds to what is expired, ...
LEMMA PolicyAges ==
  ASSUME NEW C, NEW f, \A s \in C : f[s] \in Nat,
         NEW at \in Nat, NEW later \in Nat, at <= later
  PROVE  Exp(f, C, at) \subseteq Exp(f, C, later)
<1>1. ASSUME NEW s \in Exp(f, C, at) PROVE s \in Exp(f, C, later)
  <2>1. f[s] \in Nat
    BY <1>1 DEF Exp, Candidates
  <2> QED  BY <1>1, <2>1, ExpiredMeans, PolicyNumbers
<1> QED  BY <1>1

\* ... and so does a newer snapshot, ...
LEMMA PolicyAdds ==
  ASSUME NEW C, IsFiniteSet(C), NEW n, n \notin C, NEW f, \A s \in C \cup {n} : f[s] \in Nat,
         \A s \in C : f[s] < f[n], \A s, t \in C : s # t => f[s] # f[t],
         NEW at \in Nat
  PROVE  Exp(f, C, at) \subseteq Exp(f, C \cup {n}, at)
<1> DEFINE D == C \cup {n}
           month(s) == f[s] \div MonthLength
<1>0. IsFiniteSet(D)
  BY FS_AddElement
<1>1. Newest(f, C) \subseteq C /\ Newest(f, D) \subseteq D /\ n \in Newest(f, D)
  BY DEF Newest, Newer
<1>2. ASSUME NEW s \in C
      PROVE  s \in Newest(f, D) <=> s \in Newest(f, C) /\ month(n) # month(s)
  BY <1>2 DEF Newest, Newer
<1>3. ASSUME NEW s \in Newest(f, C), NEW t \in Newest(f, C), month(s) = month(t) PROVE s = t
  <2>1. f[s] \in Nat /\ f[t] \in Nat /\ s \in C /\ t \in C
    BY <1>1
  <2>2. ~(f[s] > f[t]) /\ ~(f[t] > f[s])
    BY <1>3, <2>1 DEF Newest, Newer
  <2> QED  BY <2>1, <2>2
<1>4. ASSUME NEW s \in C, s \in Archive(f, D) PROVE s \in Archive(f, C)
  <2> DEFINE A == Newer(f, s, Newest(f, C))
             B == Newer(f, s, Newest(f, D))
  <2>1. s \in Newest(f, C) /\ Cardinality(B) < ArchiveKeep
    BY <1>2, <1>4 DEF Archive
  <2>2. A \subseteq C /\ B \subseteq D /\ n \in B \ A
    BY <1>1, <1>4 DEF Newer
  <2>3. IsFiniteSet(A) /\ IsFiniteSet(B)
    BY <1>0, <2>2, FS_Subset
  <2>4. \A t \in A : month(t) # month(n) => t \in B
    BY <1>1, <1>2 DEF Newer
  <2>5. Cardinality(A) <= Cardinality(B)
    <3>1. CASE \E x \in A : month(x) = month(n)
      <4>1. PICK x \in A : month(x) = month(n)
        BY <3>1
      <4>2. A \ {x} \subseteq B
        BY <1>3, <2>4, <4>1 DEF Newer
      <4> HIDE DEF A, B, month
      <4> QED  BY <2>2, <2>3, <4>1, <4>2, CountSwap
    <3>2. CASE ~\E x \in A : month(x) = month(n)
      <4>1. A \in SUBSET B
        BY <2>4, <3>2
      <4> HIDE DEF A, B, month
      <4> QED  BY <2>3, <4>1, CountUp
    <3> QED  BY <3>1, <3>2
  <2>6. Cardinality(A) \in Nat /\ Cardinality(B) \in Nat
    BY <2>3, FS_CardinalityType
  <2>7. Cardinality(A) < ArchiveKeep
    BY <2>1, <2>5, <2>6, PolicyNumbers
  <2> QED  BY <2>1, <2>7 DEF Archive
<1>5. Candidates(f, C) \subseteq Candidates(f, D) /\ Candidates(f, D) \subseteq D
  BY <1>4 DEF Candidates
<1>6. ASSUME NEW s \in Exp(f, C, at) PROVE s \in Exp(f, D, at)
  <2> DEFINE A == Newer(f, s, Candidates(f, C))
             B == Newer(f, s, Candidates(f, D))
  <2>1. A \in SUBSET B /\ B \subseteq D
    BY <1>5 DEF Newer
  <2>2. IsFiniteSet(B)
    BY <1>0, <2>1, FS_Subset
  <2>3. Cardinality(A) \in Nat /\ Cardinality(B) \in Nat /\ Cardinality(A) <= Cardinality(B)
    BY <2>1, <2>2, CountUp
  <2>4. s \in Candidates(f, D) /\ f[s] \in Nat
    BY <1>5, <1>6 DEF Exp, Candidates
  <2>5. f[s] <= at - Horizon
    BY <1>6, <2>4, PolicyNumbers DEF Exp
  <2>6. \/ f[s] <= at - RetentionAge
        \/ Scheduled /\ Cardinality(B) >= KeepLast
    BY <1>6, <2>3, <2>4, PolicyNumbers DEF Exp
  <2> QED  BY <2>4, <2>5, <2>6 DEF Exp
<1> QED
  BY <1>6

\* ... and the pruning of an expired one.
LEMMA PolicyPrunes ==
  ASSUME NEW C, IsFiniteSet(C), NEW f, \A s \in C : f[s] \in Nat,
         \A s, t \in C : s # t => f[s] # f[t],
         NEW at \in Nat, NEW u \in Exp(f, C, at)
  PROVE  Exp(f, C, at) \ {u} \subseteq Exp(f, C \ {u}, at)
<1> DEFINE D == C \ {u}
           month(s) == f[s] \div MonthLength
           N == Newest(f, C)
           M == Newest(f, D)
<1>0. IsFiniteSet(D) /\ u \in C /\ u \notin Archive(f, C)
  BY FS_RemoveElement DEF Exp, Candidates
<1>1. N \subseteq C /\ M \subseteq D /\ N \ {u} \subseteq M
  BY DEF Newest, Newer
<1>2. ASSUME NEW s \in M, s \notin N PROVE u \in N /\ f[s] < f[u] /\ month(s) = month(u)
  <2>1. s \in C /\ f[s] \in Nat /\ f[u] \in Nat
    BY <1>0, <1>1, <1>2
  <2>2. PICK t \in Newer(f, s, C) : month(t) = month(s)
    BY <1>2, <2>1 DEF Newest
  <2>3. t = u
    BY <1>2, <2>2 DEF Newest, Newer
  <2>4. ASSUME NEW x \in Newer(f, u, C) PROVE month(x) # month(u)
    <3>1. x \in C /\ f[x] \in Nat /\ f[x] > f[u] /\ f[u] > f[s]
      BY <2>2, <2>3, <2>4 DEF Newer
    <3>2. x \in Newer(f, s, D)
      BY <2>1, <3>1 DEF Newer
    <3> QED  BY <1>2, <2>2, <2>3, <3>2 DEF Newest
  <2> QED  BY <1>0, <2>2, <2>3, <2>4 DEF Newest, Newer
\* What is at or below u has the newer months of u above it, and those are
\* not in question.
<1>3. ASSUME u \in N, NEW s \in C, f[s] <= f[u]
      PROVE  ~(Cardinality(Newer(f, s, M)) < ArchiveKeep)
  <2>1. Newer(f, u, N) \subseteq Newer(f, s, M)
    BY <1>0, <1>1, <1>3 DEF Newer
  <2>2. ~(Cardinality(Newer(f, u, N)) < ArchiveKeep)
    BY <1>0, <1>3 DEF Archive
  <2>3. IsFiniteSet(Newer(f, s, M))
    BY <1>0, <1>1, FS_Subset DEF Newer
  <2> HIDE DEF N, M
  <2> QED  BY <2>1, <2>2, <2>3, CountUp, PolicyNumbers
<1>4. ASSUME NEW s \in D, s \in Archive(f, D) PROVE s \in Archive(f, C)
  <2>1. s \in M /\ s \in C /\ f[s] \in Nat /\ f[u] \in Nat /\ Cardinality(Newer(f, s, M)) < ArchiveKeep
    BY <1>0, <1>4 DEF Archive
  <2>2. s \in N
    BY <1>2, <1>3, <2>1
  <2>3. CASE u \in N
    <3>1. f[u] < f[s]
      BY <1>3, <2>1, <2>3
    <3>2. Newer(f, s, N) \in SUBSET Newer(f, s, M)
      BY <1>0, <1>1, <2>1, <3>1 DEF Newer
    <3>3. IsFiniteSet(Newer(f, s, M))
      BY <1>0, <1>1, FS_Subset DEF Newer
    <3>4. Cardinality(Newer(f, s, N)) < ArchiveKeep
      <4> HIDE DEF N, M
      <4> QED  BY <2>1, <3>2, <3>3, CountUp, PolicyNumbers
    <3> QED  BY <2>2, <3>4 DEF Archive
  <2>4. CASE u \notin N
    <3>1. N = M
      BY <1>1, <1>2, <2>4
    <3> QED  BY <2>1, <2>2, <3>1 DEF Archive
  <2> QED  BY <2>3, <2>4
<1>5. Candidates(f, C) \ {u} \subseteq Candidates(f, D) /\ Candidates(f, D) \subseteq D
  BY <1>4 DEF Candidates
<1>6. ASSUME NEW s \in Exp(f, C, at) \ {u} PROVE s \in Exp(f, D, at)
  <2> DEFINE A == Newer(f, s, Candidates(f, C))
             B == Newer(f, s, Candidates(f, D))
             U == Newer(f, u, Candidates(f, C))
  <2>1. s \in Candidates(f, D) /\ s \in C /\ f[s] \in Nat /\ f[u] \in Nat
    BY <1>0, <1>5, <1>6 DEF Exp, Candidates
  <2>2. A \ {u} \subseteq B /\ B \subseteq C
    BY <1>0, <1>5 DEF Newer
  <2>3. IsFiniteSet(B)
    BY <2>2, FS_Subset
  <2>4. f[s] <= at - RetentionAge \/ (Scheduled /\ Cardinality(B) >= KeepLast)
    <3>1. CASE u \notin A
      <4>1. A \in SUBSET B
        BY <2>2, <3>1
      <4>2. Cardinality(A) \in Nat /\ Cardinality(B) \in Nat /\ Cardinality(A) <= Cardinality(B)
        BY <2>3, <4>1, CountUp
      <4>3. f[s] <= at - RetentionAge \/ (Scheduled /\ Cardinality(A) >= KeepLast)
        BY <1>6, ExpiredMeans
      <4> QED  BY <4>2, <4>3, PolicyNumbers
    <3>2. CASE u \in A
      <4>1. f[s] < f[u]
        BY <3>2 DEF Newer
      <4>2. U \in SUBSET B
        BY <1>0, <1>5, <2>1, <4>1 DEF Newer, Candidates
      <4>3. Cardinality(U) \in Nat /\ Cardinality(B) \in Nat /\ Cardinality(U) <= Cardinality(B)
        BY <2>3, <4>2, CountUp
      <4>4. f[u] <= at - RetentionAge \/ (Scheduled /\ Cardinality(U) >= KeepLast)
        BY ExpiredMeans
      <4> QED  BY <2>1, <4>1, <4>3, <4>4, PolicyNumbers
    <3> QED  BY <3>1, <3>2
  <2> QED  BY <1>6, <2>1, <2>4 DEF Exp
<1> QED
  BY <1>6

-----------------------------------------------------------------------------
(***************************************************************************)
(* What a pass pins.  Nothing is assumed of requests and operators here.   *)
(***************************************************************************)
\* What a pass has selected was completed; it may have been deleted since.
SelectedOK(q) == \A u \in q.expired : status[u] \in {"completed", "gone"}

\* Of what a pass has selected, it pins all that lies at or below a generation
\* it keeps, as it expands the chains.
MarkOK(q) ==
  q.pc \in {"expand", "mark"} =>
    \A u \in q.expired :
      /\ status[u] = "completed" /\ genOf[u] <= q.chainMax[chainOf[u]]
      /\ q.pc = "expand" => chainOf[u] \notin q.todo
      => u \in q.mark

PinInv ==
  /\ \A s \in Snaps : status[s] # "none" => chainOf[s] \in Snaps
  /\ \A w \in Procs : SelectedOK(proc[w]) /\ MarkOK(proc[w])

\* A deleted row does not come back.
LEMMA GoneStep ==
  ASSUME TypeOK, [Next]_vars, NEW t \in Snaps, status[t] = "gone"
  PROVE  status'[t] = "gone"
<1> USE DEF rowVars, InFlight
<1>1. CASE UNCHANGED status
  BY <1>1
<1>2. ASSUME NEW o \in Operators, NEW s \in Snaps, CreateSnapshot(o, s) PROVE status'[t] = "gone"
  BY <1>2 DEF CreateSnapshot, TypeOK, RowsTyped
<1>3. ASSUME NEW s \in Snaps, MarkRunning(s) \/ FailSnapshot(s) \/ DispatchBroken(s)
      PROVE  status'[t] = "gone"
  BY <1>3 DEF MarkRunning, FailSnapshot, DispatchBroken, TypeOK, RowsTyped
<1>4. ASSUME NEW s \in Snaps, NEW db, NEW at, RecordManifest(s, db, at) PROVE status'[t] = "gone"
  BY <1>4 DEF RecordManifest, Completes, TypeOK, RowsTyped
<1>5. ASSUME NEW s, DeleteSnapshot(s) PROVE status'[t] = "gone"
  BY <1>5 DEF DeleteSnapshot, Exists, TypeOK, RowsTyped
<1>6. CASE CreateStep
  BY <1>1, <1>2, <1>6 DEF CreateStep, CreateBackup, CreateRefused
<1>7. CASE BackupStep
  BY <1>1, <1>3, <1>4, <1>7 DEF BackupStep, Dispatch, PresignChunks, UploadChunk, SubmitManifest
<1>8. CASE OperatorStep \/ Tick \/ UNCHANGED vars
  BY <1>1, <1>8 DEF OperatorStep, SetSnapshotLocked, CreateRestore, EndRestore, PlanRestore,
                    DeleteRequest, Tick, vars
<1>9. CASE \E w \in Procs : ProcStep(w) \/ GCAbort(w)
  <2>1. ASSUME NEW w, NEW s, DeleteForUser(w) \/ GCPrune(w, s) PROVE status'[t] = "gone"
    BY <1>5, <2>1 DEF DeleteForUser, GCPrune
  <2>2. ASSUME NEW w, NEW s, GCSelect(w, s) \/ GCExpand(w, s) \/ GCMark(w, s) \/ SweepObject(w, s)
        PROVE  status'[t] = "gone"
    BY <2>2, <1>1 DEF GCSelect, GCExpand, GCMark, SweepObject
  <2>3. ASSUME NEW w, \/ GCListSites(w) \/ GCClock(w) \/ GCFloor(w) \/ SweepTenantChunks(w)
                      \/ SweepRow(w) \/ SweepDone(w) \/ GCAbort(w)
        PROVE  status'[t] = "gone"
    BY <2>3, <1>1 DEF GCListSites, GCClock, GCFloor, SweepTenantChunks, SweepRow, SweepDone, GCAbort
  <2> QED  BY <1>9, <2>1, <2>2, <2>3 DEF ProcStep
<1> QED
  BY <1>6, <1>7, <1>8, <1>9 DEF Next

\* A step keeps what is known of a pass's selection and of its marks.
LEMMA PinKeeps ==
  ASSUME TypeOK, [Next]_vars, NEW q \in Passes, SelectedOK(q), MarkOK(q)
  PROVE  SelectedOK(q)' /\ MarkOK(q)'
<1>1. ASSUME NEW u \in q.expired
      PROVE  /\ status'[u] \in {"completed", "gone"}
             /\ status'[u] = "completed" =>
                  status[u] = "completed" /\ chainOf'[u] = chainOf[u] /\ genOf'[u] = genOf[u]
  <2>1. u \in Snaps /\ status[u] \in {"completed", "gone"}
    BY DEF SelectedOK, Passes
  <2>2. status[u] = "gone" => status'[u] = "gone"
    BY <2>1, GoneStep
  <2>3. RowFinal(u)
    BY <2>1, FinalStep
  <2> QED
    BY <2>1, <2>2, <2>3 DEF RowFinal, Terminal
<1> QED
  BY <1>1 DEF SelectedOK, MarkOK

\* Phases 2 and 3 end with everything pinned that lies at or below a kept
\* generation; what is pruned lies above.
LEMMA SettleMarks ==
  ASSUME NEW q \in Passes, q.pc \in {"expand", "mark"}, MarkOK(q), SelectedOK(q)
  PROVE  /\ MarkOK(Settle(q)) /\ SelectedOK(Settle(q))
         /\ Settle(q).started = q.started
         /\ \/ Settle(q).expired = q.expired /\ Settle(q).chainMax = q.chainMax
               /\ Settle(q).pc \in {"expand", "mark"}
            \/ Settle(q).expired = {} /\ Settle(q).pc = "prune"
               /\ Settle(q).todo \subseteq q.expired
               /\ \A u \in Settle(q).todo :
                    status[u] = "completed" => ~(genOf[u] <= q.chainMax[chainOf[u]])
<1> DEFINE r == IF q.pc = "expand" /\ q.todo = {}
                THEN [q EXCEPT !.pc = "mark", !.todo = q.mark] ELSE q
<1>1. /\ r \in Passes /\ r.pc \in {"expand", "mark"} /\ MarkOK(r) /\ SelectedOK(r)
      /\ r.started = q.started /\ r.expired = q.expired /\ r.chainMax = q.chainMax
  BY DEF Passes, PassSteps, MarkOK, SelectedOK
<1> HIDE DEF r
<1>2. CASE ~(r.pc = "mark" /\ r.todo = {})
  <2>1. Settle(q) = r
    BY <1>2 DEF Settle, r
  <2> QED  BY <1>1, <2>1
<1>3. CASE r.pc = "mark" /\ r.todo = {}
  <2> DEFINE p == [r EXCEPT !.pc = "prune", !.todo = r.expired \ r.mark,
                            !.expired = {}, !.mark = {}, !.chainMax = Idle.chainMax]
  <2>1. Settle(q) = p
    BY <1>3 DEF Settle, r
  <2>2. p.pc = "prune" /\ p.todo = r.expired \ r.mark /\ p.expired = {} /\ p.started = r.started
    BY <1>1 DEF Passes
  <2> HIDE DEF p
  <2>3. \A u \in p.todo : status[u] = "completed" => ~(genOf[u] <= r.chainMax[chainOf[u]])
    BY <1>1, <1>3, <2>2 DEF MarkOK
  <2> QED  BY <1>1, <2>1, <2>2, <2>3 DEF MarkOK, SelectedOK
<1> QED
  BY <1>2, <1>3

\* The steps of phases 1 to 3 come from a state of the pass in which whatever
\* is at or below a kept generation of an expanded chain is pinned.
LEMMA PinPhases ==
  ASSUME TypeOK, PinInv, NEW w \in Procs,
         \/ GCFloor(w) \/ (\E ch \in Snaps : GCExpand(w, ch)) \/ (\E s \in Snaps : GCMark(w, s))
  PROVE  \E p \in Passes :
           /\ proc'[w] = Settle(p) /\ p.pc \in {"expand", "mark"} /\ MarkOK(p) /\ SelectedOK(p)
           /\ p.started = proc[w].started /\ p.expired = proc[w].expired
           /\ p.chainMax = proc[w].chainMax
<1> DEFINE q == proc[w]
<1>0. q \in Passes /\ SelectedOK(q) /\ MarkOK(q)
  BY DEF TypeOK, PassesTyped, PinInv
<1>1. CASE GCFloor(w)
  <2> DEFINE p == [q EXCEPT !.pc = "expand", !.floor = Least(InFlightStarts, q.floor),
                            !.todo = {ch \in Snaps : q.chainMax[ch] >= 0}]
  <2>1. proc'[w] = Settle(p)
    BY <1>1 DEF GCFloor, TypeOK, PassesTyped
  <2>2. Least(InFlightStarts, q.floor) \in Times
    BY <1>0, FloorValue DEF Passes
  <2>3. p \in Passes /\ p.pc = "expand"
    BY <1>0, <2>2 DEF Passes, PassSteps
  <2>4. /\ p.started = q.started /\ p.expired = q.expired /\ p.chainMax = q.chainMax
        /\ p.todo = {ch \in Snaps : q.chainMax[ch] >= 0}
    BY <1>0 DEF Passes
  <2> HIDE DEF p
  <2>5. ASSUME NEW u \in p.expired, status[u] = "completed", genOf[u] <= p.chainMax[chainOf[u]]
        PROVE  chainOf[u] \in p.todo
    <3>1. u \in Snaps /\ chainOf[u] \in Snaps
      BY <2>3, <2>5 DEF Passes, PinInv
    <3>2. genOf[u] \in Nat /\ q.chainMax[chainOf[u]] \in Int
      BY <1>0, <3>1, ConstantsAssumption DEF TypeOK, RowsTyped, Depths, Passes
    <3> QED  BY <2>4, <2>5, <3>1, <3>2
  <2> QED  BY <1>0, <2>1, <2>3, <2>4, <2>5 DEF MarkOK, SelectedOK
<1>2. ASSUME NEW ch \in Snaps, GCExpand(w, ch)
      PROVE  \E p \in Passes :
               /\ proc'[w] = Settle(p) /\ p.pc \in {"expand", "mark"} /\ MarkOK(p) /\ SelectedOK(p)
               /\ p.started = q.started /\ p.expired = q.expired /\ p.chainMax = q.chainMax
  <2> DEFINE p == [q EXCEPT !.todo = q.todo \ {ch},
                            !.mark = q.mark \cup CompletedChain(ch, q.chainMax[ch])]
  <2>1. proc'[w] = Settle(p) /\ q.pc = "expand" /\ ch \in q.todo
    BY <1>2 DEF GCExpand, TypeOK, PassesTyped
  <2>2. CompletedChain(ch, q.chainMax[ch]) \subseteq Snaps
    BY DEF CompletedChain, ChainRows
  <2>3. p \in Passes /\ p.pc = "expand"
    BY <1>0, <2>1, <2>2 DEF Passes
  <2>4. /\ p.started = q.started /\ p.expired = q.expired /\ p.chainMax = q.chainMax
        /\ p.todo = q.todo \ {ch} /\ p.mark = q.mark \cup CompletedChain(ch, q.chainMax[ch])
    BY <1>0 DEF Passes
  <2> HIDE DEF p
  <2>5. ASSUME NEW u \in p.expired, status[u] = "completed", genOf[u] <= p.chainMax[chainOf[u]],
               chainOf[u] \notin p.todo
        PROVE  u \in p.mark
    <3>1. u \in Snaps
      BY <2>3, <2>5 DEF Passes
    <3>2. CASE chainOf[u] = ch
      BY <2>4, <2>5, <3>1, <3>2 DEF CompletedChain, ChainRows, Exists
    <3>3. CASE chainOf[u] # ch
      BY <1>0, <2>1, <2>4, <2>5, <3>3 DEF MarkOK
    <3> QED  BY <3>2, <3>3
  <2> QED  BY <1>0, <2>1, <2>3, <2>4, <2>5 DEF MarkOK, SelectedOK
<1>3. ASSUME NEW s \in Snaps, GCMark(w, s)
      PROVE  \E p \in Passes :
               /\ proc'[w] = Settle(p) /\ p.pc \in {"expand", "mark"} /\ MarkOK(p) /\ SelectedOK(p)
               /\ p.started = q.started /\ p.expired = q.expired /\ p.chainMax = q.chainMax
  <2> DEFINE n == Reachable(s, q.chainMax[chainOf[s]])
             p == [q EXCEPT !.todo = q.todo \ {s}, !.live = q.live \cup n]
  <2>1. proc'[w] = Settle(p) /\ q.pc = "mark"
    BY <1>3 DEF GCMark, TypeOK, PassesTyped
  <2>2. n \subseteq Chunks
    BY ReachableType
  <2>3. p \in Passes /\ p.pc = "mark"
    <3> HIDE DEF n
    <3> QED  BY <1>0, <2>1, <2>2 DEF Passes
  <2>4. /\ p.started = q.started /\ p.expired = q.expired /\ p.chainMax = q.chainMax
        /\ p.mark = q.mark
    <3> HIDE DEF n
    <3> QED  BY <1>0 DEF Passes
  <2> HIDE DEF p
  <2> QED  BY <1>0, <2>1, <2>3, <2>4 DEF MarkOK, SelectedOK
<1> HIDE DEF q
<1> QED
  BY <1>1, <1>2, <1>3 DEF q

\* The steps of a pass outside phases 1 to 3 and its selection.
LEMMA OtherPhases ==
  ASSUME TypeOK, NEW w \in Procs,
         \/ DeleteForUser(w) \/ GCListSites(w) \/ GCClock(w) \/ (\E s \in Snaps : GCPrune(w, s))
         \/ SweepTenantChunks(w) \/ (\E c \in Chunks : SweepObject(w, c))
         \/ SweepRow(w) \/ SweepDone(w) \/ GCAbort(w)
  PROVE  /\ \/ proc'[w].pc \in {"idle", "list", "select", "floor", "sweep", "row"}
            \/ /\ \E s \in Snaps : GCPrune(w, s)
               /\ proc[w].pc = "prune" /\ proc'[w].pc = "prune"
               /\ proc'[w].todo \subseteq proc[w].todo
         /\ \/ proc'[w].expired = {} /\ proc'[w].started = 0
            \/ /\ proc'[w].expired = proc[w].expired /\ proc'[w].chainMax = proc[w].chainMax
               /\ proc'[w].started \in {0, now, proc[w].started}
<1> DEFINE q == proc[w]
           r == proc'[w]
<1>0. q \in Passes /\ Idle.pc = "idle" /\ Idle.expired = {} /\ Idle.started = 0
  BY DEF TypeOK, PassesTyped, Idle
<1>1. CASE DeleteForUser(w)
  <2>1. r = [Idle EXCEPT !.pc = "list"]
    BY <1>1 DEF DeleteForUser, TypeOK, PassesTyped
  <2>2. r.pc = "list" /\ r.expired = {} /\ r.started = 0
    BY <1>0, <2>1, IdleType DEF Passes
  <2> QED  BY <2>2
<1>2. CASE GCListSites(w)
  BY <1>0, <1>2 DEF GCListSites, TypeOK, PassesTyped, Passes
<1>3. CASE GCClock(w)
  BY <1>0, <1>3 DEF GCClock, TypeOK, PassesTyped, Passes
<1>4. ASSUME NEW s \in Snaps, GCPrune(w, s)
      PROVE  /\ q.pc = "prune" /\ r.pc = "prune" /\ r.todo \subseteq q.todo
             /\ r.expired = q.expired /\ r.chainMax = q.chainMax /\ r.started = q.started
  BY <1>0, <1>4 DEF GCPrune, TypeOK, PassesTyped, Passes
<1>5. CASE SweepDone(w) \/ GCAbort(w) \/ (SweepTenantChunks(w) /\ gcLock # NoProc)
  <2>1. r = Idle
    BY <1>5 DEF SweepDone, GCAbort, SweepTenantChunks, TypeOK, PassesTyped
  <2> QED  BY <1>0, <2>1
<1>6. CASE SweepTenantChunks(w) /\ gcLock = NoProc
  BY <1>0, <1>6 DEF SweepTenantChunks, TypeOK, PassesTyped, Passes
<1>7. ASSUME NEW c \in Chunks, SweepObject(w, c)
      PROVE  /\ r.pc \in {"sweep", "row"}
             /\ r.expired = q.expired /\ r.chainMax = q.chainMax /\ r.started = q.started
  BY <1>0, <1>7 DEF SweepObject, TypeOK, PassesTyped, Passes
<1>8. CASE SweepRow(w)
  BY <1>0, <1>8 DEF SweepRow, TypeOK, PassesTyped, Passes
<1> HIDE DEF q, r
<1> QED
  BY <1>1, <1>2, <1>3, <1>4, <1>5, <1>6, <1>7, <1>8 DEF q, r

\* What a pass has selected, and marked, after a step of its own.
LEMMA PinAdvances ==
  ASSUME TypeOK, PinInv, NEW w \in Procs, ProcStep(w) \/ GCAbort(w)
  PROVE  SelectedOK(proc'[w]) /\ MarkOK(proc'[w])
<1> DEFINE q == proc[w]
           r == proc'[w]
<1>0. q \in Passes /\ SelectedOK(q) /\ MarkOK(q)
  BY DEF TypeOK, PassesTyped, PinInv
<1>1. ASSUME NEW st \in Sites, GCSelect(w, st) PROVE SelectedOK(r) /\ MarkOK(r)
  <2>1. r.pc = "select" /\ r.expired = q.expired \cup Expired(st, q.started)
    BY <1>0, <1>1 DEF GCSelect, TypeOK, PassesTyped, Passes
  <2>2. \A u \in Expired(st, q.started) : status[u] = "completed"
    BY DEF Expired, gatherExpiredForSite, Completed
  <2> HIDE DEF q, r
  <2> QED  BY <1>0, <2>1, <2>2 DEF SelectedOK, MarkOK
<1>2. CASE \/ GCFloor(w) \/ (\E ch \in Snaps : GCExpand(w, ch)) \/ (\E s \in Snaps : GCMark(w, s))
  <2>1. PICK p \in Passes : r = Settle(p) /\ p.pc \in {"expand", "mark"} /\ MarkOK(p) /\ SelectedOK(p)
    BY <1>2, PinPhases
  <2>2. MarkOK(Settle(p)) /\ SelectedOK(Settle(p))
    BY <2>1, SettleMarks
  <2> QED  BY <2>1, <2>2
<1>3. CASE \/ DeleteForUser(w) \/ GCListSites(w) \/ GCClock(w) \/ (\E s \in Snaps : GCPrune(w, s))
           \/ SweepTenantChunks(w) \/ (\E c \in Chunks : SweepObject(w, c))
           \/ SweepRow(w) \/ SweepDone(w) \/ GCAbort(w)
  <2>1. r.pc \notin {"expand", "mark"} /\ r.expired \in {{}, q.expired}
    BY <1>3, OtherPhases
  <2> QED  BY <1>0, <2>1 DEF SelectedOK, MarkOK
<1> QED
  BY <1>1, <1>2, <1>3 DEF ProcStep

\* A pass writes its own locals only.
LEMMA OwnLocals ==
  ASSUME TypeOK, NEW w \in Procs, ProcStep(w) \/ GCAbort(w), NEW v \in Procs \ {w}
  PROVE  proc'[v] = proc[v]
<1>1. \E p : proc' = [proc EXCEPT ![w] = p]
  <2>1. \/ DeleteForUser(w) \/ GCListSites(w) \/ (\E st \in Sites : GCSelect(w, st))
        \/ GCClock(w) \/ GCFloor(w) \/ (\E s \in Snaps : GCExpand(w, s))
        \/ (\E s \in Snaps : GCMark(w, s)) \/ (\E s \in Snaps : GCPrune(w, s))
        \/ SweepTenantChunks(w) \/ (\E c \in Chunks : SweepObject(w, c))
        \/ SweepRow(w) \/ SweepDone(w) \/ GCAbort(w)
    BY DEF ProcStep
  <2> QED
    BY <2>1 DEF DeleteForUser, GCListSites, GCSelect, GCClock, GCFloor, GCExpand, GCMark, GCPrune,
                SweepTenantChunks, SweepObject, SweepRow, SweepDone, GCAbort
<1> QED
  BY <1>1 DEF TypeOK, PassesTyped

\* A delete request changes the phase of its pass only.
LEMMA RequestLocals ==
  ASSUME TypeOK, NEW w \in Procs, NEW s \in Snaps, DeleteRequest(w, s)
  PROVE  /\ \A v \in Procs \ {w} : proc'[v] = proc[v]
         /\ proc[w].pc = "idle" /\ proc'[w].pc = "delete" /\ proc'[w].started = proc[w].started
         /\ proc'[w].expired = proc[w].expired /\ proc'[w].chainMax = proc[w].chainMax
  BY DEF DeleteRequest, TypeOK, PassesTyped, Passes

\* Only passes and delete requests write the locals of passes.
LEMMA OthersLeavePasses ==
  ASSUME [Next]_vars,
         ~\E w \in Procs : ProcStep(w) \/ GCAbort(w) \/ \E s \in Snaps : DeleteRequest(w, s)
  PROVE  UNCHANGED proc
  BY DEF Next, CreateStep, CreateBackup, CreateSnapshot, CreateRefused, BackupStep, MarkRunning,
         FailSnapshot, DispatchBroken, Dispatch, PresignChunks, UploadChunk, SubmitManifest,
         RecordManifest, OperatorStep, SetSnapshotLocked, CreateRestore, EndRestore, PlanRestore,
         Tick, vars, gcVars

LEMMA PinInit == Init => PinInv
  BY DEF Init, PinInv, SelectedOK, MarkOK, Idle

\* A row is placed in a chain when it is inserted, and stays there.
LEMMA PlaceStep ==
  ASSUME TypeOK, PinInv, [Next]_vars, NEW t \in Snaps, status'[t] # "none"
  PROVE  chainOf'[t] \in Snaps
<1> USE DEF rowVars, InFlight
<1>1. CASE chainOf'[t] = chainOf[t] /\ status[t] # "none"
  BY <1>1 DEF PinInv
<1>2. ASSUME NEW o \in Operators, NEW s \in Snaps, CreateSnapshot(o, s) PROVE chainOf'[t] \in Snaps
  <2>1. plan[o].chain \in SnapIds
    BY DEF TypeOK, Plans
  <2> QED  BY <1>1, <1>2, <2>1 DEF CreateSnapshot, TypeOK, RowsTyped, SnapIds
<1>3. ASSUME NEW s \in Snaps, MarkRunning(s) \/ FailSnapshot(s) \/ DispatchBroken(s)
      PROVE  chainOf'[t] \in Snaps
  BY <1>1, <1>3 DEF MarkRunning, FailSnapshot, DispatchBroken, TypeOK, RowsTyped
<1>4. ASSUME NEW s \in Snaps, NEW db, NEW at, RecordManifest(s, db, at) PROVE chainOf'[t] \in Snaps
  BY <1>1, <1>4 DEF RecordManifest, Completes, TypeOK, RowsTyped
<1>5. ASSUME NEW s, DeleteSnapshot(s) PROVE chainOf'[t] \in Snaps
  BY <1>1, <1>5 DEF DeleteSnapshot, Exists, TypeOK, RowsTyped
<1>a. CASE UNCHANGED <<status, chainOf>>
  BY <1>1, <1>a
<1>6. CASE CreateStep
  BY <1>a, <1>2, <1>6 DEF CreateStep, CreateBackup, CreateRefused
<1>7. CASE BackupStep
  BY <1>a, <1>3, <1>4, <1>7 DEF BackupStep, Dispatch, PresignChunks, UploadChunk, SubmitManifest
<1>8. CASE OperatorStep \/ Tick \/ UNCHANGED vars
  BY <1>a, <1>8 DEF OperatorStep, SetSnapshotLocked, CreateRestore, EndRestore, PlanRestore,
                    DeleteRequest, Tick, vars
<1>9. CASE \E w \in Procs : ProcStep(w) \/ GCAbort(w)
  <2>1. ASSUME NEW w, NEW s, DeleteForUser(w) \/ GCPrune(w, s) PROVE chainOf'[t] \in Snaps
    BY <1>5, <2>1 DEF DeleteForUser, GCPrune
  <2>2. ASSUME NEW w, NEW s, GCSelect(w, s) \/ GCExpand(w, s) \/ GCMark(w, s) \/ SweepObject(w, s)
        PROVE  chainOf'[t] \in Snaps
    BY <2>2, <1>a DEF GCSelect, GCExpand, GCMark, SweepObject
  <2>3. ASSUME NEW w, \/ GCListSites(w) \/ GCClock(w) \/ GCFloor(w) \/ SweepTenantChunks(w)
                      \/ SweepRow(w) \/ SweepDone(w) \/ GCAbort(w)
        PROVE  chainOf'[t] \in Snaps
    BY <2>3, <1>a DEF GCListSites, GCClock, GCFloor, SweepTenantChunks, SweepRow, SweepDone, GCAbort
  <2> QED  BY <1>9, <2>1, <2>2, <2>3 DEF ProcStep
<1> QED
  BY <1>6, <1>7, <1>8, <1>9 DEF Next

LEMMA PinStep == ASSUME TypeOK, PinInv, [Next]_vars PROVE PinInv'
<1>1. ASSUME NEW v \in Procs PROVE SelectedOK(proc'[v]) /\ MarkOK(proc'[v])
  <2>0. SelectedOK(proc[v]) /\ MarkOK(proc[v])
    BY DEF PinInv
  <2>1. ASSUME NEW w \in Procs, ProcStep(w) \/ GCAbort(w)
        PROVE  SelectedOK(proc'[v]) /\ MarkOK(proc'[v])
    <3>1. CASE v = w
      BY <2>1, <3>1, PinAdvances
    <3>2. CASE v # w
      BY <2>0, <2>1, <3>2, OwnLocals
    <3> QED  BY <3>1, <3>2
  <2>2. ASSUME NEW w \in Procs, NEW s \in Snaps, DeleteRequest(w, s)
        PROVE  SelectedOK(proc'[v]) /\ MarkOK(proc'[v])
    <3>1. CASE v = w
      BY <2>0, <2>2, <3>1, RequestLocals DEF SelectedOK, MarkOK
    <3>2. CASE v # w
      BY <2>0, <2>2, <3>2, RequestLocals
    <3> QED  BY <3>1, <3>2
  <2> QED  BY <2>0, <2>1, <2>2, OthersLeavePasses
<1>2. ASSUME NEW v \in Procs PROVE SelectedOK(proc[v])' /\ MarkOK(proc[v])'
  <2>1. PICK q \in Passes : q = proc'[v]
    BY TypeStep DEF TypeOK, PassesTyped
  <2>2. SelectedOK(q)' /\ MarkOK(q)'
    BY <1>1, <2>1, PinKeeps
  <2> QED  BY <2>1, <2>2 DEF SelectedOK, MarkOK
<1> QED
  BY <1>2, PlaceStep DEF PinInv

\* Whatever operators, requests and other passes do in the meantime, what a
\* pass prunes lies above every generation it decided to keep in that chain.
THEOREM PrunesAbove == Spec => PrunesAboveKept
<1> DEFINE Above == \A w \in Procs :
             proc[w].pc \in {"floor", "expand", "mark"} /\ proc'[w].pc = "prune" =>
               \A u \in proc'[w].todo :
                 status[u] = "completed" => proc[w].chainMax[chainOf[u]] < genOf[u]
<1>1. TypeOK /\ PinInv /\ [Next]_vars => PinInv'
  BY PinStep
<1>2. TypeOK /\ PinInv /\ [Next]_vars => Above
  <2> SUFFICES ASSUME TypeOK, PinInv, [Next]_vars, NEW w \in Procs,
                      proc[w].pc \in {"floor", "expand", "mark"}, proc'[w].pc = "prune",
                      NEW u \in proc'[w].todo, status[u] = "completed"
               PROVE  proc[w].chainMax[chainOf[u]] < genOf[u]
    OBVIOUS
  <2>1. ProcStep(w) \/ GCAbort(w)
    <3>1. PICK v \in Procs : ProcStep(v) \/ GCAbort(v) \/ \E s \in Snaps : DeleteRequest(v, s)
      BY OthersLeavePasses
    <3>2. v = w
      BY <3>1, OwnLocals, RequestLocals
    <3>3. ~\E s \in Snaps : DeleteRequest(w, s)
      BY RequestLocals
    <3> QED  BY <3>1, <3>2, <3>3
  <2>2. \/ GCFloor(w) \/ (\E ch \in Snaps : GCExpand(w, ch)) \/ (\E s \in Snaps : GCMark(w, s))
    <3>1. ~\/ DeleteForUser(w) \/ GCListSites(w) \/ GCClock(w) \/ (\E s \in Snaps : GCPrune(w, s))
           \/ SweepTenantChunks(w) \/ (\E c \in Chunks : SweepObject(w, c))
           \/ SweepRow(w) \/ SweepDone(w) \/ GCAbort(w)
      BY OtherPhases
    <3>2. ~\E st \in Sites : GCSelect(w, st)
      BY DEF GCSelect
    <3> QED  BY <2>1, <3>1, <3>2 DEF ProcStep
  <2>3. PICK p \in Passes :
          /\ proc'[w] = Settle(p) /\ p.pc \in {"expand", "mark"} /\ MarkOK(p) /\ SelectedOK(p)
          /\ p.expired = proc[w].expired /\ p.chainMax = proc[w].chainMax
    BY <2>2, PinPhases
  <2>4. ~(genOf[u] <= p.chainMax[chainOf[u]]) /\ u \in p.expired
    BY <2>3, SettleMarks
  <2>5. u \in Snaps /\ chainOf[u] \in Snaps
    BY <2>4 DEF PinInv, Passes
  <2>6. genOf[u] \in Int /\ p.chainMax[chainOf[u]] \in Int
    BY <2>5, ConstantsAssumption DEF TypeOK, RowsTyped, Depths, Passes
  <2> QED  BY <2>3, <2>4, <2>6
<1> HIDE DEF Above
<1>3. Spec => [][Above]_vars
  BY <1>1, <1>2, PinInit, TypeCorrect, PTL DEF Spec
<1> QED
  BY <1>3 DEF Above, PrunesAboveKept

-----------------------------------------------------------------------------
(***************************************************************************)
(* When a kept chain can lose a generation.                                *)
(***************************************************************************)
\* Kept by the policy, or by a lock, at this instant.
Retained(s) == status[s] = "completed" /\ s \notin Expired(siteOf[s], now)

\* A restore of s reads u.
Needs(s, u) == status[u] = "completed" /\ chainOf[u] = chainOf[s] /\ genOf[u] <= genOf[s]

\* A backup completes on top of a generation that was kept when it was
\* requested and is not any more.
LateJoin ==
  \E s \in Snaps :
    /\ status[s] # "completed" /\ status'[s] = "completed" /\ genOf[s] > 0
    /\ ~\E p \in Snaps : Retained(p) /\ chainOf[p] = chainOf[s] /\ genOf[s] = genOf[p] + 1

\* What the policy had given up is kept again: a lock on an expired snapshot,
\* or a deletion that leaves an expired one among the newest.
Revives == \E s \in Snaps : status[s] = "completed" /\ ~Retained(s) /\ Retained(s)'

\* A row goes that a kept snapshot needs, as when a child has completed since
\* evaluateDeleteGuards looked for children.
Orphans ==
  \E u \in Snaps : \E s \in Snaps \ {u} :
    status[u] = "completed" /\ status'[u] # "completed" /\ Retained(s) /\ Needs(s, u)

\* A lock or a deletion by an operator that does one or the other.
LateOperator ==
  /\ \/ \E s \in Snaps, on \in BOOLEAN : SetSnapshotLocked(s, on)
     \/ \E w \in Procs : DeleteForUser(w)
  /\ Revives \/ Orphans

-----------------------------------------------------------------------------
(***************************************************************************)
(* The invariant.                                                          *)
(***************************************************************************)
\* Rows are ordered by their creation, and a chain stays on one site.
RowsOK ==
  \A s \in Snaps : status[s] # "none" =>
    /\ siteOf[s] \in Sites /\ createdAt[s] <= now
    /\ chainOf[s] \in Snaps /\ siteOf[chainOf[s]] = siteOf[s] /\ status[chainOf[s]] # "none"
    /\ \A t \in Snaps \ {s} : status[t] # "none" => createdAt[t] # createdAt[s]

\* A backup in flight is alone on its site, and newer than what is completed
\* there.
FlightOK ==
  \A s \in Snaps : status[s] \in InFlight =>
    /\ \A t \in Snaps \ {s} : siteOf[t] = siteOf[s] => status[t] \notin InFlight
    /\ \A t \in Completed(siteOf[s]) : createdAt[t] < createdAt[s]

\* A request continues a chain of its own site, or begins one.
PlanOK(q) ==
  q.pc = "insert" =>
    /\ q.site \in Sites
    /\ \/ q.chain = NoSnap
       \/ q.chain \in Snaps /\ status[q.chain] # "none" /\ siteOf[q.chain] = q.site

\* What a pass has selected stays expired.
Doomed(q) == q.expired \cup (IF q.pc = "prune" THEN q.todo ELSE {})
DoomedOK(q) ==
  \A u \in Doomed(q) :
    /\ status[u] \in {"completed", "gone"}
    /\ status[u] = "completed" => u \in Expired(siteOf[u], now)

\* Of what a kept snapshot needs, a pass selects only what it will pin, ...
TopOK(q) ==
  \A u \in q.expired, s \in Snaps :
    Retained(s) /\ Needs(s, u) => genOf[u] <= q.chainMax[chainOf[u]]

\* ... and so prunes none of it.
PruneOK(q) ==
  q.pc = "prune" => \A u \in q.todo, s \in Snaps : Retained(s) => ~Needs(s, u)

PassOK(q) == q.started <= now /\ DoomedOK(q) /\ TopOK(q) /\ PruneOK(q)

\* The inductive invariant.
ChainInv ==
  /\ TypeOK /\ PinInv /\ RowsOK /\ FlightOK /\ RetainedChainsWhole
  /\ \A o \in Operators : PlanOK(plan[o])
  /\ \A w \in Procs : PassOK(proc[w])

-----------------------------------------------------------------------------
(***************************************************************************)
(* What a step does to the rows, as far as chains and passes depend on it. *)
(***************************************************************************)
\* s completes, and extends the chain of a snapshot that is kept.
Joins(s) ==
  /\ status[s] \in InFlight /\ status'[s] = "completed"
  /\ \A u \in Snaps \ {s} : status[u] = "completed" /\ chainOf[u] = chainOf[s] => genOf[u] # genOf[s]
  /\ \/ genOf[s] = 0
     \/ \E p \in Snaps : /\ Retained(p) /\ status'[p] = "completed"
                         /\ chainOf[p] = chainOf[s] /\ genOf[s] = genOf[p] + 1

ChainStep ==
  /\ now <= now'
  /\ \A s \in Snaps : status[s] # "none" =>
       /\ status'[s] # "none" /\ (status'[s] = "completed" => status[s] \in InFlight \cup {"completed"})
       /\ siteOf'[s] = siteOf[s] /\ chainOf'[s] = chainOf[s] /\ genOf'[s] = genOf[s]
  /\ \A s \in Snaps : status[s] \in {"completed", "gone"} => status'[s] \in {"completed", "gone"}
  /\ \A s \in Snaps : status[s] = "completed" /\ status'[s] = "completed" /\ Retained(s)' => Retained(s)
  /\ \A s \in Snaps : status[s] # "completed" /\ status'[s] = "completed" => Joins(s)
  /\ \A u \in Snaps : status[u] = "completed" /\ status'[u] # "completed" =>
       \A s \in Snaps \ {u} : Retained(s) => ~Needs(s, u)

\* Such a step keeps what is known of a request ...
LEMMA PlanKeeps ==
  ASSUME ChainStep, NEW q, PlanOK(q)
  PROVE  PlanOK(q)'
  BY DEF PlanOK, ChainStep

\* ... and of a pass, ...
LEMMA PassKeeps ==
  ASSUME TypeOK, TypeOK', ChainStep, NEW q \in Passes, PassOK(q)
  PROVE  PassOK(q)'
<1>1. q.started <= now'
  BY DEF PassOK, ChainStep, TypeOK, Passes, Times
<1>2. DoomedOK(q)'
  <2> SUFFICES ASSUME NEW u \in Doomed(q)
               PROVE  /\ status'[u] \in {"completed", "gone"}
                      /\ status'[u] = "completed" => u \in Expired(siteOf[u], now)'
    BY DEF DoomedOK, Doomed
  <2>1. /\ u \in Snaps /\ status[u] \in {"completed", "gone"}
        /\ status[u] = "completed" => ~Retained(u)
    BY DEF PassOK, DoomedOK, Doomed, Passes, Retained
  <2>2. status'[u] \in {"completed", "gone"} /\ siteOf'[u] = siteOf[u]
    BY <2>1 DEF ChainStep
  <2>3. ASSUME status'[u] = "completed" PROVE status[u] = "completed"
    BY <2>1, <2>3 DEF ChainStep, InFlight
  <2>4. ASSUME status'[u] = "completed" PROVE ~Retained(u)'
    BY <2>1, <2>3, <2>4 DEF ChainStep
  <2> QED
    BY <2>2, <2>4 DEF Retained
\* Whoever needs u after the step, something kept needs it before.
<1>3. ASSUME NEW u \in Doomed(q), NEW s \in Snaps, Retained(s)', Needs(s, u)'
      PROVE  \E p \in Snaps : Retained(p) /\ Needs(p, u)
  <2>1. u \in Snaps /\ status[u] \in {"completed", "gone"}
    BY <1>3 DEF PassOK, DoomedOK, Doomed, Passes
  <2>2. status[u] = "completed" /\ chainOf'[u] = chainOf[u] /\ genOf'[u] = genOf[u]
    BY <1>3, <2>1 DEF ChainStep, Needs, InFlight
  <2>3. status'[s] = "completed"
    BY <1>3 DEF Retained
  <2>4. CASE status[s] = "completed"
    <3>1. Retained(s) /\ chainOf'[s] = chainOf[s] /\ genOf'[s] = genOf[s]
      BY <1>3, <2>3, <2>4 DEF ChainStep
    <3> QED  BY <1>3, <2>2, <3>1 DEF Needs
  <2>5. CASE status[s] # "completed"
    <3>1. Joins(s) /\ u # s
      BY <2>2, <2>3, <2>5 DEF ChainStep
    <3>2. chainOf'[s] = chainOf[s] /\ genOf'[s] = genOf[s]
      BY <3>1 DEF ChainStep, Joins, InFlight
    <3>3. chainOf[u] = chainOf[s] /\ genOf[u] <= genOf[s] /\ genOf[u] # genOf[s]
      BY <1>3, <2>1, <2>2, <3>1, <3>2 DEF Needs, Joins
    <3>4. genOf[u] \in Nat /\ genOf[s] \in Nat
      BY <2>1, ConstantsAssumption DEF TypeOK, RowsTyped, Depths
    <3>5. PICK p \in Snaps : Retained(p) /\ chainOf[p] = chainOf[s] /\ genOf[s] = genOf[p] + 1
      BY <3>1, <3>3, <3>4 DEF Joins
    <3>6. genOf[p] \in Nat
      BY ConstantsAssumption DEF TypeOK, RowsTyped, Depths
    <3> QED  BY <2>2, <3>3, <3>4, <3>5, <3>6 DEF Needs
  <2> QED  BY <2>4, <2>5
<1>4. ASSUME NEW u \in Doomed(q), status'[u] = "completed"
      PROVE  status[u] = "completed" /\ chainOf'[u] = chainOf[u] /\ genOf'[u] = genOf[u]
  <2>1. u \in Snaps /\ status[u] \in {"completed", "gone"}
    BY <1>4 DEF PassOK, DoomedOK, Doomed, Passes
  <2> QED  BY <1>4, <2>1 DEF ChainStep, InFlight
<1>5. TopOK(q)'
  BY <1>3, <1>4 DEF PassOK, TopOK, Doomed, Needs
<1>6. PruneOK(q)'
  BY <1>3 DEF PassOK, PruneOK, Doomed
<1> QED
  BY <1>1, <1>2, <1>5, <1>6 DEF PassOK

\* ... and the chains that are kept.
LEMMA WholeKeeps ==
  ASSUME TypeOK, TypeOK', RowsOK, RowsOK', ChainStep, RetainedChainsWhole
  PROVE  RetainedChainsWhole'
<1> DEFINE Has(s, g) == \E t \in Snaps : /\ status[t] = "completed" /\ chainOf[t] = chainOf[s]
                                         /\ genOf[t] = g
<1>0. \A s \in Snaps : genOf[s] \in Nat /\ genOf'[s] \in Nat
  BY ConstantsAssumption DEF TypeOK, RowsTyped, Depths
<1>1. ASSUME NEW s \in Snaps, Retained(s), NEW g \in 0..genOf[s] PROVE Has(s, g)
  <2>1. siteOf[s] \in Sites /\ WholeChain(s)
    BY <1>1 DEF RetainedChainsWhole, Retained, Completed, RowsOK
  <2> QED  BY <1>1, <2>1 DEF WholeChain, CompletedChain, ChainRows
\* What a kept snapshot needs is still there after the step.
<1>2. ASSUME NEW s \in Snaps, Retained(s), status'[s] = "completed", NEW g \in 0..genOf[s]
      PROVE  \E t \in Snaps : status'[t] = "completed" /\ chainOf'[t] = chainOf[s] /\ genOf'[t] = g
  <2>1. PICK t \in Snaps : status[t] = "completed" /\ chainOf[t] = chainOf[s] /\ genOf[t] = g
    BY <1>1, <1>2
  <2>2. genOf[t] <= genOf[s]
    BY <1>0, <2>1
  <2>3. status'[t] = "completed"
    BY <1>2, <2>1, <2>2 DEF ChainStep, Needs
  <2> QED  BY <2>1, <2>3 DEF ChainStep
<1>3. ASSUME NEW s \in Snaps, Retained(s)', NEW g \in 0..genOf'[s] PROVE Has(s, g)'
  <2>1. status'[s] = "completed"
    BY <1>3 DEF Retained
  <2>2. CASE status[s] = "completed"
    <3>1. Retained(s) /\ chainOf'[s] = chainOf[s] /\ genOf'[s] = genOf[s]
      BY <1>3, <2>1, <2>2 DEF ChainStep
    <3> QED  BY <1>2, <1>3, <2>1, <3>1
  <2>3. CASE status[s] # "completed"
    <3>1. Joins(s)
      BY <2>1, <2>3 DEF ChainStep
    <3>2. chainOf'[s] = chainOf[s] /\ genOf'[s] = genOf[s]
      BY <3>1 DEF ChainStep, Joins, InFlight
    <3>3. CASE g = genOf[s]
      BY <2>1, <3>2, <3>3
    <3>4. CASE g # genOf[s]
      <4>1. PICK p \in Snaps : /\ Retained(p) /\ status'[p] = "completed"
                               /\ chainOf[p] = chainOf[s] /\ genOf[s] = genOf[p] + 1
        BY <1>0, <1>3, <3>1, <3>2, <3>4 DEF Joins
      <4>2. g \in 0..genOf[p]
        BY <1>0, <1>3, <3>2, <3>4, <4>1
      <4> QED  BY <1>2, <3>2, <4>1, <4>2
    <3> QED  BY <3>3, <3>4
  <2> QED  BY <2>2, <2>3
<1>4. ASSUME NEW s \in Snaps, Retained(s)' PROVE WholeChain(s)'
  <2> SUFFICES ASSUME NEW g \in 0..genOf'[s]
               PROVE  \E t \in CompletedChain(chainOf[s], g)' : genOf'[t] = g
    BY DEF WholeChain
  <2>1. PICK t \in Snaps : status'[t] = "completed" /\ chainOf'[t] = chainOf'[s] /\ genOf'[t] = g
    BY <1>3, <1>4
  <2>2. t \in CompletedChain(chainOf[s], g)'
    BY <1>0, <2>1 DEF CompletedChain, ChainRows, Exists
  <2> QED  BY <2>1, <2>2
<1> QED
  BY <1>4 DEF RetainedChainsWhole, Retained, Completed

-----------------------------------------------------------------------------
(***************************************************************************)
(* What the policy gives up it does not take back by itself.               *)
(***************************************************************************)
\* Given up by the policy, whether locked or not.
PastPolicy(st) == Exp(createdAt, Completed(st), now)

\* What a pass prunes is what the policy gives up and nobody has locked.
LEMMA ExpiredIsPolicy ==
  ASSUME NEW st, NEW at
  PROVE  Expired(st, at) = {s \in Exp(createdAt, Completed(st), at) : ~locked[s]}
<1>1. \A s, S : NewerThan(s, S) = Newer(createdAt, s, S)
  BY DEF NewerThan, Newer
<1>2. NewestOfMonth(st) = Newest(createdAt, Completed(st))
  BY <1>1 DEF NewestOfMonth, Newest
<1>3. archiveIDs(st) = Archive(createdAt, Completed(st))
  BY <1>1, <1>2 DEF archiveIDs, Archive
<1>4. ASSUME NEW s
      PROVE  s \in Expired(st, at) <=> s \in Exp(createdAt, Completed(st), at) /\ ~locked[s]
  <2>1. Completed(st) \ archiveIDs(st) = Candidates(createdAt, Completed(st))
    BY <1>3 DEF Candidates
  <2> QED
    BY <1>1, <2>1, ExpiredMeans DEF Expired, gatherExpiredForSite
<1> QED
  BY <1>4

\* The same, as a formula about any state.
PolicyRead == \A x : Expired(x, now) = {s \in PastPolicy(x) : ~locked[s]}

LEMMA PolicyNow == PolicyRead
  BY ExpiredIsPolicy DEF PolicyRead, PastPolicy

\* What is completed on a site is finite and ordered.
LEMMA CompletedOrdered ==
  ASSUME TypeOK, RowsOK, IsFiniteSet(Snaps), NEW st
  PROVE  /\ IsFiniteSet(Completed(st))
         /\ \A s \in Completed(st) : createdAt[s] \in Nat
         /\ \A s, t \in Completed(st) : s # t => createdAt[s] # createdAt[t]
<1>1. Completed(st) \in SUBSET Snaps
  BY DEF Completed
<1>2. IsFiniteSet(Completed(st))
  BY <1>1, FS_Subset
<1>3. \A s \in Completed(st) : createdAt[s] \in Nat
  BY ConstantsAssumption DEF Completed, TypeOK, RowsTyped, Times
<1>4. \A s, t \in Completed(st) : s # t => createdAt[s] # createdAt[t]
  BY DEF Completed, RowsOK
<1> QED
  BY <1>2, <1>3, <1>4

\* Rows of completed snapshots keep what the policy looks at.
SameRows == \A s \in Snaps : status[s] = "completed" =>
              createdAt'[s] = createdAt[s] /\ siteOf'[s] = siteOf[s]

\* Nothing completes on the site, or a newer snapshot does, or one that the
\* policy gives up is pruned.
SiteMoves(st) ==
  \/ Completed(st)' = Completed(st)
  \/ \E n \in Snaps \ Completed(st) :
       /\ Completed(st)' = Completed(st) \cup {n}
       /\ \A s \in Completed(st) : createdAt'[s] < createdAt'[n]
  \/ \E u \in PastPolicy(st) : Completed(st)' = Completed(st) \ {u}

LEMMA ExpiredStays ==
  ASSUME TypeOK, TypeOK', RowsOK, RowsOK', IsFiniteSet(Snaps), SameRows, now <= now', NEW st,
         SiteMoves(st)
  PROVE  PastPolicy(st) \cap Completed(st)' \subseteq PastPolicy(st)'
<1> DEFINE C == Completed(st)
           D == Completed(st)'
           f == createdAt'
<1>1. now \in Nat /\ now' \in Nat
  BY ConstantsAssumption DEF TypeOK, Times
<1>2. PastPolicy(st) = Exp(f, C, now)
  <2>1. \A s \in C : f[s] = createdAt[s]
    BY DEF SameRows, Completed
  <2> HIDE DEF C, f
  <2>2. Exp(f, C, now) = Exp(createdAt, C, now)
    BY <2>1, PolicyAgree
  <2> QED  BY <2>2 DEF C, PastPolicy
<1>3. PastPolicy(st)' = Exp(f, D, now')
  BY DEF PastPolicy
<1>4. /\ IsFiniteSet(C) /\ \A s \in C : f[s] \in Nat
      /\ \A s, t \in C : s # t => f[s] # f[t]
  <2>1. \A s \in C : f[s] = createdAt[s]
    BY DEF SameRows, Completed
  <2>2. /\ IsFiniteSet(C) /\ \A s \in C : createdAt[s] \in Nat
        /\ \A s, t \in C : s # t => createdAt[s] # createdAt[t]
    BY CompletedOrdered
  <2> HIDE DEF C, f
  <2> QED  BY <2>1, <2>2
<1>5. /\ \A s \in D : f[s] \in Nat
      /\ \A s, t \in D : s # t => f[s] # f[t]
  BY ConstantsAssumption DEF Completed, TypeOK, RowsTyped, Times, RowsOK
<1>6. Exp(f, D, now) \subseteq Exp(f, D, now')
  <2> HIDE DEF C, D, f
  <2> QED  BY <1>1, <1>5, PolicyAges
<1>7. Exp(f, C, now) \cap D \subseteq Exp(f, D, now)
  <2>1. CASE D = C
    BY <2>1
  <2>2. CASE \E n \in Snaps \ C : D = C \cup {n} /\ \A s \in C : f[s] < f[n]
    <3>1. PICK n \in Snaps \ C : D = C \cup {n} /\ \A s \in C : f[s] < f[n]
      BY <2>2
    <3> HIDE DEF C, D, f
    <3>2. Exp(f, C, now) \subseteq Exp(f, C \cup {n}, now)
      BY <1>1, <1>4, <1>5, <3>1, PolicyAdds
    <3> QED  BY <3>1, <3>2
  <2>3. CASE \E u \in PastPolicy(st) : D = C \ {u}
    <3>1. PICK u \in Exp(f, C, now) : D = C \ {u}
      BY <1>2, <2>3
    <3> HIDE DEF C, D, f
    <3>2. Exp(f, C, now) \ {u} \subseteq Exp(f, C \ {u}, now)
      BY <1>1, <1>4, <3>1, PolicyPrunes
    <3> QED  BY <3>1, <3>2
  <2> QED  BY <2>1, <2>2, <2>3 DEF SiteMoves
<1> QED
  BY <1>2, <1>3, <1>6, <1>7

\* A pass that began earlier selects nothing that is kept now.
LEMMA EarlierSelectsLess ==
  ASSUME TypeOK, NEW st, NEW at \in Nat, at <= now
  PROVE  Expired(st, at) \subseteq Expired(st, now)
<1>1. now \in Nat /\ \A s \in Completed(st) : createdAt[s] \in Nat
  BY ConstantsAssumption DEF TypeOK, RowsTyped, Times, Completed
<1>2. Exp(createdAt, Completed(st), at) \subseteq Exp(createdAt, Completed(st), now)
  BY <1>1, PolicyAges
<1> QED
  BY <1>2, ExpiredIsPolicy

-----------------------------------------------------------------------------
(***************************************************************************)
(* The steps that touch rows.                                              *)
(***************************************************************************)
chainVars == <<status, siteOf, createdAt, chainOf, genOf, locked>>

RowsSound == ChainStep /\ RowsOK' /\ FlightOK'

\* Rows of snapshots that exist, or existed, keep their place.
PlacesKept ==
  \A s \in Snaps : status[s] # "none" =>
    /\ siteOf'[s] = siteOf[s] /\ createdAt'[s] = createdAt[s]
    /\ chainOf'[s] = chainOf[s] /\ genOf'[s] = genOf[s]

\* Nothing is locked.
NoNewLock == \A s \in Snaps : ~locked[s] => ~locked'[s]

\* What is kept after a completion, a prune or a tick was kept before it.
LEMMA RetainedBefore ==
  ASSUME TypeOK, TypeOK', RowsOK, RowsOK', IsFiniteSet(Snaps), PlacesKept, NoNewLock, now <= now',
         NEW st, SiteMoves(st), NEW s \in Snaps, siteOf[s] = st,
         status[s] = "completed", status'[s] = "completed", Retained(s)'
  PROVE  Retained(s)
<1>1. SameRows /\ siteOf'[s] = st
  BY DEF SameRows, PlacesKept
<1>2. PastPolicy(st) \cap Completed(st)' \subseteq PastPolicy(st)'
  BY <1>1, ExpiredStays
<1>3. s \in Completed(st)'
  BY <1>1 DEF Completed
<1>4. s \notin Expired(siteOf[s], now)'
  BY DEF Retained
<1>5. PolicyRead /\ PolicyRead'
  BY PolicyNow, PTL
<1>6. s \notin PastPolicy(st)' \/ locked'[s]
  BY <1>1, <1>4, <1>5 DEF PolicyRead
<1>7. s \notin PastPolicy(st) \/ locked[s]
  BY <1>2, <1>3, <1>6 DEF NoNewLock
<1> QED
  BY <1>5, <1>7 DEF Retained, PolicyRead

\* In particular after a step that completes and prunes nothing.
LEMMA RetainedAsBefore ==
  ASSUME TypeOK, TypeOK', RowsOK, RowsOK', IsFiniteSet(Snaps), PlacesKept, NoNewLock, now <= now',
         \A x : Completed(x)' = Completed(x)
  PROVE  \A s \in Snaps :
           status[s] = "completed" /\ status'[s] = "completed" /\ Retained(s)' => Retained(s)
<1> SUFFICES ASSUME NEW s \in Snaps, status[s] = "completed", status'[s] = "completed", Retained(s)'
             PROVE  Retained(s)
  OBVIOUS
<1>1. PICK st : st = siteOf[s]
  OBVIOUS
<1>2. SiteMoves(st)
  BY DEF SiteMoves
<1> QED
  BY <1>1, <1>2, RetainedBefore

\* No row is inserted.
LEMMA RowsKept ==
  ASSUME TypeOK, TypeOK', RowsOK, now <= now', PlacesKept,
         \A s \in Snaps : status[s] = "none" <=> status'[s] = "none"
  PROVE  RowsOK'
  BY DEF RowsOK, TypeOK, RowsTyped, Times, PlacesKept

\* Rows are claimed, fail or go, and nothing completes.
LEMMA RowsOnly ==
  ASSUME TypeOK, TypeOK', RowsOK, FlightOK, now <= now', PlacesKept,
         \A s \in Snaps :
           /\ status[s] = "none" <=> status'[s] = "none"
           /\ status'[s] \in InFlight => status[s] \in InFlight
           /\ status'[s] = "completed" => status[s] = "completed"
           /\ status[s] \in {"completed", "gone"} => status'[s] \in {"completed", "gone"},
         \A s \in Snaps :
           status[s] = "completed" /\ status'[s] = "completed" /\ Retained(s)' => Retained(s),
         \A u \in Snaps : status[u] = "completed" /\ status'[u] # "completed" =>
           \A s \in Snaps \ {u} : Retained(s) => ~Needs(s, u)
  PROVE  RowsSound
<1>1. RowsOK'
  BY RowsKept
<1>2. ChainStep
  BY DEF ChainStep, PlacesKept
<1>3. FlightOK'
  <2> SUFFICES ASSUME NEW s \in Snaps, status'[s] \in InFlight
               PROVE  /\ \A t \in Snaps \ {s} : siteOf'[t] = siteOf'[s] => status'[t] \notin InFlight
                      /\ \A t \in Completed(siteOf[s])' : createdAt'[t] < createdAt'[s]
    BY DEF FlightOK
  <2>1. status[s] \in InFlight /\ status[s] # "none"
    BY DEF InFlight
  <2>2. ASSUME NEW t \in Snaps \ {s}, siteOf'[t] = siteOf'[s] PROVE status'[t] \notin InFlight
    <3>1. status[t] # "none" => siteOf[t] = siteOf[s]
      BY <2>1, <2>2 DEF PlacesKept
    <3>2. status[t] = "none" => status'[t] \notin InFlight
      BY <2>2 DEF InFlight
    <3> QED  BY <2>1, <2>2, <3>1, <3>2 DEF FlightOK
  <2>3. ASSUME NEW t \in Completed(siteOf[s])' PROVE createdAt'[t] < createdAt'[s]
    <3>1. t \in Snaps /\ status[t] = "completed" /\ siteOf'[t] = siteOf'[s]
      BY <2>3 DEF Completed
    <3>2. t \in Completed(siteOf[s]) /\ createdAt'[t] = createdAt[t]
      BY <2>1, <3>1 DEF PlacesKept, Completed
    <3> QED  BY <2>1, <3>2 DEF FlightOK, PlacesKept
  <2> QED  BY <2>2, <2>3
<1> QED
  BY <1>1, <1>2, <1>3 DEF RowsSound

\* Nothing is completed and nothing deleted.
LEMMA RowsStay ==
  ASSUME TypeOK, TypeOK', RowsOK, FlightOK, IsFiniteSet(Snaps), now <= now', PlacesKept, NoNewLock,
         \A s \in Snaps : /\ status[s] = "none" <=> status'[s] = "none"
                          /\ status[s] \notin InFlight => status'[s] = status[s]
                          /\ status[s] \in InFlight => status'[s] \in InFlight \cup {"failed"}
  PROVE  RowsSound
<1>1. RowsOK'
  BY RowsKept
<1>2. \A s \in Snaps : status'[s] = "completed" <=> status[s] = "completed"
  BY DEF InFlight
<1>3. \A st : Completed(st)' = Completed(st)
  BY <1>2 DEF Completed, PlacesKept
<1>4. \A s \in Snaps : status[s] = "completed" /\ status'[s] = "completed" /\ Retained(s)' => Retained(s)
  BY <1>1, <1>3, RetainedAsBefore
<1>5. \A s \in Snaps :
        /\ status'[s] \in InFlight => status[s] \in InFlight
        /\ status[s] \in {"completed", "gone"} => status'[s] \in {"completed", "gone"}
  BY DEF InFlight
<1> QED
  BY <1>2, <1>4, <1>5, RowsOnly

\* A backup completes: on its site it is the newest, and it is not late.
LEMMA CompleteSound ==
  ASSUME TypeOK, TypeOK', RowsOK, FlightOK, IsFiniteSet(Snaps), ~LateJoin, NEW s \in Snaps,
         Completes(s), status' = [status EXCEPT ![s] = "completed"],
         UNCHANGED <<now, siteOf, createdAt, chainOf, genOf, locked>>
  PROVE  RowsSound
<1> DEFINE st == siteOf[s]
<1>0. /\ status[s] \in InFlight /\ status[s] # "none" /\ status[s] # "completed"
      /\ now \in Nat /\ now <= now'
  BY ConstantsAssumption DEF Completes, InFlight, TypeOK, Times
<1>1. PlacesKept /\ NoNewLock
  BY DEF PlacesKept, NoNewLock
<1>2. \A t \in Snaps \ {s} : status'[t] = status[t]
  BY DEF TypeOK, RowsTyped
<1>3. status'[s] = "completed"
  BY DEF TypeOK, RowsTyped
<1>4. RowsOK'
  BY <1>0, <1>2, <1>3 DEF RowsOK
<1>5. Completed(st)' = Completed(st) \cup {s} /\ s \in Snaps \ Completed(st)
  BY <1>0, <1>2, <1>3 DEF Completed
<1>6. \A x : x # st => Completed(x)' = Completed(x)
  BY <1>2, <1>3 DEF Completed
<1>7. \A t \in Completed(st) : createdAt'[t] < createdAt'[s]
  BY <1>0 DEF FlightOK
<1>8. Joins(s)
  <2>1. ASSUME genOf[s] # 0
        PROVE  \E p \in Snaps : /\ Retained(p) /\ status'[p] = "completed"
                                /\ chainOf[p] = chainOf[s] /\ genOf[s] = genOf[p] + 1
    <3>1. genOf[s] > 0
      BY <2>1, ConstantsAssumption DEF TypeOK, RowsTyped, Depths
    <3>2. PICK p \in Snaps : Retained(p) /\ chainOf[p] = chainOf[s] /\ genOf[s] = genOf[p] + 1
      BY <1>0, <1>3, <3>1 DEF LateJoin
    <3>3. status'[p] = "completed"
      BY <1>2, <1>3, <3>2 DEF Retained
    <3> QED  BY <3>2, <3>3
  <2> QED  BY <1>0, <1>3, <2>1 DEF Joins, Completes
<1>9. ChainStep
  <2>1. ASSUME NEW t \in Snaps, status[t] = "completed", status'[t] = "completed", Retained(t)'
        PROVE  Retained(t)
    <3>0. PICK x : x = siteOf[t]
      OBVIOUS
    <3>1. SiteMoves(x)
      BY <1>5, <1>6, <1>7 DEF SiteMoves
    <3> QED  BY <1>0, <1>1, <1>4, <2>1, <3>0, <3>1, RetainedBefore
  <2> QED  BY <1>0, <1>1, <1>2, <1>3, <1>8, <2>1 DEF ChainStep, PlacesKept
<1>10. FlightOK'
  <2> SUFFICES ASSUME NEW t \in Snaps, status'[t] \in InFlight
               PROVE  /\ \A y \in Snaps \ {t} : siteOf[y] = siteOf[t] => status'[y] \notin InFlight
                      /\ \A y \in Completed(siteOf[t])' : createdAt[y] < createdAt[t]
    BY DEF FlightOK
  <2>1. t # s /\ status[t] \in InFlight /\ siteOf[t] # st
    BY <1>0, <1>2, <1>3 DEF FlightOK, InFlight
  <2>2. \A y \in Snaps \ {t} : siteOf[y] = siteOf[t] => status'[y] \notin InFlight
    BY <1>2, <1>3, <2>1 DEF FlightOK, InFlight
  <2>3. Completed(siteOf[t])' = Completed(siteOf[t])
    BY <1>6, <2>1
  <2> QED  BY <2>1, <2>2, <2>3 DEF FlightOK
<1> QED
  BY <1>4, <1>9, <1>10 DEF RowsSound

\* What the deletion of a row does to the other columns, and to other rows.
LEMMA DeleteRows ==
  ASSUME TypeOK, NEW u, DeleteSnapshot(u)
  PROVE  /\ PlacesKept /\ NoNewLock
         /\ \A t \in Snaps : t # u => status'[t] = status[t]
         /\ \A t \in Snaps : t = u => status'[t] = IF Exists(t) THEN "gone" ELSE status[t]
         /\ \A t \in Snaps : /\ status[t] = "none" <=> status'[t] = "none"
                             /\ status'[t] \in InFlight => status[t] \in InFlight
                             /\ status'[t] = "completed" => status[t] = "completed"
                             /\ status[t] \in {"completed", "gone"} => status'[t] \in {"completed", "gone"}
<1>1. PlacesKept /\ NoNewLock
  BY DEF PlacesKept, NoNewLock, DeleteSnapshot, TypeOK, RowsTyped
<1>2. \A t \in Snaps : /\ t # u => status'[t] = status[t]
                       /\ t = u => status'[t] = IF Exists(t) THEN "gone" ELSE status[t]
  BY DEF DeleteSnapshot, TypeOK, RowsTyped
<1> QED
  BY <1>1, <1>2 DEF Exists, InFlight

\* A pass prunes what it may: something expired that no kept snapshot needs.
LEMMA PruneSound ==
  ASSUME TypeOK, TypeOK', RowsOK, FlightOK, IsFiniteSet(Snaps), NEW q \in Passes, PassOK(q),
         q.pc = "prune", NEW u \in q.todo, DeleteSnapshot(u), UNCHANGED now
  PROVE  RowsSound
<1>0. u \in Snaps /\ status[u] \in {"completed", "gone"} /\ now \in Nat /\ now <= now'
  BY ConstantsAssumption DEF Passes, PassOK, DoomedOK, Doomed, TypeOK, Times
<1>1. /\ PlacesKept /\ NoNewLock
      /\ \A t \in Snaps : t # u => status'[t] = status[t]
      /\ status'[u] = "gone"
      /\ \A t \in Snaps : status[t] = "none" <=> status'[t] = "none"
  BY <1>0, DeleteRows DEF Exists
<1>2. RowsOK'
  BY <1>0, <1>1, RowsKept
<1>3. ASSUME NEW t \in Snaps, status[t] = "completed", status'[t] = "completed", Retained(t)'
      PROVE  Retained(t)
  <2>0. PICK st : st = siteOf[t]
    OBVIOUS
  <2>1. siteOf' = siteOf
    BY DEF DeleteSnapshot
  <2>2. SiteMoves(st)
    <3>1. CASE status[u] = "completed" /\ siteOf[u] = st
      <4>1. u \in Expired(st, now)
        BY <3>1 DEF PassOK, DoomedOK, Doomed
      <4>2. u \in PastPolicy(st)
        BY <4>1, PolicyNow DEF PolicyRead
      <4>3. Completed(st)' = Completed(st) \ {u}
        BY <1>0, <1>1, <2>1 DEF Completed
      <4> QED  BY <4>2, <4>3 DEF SiteMoves
    <3>2. CASE ~(status[u] = "completed" /\ siteOf[u] = st)
      <4>1. Completed(st)' = Completed(st)
        BY <1>0, <1>1, <2>1, <3>2 DEF Completed
      <4> QED  BY <4>1 DEF SiteMoves
    <3> QED  BY <3>1, <3>2
  <2> QED  BY <1>0, <1>1, <1>2, <1>3, <2>0, <2>2, RetainedBefore
<1>4. \A y \in Snaps : status[y] = "completed" /\ status'[y] # "completed" =>
        \A t \in Snaps \ {y} : Retained(t) => ~Needs(t, y)
  BY <1>1 DEF PassOK, PruneOK
<1> QED
  BY <1>0, <1>1, <1>3, <1>4, DeleteRows, RowsOnly

\* An operator deletes a row, and no kept snapshot needs it.
LEMMA DeleteSound ==
  ASSUME TypeOK, TypeOK', RowsOK, FlightOK, NEW u, DeleteSnapshot(u), ~Revives, ~Orphans, UNCHANGED now
  PROVE  RowsSound
<1>1. now <= now'
  BY ConstantsAssumption DEF TypeOK, Times
<1>2. \A t \in Snaps : status[t] = "completed" /\ status'[t] = "completed" /\ Retained(t)' => Retained(t)
  BY DEF Revives
<1>3. \A y \in Snaps : status[y] = "completed" /\ status'[y] # "completed" =>
        \A t \in Snaps \ {y} : Retained(t) => ~Needs(t, y)
  BY DEF Orphans
<1> QED
  BY <1>1, <1>2, <1>3, DeleteRows, RowsOnly

\* An operator locks or unlocks a snapshot that the policy has not given up.
LEMMA LockSound ==
  ASSUME TypeOK, TypeOK', RowsOK, FlightOK, ~Revives,
         UNCHANGED <<now, status, siteOf, createdAt, chainOf, genOf>>
  PROVE  RowsSound
<1>1. now <= now' /\ PlacesKept
  BY ConstantsAssumption DEF TypeOK, Times, PlacesKept
<1>2. \A t \in Snaps : status[t] = "completed" /\ status'[t] = "completed" /\ Retained(t)' => Retained(t)
  BY DEF Revives
<1> QED
  BY <1>1, <1>2, RowsOnly

\* No snapshot of a site is in flight.
LEMMA SiteFree ==
  ASSUME IsFiniteSet(Snaps), NEW st, CountInFlightSnapshots(st) = 0
  PROVE  \A t \in Snaps : siteOf[t] = st => status[t] \notin InFlight
<1> DEFINE F == {s \in Snaps : siteOf[s] = st /\ status[s] \in InFlight}
<1>1. IsFiniteSet(F)
  BY FS_Subset
<1>2. F = {}
  BY <1>1, FS_EmptySet DEF CountInFlightSnapshots
<1> QED
  BY <1>2

\* A row is inserted, and the index has found the site free.
LEMMA InsertSound ==
  ASSUME TypeOK, TypeOK', RowsOK, FlightOK, IsFiniteSet(Snaps),
         NEW o \in Operators, PlanOK(plan[o]), NEW s \in Snaps, CreateSnapshot(o, s)
  PROVE  RowsSound
<1> DEFINE q == plan[o]
           ch == IF q.chain = NoSnap THEN s ELSE q.chain
<1>0. /\ q \in Plans /\ q.pc = "insert" /\ status[s] = "none" /\ PlanOK(q)
      /\ now \in Nat /\ now' = now + 1 /\ now <= now'
      /\ \A t \in Snaps : siteOf[t] = q.site => status[t] \notin InFlight
  BY SiteFree, ConstantsAssumption DEF CreateSnapshot, MayInsert, TypeOK, Times
<1>1. \A t \in Snaps \ {s} : /\ status'[t] = status[t] /\ siteOf'[t] = siteOf[t]
                             /\ createdAt'[t] = createdAt[t]
                             /\ chainOf'[t] = chainOf[t] /\ genOf'[t] = genOf[t]
  BY DEF CreateSnapshot, TypeOK, RowsTyped
<1>2. /\ status'[s] = "pending" /\ siteOf'[s] = q.site /\ createdAt'[s] = now + 1
      /\ chainOf'[s] = ch /\ genOf'[s] = q.gen /\ locked' = locked
  BY DEF CreateSnapshot, TypeOK, RowsTyped
<1>3. PlacesKept /\ NoNewLock
  BY <1>0, <1>1, <1>2 DEF PlacesKept, NoNewLock
<1>4. \A x : Completed(x)' = Completed(x)
  BY <1>0, <1>1, <1>2 DEF Completed
\* A chain that is continued is the site's own.
<1>5. /\ ch \in Snaps /\ q.site \in Sites
      /\ ch # s => status[ch] # "none" /\ siteOf[ch] = q.site
  BY <1>0, ConstantsAssumption DEF PlanOK
<1>6. RowsOK'
  <2>1. ASSUME NEW t \in Snaps, status[t] # "none"
        PROVE  createdAt[t] # now + 1 /\ createdAt[t] <= now + 1 /\ t # s
    BY <1>0, <2>1, ConstantsAssumption DEF RowsOK, TypeOK, RowsTyped, Times
  <2> HIDE DEF q, ch
  <2> QED  BY <1>0, <1>1, <1>2, <1>5, <2>1 DEF RowsOK
<1>7. ChainStep
  <2>1. \A t \in Snaps : status[t] = "completed" /\ status'[t] = "completed" /\ Retained(t)' => Retained(t)
    BY <1>0, <1>3, <1>4, <1>6, RetainedAsBefore
  <2> QED  BY <1>0, <1>1, <1>2, <1>3, <2>1 DEF ChainStep, PlacesKept
<1>8. FlightOK'
  <2> SUFFICES ASSUME NEW t \in Snaps, status'[t] \in InFlight
               PROVE  /\ \A y \in Snaps \ {t} : siteOf'[y] = siteOf'[t] => status'[y] \notin InFlight
                      /\ \A y \in Completed(siteOf[t])' : createdAt'[y] < createdAt'[t]
    BY DEF FlightOK
  <2>1. CASE t = s
    <3>2. \A y \in Snaps \ {s} : status[y] = "completed" => createdAt[y] < now + 1
      BY <1>0, ConstantsAssumption DEF RowsOK, TypeOK, RowsTyped, Times
    <3> HIDE DEF q, ch
    <3>4. \A y \in Completed(siteOf[s])' : createdAt'[y] < createdAt'[s]
      BY <1>1, <1>2, <3>2 DEF Completed
    <3> QED  BY <1>0, <1>1, <1>2, <2>1, <3>4
  <2>2. CASE t # s
    <3>1. status[t] \in InFlight /\ siteOf[t] # q.site /\ siteOf'[t] = siteOf[t]
      BY <1>0, <1>1, <2>2
    <3>2. \A y \in Snaps \ {t} : siteOf'[y] = siteOf'[t] => status'[y] \notin InFlight
      BY <1>1, <1>2, <2>2, <3>1 DEF FlightOK
    <3>3. \A y \in Completed(siteOf[t])' : createdAt'[y] < createdAt'[t]
      BY <1>0, <1>1, <1>2, <2>2, <3>1 DEF FlightOK, Completed
    <3> QED  BY <3>2, <3>3
  <2> QED  BY <2>1, <2>2
<1> QED
  BY <1>6, <1>7, <1>8 DEF RowsSound

-----------------------------------------------------------------------------
(***************************************************************************)
(* The steps of a pass, and of a request.                                  *)
(***************************************************************************)
\* A pass that does not prune has nothing to show but its selection.
LEMMA PassElsewhere ==
  ASSUME NEW q \in Passes, PassOK(q), NEW r, r.started <= now, r.pc # "prune",
         r.expired = {} \/ (r.expired = q.expired /\ r.chainMax = q.chainMax)
  PROVE  PassOK(r)
  BY DEF PassOK, DoomedOK, Doomed, TopOK, PruneOK

\* Phases 2 and 3 end with every needed snapshot pinned; what is then left of
\* the selection is not needed.
LEMMA SettlePass ==
  ASSUME NEW q \in Passes, PassOK(q),
         NEW p \in Passes, p.pc \in {"expand", "mark"}, MarkOK(p), SelectedOK(p),
         p.started = q.started, p.expired = q.expired, p.chainMax = q.chainMax
  PROVE  PassOK(Settle(p))
<1> DEFINE r == Settle(p)
<1>1. /\ r.started = q.started
      /\ \/ r.expired = q.expired /\ r.chainMax = q.chainMax /\ r.pc \in {"expand", "mark"}
         \/ /\ r.expired = {} /\ r.pc = "prune" /\ r.todo \subseteq q.expired
            /\ \A u \in r.todo :
                 status[u] = "completed" => ~(genOf[u] <= q.chainMax[chainOf[u]])
  BY SettleMarks
<1> HIDE DEF r
<1>2. CASE r.pc # "prune"
  <2>1. PassOK(r)
    BY <1>1, <1>2, PassElsewhere DEF PassOK
  <2> QED  BY <2>1 DEF r
<1>3. CASE r.pc = "prune"
  <2>1. DoomedOK(r) /\ TopOK(r)
    BY <1>1, <1>3 DEF PassOK, DoomedOK, Doomed, TopOK
  <2>2. PruneOK(r)
    BY <1>1, <1>3 DEF PassOK, PruneOK, TopOK, Needs
  <2>3. PassOK(r)
    BY <1>1, <2>1, <2>2 DEF PassOK
  <2> QED  BY <2>3 DEF r
<1> QED
  BY <1>2, <1>3

\* Phase 0: per chain, the highest generation that is kept.
LEMMA SelectPass ==
  ASSUME TypeOK, TypeOK', RowsOK, NEW w \in Procs, PassOK(proc[w]), NEW st \in Sites, GCSelect(w, st)
  PROVE  PassOK(proc'[w])
<1> DEFINE q == proc[w]
           r == proc'[w]
           gone == Expired(st, q.started)
<1>0. q \in Passes /\ r \in Passes /\ q.started \in Nat /\ q.started <= now
  BY ConstantsAssumption DEF TypeOK, PassesTyped, Passes, Times, PassOK
<1>1. r.pc = "select" /\ r.started = q.started /\ r.expired = q.expired \cup gone
  BY <1>0 DEF GCSelect, Passes, TypeOK, PassesTyped
<1>2. gone \subseteq Expired(st, now)
  BY <1>0, EarlierSelectsLess
<1>3. Expired(st, now) \subseteq Completed(st) /\ Completed(st) \subseteq Snaps
  BY DEF Expired, gatherExpiredForSite, Completed
<1>4. DoomedOK(r)
  <2>1. \A u \in gone : status[u] = "completed" /\ u \in Expired(siteOf[u], now)
    BY <1>2, <1>3 DEF Completed
  <2> HIDE DEF q, r, gone
  <2> QED  BY <1>1, <2>1 DEF PassOK, DoomedOK, Doomed, q
<1>5. ASSUME NEW s \in Snaps, Retained(s), siteOf[s] = st, chainOf[s] \in Snaps
      PROVE  genOf[s] <= r.chainMax[chainOf[s]]
  <2>1. s \in Completed(st) \ gone
    BY <1>2, <1>5 DEF Retained, Completed
  <2>2. genOf[s] \in KeptGens(w, st, chainOf[s])
    BY <2>1 DEF KeptGens
  <2>3. PICK ch \in Snaps : ch = chainOf[s]
    BY <1>5
  <2>4. \A g \in KeptGens(w, st, ch) : g <= proc'[w].chainMax[ch]
    BY SelectTips
  <2> HIDE DEF gone
  <2> QED  BY <2>2, <2>3, <2>4
<1>6. TopOK(r)
  <2> SUFFICES ASSUME NEW u \in r.expired, NEW s \in Snaps, Retained(s), Needs(s, u)
               PROVE  genOf[u] <= r.chainMax[chainOf[u]]
    BY DEF TopOK
  <2>1. /\ u \in Snaps /\ chainOf[u] = chainOf[s] /\ genOf[u] <= genOf[s]
        /\ status[u] = "completed" /\ status[s] = "completed"
    BY <1>0 DEF Needs, Passes, Retained
  <2>2. siteOf[u] = siteOf[s] /\ chainOf[u] \in Snaps
    BY <2>1 DEF RowsOK
  <2>3. /\ genOf[u] \in Int /\ genOf[s] \in Int
        /\ r.chainMax[chainOf[u]] \in Int /\ q.chainMax[chainOf[u]] \in Int
    BY <1>0, <2>1, <2>2, ConstantsAssumption DEF TypeOK, RowsTyped, Depths, Passes
  <2>4. CASE siteOf[s] = st
    <3>1. genOf[s] <= r.chainMax[chainOf[u]]
      BY <1>5, <2>1, <2>2, <2>4
    <3> QED  BY <2>1, <2>3, <3>1
  <2>5. CASE siteOf[s] # st
    <3>1. u \in q.expired
      BY <1>1, <1>2, <1>3, <2>2, <2>5 DEF Completed
    <3>2. genOf[u] <= q.chainMax[chainOf[u]]
      BY <3>1 DEF PassOK, TopOK
    <3>3. PICK ch \in Snaps : ch = chainOf[u]
      BY <2>2
    <3>4. q.chainMax[ch] <= r.chainMax[ch]
      BY SelectTips
    <3> QED  BY <2>3, <3>2, <3>3, <3>4
  <2> QED  BY <2>4, <2>5
<1> QED
  BY <1>0, <1>1, <1>4, <1>6 DEF PassOK, PruneOK

\* Phases 0 to 5 of a pass.
LEMMA PassAdvances ==
  ASSUME TypeOK, TypeOK', PinInv, RowsOK, NEW w \in Procs, PassOK(proc[w]), ProcStep(w) \/ GCAbort(w)
  PROVE  PassOK(proc'[w])
<1>0. proc[w] \in Passes /\ now \in Nat /\ proc[w].started <= now
  BY ConstantsAssumption DEF TypeOK, PassesTyped, Times, PassOK
<1>1. CASE \E st \in Sites : GCSelect(w, st)
  BY <1>1, SelectPass
<1>2. CASE \/ GCFloor(w) \/ (\E ch \in Snaps : GCExpand(w, ch)) \/ (\E s \in Snaps : GCMark(w, s))
  <2>1. PICK p \in Passes :
          /\ proc'[w] = Settle(p) /\ p.pc \in {"expand", "mark"} /\ MarkOK(p) /\ SelectedOK(p)
          /\ p.started = proc[w].started /\ p.expired = proc[w].expired
          /\ p.chainMax = proc[w].chainMax
    BY <1>2, PinPhases
  <2>2. PassOK(Settle(p))
    BY <1>0, <2>1, SettlePass
  <2> QED  BY <2>1, <2>2
<1>3. CASE \/ DeleteForUser(w) \/ GCListSites(w) \/ GCClock(w) \/ (\E s \in Snaps : GCPrune(w, s))
           \/ SweepTenantChunks(w) \/ (\E c \in Chunks : SweepObject(w, c))
           \/ SweepRow(w) \/ SweepDone(w) \/ GCAbort(w)
  <2> DEFINE q == proc[w]
             r == proc'[w]
  <2>1. /\ \/ r.pc # "prune"
           \/ q.pc = "prune" /\ r.pc = "prune" /\ r.todo \subseteq q.todo
        /\ \/ r.expired = {} /\ r.started = 0
           \/ r.expired = q.expired /\ r.chainMax = q.chainMax /\ r.started \in {0, now, q.started}
    BY <1>3, OtherPhases
  <2>2. r.started <= now
    BY <1>0, <2>1
  <2> HIDE DEF q, r
  <2>3. CASE r.pc # "prune"
    <3>1. PassOK(r)
      BY <1>0, <2>1, <2>2, <2>3, PassElsewhere DEF q
    <3> QED  BY <3>1 DEF r
  <2>4. CASE r.pc = "prune"
    <3>1. PassOK(r)
      BY <2>1, <2>2, <2>4 DEF PassOK, DoomedOK, Doomed, TopOK, PruneOK, q
    <3> QED  BY <3>1 DEF r
  <2> QED  BY <2>3, <2>4
<1> QED
  BY <1>1, <1>2, <1>3 DEF ProcStep

\* The chain a request resolves is that of a snapshot of its site.
LEMMA CreatePlan ==
  ASSUME TypeOK, RowsOK, NEW o \in Operators, NEW st \in Sites, NEW inc \in Modes,
         CreateBackup(o, st, inc)
  PROVE  PlanOK(plan'[o])
<1> DEFINE Own(ch) == \/ ch = NoSnap
                      \/ ch \in Snaps /\ status[ch] # "none" /\ siteOf[ch] = st
<1>1. BaseIncrement.chain = NoSnap /\ [BaseIncrement EXCEPT !.inc = FALSE].chain = NoSnap
  BY DEF BaseIncrement
<1>2. ASSUME NEW p \in LatestCompleted(st) PROVE Own(ChainAfter(p).chain)
  <2>1. p \in Snaps /\ status[p] = "completed" /\ siteOf[p] = st
    BY <1>2 DEF LatestCompleted, Completed
  <2>2. chainOf[p] \in Snaps /\ status[chainOf[p]] # "none" /\ siteOf[chainOf[p]] = st
    BY <2>1 DEF RowsOK
  <2>3. \/ ChainAfter(p) = BaseIncrement
        \/ ChainAfter(p) = [inc |-> TRUE, parent |-> p,
             base |-> IF baseOf[p] = NoSnap THEN p ELSE baseOf[p],
             chain |-> chainOf[p], gen |-> genOf[p] + 1]
        \/ ChainAfter(p) = [inc |-> TRUE, parent |-> p, base |-> p, chain |-> p, gen |-> 1]
    BY Zenon DEF ChainAfter
  <2> QED  BY <1>1, <2>1, <2>2, <2>3
<1>3. PICK r \in IF ~inc THEN {[BaseIncrement EXCEPT !.inc = FALSE]}
                 ELSE IF LatestCompleted(st) = {} THEN {BaseIncrement}
                 ELSE {ChainAfter(p) : p \in LatestCompleted(st)} :
             plan' = [plan EXCEPT ![o] =
                   [pc |-> "insert", site |-> st, inc |-> r.inc, parent |-> r.parent,
                    base |-> r.base, chain |-> r.chain, gen |-> r.gen]]
  BY DEF CreateBackup
<1>4. Own(r.chain)
  <2>1. CASE r \in {[BaseIncrement EXCEPT !.inc = FALSE], BaseIncrement}
    BY <1>1, <2>1
  <2>2. CASE \E p \in LatestCompleted(st) : r = ChainAfter(p)
    BY <1>2, <2>2
  <2> QED  BY <1>3, <2>1, <2>2
<1>5. plan'[o].site = st /\ plan'[o].chain = r.chain
  BY <1>3 DEF TypeOK
<1> HIDE DEF Own
<1>6. Own(plan'[o].chain)
  BY <1>4, <1>5
<1> QED
  BY <1>5, <1>6 DEF PlanOK, Own

\* A step that leaves the rows alone, whatever else it does.
LEMMA RowsFrame ==
  ASSUME IsFiniteSet(Snaps), ChainInv, TypeOK', now <= now', UNCHANGED chainVars
  PROVE  RowsSound
<1>1. PlacesKept /\ NoNewLock
  BY DEF PlacesKept, NoNewLock, chainVars
<1> QED
  BY <1>1, RowsStay DEF ChainInv, chainVars

\* Rows, and the plans of requests as they are after the step.
RowsMove == RowsSound /\ \A p \in Operators : PlanOK(plan'[p])

\* The steps of a request: it resolves, inserts, or is refused.
LEMMA CreateMoves == ASSUME IsFiniteSet(Snaps), ChainInv, TypeOK', CreateStep PROVE RowsMove
<1> USE DEF rowVars, chainVars
<1>0. PICK o \in Operators : \/ \E st \in Sites, inc \in Modes : CreateBackup(o, st, inc)
                             \/ \E s \in Snaps : CreateSnapshot(o, s)
                             \/ CreateRefused(o)
  BY DEF CreateStep
<1>1. /\ now <= now /\ plan \in [Operators -> Plans] /\ TypeOK /\ RowsOK /\ FlightOK
      /\ \A p \in Operators : PlanOK(plan[p])
      /\ PlanOK(NoPlan)
  BY ConstantsAssumption DEF ChainInv, TypeOK, Times, PlanOK, NoPlan
<1>2. \A p \in Operators \ {o} : plan'[p] = plan[p]
  BY <1>0, <1>1 DEF CreateBackup, CreateSnapshot, CreateRefused
<1>3. ASSUME PlanOK(plan'[o]) PROVE \A p \in Operators : PlanOK(plan'[p])
  BY <1>1, <1>2, <1>3
<1>4. ASSUME NEW st \in Sites, NEW inc \in Modes, CreateBackup(o, st, inc) PROVE RowsMove
  <2>1. UNCHANGED <<now, chainVars>>
    BY <1>4 DEF CreateBackup
  <2>2. RowsSound
    BY <1>1, <2>1, RowsFrame
  <2>3. PlanOK(plan'[o])
    BY <1>1, <1>4, CreatePlan
  <2> QED  BY <1>3, <2>2, <2>3 DEF RowsMove
<1>5. ASSUME NEW s \in Snaps, CreateSnapshot(o, s) PROVE RowsMove
  <2>1. RowsSound
    BY <1>1, <1>5, InsertSound
  <2>2. plan'[o] = NoPlan
    BY <1>1, <1>5 DEF CreateSnapshot
  <2> QED  BY <1>1, <1>3, <2>1, <2>2 DEF RowsMove
<1>6. CASE CreateRefused(o)
  <2>1. UNCHANGED <<now, chainVars>> /\ plan'[o] = NoPlan
    BY <1>1, <1>6 DEF CreateRefused
  <2>2. RowsSound
    BY <1>1, <2>1, RowsFrame
  <2> QED  BY <1>1, <1>3, <2>1, <2>2 DEF RowsMove
<1> QED
  BY <1>0, <1>4, <1>5, <1>6

\* A step that touches neither the rows nor the requests.
LEMMA QuietMoves ==
  ASSUME IsFiniteSet(Snaps), ChainInv, TypeOK', now <= now', UNCHANGED <<chainVars, plan>>
  PROVE  RowsMove
  BY RowsFrame DEF ChainInv, RowsMove

\* The steps of a backup: its row is claimed, fails or completes.
LEMMA BackupMoves ==
  ASSUME IsFiniteSet(Snaps), ChainInv, TypeOK', BackupStep, ~LateJoin
  PROVE  RowsMove
<1> USE DEF rowVars, chainVars
<1>0. PICK s \in Snaps :
        \/ MarkRunning(s) \/ FailSnapshot(s) \/ DispatchBroken(s)
        \/ \E at \in TxnStart(s) : Dispatch(s, at)
        \/ \E c \in Chunks : \E at \in TxnStart(s) : PresignChunks(s, c, at)
        \/ \E c \in Chunks : UploadChunk(s, c)
        \/ SubmitManifest(s)
        \/ \E db \in SUBSET Chunks : \E at \in TxnStart(s) : RecordManifest(s, db, at)
  BY DEF BackupStep
<1>1. TypeOK /\ RowsOK /\ FlightOK /\ now <= now /\ (\A p \in Operators : PlanOK(plan[p]))
  BY ConstantsAssumption DEF ChainInv, TypeOK, Times
<1>2. ASSUME RowsSound, UNCHANGED plan PROVE RowsMove
  BY <1>1, <1>2 DEF RowsMove
<1>3. CASE MarkRunning(s) \/ FailSnapshot(s) \/ DispatchBroken(s)
  <2>1. /\ UNCHANGED <<now, siteOf, createdAt, chainOf, genOf, locked, plan>>
        /\ status[s] \in InFlight
        /\ \E x \in {"running", "failed"} : status' = [status EXCEPT ![s] = x]
    BY <1>3 DEF MarkRunning, FailSnapshot, DispatchBroken, InFlight
  <2>2. /\ PlacesKept /\ NoNewLock
        /\ \A t \in Snaps : /\ status[t] = "none" <=> status'[t] = "none"
                            /\ status[t] \notin InFlight => status'[t] = status[t]
                            /\ status[t] \in InFlight => status'[t] \in InFlight \cup {"failed"}
    BY <1>1, <2>1 DEF PlacesKept, NoNewLock, InFlight, TypeOK, RowsTyped
  <2>3. RowsSound
    BY <1>1, <2>1, <2>2, RowsStay
  <2> QED  BY <1>2, <2>1, <2>3
<1>4. CASE \/ \E at \in TxnStart(s) : Dispatch(s, at)
           \/ \E c \in Chunks : \E at \in TxnStart(s) : PresignChunks(s, c, at)
           \/ \E c \in Chunks : UploadChunk(s, c)
           \/ SubmitManifest(s)
  <2>1. UNCHANGED <<now, chainVars, plan>>
    BY <1>4 DEF Dispatch, PresignChunks, UploadChunk, SubmitManifest
  <2> QED  BY <1>1, <2>1, QuietMoves
<1>5. ASSUME NEW db \in SUBSET Chunks, NEW at \in TxnStart(s), RecordManifest(s, db, at)
      PROVE  RowsMove
  <2>1. UNCHANGED <<now, siteOf, createdAt, chainOf, genOf, locked, plan>>
    BY <1>5 DEF RecordManifest
  <2>2. CASE Completes(s)
    <3>1. status' = [status EXCEPT ![s] = "completed"]
      BY <1>5, <2>2 DEF RecordManifest
    <3>2. RowsSound
      BY <1>1, <2>1, <2>2, <3>1, CompleteSound
    <3> QED  BY <1>2, <2>1, <3>2
  <2>3. CASE ~Completes(s)
    <3>1. UNCHANGED status
      BY <1>5, <2>3 DEF RecordManifest
    <3> QED  BY <1>1, <2>1, <3>1, QuietMoves
  <2> QED  BY <2>2, <2>3
<1> QED
  BY <1>0, <1>3, <1>4, <1>5

\* Restores and delete requests leave the rows alone; a lock keeps nothing
\* that the policy has given up.
LEMMA OperatorMoves ==
  ASSUME IsFiniteSet(Snaps), ChainInv, TypeOK', OperatorStep, ~LateOperator
  PROVE  RowsMove
<1> USE DEF rowVars, chainVars, gcVars
<1>1. PICK s \in Snaps : \/ \E on \in BOOLEAN : SetSnapshotLocked(s, on)
                         \/ CreateRestore(s) \/ EndRestore(s)
                         \/ \E at \in TxnStart(s) : PlanRestore(s, at)
                         \/ \E w \in Procs : DeleteRequest(w, s)
  BY DEF OperatorStep
<1>2. TypeOK /\ RowsOK /\ FlightOK /\ now <= now /\ (\A p \in Operators : PlanOK(plan[p]))
  BY ConstantsAssumption DEF ChainInv, TypeOK, Times
<1>3. ASSUME NEW on \in BOOLEAN, SetSnapshotLocked(s, on) PROVE RowsMove
  <2>1. UNCHANGED <<now, status, siteOf, createdAt, chainOf, genOf, plan>> /\ ~Revives
    BY <1>3 DEF SetSnapshotLocked, LateOperator
  <2>2. RowsSound
    BY <1>2, <2>1, LockSound
  <2> QED  BY <1>2, <2>1, <2>2 DEF RowsMove
<1>4. CASE \/ CreateRestore(s) \/ EndRestore(s)
           \/ \E at \in TxnStart(s) : PlanRestore(s, at)
           \/ \E w \in Procs : DeleteRequest(w, s)
  <2>1. UNCHANGED <<now, chainVars, plan>>
    BY <1>4 DEF DeleteRequest, CreateRestore, EndRestore, PlanRestore
  <2> QED  BY <1>2, <2>1, QuietMoves
<1> QED
  BY <1>1, <1>3, <1>4

\* A pass deletes rows in phase 4, a delete request in its transaction.
LEMMA ProcMoves ==
  ASSUME IsFiniteSet(Snaps), ChainInv, TypeOK', NEW w \in Procs, ProcStep(w) \/ GCAbort(w),
         ~LateOperator
  PROVE  RowsMove
<1> USE DEF rowVars, chainVars
<1>1. TypeOK /\ RowsOK /\ FlightOK /\ now <= now /\ (\A p \in Operators : PlanOK(plan[p]))
  BY ConstantsAssumption DEF ChainInv, TypeOK, Times
<1>2. proc[w] \in Passes /\ PassOK(proc[w])
  BY DEF ChainInv, TypeOK, PassesTyped
<1>3. ASSUME NEW s \in Snaps, GCPrune(w, s) PROVE RowsMove
  <2>1. UNCHANGED <<now, plan>> /\ DeleteSnapshot(s) /\ proc[w].pc = "prune" /\ s \in proc[w].todo
    BY <1>3 DEF GCPrune
  <2>2. PICK q \in Passes : q = proc[w]
    BY <1>2
  <2>3. RowsSound
    BY <1>1, <1>2, <2>1, <2>2, PruneSound
  <2> QED  BY <1>1, <2>1, <2>3 DEF RowsMove
<1>4. CASE DeleteForUser(w)
  <2>1. UNCHANGED <<now, plan>> /\ DeleteSnapshot(proc[w].snap) /\ ~Revives /\ ~Orphans
    BY <1>4 DEF DeleteForUser, LateOperator
  <2>2. PICK u : u = proc[w].snap
    OBVIOUS
  <2>3. DeleteSnapshot(u)
    BY <2>1, <2>2 DEF DeleteSnapshot, Unlink, Exists
  <2>4. RowsSound
    BY <1>1, <2>1, <2>3, DeleteSound
  <2> QED  BY <1>1, <2>1, <2>4 DEF RowsMove
<1>5. CASE ~DeleteForUser(w) /\ ~\E s \in Snaps : GCPrune(w, s)
  <2>1. \/ GCListSites(w) \/ (\E st \in Sites : GCSelect(w, st)) \/ GCClock(w) \/ GCFloor(w)
        \/ (\E s \in Snaps : GCExpand(w, s)) \/ (\E s \in Snaps : GCMark(w, s))
        \/ SweepTenantChunks(w) \/ (\E c \in Chunks : SweepObject(w, c))
        \/ SweepRow(w) \/ SweepDone(w) \/ GCAbort(w)
    BY <1>5 DEF ProcStep
  <2>2. UNCHANGED <<now, chainVars, plan>>
    BY <2>1 DEF GCListSites, GCSelect, GCClock, GCFloor, GCExpand, GCMark, SweepTenantChunks,
                SweepObject, SweepRow, SweepDone, GCAbort
  <2> QED  BY <1>1, <2>2, QuietMoves
<1> QED
  BY <1>3, <1>4, <1>5

-----------------------------------------------------------------------------
(***************************************************************************)
(* The theorem.                                                            *)
(***************************************************************************)
\* A pass that has not begun has selected nothing.
LEMMA IdlePass == TypeOK => PassOK(Idle)
  BY ConstantsAssumption DEF PassOK, DoomedOK, Doomed, TopOK, PruneOK, Idle, TypeOK, Times

LEMMA ChainInit == Init => ChainInv
<1> SUFFICES ASSUME Init PROVE ChainInv
  OBVIOUS
<1>1. TypeOK /\ PinInv
  BY TypeInit, PinInit
<1>2. RowsOK /\ FlightOK /\ RetainedChainsWhole
  BY DEF Init, RowsOK, FlightOK, InFlight, RetainedChainsWhole, Completed
<1>3. \A o \in Operators : PlanOK(plan[o])
  BY DEF Init, PlanOK, NoPlan
<1>4. \A w \in Procs : proc[w] = Idle
  BY DEF Init
<1> QED
  BY <1>1, <1>2, <1>3, <1>4, IdlePass DEF ChainInv

\* What a step does to the rows and to requests.
LEMMA RowsStep ==
  ASSUME IsFiniteSet(Snaps), ChainInv, [Next]_vars, ~LateJoin, ~LateOperator
  PROVE  RowsMove
<1>1. TypeOK /\ TypeOK'
  BY TypeStep DEF ChainInv
<1>2. CASE Tick \/ UNCHANGED vars
  <2>1. UNCHANGED <<chainVars, plan>> /\ now <= now'
    BY <1>1, <1>2, ConstantsAssumption
    DEF Tick, vars, rowVars, chainVars, TypeOK, Times
  <2> QED  BY <1>1, <2>1, QuietMoves
<1> QED
  BY <1>1, <1>2, CreateMoves, BackupMoves, OperatorMoves, ProcMoves DEF Next

\* What it does to passes, read before the rows change.
LEMMA PassesStep ==
  ASSUME ChainInv, [Next]_vars, NEW v \in Procs
  PROVE  PassOK(proc'[v])
<1>1. TypeOK /\ TypeOK' /\ PinInv /\ RowsOK /\ PassOK(proc[v])
  BY TypeStep DEF ChainInv
<1>2. ASSUME NEW w \in Procs, ProcStep(w) \/ GCAbort(w) PROVE PassOK(proc'[v])
  <2>1. CASE v = w
    BY <1>1, <1>2, <2>1, PassAdvances
  <2>2. CASE v # w
    BY <1>1, <1>2, <2>2, OwnLocals
  <2> QED  BY <2>1, <2>2
<1>3. ASSUME NEW w \in Procs, NEW s \in Snaps, DeleteRequest(w, s) PROVE PassOK(proc'[v])
  <2>1. CASE v = w
    <3>1. /\ proc[w] \in Passes /\ proc'[w].pc = "delete" /\ proc'[w].started = proc[w].started
          /\ proc'[w].expired = proc[w].expired /\ proc'[w].chainMax = proc[w].chainMax
      BY <1>1, <1>3, RequestLocals DEF TypeOK, PassesTyped
    <3> QED  BY <1>1, <2>1, <3>1, PassElsewhere DEF PassOK
  <2>2. CASE v # w
    BY <1>1, <1>3, <2>2, RequestLocals
  <2> QED  BY <2>1, <2>2
<1> QED
  BY <1>1, <1>2, <1>3, OthersLeavePasses

\* Rows, requests and passes together.
LEMMA ChainStepInv ==
  ASSUME IsFiniteSet(Snaps), ChainInv, [Next]_vars, ~LateJoin, ~LateOperator
  PROVE  ChainInv'
<1>1. TypeOK /\ TypeOK' /\ RowsOK /\ RetainedChainsWhole /\ PinInv'
  BY TypeStep, PinStep DEF ChainInv
<1>2. ChainStep /\ RowsOK' /\ FlightOK' /\ \A p \in Operators : PlanOK(plan'[p])
  BY RowsStep DEF RowsMove, RowsSound
<1>3. ASSUME NEW v \in Procs PROVE PassOK(proc[v])'
  <2>1. PICK q \in Passes : q = proc'[v]
    BY <1>1 DEF TypeOK, PassesTyped
  <2>2. PassOK(q)
    BY <2>1, PassesStep
  <2>3. PassOK(q)'
    BY <1>1, <1>2, <2>2, PassKeeps
  <2> QED  BY <2>1, <2>3 DEF PassOK, DoomedOK, Doomed, TopOK, PruneOK
<1>4. ASSUME NEW o \in Operators PROVE PlanOK(plan[o])'
  <2>1. PICK q : q = plan'[o]
    OBVIOUS
  <2>2. PlanOK(q)'
    BY <1>2, <2>1, PlanKeeps
  <2> QED  BY <2>1, <2>2 DEF PlanOK
<1>5. RetainedChainsWhole'
  BY <1>1, <1>2, WholeKeeps
<1> QED
  BY <1>1, <1>2, <1>3, <1>4, <1>5 DEF ChainInv

\* A step that is none of those by which a kept chain loses a generation.
Timely == ~LateJoin /\ ~LateOperator

\* A kept snapshot loses a generation of its chain in no other way than by one
\* of these two steps: a backup that completes on a parent which is no longer
\* kept, and an operator's lock or delete that revives what the policy has
\* given up or deletes under a kept snapshot.  In a behaviour without such a
\* step every completed snapshot that the policy keeps, or a lock, has its whole
\* chain: whatever requests, restores, locks, deletions, aborts and GC passes
\* run at once, no pass prunes a generation a restore still needs.
THEOREM KeptChainsWhole ==
  ASSUME IsFiniteSet(Snaps)
  PROVE  Spec /\ [][~LateJoin /\ ~LateOperator]_vars => []RetainedChainsWhole
<1>1. ChainInv => RetainedChainsWhole
  BY DEF ChainInv
<1>2. ChainInv /\ [Next]_vars /\ [Timely]_vars => ChainInv'
  <2>1. CASE Timely
    BY <2>1, ChainStepInv DEF Timely
  <2>2. ASSUME ChainInv, UNCHANGED vars PROVE ChainInv'
    <3>1. ~LateJoin
      BY <2>2 DEF vars, rowVars, LateJoin
    <3>2. ~Orphans
      BY <2>2 DEF vars, rowVars, Orphans
    <3>3. TypeOK' /\ now <= now' /\ UNCHANGED chainVars
      BY <2>2, TypeStep, ConstantsAssumption
      DEF ChainInv, vars, rowVars, chainVars, TypeOK, Times
    <3>4. ~Revives
      BY <2>2, <3>3, RowsFrame DEF RowsSound, ChainStep, Revives, chainVars
    <3> QED  BY <2>2, <3>1, <3>2, <3>4, ChainStepInv DEF LateOperator
  <2> QED  BY <2>1, <2>2
<1>3. Spec /\ [][Timely]_vars => []RetainedChainsWhole
  BY <1>1, <1>2, ChainInit, PTL DEF Spec
<1> QED
  BY <1>3 DEF Timely

=============================================================================

-------------------------- MODULE BackupRetention --------------------------
(***************************************************************************)
(* The backup snapshots of one tenant, their content-addressed chunks, and *)
(* the mark-and-sweep retention GC (apps/api/internal/backup).             *)
(*                                                                         *)
(* A snapshot is a row that names a chain and a generation in it; its      *)
(* manifest lists chunk hashes.  A chunk is a row in backup_chunks plus an *)
(* object in the store; chunks are shared by every site of the tenant.     *)
(* Backups, operator requests and any number of GC passes run at the same  *)
(* time, and every step below is one database transaction or one call to   *)
(* the object store.  Only the sweep of a GC pass is under a lock.         *)
(*                                                                         *)
(* The database clock is `now'.  A snapshot is created at an instant of    *)
(* its own, so no two snapshots tie on created_at.                         *)
(***************************************************************************)
EXTENDS Integers, FiniteSets

CONSTANTS
  Sites, Snaps, Chunks,
  Operators,      \* concurrent CreateBackup requests
  Procs,          \* concurrent GC passes and delete requests
  Modes,          \* values of the incremental setting that occur
  Requests,       \* what operators ask for, among "lock", "delete", "restore"
  NoSnap, NoSite, NoProc, NoChunk,
  RetentionAge,   \* retention_days
  Scheduled,      \* whether the sites have a schedule, which sets keep_last
  KeepLast,       \* keep_last
  ArchiveKeep,    \* monthly_archive_keep
  MonthLength,    \* a calendar month
  Horizon,        \* gcSafetyHorizon
  BaseWindow,     \* base_window_days
  MaxChainDepth,  \* BackupMaxChainDepth
  MaxTime,        \* bound on the clock
  MaxRestores,    \* bound on concurrent restores
  MaxAborts,      \* bound on GC passes that stop part way
  TxSpan,         \* how long before its commit a chunk transaction may begin
  SweepCrash      \* whether a pass may stop between object and row delete

ASSUME ConstantsAssumption ==
  /\ NoSnap \notin Snaps /\ NoSite \notin Sites
  /\ NoProc \notin Procs /\ NoChunk \notin Chunks
  /\ {RetentionAge, KeepLast, ArchiveKeep, Horizon, BaseWindow, MaxChainDepth} \subseteq Nat
  /\ {MaxTime, MaxRestores, MaxAborts, TxSpan} \subseteq Nat
  /\ MonthLength \in Nat \ {0}
  /\ {SweepCrash, Scheduled} \cup Modes \subseteq BOOLEAN

VARIABLES
  now,
  status,       \* backup_snapshots.status; "none" before, "gone" after the row
  siteOf, createdAt, finishedAt, incremental, chainOf, baseOf, parentOf, genOf,
  locked,
  manFiles,     \* chunks of a manifest's parts, files-list and tombstones
  manDb,        \* chunks of its database dump
  chunkRows,    \* hashes with a backup_chunks row
  chunkCreated, chunkRef,   \* created_at and last_referenced_at of that row
  objects,      \* hashes with an object in the store
  agent,        \* what the site's agent is doing for a snapshot
  jobParent,    \* ParentSnapshotID in the enqueued job's arguments
  puts,         \* presigned uploads the agent has not done yet
  held,         \* chunks it was told are stored, or uploaded itself
  plan,         \* per CreateBackup request: the chain it resolved
  proc,         \* per GC pass or delete request: its local variables
  gcLock,       \* holder of the per-tenant session advisory lock
  restore,      \* per snapshot: its restore_runs row, "none" unless active
  aborts        \* GC passes that have stopped part way

rowVars   == <<status, siteOf, createdAt, finishedAt, incremental, chainOf,
               baseOf, parentOf, genOf, locked, manFiles, manDb>>
chunkVars == <<chunkRows, chunkCreated, chunkRef>>
agentVars == <<agent, jobParent, puts, held>>
gcVars    == <<proc, gcLock, aborts>>
vars      == <<now, rowVars, chunkVars, objects, agentVars, plan, gcVars, restore>>

Statuses == {"none", "pending", "running", "completed", "failed", "gone"}
InFlight == {"pending", "running"}
Terminal == {"completed", "failed"}

NoPlan == [pc |-> "idle", site |-> NoSite, inc |-> FALSE,
           parent |-> NoSnap, base |-> NoSnap, chain |-> NoSnap, gen |-> 0]

\* The step a GC pass or delete request takes next.
PassSteps == {"idle", "delete", "list", "select", "floor", "expand", "mark",
              "prune", "sweep", "row"}

Idle ==
  [pc |-> "idle", snap |-> NoSnap, sites |-> {}, started |-> 0, expired |-> {},
   chainMax |-> [s \in Snaps |-> -1], floor |-> 0, todo |-> {}, mark |-> {},
   live |-> {}, page |-> {}, cur |-> NoChunk]

Init ==
  /\ now = 0
  /\ status      = [s \in Snaps |-> "none"]
  /\ siteOf      = [s \in Snaps |-> NoSite]
  /\ createdAt   = [s \in Snaps |-> 0]
  /\ finishedAt  = [s \in Snaps |-> 0]
  /\ incremental = [s \in Snaps |-> FALSE]
  /\ chainOf     = [s \in Snaps |-> NoSnap]
  /\ baseOf      = [s \in Snaps |-> NoSnap]
  /\ parentOf    = [s \in Snaps |-> NoSnap]
  /\ genOf       = [s \in Snaps |-> 0]
  /\ locked      = [s \in Snaps |-> FALSE]
  /\ manFiles    = [s \in Snaps |-> {}]
  /\ manDb       = [s \in Snaps |-> {}]
  /\ chunkRows    = {}
  /\ chunkCreated = [c \in Chunks |-> 0]
  /\ chunkRef     = [c \in Chunks |-> 0]
  /\ objects = {}
  /\ agent     = [s \in Snaps |-> "idle"]
  /\ jobParent = [s \in Snaps |-> NoSnap]
  /\ puts      = [s \in Snaps |-> {}]
  /\ held      = [s \in Snaps |-> {}]
  /\ plan = [o \in Operators |-> NoPlan]
  /\ proc = [w \in Procs |-> Idle]
  /\ gcLock = NoProc
  /\ restore = [s \in Snaps |-> "none"]
  /\ aborts = 0

-----------------------------------------------------------------------------
(* Queries the steps share. *)

Exists(s) == status[s] \notin {"none", "gone"}

Completed(st) == {s \in Snaps : siteOf[s] = st /\ status[s] = "completed"}

CountInFlightSnapshots(st) ==
  Cardinality({s \in Snaps : siteOf[s] = st /\ status[s] \in InFlight})

NewerThan(s, S) == {t \in S : createdAt[t] > createdAt[s]}

\* GetLatestCompletedSnapshot: the newest, as a set of at most one.
LatestCompleted(st) == {s \in Completed(st) : NewerThan(s, Completed(st)) = {}}

\* ListChainSnapshots and ListCompletedChainSnapshots.
ChainRows(ch, maxGen) == {s \in Snaps : Exists(s) /\ chainOf[s] = ch /\ genOf[s] <= maxGen}
CompletedChain(ch, maxGen) == {s \in ChainRows(ch, maxGen) : status[s] = "completed"}

Manifest(s) == manFiles[s] \cup manDb[s]

\* A completed generation with a database dump and none above it.
LatestDump(S) ==
  {s \in S : manDb[s] # {} /\ \A t \in S : manDb[t] # {} => genOf[t] <= genOf[s]}

\* The parts of every generation.  Without generation 0 the chain is taken for
\* the old per-file kind, whose index is empty.
ChainParts(S) ==
  IF \E t \in S : genOf[t] = 0 /\ manFiles[t] # {} THEN UNION {manFiles[t] : t \in S} ELSE {}

ChainDump(S) == UNION {manDb[t] : t \in LatestDump(S)}

\* reachableChunks: a full base needs its own manifest; a chain increment the
\* parts of every completed generation up to maxGen and the latest dump among
\* them.
Reachable(s, maxGen) ==
  LET gens == CompletedChain(chainOf[s], maxGen) IN
  IF genOf[s] = 0 /\ ~incremental[s]
  THEN Manifest(s)
  ELSE ChainParts(gens) \cup ChainDump(gens)

Later(x, y) == IF x > y THEN x ELSE y

\* Mutant: nobody waits for the row.
RowsNeverLocked(c) == FALSE

\* The sweep holds the chunk's row FOR UPDATE, so writers of the row wait.
RowLocked(c) == \E w \in Procs : proc[w].pc = "row" /\ proc[w].cur = c

\* DeleteSnapshot: the manifest goes with the row, and rows that named it as
\* their parent or base have that column set to null.
Unlink(f, s) == [t \in Snaps |-> IF f[t] = s THEN NoSnap ELSE f[t]]

DeleteSnapshot(s) ==
  /\ status'   = [status EXCEPT ![s] = IF Exists(s) THEN "gone" ELSE @]
  /\ manFiles' = [manFiles EXCEPT ![s] = {}]
  /\ manDb'    = [manDb EXCEPT ![s] = {}]
  /\ parentOf' = Unlink(parentOf, s)
  /\ baseOf'   = Unlink(baseOf, s)
  /\ locked'   = [locked EXCEPT ![s] = FALSE]
  /\ UNCHANGED <<siteOf, createdAt, finishedAt, incremental, chainOf, genOf>>

-----------------------------------------------------------------------------
(* Starting a backup: CreateBackup and EnqueueScheduledBackup. *)

BaseIncrement ==
  [inc |-> TRUE, parent |-> NoSnap, base |-> NoSnap, chain |-> NoSnap, gen |-> 0]

\* Mutant: chains without a depth limit.
ChainAfterAnyDepth(p) ==
  [inc |-> TRUE, parent |-> p, base |-> p, chain |-> chainOf[p], gen |-> genOf[p] + 1]

\* resolveChainForSiteWithWindow on the latest completed snapshot p: continue
\* its chain, anchor one at a full backup, or start over with a new base.
ChainAfter(p) ==
  IF \/ now - finishedAt[p] > BaseWindow
     \/ genOf[p] >= MaxChainDepth
     \/ manFiles[p] = {}
  THEN BaseIncrement
  ELSE IF incremental[p]
  THEN [inc |-> TRUE, parent |-> p, base |-> IF baseOf[p] = NoSnap THEN p ELSE baseOf[p],
        chain |-> chainOf[p], gen |-> genOf[p] + 1]
  ELSE [inc |-> TRUE, parent |-> p, base |-> p, chain |-> p, gen |-> 1]

\* The request's reads: the in-flight guard, and for a site with incremental
\* backups the chain the new snapshot joins.
CreateBackup(o, st, inc) ==
  /\ plan[o].pc = "idle"
  /\ CountInFlightSnapshots(st) = 0
  /\ \E r \in IF ~inc THEN {[BaseIncrement EXCEPT !.inc = FALSE]}
              ELSE IF LatestCompleted(st) = {} THEN {BaseIncrement}
              ELSE {ChainAfter(p) : p \in LatestCompleted(st)} :
       plan' = [plan EXCEPT ![o] =
                  [pc |-> "insert", site |-> st, inc |-> r.inc,
                   parent |-> r.parent, base |-> r.base, chain |-> r.chain, gen |-> r.gen]]
  /\ UNCHANGED <<now, rowVars, chunkVars, objects, agentVars, gcVars, restore>>

\* The insert passes the one-in-flight-per-site index and the foreign keys of
\* the parent and the base.
MayInsert(p) ==
  /\ CountInFlightSnapshots(p.site) = 0
  /\ \A t \in {p.parent, p.base} \ {NoSnap} : Exists(t)

\* CreateSnapshot: one transaction; a generation-0 row anchors its own chain.
\* The job is enqueued with the parent that was resolved.
CreateSnapshot(o, s) ==
  LET p == plan[o] IN
  /\ p.pc = "insert" /\ MayInsert(p)
  /\ status[s] = "none" /\ now < MaxTime
  /\ now' = now + 1
  /\ status'      = [status EXCEPT ![s] = "pending"]
  /\ siteOf'      = [siteOf EXCEPT ![s] = p.site]
  /\ createdAt'   = [createdAt EXCEPT ![s] = now + 1]
  /\ incremental' = [incremental EXCEPT ![s] = p.inc]
  /\ chainOf'     = [chainOf EXCEPT ![s] = IF p.chain = NoSnap THEN s ELSE p.chain]
  /\ baseOf'      = [baseOf EXCEPT ![s] = p.base]
  /\ parentOf'    = [parentOf EXCEPT ![s] = p.parent]
  /\ genOf'       = [genOf EXCEPT ![s] = p.gen]
  /\ jobParent'   = [jobParent EXCEPT ![s] = p.parent]
  /\ plan'        = [plan EXCEPT ![o] = NoPlan]
  /\ UNCHANGED <<finishedAt, locked, manFiles, manDb, chunkVars, objects,
                 agent, puts, held, gcVars, restore>>

\* The index or the foreign key refuses the row; the request fails.
CreateRefused(o) ==
  /\ plan[o].pc = "insert" /\ ~MayInsert(plan[o])
  /\ plan' = [plan EXCEPT ![o] = NoPlan]
  /\ UNCHANGED <<now, rowVars, chunkVars, objects, agentVars, gcVars, restore>>

-----------------------------------------------------------------------------
(* Running a backup: the worker and the agent. *)

\* BackupWorker.Work claims the run.
MarkRunning(s) ==
  /\ status[s] = "pending"
  /\ status' = [status EXCEPT ![s] = "running"]
  /\ UNCHANGED <<now, siteOf, createdAt, finishedAt, incremental, chainOf, baseOf, parentOf,
                 genOf, locked, manFiles, manDb, chunkVars, objects, agentVars,
                 plan, gcVars, restore>>

\* FailSnapshot and FailStalledSnapshot: the operator's cancel, the worker's
\* terminal errors, the agent's own report and the stall watchdog.
FailSnapshot(s) ==
  /\ status[s] \in InFlight
  /\ status' = [status EXCEPT ![s] = "failed"]
  /\ finishedAt' = [finishedAt EXCEPT ![s] = now]
  /\ UNCHANGED <<now, siteOf, createdAt, incremental, chainOf, baseOf, parentOf, genOf,
                 locked, manFiles, manDb, chunkVars, objects, agentVars, plan,
                 gcVars, restore>>

\* touchReferencedChunks and the dedup oracle: last_referenced_at := now(),
\* which in Postgres is the instant the transaction began.
TxnStart(s) == Later(createdAt[s], now - TxSpan)..now

Touch(C, at) == chunkRef' = [c \in Chunks |-> IF c \in C THEN at ELSE chunkRef[c]]

ParentFiles(s) == IF jobParent[s] = NoSnap THEN {} ELSE manFiles[jobParent[s]]

\* The parent's files-list is still there: PresignParentFilesList finds it.
ParentListed(s) ==
  /\ jobParent[s] # NoSnap => ParentFiles(s) # {}
  /\ ParentFiles(s) \subseteq chunkRows

\* BackupWorker.Work hands the claimed run to the agent.  An increment first
\* presigns its parent's files-list, which touches those chunks.
Dispatch(s, at) ==
  /\ status[s] = "running" /\ agent[s] = "idle"
  /\ ParentListed(s)
  /\ \A c \in ParentFiles(s) : ~RowLocked(c)
  /\ Touch(ParentFiles(s), at)
  /\ agent' = [agent EXCEPT ![s] = "running"]
  /\ UNCHANGED <<now, rowVars, chunkRows, chunkCreated, objects, jobParent, puts,
                 held, plan, gcVars, restore>>

\* The parent's files-list is gone: the run fails for good.
DispatchBroken(s) ==
  /\ status[s] = "running" /\ agent[s] = "idle"
  /\ ~ParentListed(s)
  /\ FailSnapshot(s)

\* PresignChunks for one hash: a chunk with a row is reported stored and
\* touched, any other gets an upload URL.
PresignChunks(s, c, at) ==
  /\ agent[s] = "running" /\ status[s] \in InFlight
  /\ c \notin puts[s] \cup held[s]
  /\ ~RowLocked(c)
  /\ IF c \in chunkRows
     THEN /\ Touch({c}, at)
          /\ held' = [held EXCEPT ![s] = @ \cup {c}]
          /\ UNCHANGED puts
     ELSE /\ puts' = [puts EXCEPT ![s] = @ \cup {c}]
          /\ UNCHANGED <<chunkRef, held>>
  /\ UNCHANGED <<now, rowVars, chunkRows, chunkCreated, objects, agent, jobParent,
                 plan, gcVars, restore>>

\* The agent's PUT to a presigned URL, which may outlive the snapshot.
UploadChunk(s, c) ==
  /\ c \in puts[s]
  /\ objects' = objects \cup {c}
  /\ puts' = [puts EXCEPT ![s] = @ \ {c}]
  /\ held' = [held EXCEPT ![s] = @ \cup {c}]
  /\ UNCHANGED <<now, rowVars, chunkVars, agent, jobParent, plan, gcVars, restore>>

\* SubmitManifest's first read: the snapshot is still accepting a manifest.
SubmitManifest(s) ==
  /\ agent[s] = "running" /\ puts[s] = {} /\ held[s] # {}
  /\ status[s] \in InFlight
  /\ agent' = [agent EXCEPT ![s] = "submitting"]
  /\ UNCHANGED <<now, rowVars, chunkVars, objects, jobParent, puts, held, plan,
                 gcVars, restore>>

\* Mutant: CompleteBackupSnapshot without its status guard.
CompletesAnyStatus(s) ==
  ~\E t \in Snaps \ {s} : /\ status[t] = "completed"
                          /\ chainOf[t] = chainOf[s] /\ genOf[t] = genOf[s]

\* CompleteBackupSnapshot moves the row, and the unique index on completed
\* (chain, generation) lets it.
Completes(s) ==
  /\ status[s] \in InFlight
  /\ ~\E t \in Snaps \ {s} : /\ status[t] = "completed"
                             /\ chainOf[t] = chainOf[s] /\ genOf[t] = genOf[s]

\* RecordManifest: chunk rows, manifest entries, touch and completion commit
\* together or not at all.
RecordManifest(s, db, at) ==
  /\ agent[s] = "submitting"
  /\ db \subseteq held[s]
  /\ \A c \in held[s] : ~RowLocked(c)
  /\ agent' = [agent EXCEPT ![s] = "done"]
  /\ IF Completes(s)
     THEN /\ status' = [status EXCEPT ![s] = "completed"]
          /\ finishedAt' = [finishedAt EXCEPT ![s] = now]
          /\ manFiles' = [manFiles EXCEPT ![s] = held[s] \ db]
          /\ manDb' = [manDb EXCEPT ![s] = db]
          /\ chunkRows' = chunkRows \cup held[s]
          /\ chunkCreated' = [c \in Chunks |->
               IF c \in held[s] \ chunkRows THEN at ELSE chunkCreated[c]]
          /\ Touch(held[s], at)
     ELSE UNCHANGED <<status, finishedAt, manFiles, manDb, chunkVars>>
  /\ held' = [held EXCEPT ![s] = {}]
  /\ UNCHANGED <<now, siteOf, createdAt, incremental, chainOf, baseOf, parentOf, genOf, locked,
                 objects, jobParent, puts, plan, gcVars, restore>>

-----------------------------------------------------------------------------
(* Operator requests and restores. *)

SetSnapshotLocked(s, on) ==
  /\ "lock" \in Requests
  /\ status[s] \in Terminal /\ locked[s] # on
  /\ locked' = [locked EXCEPT ![s] = on]
  /\ UNCHANGED <<now, status, siteOf, createdAt, finishedAt, incremental, chainOf, baseOf,
                 parentOf, genOf, manFiles, manDb, chunkVars, objects, agentVars,
                 plan, gcVars, restore>>

\* PlanRestore's integrity gate: a full base restores from its own manifest;
\* otherwise the chain's rows up to the target must be exactly one per
\* generation, all completed.
RestorePlanned(s) ==
  \/ genOf[s] = 0 /\ ~incremental[s]
  \/ LET rows == ChainRows(chainOf[s], genOf[s]) IN
       /\ Cardinality(rows) = genOf[s] + 1
       /\ \A g \in 0..genOf[s] : \E t \in rows : genOf[t] = g
       /\ \A t \in rows : status[t] = "completed"

\* CreateRestore queues a run for a completed snapshot.
CreateRestore(s) ==
  /\ "restore" \in Requests
  /\ status[s] = "completed" /\ restore[s] = "none"
  /\ Cardinality({t \in Snaps : restore[t] # "none"}) < MaxRestores
  /\ restore' = [restore EXCEPT ![s] = "queued"]
  /\ UNCHANGED <<now, rowVars, chunkVars, objects, agentVars, plan, gcVars>>

\* RestoreWorker.Work plans the run: the integrity gate, then the dedup
\* oracle, which touches every chunk it finds; one that is missing, or a
\* refusal, fails the run.
PlanRestore(s, at) ==
  LET need == Reachable(s, genOf[s]) IN
  /\ restore[s] = "queued"
  /\ \A c \in need : ~RowLocked(c)
  /\ IF Exists(s) /\ RestorePlanned(s)
     THEN /\ Touch(need \cap chunkRows, at)
          /\ restore' = [restore EXCEPT ![s] = IF need \subseteq chunkRows THEN "running" ELSE "none"]
     ELSE /\ restore' = [restore EXCEPT ![s] = "none"]
          /\ UNCHANGED chunkRef
  /\ UNCHANGED <<now, rowVars, chunkRows, chunkCreated, objects, agentVars, plan, gcVars>>

\* The agent reports the end of the restore, or the watchdog ends it.
EndRestore(s) ==
  /\ restore[s] # "none"
  /\ restore' = [restore EXCEPT ![s] = "none"]
  /\ UNCHANGED <<now, rowVars, chunkVars, objects, agentVars, plan, gcVars>>

\* evaluateDeleteGuards lets the snapshot go.
MayDelete(s) ==
  /\ status[s] \in Terminal /\ ~locked[s]
  /\ ~\E t \in Snaps : restore[t] # "none" /\ chainOf[t] = chainOf[s] /\ Exists(t)
  /\ ~\E t \in Snaps : Exists(t) /\ chainOf[t] = chainOf[s] /\ parentOf[t] = s

\* DeleteSnapshotForUser reads the snapshot and its guards ...
DeleteRequest(w, s) ==
  /\ "delete" \in Requests
  /\ proc[w].pc = "idle" /\ MayDelete(s)
  /\ proc' = [proc EXCEPT ![w].pc = "delete", ![w].snap = s]
  /\ UNCHANGED <<now, rowVars, chunkVars, objects, agentVars, plan, gcLock, aborts, restore>>

\* ... deletes the row in a transaction of its own, then runs the GC.
DeleteForUser(w) ==
  /\ proc[w].pc = "delete"
  /\ DeleteSnapshot(proc[w].snap)
  /\ proc' = [proc EXCEPT ![w] = [Idle EXCEPT !.pc = "list"]]
  /\ UNCHANGED <<now, chunkVars, objects, agentVars, plan, gcLock, aborts, restore>>
-----------------------------------------------------------------------------
(* RunRetentionGC, one action per transaction or object-store call. *)

\* archiveIDs: the newest snapshot of each of the newest ArchiveKeep months.
NewestOfMonth(st) ==
  {s \in Completed(st) :
     \A t \in NewerThan(s, Completed(st)) :
       createdAt[t] \div MonthLength # createdAt[s] \div MonthLength}

archiveIDs(st) ==
  {s \in NewestOfMonth(st) : Cardinality(NewerThan(s, NewestOfMonth(st))) < ArchiveKeep}

\* gatherExpiredForSite: too old, or beyond the newest KeepLast of a schedule.
gatherExpiredForSite(st, at) ==
  LET candidates == Completed(st) \ archiveIDs(st) IN
  {s \in candidates :
     \/ createdAt[s] <= at - RetentionAge
     \/ Scheduled /\ Cardinality(NewerThan(s, candidates)) >= KeepLast}

\* What a pass that began at `at' will prune: neither fresh nor locked.
Expired(st, at) ==
  {s \in gatherExpiredForSite(st, at) : createdAt[s] <= at - Horizon /\ ~locked[s]}

\* A pass begins, alone or after a delete: ListSiteIDsWithSnapshots, and the
\* instant its cutoffs count from.
GCListSites(w) ==
  /\ proc[w].pc \in {"idle", "list"}
  /\ proc' = [proc EXCEPT ![w].pc = "select",
                          ![w].started = now,
                          ![w].sites = {siteOf[s] : s \in {t \in Snaps : Exists(t)}}]
  /\ UNCHANGED <<now, rowVars, chunkVars, objects, agentVars, plan, gcLock, aborts, restore>>

\* Phase 0 for one site: the expired snapshots, and per chain the highest
\* generation kept.  (The archived column is written for display only.)
GCSelect(w, st) ==
  LET gone == Expired(st, proc[w].started)
      kept == Completed(st) \ gone
      top(ch) == {proc[w].chainMax[ch]} \cup {genOf[s] : s \in {t \in kept : chainOf[t] = ch}} IN
  /\ proc[w].pc = "select" /\ st \in proc[w].sites
  /\ proc' = [proc EXCEPT
       ![w].sites = @ \ {st},
       ![w].expired = @ \cup gone,
       ![w].chainMax = [ch \in Snaps |-> CHOOSE g \in top(ch) : \A h \in top(ch) : h <= g]]
  /\ UNCHANGED <<now, rowVars, chunkVars, objects, agentVars, plan, gcLock, aborts, restore>>

\* Phase 1: markStart is the database clock ...
GCClock(w) ==
  /\ proc[w].pc = "select" /\ proc[w].sites = {}
  /\ proc' = [proc EXCEPT ![w].pc = "floor", ![w].floor = now, ![w].started = 0]
  /\ UNCHANGED <<now, rowVars, chunkVars, objects, agentVars, plan, gcLock, aborts, restore>>

\* Phase 2 ends when every chain is expanded and phase 3 when every pinned
\* snapshot is marked; what is expired and not pinned is then pruned.
Settle(p) ==
  LET q == IF p.pc = "expand" /\ p.todo = {}
           THEN [p EXCEPT !.pc = "mark", !.todo = p.mark] ELSE p IN
  IF q.pc = "mark" /\ q.todo = {}
  THEN [q EXCEPT !.pc = "prune", !.todo = q.expired \ q.mark,
                 !.expired = {}, !.mark = {}, !.chainMax = Idle.chainMax]
  ELSE q

\* The least of x and the elements of S.
Least(S, x) ==
  LET below == {t \in S : t < x} IN
  IF below = {} THEN x ELSE CHOOSE t \in below : \A u \in below : t <= u

InFlightStarts == {createdAt[s] : s \in {t \in Snaps : status[t] \in InFlight}}

\* ... lowered to the oldest snapshot in flight (ListInFlightSnapshotFloor).
GCFloor(w) ==
  /\ proc[w].pc = "floor"
  /\ LET q == proc[w] IN
     proc' = [proc EXCEPT ![w] = Settle([q EXCEPT
       !.pc = "expand",
       !.floor = Least(InFlightStarts, q.floor),
       !.todo = {ch \in Snaps : q.chainMax[ch] >= 0}])]
  /\ UNCHANGED <<now, rowVars, chunkVars, objects, agentVars, plan, gcLock, aborts, restore>>

\* Mutant: only the kept tip of a chain is pinned.
GCExpandTipOnly(w, ch) ==
  /\ proc[w].pc = "expand" /\ ch \in proc[w].todo
  /\ LET q == proc[w] IN
     proc' = [proc EXCEPT ![w] = Settle([q EXCEPT
       !.todo = q.todo \ {ch},
       !.mark = q.mark \cup {s \in CompletedChain(ch, q.chainMax[ch]) :
                              genOf[s] = q.chainMax[ch]}])]
  /\ UNCHANGED <<now, rowVars, chunkVars, objects, agentVars, plan, gcLock, aborts, restore>>

\* Phase 2 for one chain: pin every completed generation up to the kept tip.
GCExpand(w, ch) ==
  /\ proc[w].pc = "expand" /\ ch \in proc[w].todo
  /\ LET q == proc[w] IN
     proc' = [proc EXCEPT ![w] = Settle([q EXCEPT
       !.todo = q.todo \ {ch},
       !.mark = q.mark \cup CompletedChain(ch, q.chainMax[ch])])]
  /\ UNCHANGED <<now, rowVars, chunkVars, objects, agentVars, plan, gcLock, aborts, restore>>

\* Phase 3 for one pinned snapshot.
GCMark(w, s) ==
  /\ proc[w].pc = "mark" /\ s \in proc[w].todo
  /\ LET q == proc[w] IN
     proc' = [proc EXCEPT ![w] = Settle([q EXCEPT
       !.todo = q.todo \ {s},
       !.live = q.live \cup Reachable(s, q.chainMax[chainOf[s]])])]
  /\ UNCHANGED <<now, rowVars, chunkVars, objects, agentVars, plan, gcLock, aborts, restore>>

\* Phase 4 for one expired snapshot that is not pinned.
GCPrune(w, s) ==
  /\ proc[w].pc = "prune" /\ s \in proc[w].todo
  /\ DeleteSnapshot(s)
  /\ proc' = [proc EXCEPT ![w].todo = @ \ {s}]
  /\ UNCHANGED <<now, chunkVars, objects, agentVars, plan, gcLock, aborts, restore>>

\* Phase 5 takes the session lock and reads the chunk rows (one page), or
\* skips the sweep when another pass of the tenant holds the lock.
SweepTenantChunks(w) ==
  /\ proc[w].pc = "prune" /\ proc[w].todo = {}
  /\ IF gcLock = NoProc
     THEN /\ gcLock' = w
          /\ proc' = [proc EXCEPT ![w].pc = "sweep", ![w].page = chunkRows]
     ELSE /\ proc' = [proc EXCEPT ![w] = Idle]
          /\ UNCHANGED gcLock
  /\ UNCHANGED <<now, rowVars, chunkVars, objects, agentVars, plan, aborts, restore>>

\* Mutant: the sweep looks at created_at alone.
BoundaryCreatedOnly(c) == chunkCreated[c]

\* GREATEST(created_at, last_referenced_at).
Boundary(c) == Later(chunkCreated[c], chunkRef[c])

\* chunkStillReferencedOnTx: some manifest lists the chunk.
StillReferenced(c) == \E s \in Snaps : c \in Manifest(s)

\* Mutant: the sweep trusts its live set and skips the grace floor.
SweepableAnyAge(w, c) == c \in chunkRows /\ c \notin proc[w].live /\ ~StillReferenced(c)

\* sweepOneChunk under the row lock: old enough, not marked, not referenced.
Sweepable(w, c) ==
  /\ c \in chunkRows
  /\ Boundary(c) < proc[w].floor
  /\ c \notin proc[w].live
  /\ ~StillReferenced(c)

\* The object goes first, while the row is held.
SweepObject(w, c) ==
  /\ proc[w].pc = "sweep" /\ c \in proc[w].page /\ ~RowLocked(c)
  /\ proc' = [proc EXCEPT ![w].page = @ \ {c},
                          ![w].pc  = IF Sweepable(w, c) THEN "row" ELSE @,
                          ![w].cur = IF Sweepable(w, c) THEN c ELSE @]
  /\ objects' = IF Sweepable(w, c) THEN objects \ {c} ELSE objects
  /\ UNCHANGED <<now, rowVars, chunkVars, agentVars, plan, gcLock, aborts, restore>>

\* The row goes second, and the commit releases it.
SweepRow(w) ==
  /\ proc[w].pc = "row"
  /\ chunkRows' = chunkRows \ {proc[w].cur}
  /\ chunkCreated' = [chunkCreated EXCEPT ![proc[w].cur] = 0]
  /\ chunkRef' = [chunkRef EXCEPT ![proc[w].cur] = 0]
  /\ proc' = [proc EXCEPT ![w].pc = "sweep", ![w].cur = NoChunk]
  /\ UNCHANGED <<now, rowVars, objects, agentVars, plan, gcLock, aborts, restore>>

SweepDone(w) ==
  /\ proc[w].pc = "sweep" /\ proc[w].page = {}
  /\ gcLock' = NoProc
  /\ proc' = [proc EXCEPT ![w] = Idle]
  /\ UNCHANGED <<now, rowVars, chunkVars, objects, agentVars, plan, aborts, restore>>

\* Mutant: the session lock stays with the pooled connection.
GCAbortKeepsLock(w) ==
  /\ proc[w].pc # "idle" /\ aborts < MaxAborts
  /\ proc[w].pc = "row" => SweepCrash
  /\ aborts' = aborts + 1
  /\ proc' = [proc EXCEPT ![w] = Idle]
  /\ UNCHANGED <<now, rowVars, chunkVars, objects, agentVars, plan, gcLock, restore>>

\* A query, an object delete or the process fails: the open transaction rolls
\* back and the session lock is released.
GCAbort(w) ==
  /\ proc[w].pc # "idle" /\ aborts < MaxAborts
  /\ proc[w].pc = "row" => SweepCrash
  /\ aborts' = aborts + 1
  /\ proc' = [proc EXCEPT ![w] = Idle]
  /\ gcLock' = IF gcLock = w THEN NoProc ELSE gcLock
  /\ UNCHANGED <<now, rowVars, chunkVars, objects, agentVars, plan, restore>>

-----------------------------------------------------------------------------

Tick ==
  /\ now < MaxTime
  /\ now' = now + 1
  /\ UNCHANGED <<rowVars, chunkVars, objects, agentVars, plan, gcVars, restore>>

CreateStep ==
  \E o \in Operators :
    \/ \E st \in Sites, inc \in Modes : CreateBackup(o, st, inc)
    \/ \E s \in Snaps : CreateSnapshot(o, s)
    \/ CreateRefused(o)

BackupStep ==
  \E s \in Snaps :
    \/ MarkRunning(s) \/ FailSnapshot(s) \/ DispatchBroken(s)
    \/ \E at \in TxnStart(s) : Dispatch(s, at)
    \/ \E c \in Chunks : \E at \in TxnStart(s) : PresignChunks(s, c, at)
    \/ \E c \in Chunks : UploadChunk(s, c)
    \/ SubmitManifest(s)
    \/ \E db \in SUBSET Chunks : \E at \in TxnStart(s) : RecordManifest(s, db, at)

OperatorStep ==
  \E s \in Snaps :
    \/ \E on \in BOOLEAN : SetSnapshotLocked(s, on)
    \/ CreateRestore(s) \/ EndRestore(s)
    \/ \E at \in TxnStart(s) : PlanRestore(s, at)
    \/ \E w \in Procs : DeleteRequest(w, s)

\* One step of a GC pass, or of a delete request once its guards passed.
ProcStep(w) ==
  \/ DeleteForUser(w)
  \/ GCListSites(w) \/ (\E st \in Sites : GCSelect(w, st)) \/ GCClock(w) \/ GCFloor(w)
  \/ (\E s \in Snaps : GCExpand(w, s))
  \/ (\E s \in Snaps : GCMark(w, s))
  \/ (\E s \in Snaps : GCPrune(w, s))
  \/ SweepTenantChunks(w) \/ (\E c \in Chunks : SweepObject(w, c))
  \/ SweepRow(w) \/ SweepDone(w)

Next ==
  \/ CreateStep \/ BackupStep \/ OperatorStep \/ Tick
  \/ \E w \in Procs : ProcStep(w) \/ GCAbort(w)

Spec == Init /\ [][Next]_vars

\* The periodic worker keeps running passes, and no backup stays in flight for
\* ever: its job is claimed, and the watchdog fails a run that stalls.
Fairness ==
  /\ \A w \in Procs : WF_vars(ProcStep(w))
  /\ \A s \in Snaps : 
       /\ WF_vars(MarkRunning(s))
       /\ WF_vars(status[s] = "running" /\ FailSnapshot(s))

FairSpec == Spec /\ Fairness

-----------------------------------------------------------------------------
(* Properties. *)

SnapIds == Snaps \cup {NoSnap}
Times   == 0..MaxTime
Depths  == 0..MaxChainDepth

RowsTyped ==
  /\ status \in [Snaps -> Statuses]
  /\ siteOf \in [Snaps -> Sites \cup {NoSite}]
  /\ createdAt \in [Snaps -> Times] /\ finishedAt \in [Snaps -> Times]
  /\ incremental \in [Snaps -> BOOLEAN] /\ locked \in [Snaps -> BOOLEAN]
  /\ chainOf \in [Snaps -> SnapIds]
  /\ baseOf \in [Snaps -> SnapIds] /\ parentOf \in [Snaps -> SnapIds]
  /\ genOf \in [Snaps -> Depths]
  /\ manFiles \in [Snaps -> SUBSET Chunks] /\ manDb \in [Snaps -> SUBSET Chunks]

ChunksTyped ==
  /\ chunkRows \subseteq Chunks
  /\ chunkCreated \in [Chunks -> Times] /\ chunkRef \in [Chunks -> Times]

AgentsTyped ==
  /\ agent \in [Snaps -> {"idle", "running", "submitting", "done"}]
  /\ jobParent \in [Snaps -> SnapIds]
  /\ puts \in [Snaps -> SUBSET Chunks] /\ held \in [Snaps -> SUBSET Chunks]

Plans == [pc : {"idle", "insert"}, site : Sites \cup {NoSite}, inc : BOOLEAN,
          parent : SnapIds, base : SnapIds, chain : SnapIds, gen : Depths]

Passes ==
  [pc : PassSteps, snap : SnapIds, sites : SUBSET (Sites \cup {NoSite}), started : Times,
   expired : SUBSET Snaps, chainMax : [Snaps -> Depths \cup {-1}], floor : Times,
   todo : SUBSET Snaps, mark : SUBSET Snaps, live : SUBSET Chunks,
   page : SUBSET Chunks, cur : Chunks \cup {NoChunk}]

PassesTyped ==
  /\ proc \in [Procs -> Passes]
  /\ gcLock \in Procs \cup {NoProc}
  /\ aborts \in 0..MaxAborts

\* Types of the state: rows, chunks, agents, requests and passes.
TypeOK ==
  /\ now \in Times
  /\ RowsTyped /\ ChunksTyped /\ AgentsTyped /\ PassesTyped
  /\ objects \subseteq Chunks
  /\ plan \in [Operators -> Plans]
  /\ restore \in [Snaps -> {"none", "queued", "running"}]

\* A snapshot that is not completed has no manifest, and one whose manifest
\* was recorded has every chunk of it as a row and as an object: a restore of
\* a completed snapshot never meets a missing chunk (GC and dedup races).
ChunksOfCompletedStored ==
  \A s \in Snaps :
    /\ Manifest(s) # {} => status[s] = "completed"
    /\ Manifest(s) \subseteq chunkRows \cap objects

\* What a backup that is still running relies on: it was told that the chunk
\* is stored, or it has uploaded it, and will not upload it again.
Needed(s) == IF status[s] \in InFlight THEN held[s] ELSE {}

\* The sweep takes no object of a recorded manifest, and one that a backup in
\* flight relies on only if some transaction has set the chunk's time back to
\* before that backup's start, by no more than a transaction takes: what the
\* floor of sweepOneChunk and the dedup touch achieve although a touch carries
\* the instant its transaction began.
SweepSparesWithin ==
  [][\A c \in objects \ objects' : \A s \in Snaps :
       /\ c \notin Manifest(s)
       /\ c \in Needed(s) =>
            LET touched == Later(chunkCreated[c], chunkRef[c]) IN
            touched < createdAt[s] /\ createdAt[s] <= touched + TxSpan]_vars

\* What a recorded manifest lists keeps its row, and its object if it is there,
\* for as long as the manifest exists: no pass, upload, abort or stop between
\* the two deletes of a chunk takes it away.
RecordedChunksStay ==
  [][\A s \in Snaps : \A c \in Manifest(s) \cap Manifest(s)' :
       c \in chunkRows' /\ (c \in objects => c \in objects')]_vars

\* The two ways a completed backup comes to miss a chunk.  A step sets the time
\* of a chunk back to before the start of a backup that relies on it; ...
Backdates ==
  \E s \in Snaps : status[s] \in InFlight /\ \E c \in (puts[s] \cup held[s]) \cap chunkRows' :
    /\ c \in chunkRows => Boundary(c)' # Boundary(c)
    /\ Boundary(c)' < createdAt[s]

\* ... or a pass stops between the two deletes of a chunk.
StopsMidSweep == \E w \in Procs : proc[w].pc = "row" /\ proc'[w].pc = "idle"

\* What a pass goes on to prune lies above every generation of its chain that
\* the pass decided to keep, whatever completes, is locked, deleted or pruned by
\* another pass between its selection and then: a snapshot the pass keeps never
\* loses a generation it restores from to that pass.
PrunesAboveKept ==
  [][\A w \in Procs : proc[w].pc \in {"floor", "expand", "mark"} /\ proc'[w].pc = "prune" =>
       \A u \in proc'[w].todo :
         status[u] = "completed" => proc[w].chainMax[chainOf[u]] < genOf[u]]_vars

\* Every generation of the snapshot's chain up to it is there and completed.
WholeChain(s) ==
  \A g \in 0..genOf[s] : \E t \in CompletedChain(chainOf[s], g) : genOf[t] = g

\* A completed snapshot that the retention policy keeps has the whole chain
\* below it: planRestoreChain's integrity gate needs it, and the GC pins it
\* even where its own generations are past their age.
RetainedChainsWhole ==
  \A st \in Sites : \A s \in Completed(st) \ Expired(st, now) : WholeChain(s)

\* A finished snapshot never runs again: its status changes only when its row
\* is deleted, and its manifest, finish time and place in the chain stay.
TerminalIsFinal ==
  [][\A s \in Snaps : status[s] \in Terminal =>
       \/ status'[s] = "gone"
       \/ /\ status'[s] = status[s] /\ finishedAt'[s] = finishedAt[s]
          /\ manFiles'[s] = manFiles[s] /\ manDb'[s] = manDb[s]
          /\ chainOf'[s] = chainOf[s] /\ genOf'[s] = genOf[s]]_vars

\* A chunk no manifest lists, last touched in the past, is garbage; it does
\* not stay garbage for ever.
Garbage(c) == c \in chunkRows /\ ~StillReferenced(c) /\ Boundary(c) < now

GarbageIsSwept == \A c \in Chunks : Garbage(c) ~> ~Garbage(c)

=============================================================================

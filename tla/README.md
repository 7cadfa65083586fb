# Verification of wpmgr

wpmgr manages fleets of WordPress sites. A Go control plane (`src/apps/api`) keeps a
Postgres database of sites, backups, updates and requests; a PHP agent
(`src/apps/agent`) runs inside every managed site, signs what it sends with its own key,
and obeys signed commands. Background work runs as River jobs on the same database. This
directory holds TLA+ models of the parts where that combination is hard to get right,
the TLC runs that check them on small instances, and TLAPS proofs for every instance.

## The system and its parts

| part | state | operations | interacts with |
|---|---|---|---|
| site connection lifecycle (`internal/site`) | `sites` rows (connection_state, connection_generation, agent_public_key, last_seen_at, missed_heartbeats, archived_at), `site_connection_history`, `pairing_codes` | mint code, enroll, heartbeat, metadata push, last will, recheck, revoke, archive, restore, re-enroll, cancel, delete, timeout sweep | agents, billing cap, event bus |
| agent identity (`class-lifecycle.php`, `class-admin.php`) | key pair, site id | enroll, beat, obey a revoke instruction, disconnect, re-enroll | control plane over HTTP |
| backups (`internal/backup`) | snapshots, chains, manifests, chunks, chunk objects | create, submit manifest, complete, fail, delete, retention GC, chunk sweep, reclaim, restore plan | agent task runner, blob store |
| update runs (`internal/update`) | `update_runs`, `update_tasks`, River jobs | create now or later, dispatch, expire, cancel, claim, gate, apply, defer, complete, sweep for due runs, reap stale tasks | agents, River |
| agent self-update (`internal/update/agent_*.go`) | the same rows, wave numbers, halt reason, kill switch | plan waves, claim under the gate, arm, poll, judge, next wave, halt, reap | agents, releases |
| site event bus (`site/events`) | `site_events`, NOTIFY channel, subscribers, a stream's cursor | publish, notify, load, fan out, subscribe, replay, evict, prune | dashboard |
| ability requests (`internal/abilityrequest`, `class-ability-run-command.php`) | request rows, the agent's ledger rows and claims, the WordPress post | propose, decide, reserve, send, write, record, resolve from the ledger, undo, recover, reconcile | agents, MCP |
| uptime (`internal/uptime`), monitoring pause (`site/monitoring*.go`) | probe results, alert state, pause windows | probe, alert, recover, pause, resume | notifications |
| agent backup task and watchdog, restore runner | task state on the site | step, resume, abort, swap, health check, roll back | backups |
| autologin, audit, billing, email, media, scans, operator accounts, organisations, MCP, dashboard | see `PROJECT.json` | | |

What is hard in it: handlers that read in one transaction and act in another
(heartbeats, code minting, sweeps, reapers, ledger reads), concurrent sweeps and
requests on one row, agents whose answers get lost or who hold a key the control plane
no longer expects, jobs that die half-way, are run again or run twice, claims that are
taken over after a timeout, and a tenant-wide chunk store that several backups share
while a collector deletes from it.

What makes each part correct:

- lifecycle: only legal moves; a live site has an agent; a code enrolls once; the cap
  holds; silent sites are noticed; a beating site recovers; a revoke arrives.
- backups: a completed backup can always be restored; dead chunks go eventually.
- update runs: a row that reads running is never taken from a worker still at it, two
  tasks never update one component at once, an outcome is never replaced, a run that is
  over owes nothing, every task settles and every due run fires.
- agent rollout: no site is contacted before the earlier waves passed their gate; a halt
  is final; what a halt cancelled was never sent; every task ends.
- event bus: a browser sees events once and in order, with no gap other than the ones
  the code knowingly accepts.
- ability requests: a site runs one write at a time; what is recorded of a write is true
  of the site; the first outcome stands; every request comes to an end.
- uptime: one alert per outage, and a recovery for every alert.
- restore: the site is served from the old or the new tree, never from a mixture.

The parts meet at few places. The lifecycle asks the billing cap, backups, updates and
abilities share only the site row and its agent, and each serialises its own work on a
site: the backup's unique index, the update's site gate, the ability's dispatch lock. No
module composes two of them, because no action of one reads what another writes, apart
from the site being reachable, which every module takes as nondeterministic. Inside a
part the actors are composed in one module: control plane, agent, River, database clock
and, for the event bus, the browser.

## Modules

| module | models | lines | kind |
|---|---|---|---|
| `SiteConnection` | lifecycle, the agent's identity, the billing cap where the lifecycle asks it | 654 | component |
| `BackupRetention` | snapshot rows and chains, chunk rows and objects, the backup run, restore planning, delete, the retention GC | 793 | component |
| `UpdateRun` | update runs and tasks, dispatcher, dispatch sweeper, task worker, reaper | 486 | component |
| `UpdateLedger` | what update runs promise their callers | 54 | abstract specification |
| `AgentRollout` | waves of an agent release | 313 | component |
| `SiteEvents` | journal, notification, listener, hub, stream, browser | 252 | component |
| `AbilityRequest` | request rows, dispatch job, reconcilers, undo, the agent's write and revert | 626 | component |
| `MC...` (eight) | model values, functions, symmetry, scenes; `MCBackupDedup` adds a record of what the dedup oracle answered | 171 | TLC instances |
| `...Proofs` (seven) | inductive invariants and theorems of the modules above; `BackupRetention` has two, `BackupRetentionProofs` and, about chains, `BackupChainProofs` | 8246 | proofs |

`PROJECT.json` maps every definition to the lines it models. A definition listed under
`mutants` there is a plausible bug in the definition that follows it; no action of the
specifications uses one.

An action is one database transaction, one read whose answer is used later, one message,
or one step of an agent. What a handler carries from one transaction to the next is a
variable of its own, so that everything else can happen in between. Clocks are ages in
ticks, kept up to the longest threshold they are compared with.

### SiteConnection

`Transition` in the code locks the row, checks the table of legal moves and writes; in
the model that is `MayTransition` with `MarkSite` or `MarkSiteConnected`.

- `RecordHeartbeat` touches the row and reads its state; `RecoverConnection` is the
  second transaction, taken on the state read by the first; `HandleInstructions` is the
  agent acting on the answer. `DropRequest` loses the request or its answer.
- `CreatePending` and `MintSiteBoundCode` are the two halves of minting a code.
- a sweep lists, dials (active verify) or does not, disconnects, lists again, counts
  misses, dials and degrades; a transition that is refused ends the sweep, and
  `SweepCrash` ends it anywhere.

`age` is the ticks since `last_seen_at`. `enrolledGens` stands for the enrolled rows of
`site_connection_history`. Signatures are taken as sound: `Authenticate` finds the site
whose row holds the key. Abstracted away: names, tags, URLs beyond "one row per URL",
client ids, and the event that follows each transition.

### BackupRetention

One tenant, its sites, its snapshots and one content-addressed store (the control
plane's own). Each of these is a step: the reads of `CreateBackup`, the insert with its
unique index and foreign keys, the claim by the worker, the hand-off to the agent with
the parent's files-list touched, `PresignChunks` for one hash, the agent's upload, the
two halves of `SubmitManifest`, a failure from any source, lock, restore planning, the
guards of a delete and the delete, and the GC from the listing of sites to the sweep of
one chunk as object delete and row delete. `proc` holds what a pass has read so far;
locals that the code never reads again are reset, which only merges equal states.

The details the properties turn on are kept: which lists are read in which transaction,
`GREATEST(created_at, last_referenced_at)` against the floor, the row lock that makes
writers of a chunk row wait for its sweep, the session lock that only covers the sweep,
`ON DELETE SET NULL` on parent and base, the chain rules (`ChainAfter`), the restore
planner's count of rows of every status, the union of age and count in the retention
policy, monthly archives.

Abstractions: sizes, keys, encryption and paging (one page) are left out; a manifest is
two sets of hashes, `manFiles` and `manDb`; a snapshot's `created_at` is the commit of
its insert, at an instant of its own; the application's clock and the database's are one
clock; the `archived` column is written for display only and is not kept; job retries of
the worker are `MarkRunning` refusing a row that is no longer pending. A created
snapshot has its job: the code enqueues it after the insert, and a failure of that
enqueue (`service.go:3565`) is not modelled.

### UpdateRun and UpdateLedger

A task is for one target, a component of one site. `CreateRun` inserts a run's tasks at
once, dropping those whose target the in-flight unique index holds; a run for later
keeps its tasks `scheduled` until its dispatch job moves them to `pending` or skips
them, under the same index, or the run expires or is cancelled. The dispatch sweeper
gives a due run whose job was lost a new one.

Behind a task stands a River job. `at[j]` is where its `Work` stands: it reads the task,
asks the tenant's limit and the site gate (a read that fails ends or refuses the task as
in the code, a count that fails lets the job through, the agent's own upgrade is
refused), claims the row (a pending row, or a running one no younger than `ClaimStale`),
marks the run running, applies, records the outcome, counts the run's open tasks and
completes the run, each in its own transaction. A job may defer itself, die anywhere, be
lost, or exist twice. `took` is its age against the job timeout, `age` the time since
the row was last written; `overdue` is the limit on waiting for a busy site. The reaper
lists stale tasks in one transaction, fails them in another and completes their runs in
a third; the dispatch sweeper takes a session lock, scans, fires and gives the lock
back, or is cancelled between.

`MaxFaults` bounds crashes, lost jobs and cancelled passes together. `TimingAssumption`
is what `ValidateClaimTimings` demands at start-up; the process does not run otherwise.
Left out: the inventory refresh after a task, and the live progress hub, which keep no
state of the run. Retrying a finished run reads it and creates a new one, which is
`CreateRun`.

`UpdateLedger` knows only the statuses of runs and tasks: a run is opened with its
tasks, fires or is withdrawn as a whole, each open task gets one outcome, and no target
ever has two tasks in flight. `UpdateRun` instantiates it with its own `run` and `task`,
all else hidden; `ImplementsLedger` is model-checked and proved.

### AgentRollout

One release rolled out over `N` sites: a canary, a pilot, and the rest (`PlanWaves`). A
run that starts at once has jobs for its first wave only. A scheduled one is dispatched
by `DispatchDueRun`, which knows nothing of waves and enqueues a job for every task at
once: then jobs of later waves are about from the start, and what keeps them back is the
claim alone. A worker claims its task under the run's lock after asking whether every
earlier wave passed (`GateHeld` is about this), sends the site the release, records that
it is armed, and polls until the site reports the version, an error or nothing in time.
Every worker with an outcome then judges the waves under the lock: a wave that has just
opened gets its jobs, once the lock is gone, or the run halts and its unclaimed tasks
are cancelled. The kill switch and a withdrawn release halt it too, and the reaper ends
tasks whose worker is gone. Jobs may be duplicated, delayed or lost and processes may
die, `MaxFaults` times.

What a site answers is nondeterministic; whose update an applied version is credited to
is part of that answer. A `Reap` judges no gate, as in the code.

### SiteEvents

A publisher mints a sortable id before its transaction commits, so events commit in any
order of ids; NOTIFY follows the order of commits. The listener takes one notification,
loads the row (which may fail, or the row may have been pruned) and sends to the
subscribers, never waiting: a full channel loses the event. The stream of one browser
tab subscribes first, then queries the rows after its cursor up to a limit (`Query`),
writes them (`Replay`), then forwards from the channel what is newer than its cursor.
The tab may go away and come back with the id it last got; the connection to Postgres
may drop and lose notifications. Bytes on the wire may be cut at any place (`Arrived`):
the tab keeps a prefix, and the next stream starts from there.

Two history variables say what the code gives up: `owed` are the events committed since
the tab began to watch, `lost` the ones knowingly let go, because the channel was full,
the load failed, the listener was down, the replay failed or was cut, the row was
pruned, or a newer id had been shown already. `NoGap` says that nothing is missing
beyond `lost`: it is the argument for subscribing before replaying, and it fails when
the order is swapped.

### AbilityRequest

A change that an assistant proposes and a person approves, for the ability that creates
a draft page without a page builder, on one site. Every decision is a compare-and-set on
the row's state. One dispatch job per request, never retried, checks the site, reserves
the request under the site's dispatch lock (no other unresolved request on the site),
sends once and records what came back. A command's token is single-use and short-lived,
so it is delivered at most once and only for `TokenTTL` ticks.

The agent claims the request, writes its ledger row before any effect, inserts the post,
notes it, verifies it, and on failure trashes its own draft and says whether that
worked; each is one statement, PHP may die between any two, and its claims then stay
until `ClaimLapse`. A lost answer is resolved from that ledger: a pass reads the row,
then the claim, in that order and as two steps, as `ledger()` does; what it concludes
depends on how long the outcome has been unknown (`LedgerVerdict`). Passes may overlap,
since the periodic jobs are not unique. A person may undo a created draft, or a draft
that a failed write left behind; the revert rechecks the post and only trashes an
unchanged draft. A revert reads its ledger row first and fails only at the claim, when
another one holds it. A stuck undo is settled from the ledger by a second reconciler.
Reverts whose handler has given up may still arrive; they count as one, since none of
them has anybody to answer.

`TimingAssumption` is the relation of the code's constants (the token's lifetime, the
times after which a row is settled, stale or stuck, the window) and of `RunMax`, which
is not one of them: it bounds how long PHP lets a command run on the site. A command is
over before anything is concluded from the ledger having no trace of it.
`MCAbilityRequest` runs three scenarios, because after its outcome a request touches no
other: two requests that nobody undoes, one request under overlapping passes, and one
request undone again and again. Not modelled: the rest-write and page-edit abilities,
builder pages, and the rules by which a site's setting approves without a person.

## Runs

| run | instance | states | checks |
|---|---|---|---|
| `site_two` | 2 sites under a cap of 1, 1 key, 2 codes, passive sweep | 1 477 244 | `SiteCapHolds`, `OneEnrollmentPerGeneration` |
| `site_swept` | 1 site, thresholds 0 and 2, 2 misses to degrade, no re-enrollment, sweep fairness only | 24 146 | `SilentSiteIsNoticed` |
| `site_beating` | 1 site, active verify, agent fairness only | 53 594 | `TypeOK`, `LiveSiteHasAgent`, `LegalMovesOnly`, `RevokeReachesAgent`, `BeatingSiteRecovers` |
| `backup_scenes` | chains: 1 site, 3 snapshots, depth limit 1, one archive a month; sharing: 2 sites, 2 full backups of a chunk, 2 overlapping passes or delete requests; crashes: the same with one pass that may stop anywhere; chunk transactions up to one tick long in all | 1 458 511 | `TypeOK`, `RetainedChainsWhole`, `SharedChunksStored`, `SweepSparesWithin`, `RecordedChunksStay` |
| `backup_requests` | 1 site, 2 racing incremental backups, lock, delete, restore, a GC pass that may stop | 236 292 | `ChunksOfCompletedStored`, `TerminalIsFinal`, `GarbageIsSwept`, `PrunesAboveKept` |
| `backup_dedup` | 2 sites, 3 full backups of a chunk, one pass, chunk transactions one tick long | | violates `ReportedChunksSpared` |
| `backup_crash` | 1 site, 2 backups, a pass may stop between object and row delete | | violates `ChunksOfCompletedStored` |
| `update` | site: a run of 2 tasks on one site, one job each; later: a run for later whose task has two jobs, and a run created now for the same target; one fault | 433 445 | `TypeOK`, `ClosedRunOwesNothing`, `ReclaimSparesLive`, `ImplementsLedger`, `DueRunsFire`, `TasksSettle` |
| `update_deferred` | a run of 2 tasks on one site, two jobs for one of them, no fault | | violates `OneWorkerPerTask` |
| `rollout_waves` | 4 sites in waves of 1, 2 and 1; a run that starts at once, or a scheduled one with the jobs of every wave queued; one fault | 520 432 | `TypeOK`, `GateHeld`, `CancelledUntouched`, `CompletedIsOver`, `HaltIsFinal`, `TasksEnd` |
| `events_stream` | 4 events, 3 of them allowed, channel of 1, replay of 2 | 814 802 | `TypeOK`, `InOrderOnce`, `NoGap`, `NotifyDrains` |
| `ability_requests` | the three scenarios, 2 requests, 2 passes | 155 868 | `TypeOK`, `NothingWritten`, `OneWriteOnSite`, `DraftsGone`, `OutcomeStands`, `RequestsSettle` |

Each property is explained by the comment above its definition.

Why these bounds reach the interesting cases.

- Sites: with one site all writers meet on one row; the cap of one makes the second site
  meet it in every way out of `archived`; two codes can both be live for one pending
  site.
- Backups: one chunk is the worst case for sharing, since every backup and every sweep
  is about it; two snapshots give a reference that ends (pruned, failed or deleted) and
  one that begins. A behaviour of `backup_scenes` stays in the scene it began in
  (`MCBackupScenes`). The third snapshot of "chains" starts a new chain beside an old
  one. "sharing" leaves out two kinds of step, `Backdates` and `StopsMidSweep`: they are
  the ones by which a completed backup can miss a chunk, `backup_dedup` and
  `backup_crash` show them happening, and "crashes" has both of them. There an
  operator's delete ends the first reference, since with one archived month the newest
  snapshot of a site never expires. `RetainedChainsWhole` is checked in all three
  scenes, with one archived month; which steps would break it is proved, see
  `BackupChainProofs`. The clock runs to 2 or 4 with ages and windows of 1 to 3, so that
  every comparison is met on both sides and at equality.
- Updates: two tasks of one run race for the site gate and for completing the run; two
  runs with one target race for the unique index; two jobs of one task race for the
  claim. The scenes "site" and "later" of `MCUpdateRun` are one run of TLC; neither
  holds back a step that fairness is about. Two jobs of one task beside a busy
  neighbour, the case the deferral gets wrong, is `update_deferred`. The timings 1, 2,
  2, 3 keep the order the code enforces and let each deadline pass before, with and
  after the next.
- Rollout: four sites are the fewest with a wave of more than one site between two
  others, which is where a gate is judged while a sibling still runs. A scheduled run
  has its later waves' jobs from the start, less the tasks that were skipped at
  dispatch; where all four jobs are there, at most two workers are busy at once, nothing
  fails and the channel stays open while the run is on (`MCAgentRollout`). A claim that
  does not ask the gate violates `GateHeld` at once.
- Events: four events overrun a channel of one and a replay of two with one left, and
  let ids commit out of order while another is replayed.
- Abilities: the timings are the smallest with the right order; a command is over before
  the next tick, and every threshold is one tick away. Larger ones (`TokenTTL = RunMax =
  1, Settled = Stuck = 3, Window = 4, StaleAfter = 2`) were run by hand for one request,
  and two overlapping passes under undo, with the same result. Requests are alike, so
  where one of two is sent first it is always the same one.

`CHECK_DEADLOCK FALSE` is said for backups and updates only: their snapshots, clock and
jobs are bounded and used up. Elsewhere deadlock is checked.

Fairness, and why the code justifies it. None is assumed for operators, for sites that
must answer, or for the absence of faults.

- `SweepFairness`: the sweep is a periodic River job that is run again when it fails, so
  a step of it that stays or keeps becoming possible is taken; time passes.
- `AgentFairness`: the agent's cron beats again after every lost beat, and a request the
  server has accepted is handled; strong fairness per step because `DropRequest` may
  intervene any finite number of times.
- `BackupRetention`: the GC worker is periodic, a pending backup is claimed by its job,
  and the stall watchdog (or the cancel) ends a running one. `GarbageIsSwept` says that
  dead chunks go, not that backups succeed.
- `UpdateRun`: a job that exists is run by River and goes on or times out; dispatch jobs
  likewise; reaper and dispatch sweeper are periodic; time passes. A lost job is lost
  for good: the tasks still settle, because of the reaper.
- `AgentRollout`: some worker with a step takes it, and the reaper is periodic. This is
  weaker than fairness per worker.
- `SiteEvents`: only the listener's loop, for `NotifyDrains`: a slow or absent browser
  never holds it up.
- `AbilityRequest`: jobs, sweeps, handlers and a running PHP command take their next
  step, and a pass reads and concludes; strong fairness for time, which is held back
  while a command runs. No command need be delivered and no site need answer.

## Where the code and its comments part

Three runs expect a violation and are findings.

- `backup_crash`: the process stops between object delete and row delete; before the
  next sweep a backup is told that the chunk is stored, and its manifest then keeps the
  dangling row for good, while `gc.go:319` says that the next sweep heals it.
- `backup_dedup`: the dedup oracle touches the chunks it reports as stored, and the
  comment at `repo.go:1047` concludes that no sweep can delete them while the asking
  backup is in flight. A touch carries `now()`, the start of its transaction: one that
  began before the second backup and commits after that backup's own touch sets the time
  back to before its start (`repo.go:1055`). Once the first backup ends, the floor rises
  and the sweep takes the chunk. How far back is bounded by the length of a transaction,
  which is what `SweepSparesWithin` says and `SweepSpares` proves.
- `update_deferred`: the claim makes "I am the one worker talking to this site about
  this item" true (`updates.sql:131`). With two jobs of one task and a busy neighbour,
  the second job is turned away at the site gate, and its deferral puts back to pending
  the row that the first is applying (`worker.go:337`, `updates.sql:348`); it is then
  claimed again. That is the only hole: a row that reads running is never taken from a
  live worker (`ReclaimSparesLive`, proved).

The others of this family are described here and not kept as runs. Those of the modelled
parts can be seen by changing a configuration or adding the property.

Lifecycle

- a heartbeat reads `degraded` or `disconnected`, the operator re-enrolls the site, and
  the recovery connects a pending site without a code; the code just minted can no
  longer be redeemed (`connection_service.go:304`);
- `archived` to `disconnected` is legal for a last will or a late sweep as well as for
  Restore (`connection.go:59`), and a sweep acting on its list can take a site that has
  just recovered from connected to disconnected (`sweeper.go:350`); both moves respect
  the cap and the table.

Backups

- the guards of a delete pass, an increment on that snapshot is created, the delete goes
  through, and the increment completes on a chain that cannot be restored
  (`service.go:2399`, against "CHAIN-SAFE" at `service.go:2258`); this is one of the two
  cases of `LateOperator` there, the other is a lock or delete after which the policy
  keeps a snapshot again whose chain is already pruned;
- of two requests for one site, one resolves its chain, the other makes a full backup,
  and the first inserts an increment on what is no longer the newest snapshot; a GC pass
  may prune that snapshot while the increment runs (`service.go:575`); its completion is
  the `LateJoin` of `BackupChainProofs`;
- an increment fails, its retry takes the same generation and completes, and the restore
  planner counts both rows and refuses the chain (`service.go:1173`);
- a snapshot locked, or chosen for a restore, after a GC pass or a delete request read
  it is deleted all the same (`backups.sql:187` has no condition);
- with `ArchiveKeep = 0` a pass can prune the parent of an increment in flight, which
  pins nothing (`gc.go:276`), and `RetainedChainsWhole` fails: a `LateJoin` again;
- outside the model: a failed enqueue leaves a pending row without a job
  (`service.go:3565`), the dedup oracle ignores the destination (`service.go:1684`), an
  upload that lands after its snapshot failed leaves an object without a row
  (`class-encrypt-and-upload.php:538`), and the retention policy is the union of two
  rules (`gc.go:448`).

Updates and rollout

- the reaper fails what it listed, without asking again whether the row is still stale
  (`update/worker.go:1551`, against the comment at `worker.go:463`);
- a crash between the last outcome and the run's status leaves a run `running` with
  nothing left to do (`worker.go:1403`);
- a wave whose last task is ended by the reaper, or whose evaluation is lost with its
  process, is never judged (`worker.go:1565`, against `agent_wave.go:311`), and under
  the kill switch a duplicate job skips a task that another worker has armed
  (`agent_repo.go:310`).

Events

- `Fanout` copies the subscribers and unlocks before it sends, so an unsubscribe may
  close a channel in between and the send panics (`hub.go:84`);
- an id that commits after a newer one was shown is never shown (`sse_handler.go:221`);
  it is in `lost`.

Ability requests

- `ledger()` reads the row before the claim, so a write that ends in between is judged
  interrupted although it made its draft (`class-ability-run-command.php:2426`);
- `undoVerdictFor` knows the marks of a page edit, while the revert of a rest write
  leaves others (`class-ability-run-command.php:1265`);
- a reconciler pass that overlaps a newer press of the button may release an undo it did
  not read for (`main.go:4251`); the next press repairs it;
- a revert that has trashed the draft and dies before its ledger row says so makes the
  next press find no draft to trash; the undo is then recorded as refused although the
  draft is gone (`DraftsGone` speaks of undos recorded as done);
- a draft edited between the revert's check and its trashing is trashed with the edit.

## Proofs

The theorems hold for every choice of the constants that satisfies the assumptions of
the component's module: any number of sites, agents, requests, sweeps, snapshots,
chunks, passes, tasks, runs, jobs, waves and events, any buffer and replay sizes.
`ConstantsAssumption`, `SchemaAssumption`, `SizeAssumption` and `BusAssumption` say what
the constants are; `FiniteAssumption` is what cardinalities need; `TimingAssumption` of
`UpdateRun` is what `ValidateClaimTimings` checks when the process starts, that of
`AbilityRequest` is a relation of the code's constants and of `RunMax`, which no code
checks. Every proof follows one plan: a few lemmas say what a step may change
(`StepMovesOneRow`, `StepFacts`), and the invariants are proved from these, so that each
conjunct is argued once and not once per action.

`SiteConnectionProofs`

- `TypeCorrect`, `SiteCapIsKept`: inductive with the types alone. For the cap,
  `StepMovesOneRow` shows that a step changes the state of at most one site, so the
  number of active sites grows by at most one and only where the cap was read in the
  same transaction.
- `OnlyLegalMoves`: the same lemma; the enrollment, which does not consult the table, is
  the case that needs an argument (it starts in `pending_enrollment` only).
- `LiveSitesHaveAgents`: `LiveSiteHasAgent` is not inductive, because a recovery acts on
  what an earlier transaction looked up. `AgentRefs` adds that every request in flight,
  every site a sweep found alive and every enrolled agent refers to a site that has a
  key and an enrollment, or that has been deleted since.
- `EnrollsOncePerGeneration`: `EnrollmentRefs` adds that a pending site has no
  enrollment in its current generation, that no enrollment is in a later one, and that a
  code which is live or consumed still has its site.

`BackupRetentionProofs`

- `TypeCorrect`: includes that no chain passes the depth limit.
- `SweepSpares`, for transactions of any length and passes that stop anywhere, needs
  `GraceInv`. `FloorInv`: past the floor query, a pass's floor is at most the start of
  every backup in flight, also of those that start later. `TouchInv`: a chunk a backup
  in flight relies on, if it has a row, has a time at most `TxSpan` before the start of
  that backup. `ClockInv` and `FreshInv` carry the two through the creation of a
  snapshot.
- `RecordedStay`, without a condition: `RecordedInv` says that a chunk listed by a
  manifest has its row and that no sweep holds that row. Together with `SweepSpares` it
  says what the code achieves: once a manifest is recorded, nothing takes a chunk away
  from it.
- `StoredChunks`, in behaviours without `Backdates` and `StopsMidSweep`. `ExactInv` is
  `TouchInv` with nothing set back; `StoredInv` adds that every chunk row has its object
  except the row a sweep holds at this moment, and that what a backup in flight was told
  or uploaded is in the store. The exception is what makes the dedup oracle truthful: it
  waits for the held row. The conditions are on single steps, not on the constants:
  transactions may take any time, and passes may stop anywhere else. Neither can be
  dropped: `backup_dedup` and `backup_crash` show the two steps doing the damage.
- `FinalStates`: no condition; the status guards of the transitions are enough.

`BackupChainProofs`

- `PrunesAbove`, without a condition: whatever operators lock, delete and restore and
  however many passes overlap, a pass prunes only above what it decided to keep.
  `PinInv`: what a pass selected is completed or gone since (`SelectedOK`), and what of
  it lies at or below the highest kept generation of its chain is pinned as that chain
  is expanded (`MarkOK`).
- `KeptChainsWhole`, for finitely many snapshots: a GC pass selects with the policy of
  its start, reads the chains later and prunes later still, while requests race, backups
  complete, operators lock, restore and delete, time passes and other passes prune. A
  kept snapshot loses a generation in two ways only, and the theorem is about the
  behaviours without these steps: `LateJoin`, a backup that completes on a parent which
  is no longer kept, and `LateOperator`, an operator's lock or delete that makes the
  policy keep again what it had given up (`Revives`) or takes a row that a kept snapshot
  needs (`Orphans`). Both happen in the code, as said above. No condition mentions a
  pass: that pruning never does the damage is what is argued. Two things are needed.
  - About the policy alone, as operators on a set of snapshots and their creation times
    (`Exp`): what is expired stays expired when time passes (`PolicyAges`), when a newer
    snapshot completes (`PolicyAdds`) and when another expired one is pruned
    (`PolicyPrunes`). These are lemmas on cardinalities, and they are why a stale
    selection is safe.
  - About the state, `ChainInv`. A backup in flight is alone on its site and newer than
    what is completed there (`RowsOK`, `FlightOK`), so its completion only adds to what
    is expired, and, no step being late, joins a kept chain (`Joins`). What a pass
    selected stays expired (`DoomedOK`); of that, what a kept snapshot needs lies at or
    below the highest kept generation the pass noted for its chain (`TopOK`), will be
    pinned when the chain is expanded (`MarkOK`), and is therefore not pruned
    (`PruneOK`). `ChainStep` is what a step may do to the rows; `PassKeeps` and
    `WholeKeeps` carry passes and chains through any such step, and each action is shown
    to be one.

`UpdateRunProofs`

- `TypeCorrect`, with the bounds on the age of a claim and of a job, which the timings
  give.
- `ClosedRunsOweNothing` and `SlotsAreExclusive`: the invariant `IInv` joins
  `TasksFollowRun` (the statuses a task may have under each status of its run),
  `WorkIsReleased` (a job works only on a task that was released), `CountsStayZero` (a
  count of open tasks that was zero stays zero until it is used, which is why a run may
  be completed in a later transaction) and `OneInFlightPerTarget`.
- `LedgerImplemented`: with `IInv`, the initial state maps to the ledger's, and every
  step to a step of the ledger or a stutter; one case per action.
- `LiveWorkersSpared`, without a condition on retries or duplicates: a job that applies
  has worked at least as long as its task's row is old (`ClaimsHeld`), and River ends it
  before a row is old enough to be taken over. Nothing makes a row older than its job
  but time, which ages both (`KeepsClaims`), so a claim finds the row of a live worker
  `pending` or not at all (`ClaimIsSafe`); that it can be `pending` is the finding of
  `update_deferred`.

`AgentRolloutProofs`

- `GateIsHeld`, also where the jobs of every wave are queued from the start:
  `ClaimsPassedGate` says that whatever was claimed passed its gate when it was claimed
  and passes it yet, since a wave that has ended does not change; it covers workers
  between claim and send, which is what makes it inductive.
- `CancelledMeansUntouched` needs `ClaimsAreKept`: a claimed task has left `pending` for
  good, so no halt cancels it. `CompletedRunsAreOver` and `HaltsAreFinal` follow from
  `StepFacts`: which row a step moves, and from which status.

`SiteEventsProofs`

- `StreamIsInOrder` needs `CursorCovers`: the stream's cursor is never behind what the
  tab has. `StreamHasNoGap` needs `OnItsWay`: what a stream that will not read the
  journal again still owes is shown, lost, or in the notification queue, the listener's
  hand or the channel; `Committed` (whatever anyone holds is in the journal or lost) and
  `FanOK` carry it through the query and the replay, two steps during which rows and
  channel overlap.

`AbilityRequestProofs`

- All five theorems rest on `IInv`: the types, `OneUnresolved` (the reservation lets one
  request of the site be unresolved) and, for each request by itself, `RInv`. A step is
  a step of one request and leaves the others alone (`Frame`), so each action is argued
  with the invariant of one request only (`Sound`): its own invariant is kept, its
  outcome stands, and it does not become unresolved except by reserving (`Keeps`).
  `SoundStep` puts the requests together again.
- `NothingIsWritten` is the argument about time. `WriteOK`: a write on its way is no
  older than `TokenTTL`, a running one at most `RunMax` older still, and the time for
  which the outcome has been unknown is bounded by these two ages. A pass that finds no
  ledger row after `Settled` therefore read it when nothing could arrive or run any
  more, and the same holds while it carries that reading from one step to the next
  (`PassAt`).
- `OneWriteAtATime`: a write on its way or running belongs to an unresolved request
  (`WriteOK`), also when its job has died or its answer was lost.
- `DraftsAreGone`: `PostOK` follows a reverted answer from the command to the handler,
  the ledger and the row; `StepOK` and `TraceOK` say what the agent's command has put
  into the ledger by each of its steps, and `PassAt` that what a pass has read is still
  true when it is used.
- `OutcomesStand`: what `Keeps` says of every action, joined by `SoundStep`; it covers
  the request's outcome and the end of an undo.

Only model-checked: the liveness properties `RevokeReachesAgent`, `BeatingSiteRecovers`,
`GarbageIsSwept`, `TasksSettle`, `DueRunsFire`, `TasksEnd`, `NotifyDrains`,
`RequestsSettle` and `SilentSiteIsNoticed`; fairness and ENABLED are outside the prover.
Every invariant and every action property of a passing run is a theorem
(`SharedChunksStored` is the invariant of `StoredChunks` in one scene);
`ReportedChunksSpared` and `OneWorkerPerTask` are violated.

## Not modelled

Within the modelled components: bulk delete (a loop of the delete modelled here),
per-site and local backup destinations, the older per-file-index chains with
`CompleteIncrementalManifest`, the arithmetic of schedules and their history, the
create-at-enroll flow for codes without a site, the count of streams per principal, and
the abilities other than page creation.

Outside: uptime and its alerts (an incident is stored before its alert is sent, so a
crash in between loses the alert, `uptime/worker.go:763`) and monitoring pauses;
assistant requests, which queue jobs in front of ability requests; the agent's backup
task, watchdog and restore; autologin; the audit chain; the subscription states of
billing; the preload queue. They have protocols of their own and are in the plan. User
interface, generated API code, feeds, mail and encoding pipelines are mostly calls to
other systems, and keep no state whose interleavings this project could check.

## Plan

1. An abstract chunk store that `BackupRetention` implements.
2. `UptimeAlerts` (`internal/uptime`, `site/monitoring*.go`): `Evaluate`, pause and
   resume, the aggregate breaker, delivery after the state is stored. Down and recovery
   alternate.
3. `BackupTask` on the agent with its watchdog, composed with `BackupRetention` at
   `PresignChunks`, `UploadChunk` and `SubmitManifest`.
4. `RestoreSwap` on the agent: staging, swap, health check, rollback, crash at each
   step.
5. `Autologin`, billing subscriptions, the preload queue: small, late.

# Verification of ygo-effect-dsl

This directory holds TLA+ models of `ygo_effect_dsl`: of the parts that run
concurrently, survive crashes and share state (the durable job catalog, the
publication of artifacts, the workers, the snapshots, the desktop services), and
of the parts that decide what a search reports and whether a recorded line of
play can be believed (search modes, fresh-process replays, the decision
protocol of the native core, traces and their verification, interruptions,
player views). TLC checks small instances. TLAPS proves for every instance what the
safety of the job system rests on (catalog, artifact store, both workers), the
snapshots, the corpus, the analytics readers and the desktop services, the claims of
a search and of its budget, interruption reports, native duels, the bootstrap, the
verification of replays, Route documents, player views and the grouping of answers. Paths below are relative to
`src/src/ygo_effect_dsl/` in the repository unless they start with `docs/`,
`tests/` or `CHANGELOG.md`.

## 1. The system

The program searches for card-game lines of play ("routes") with a native game
core and keeps experiments, searches, replays and analytics as immutable,
content-addressed documents.

| Component | State it keeps | Operations | What is hard, and what makes it correct |
|---|---|---|---|
| Job catalog, `storage/jobs.py` | SQLite tables of jobs, dependencies, checkpoints, artifacts | create, claim, heartbeat, checkpoint, cancel, fail, quarantine, retry, succeed, reclaim, time out, expire | two calls check in one transaction and write in another; one owner per attempt, bounded attempts, dependencies first |
| Artifact publisher, `storage/job_recovery.py` | a directory with `staging/` and `artifacts/` | `stage_bytes`, `publish`, `reconcile` | files and catalog rows cannot change together; a committed set has all its files |
| Search worker and supervisor, `desktop/lifecycle.py` | a thread, its claimed job and token, a child process tree, a stop event | `run_once`, `start`, `stop` | cancel, timeout, reclaim and the child's end race; nothing runs for ever |
| Export worker, `storage/export.py` | a thread, its claimed job and token | `run_once` | many handlers; an export is recorded once |
| Desktop service, bridge, shell, `desktop/` | deck and profile catalogs, content files, the single-instance lock | create, update, archive, enqueue, cancel, export, open a result, start, stop | calls of several threads, repeated requests, failures between two writes |
| Parquet snapshots, `storage/parquet*.py` | ingest files, snapshot directories, a current pointer | ingest, compact, migrate, activate, roll back, read | several processes without a lock; no row lost or doubled |
| Run catalog, corpus, query, comparison, `storage/` | tables, query snapshots, nothing | ingest, page, export, compare | conflicting manifests, cursors over changing data, values nobody observed |
| Search executor and strategy, `engine/search/` | frontier, tree, budget counters, candidates, best route | expand, observe, stop | a pool that runs ahead; what is said of coverage must be true |
| Termination, prefix cache, pruning, parallel plan, `engine/search/` | a decision; entries and an index file; evidence; tasks | observe; put, get, flush, reload; judge; attempt, aggregate | limits reached together, eviction and reload order, repeated samples, completion order |
| Frontier worker, `prototype/frontier.py` | attempts and quarantine of fresh-process replays | replay, retry, quarantine | crashes and timeouts of the child; every attempt is accounted for |
| Real-core worker, `prototype/real_core.py` | a duel being replayed, the frontier behind it | replay a prefix, offer actions, run scripted interruptions | what is recorded must be what was played |
| ocgcore bridge, `engine/bridge/ocgcore/` | native handles, callback errors, logs, card identities | create, process, respond, query, destroy; decode, encode | callbacks inside calls that fail; different selections must be written differently |
| Actions, replay, verification, `engine/action/`, `engine/replay/`, `experiment/` | none but documents and the report file | group, trace, check, verify | chains inside selections, damaged traces, an environment that changes in between |
| Interruptions, `engine/interruption/` | a composition and what was used of it | offer, trace, compare, attribute | overlapping definitions, limits, a trace rebuilt long after the offers |
| Player views, evaluation, `engine/replay/player_view.py`, `engine/evaluation/` | a projection, canaries | project, audit, rank | fields derived from hidden cards, ties |
| Bootstrap, `external/ocgcore.py` | an install directory, a virtual drive | acquire, build, publish, verify | killed in any phase and run again |
| Route documents, `route_dsl/validator.py` | a YAML file outside the program's control | record, edit, read, verify | an edit the checks do not see must not change what the Route means |
| Experiment schema, command line, effect DSL, release evidence | none | validation and conversion | see "Not modelled" |

How they interact. The shell starts two supervisor threads on one data root and
one catalog file: the search worker (kinds search and replay, publisher root
`job-store`) and the export worker (kind export, root `export-job-store`). Each
round of a worker is `recover` (reclaim expired leases of *any* kind, then
reconcile its own store), `claim_next`, and one attempt. The bridge creates jobs
and requests cancellation from threads of the window. All use the catalog
through their own SQLite connections, so its transactions are the only
synchronisation; `now` is a string the caller samples before it waits for the
database lock. A search job runs the executor in a child process. The executor
asks an adapter for what an action prefix leads to; the real-core adapter
starts a fresh worker process for each prefix, which drives one ocgcore duel
through the bridge, decodes its requests and encodes the recorded answers. The
committed route carries traces that `experiment-replay` checks and replays in
another fresh worker. Reports are recomputed by `job.result` before the window
sees them. Runs are ingested into Parquet snapshots for query and comparison.

The full list of hazards, with source lines and the properties that watch them,
is `hazards` in `PROJECT.json`.

## 2. Modules

| Module | Models |
|---|---|
| `JobStates`, `JobLifecycle` | the transition table; what the catalog promises of one job |
| `JobCatalog`, `JobCatalogProofs` | every catalog call that changes a row or a checkpoint; theorems about it |
| `ArtifactStore`, `ArtifactStoreProofs` | `JobArtifactPublisher` under the worker loop, extends `JobCatalog`; theorem |
| `DesktopWorker`, `DesktopWorkerProofs` | `run_once` of the search worker, its supervisor, host crashes, `job_cancel`; extends `JobCatalog`; theorems |
| `ExportWorker`, `ExportWorkerProofs` | `run_once` of the export worker, its handlers, its supervisor; extends `JobCatalog`; theorems |
| `DesktopService` | the service calls that write, the bridge call around them, the shell |
| `ResultView` | collecting and ranking routes, the report, `job.result` |
| `DatasetView`, `SnapshotStore` | what a dataset promises its readers; ingest, compaction, migration, pointer, reads |
| `AnalyticsQuery` | rows, queries, pages, cursors and exports over frozen snapshots |
| `AnalyticsComparison` | observations of query rows, paired arms, the comparison report; extends `AnalyticsQuery` |
| `DesktopData`, `DesktopDataProofs` | corpus ingestion; what the desktop's data parts promise together; theorems about snapshots, corpus, analytics and service |
| `SearchExecutor` | the search in its three modes, once per pool size |
| `SearchGuards` | what ends a search and what it gives up: the budget monitor and the pruning guardrails |
| `PrefixCache`, `ParallelPlan` | the other parts beside the search loop |
| `FrontierWorker` | what a failure means; retry and quarantine of fresh-process replays |
| `RealCoreWorker` | the worker process: route, search-frontier and player-view mode |
| `OcgcoreDuel`, `OcgcoreProofs` | the duels of one native library and their callbacks; theorems about it, `CoreBootstrap`, `InterruptionFrontier` and `CardInstance` |
| `DecisionProtocol` | decoding requests, listing actions, encoding answers |
| `CardInstance` | card identities across scans and viewers |
| `ActionAggregation` | atomic answers grouped into activations and resolutions; the rollback probe |
| `OutputTrace` | the input/output trace and its check |
| `RouteDocument` | the document a worker records of its run, its edits, and the validation every reader starts with |
| `ReplayVerification`, `ReplayVerificationProofs` | `experiment-replay`; theorems about it and about `RealCoreWorker`, `RouteDocument`, `PlayerView`, `ActionAggregation`, `ParallelPlan` and `FrontierWorker` |
| `InterruptionFrontier`, `InterruptionReport` | offers, limits and trace of interruptions; comparison and attribution |
| `SearchProofs` | theorems about `SearchExecutor`, `SearchGuards`, `InterruptionReport` and `PrefixCache` |
| `PlayerView` | projection, audit, access policy, hidden-state sampler |
| `CoreBootstrap` | `ocgcore-bootstrap` and its repetition after any failure |
| `MC*` | constants of the instances and the composition of parts that share no state |

`DesktopWorker`, `ExportWorker` and `ArtifactStore` compose with the catalog by
extending it: each of their steps that calls the catalog is a `JobCatalog` action
conjoined with the change of the thread.
`SnapshotStore` implements `DatasetView`, `JobCatalog` implements
`JobLifecycle`. The components of `MCSearchSupport`, `MCEngine` and
`MCDesktopData` share no state in the program (they exchange documents), so an
instance explores each on its own: a variable `part`, fixed initially, says which
one a behaviour runs, and the others stay in one initial state.

### JobCatalog

`jobs[j]` is the row of job `j` with the columns some guard reads; columns for
display, the error texts and the append-only transition log are left out.
`checkpoints[j]` is the sequence of its checkpoint rows. A lease token is the
pair of attempt and owner: the code's token is a digest of job, attempt, owner
and time, so tokens of different attempts or owners differ. `held[w]` is what
worker `w` remembers of its claim; it may be stale. `pending[c]` is the second
half of a two-step call. Operators stand for callers without a token.

A call that opens with `BEGIN IMMEDIATE` is one action. `heartbeat` is
`HeartbeatRead` and `HeartbeatWrite`; `schedule_retry` is `ScheduleRetryRead`
and `ScheduleRetryWrite`. `_simple_transition` is `MayTransition` with
`Released`; `fail_job`, `quarantine_job`, `finish_cancelled` are instances of
`Settle`. The sweeps `reclaim_orphans` and `expire_pending_deadlines` change
all rows they select in one step, as in the code. `Stamps` is the set of values
`now` may have: up to `MaxLag` seconds old. A call that raises changes nothing
and is not an action. `Abandon` is a worker that forgets its claim: it crashed
or went on.

### ArtifactStore

`files[s]` is the set of files of a publisher root. An item is a logical path
with its digest; paths are content addressed, so a file is determined by area,
job, attempt (staging only) and item. `task[w]` is the program counter of the
worker thread with the local variables of `reconcile`, `stage_bytes` and
`publish`: the references read, the files listed and not yet handled, the file
in hand, the timestamp. Every catalog read, unlink, write and rename is a step
of its own (verification of all references and the listing that follows it are
one). `raised` and `corrupt` are threads that an exception has ended. While an
attempt runs (`work`) the worker may make any catalog call of `JobCatalog`;
`Restart` loses the process anywhere and keeps the files.

### DesktopWorker

`phase[w]` is the position in `run_once`; `child[w]` the process tree; `now[w]`
the one timestamp the code carries across steps; `stop` the supervisor's event;
`bridge[b]` the second half of `job_cancel`; `hosts` counts host processes. `Do`
is the shape of every catalog call in the worker: it happens, or it is refused
and the thread is `dead`, because nothing but the retry fallback catches.
Search and replay jobs share the actions; they differ in `ResumedUnits`,
`FinalUnits` and in what a non-zero exit does. Recovery positions
`<kind>:attempt:<n>:<label>` are `10 * n + label`. `NewHost` is the end of the
host process, clean or not, and the start of the next. The branches of
`run_once` for a claim without a token and for an unexpected kind cannot be
reached, because `claim_next` always sets a token and filters by kind.
Reconciliation and the file side of a publication are left to `ArtifactStore`.

### ExportWorker

`phase[w]` is the position in `run_once`, with one phase per exception handler:
`interrupted` is `InterruptedError`, `retry` is an I/O or disk-full error,
`rejected` any other `ValueError` or `RuntimeError` (all errors of the catalog
are `ValueError`s). `Asked` is `_cancel_requested`, which turns an expired lease
or a timeout into `InterruptedError` like a cancel. A call that is refused
inside a handler makes the thread `dead`. `ExportId` is the content-addressed
recovery position, equal in all attempts; `CheckpointExists` is the branch of
`save_checkpoint` that returns the existing record. Building the bundle and
writing files are steps that succeed or raise. The second transaction of
`job_cancel` is enabled for jobs that never started, which is when the code
makes it.

### DesktopService

`dsDecks` and `dsProfiles` are the two JSON catalogs, `dsContents` and `dsFiles`
the content-addressed files beside them, `dsCalls[t]` the bridge call of thread `t`:
its request, its step and what it has read. A call reads the catalog, writes
content, takes the lock, reads again where the code does, writes; the process may
be lost at each of these points, and the window may repeat a request whose answer it never
saw. `dsHistory` counts committed updates and jobs per request. The `sh`
variables are the shells: lock, two supervisors, start and stop with a
supervisor that fails to start or refuses to stop.

### ResultView

Routes arrive in any order (`AcceptRoute`), candidates are counted, `FinishSearch`
writes the report with the executor's `rank_key` and certificate, `OpenResult`
recomputes as `desktop/service.py` does. Float ties are integer ties; the profile's
rules are those of the terminal preference with per-copy and once modes.
`ResultsOpen` speaks of the routes the workers delivered, not of the report: the ranking
is a function of them (`RankingStable`); a result is shown only if none of them betters
the committed one in success, peak score, terminal score or evidence (`ShownIsBest`);
and a refusal has one of two causes (`RefusedForCause`): a route with the committed one's
success outranks it, or the frontier was exhausted. Both causes are met and
described in section 5; not every committed report opens.

### SnapshotStore and DatasetView

A snapshot is the record of what its manifest names; directories, pointer and
staging directories are separate variables because the code changes them in
separate file operations. `proc[p]` is the operation of a process: gather,
stage, rename, activate with the pointer value it read first. `DatasetView` has a
set of ingested files and a view that is always the exact union of some of them.
The refinement maps the pointer's snapshot to the view. The disk preflight, the
column layout and retention by age are left out.

### AnalyticsQuery, AnalyticsComparison, DesktopData

A row has one or two fields of each type of the contract, each in one of its seven
states; a JSON value is a pair of kind and content, so a value of the wrong type can
be offered and is refused. A request is fields, filters, a sort and a limit, checked
as `AnalyticsQueryRequest` checks it; a cursor carries its snapshot, its request and the
boundary row under a checksum, which is the value it is taken of. Ingest registers
snapshots between the pages, a snapshot on disk may be damaged or lost, and an export
selects from the snapshot it was bound to. A comparison makes observations of offered
rows and lineage evidence, pairs them per lineage with censoring and compatibility, and
a report is deltas and summaries of what was observed, as in
`storage/comparison.py`. Corpus ingestion (in `DesktopData`) has one step per
transaction; a conflict goes to quarantine in a second one.

### SearchExecutor

`exp` is a decision graph with a strategy and a budget, `rt[k]` the
`_SearchRuntime` of the run with pool size `k`. A state is what a fresh replay
of a prefix observes. Depth-first, beam and MCTS are three groups of actions over
one runtime; with a pool, replays are made ahead and taken from a cache when the
decision comes to them. The UCT value is a choice among the children that the
visits allow; the random strategy is an order of actions. `Step(k)` is one
decision of the loop with every count it changes.

### SearchGuards, PrefixCache, ParallelPlan, FrontierWorker

`monitor` holds the counters and the decision of `SearchTerminationMonitor`.
`cache` is policy, entries oldest first and statistics, `index` the file; `Reload`
may come with another policy. `evidence` gathers samples with their sampling
unit; means are integers scaled so that they are exact. `ppPlan` is tasks, running
threads and results, driven as `prototype/real_core_stress.py` drives it: the same plan
once per pool size (`PpPools`) and once with injected failures, then compared; the
verdict is "verified" or "refuted".
`adapter` is what threads share of the frontier adapter, `call[t]` what is local
to a call; an attempt ends in a document, a retryable or a final failure.
`ParallelPlan` extends `FrontierWorker` because `AttemptsAccounted` speaks of the
retries of both; they share no variable.

### RealCoreWorker, DecisionProtocol, OcgcoreDuel, CardInstance

`rcCore` is what the core sends along the prefix: chosen at the first play and
repeated afterwards. `rcEvents` are the answers with their turn, phase and index;
`rcMode` selects which loop of `real_core.py` runs; the scripted interruptions of
a run are resolved from their definitions (`ResolvedPlans`), and an experiment that a
mode does not take is refused before the duel starts. `DecisionProtocol` has one
frame shape per decision message with the fields its decoder reads; an answer is
the sequence of its binary fields, with the widths kept (`ByteMax`, `WordMax`).
`duel[d]` is the session with its state, native handle, pending callback error,
logs and script audit; a callback may fail or load another script from inside.
`query_count` alone does not look for a callback error afterwards
(`engine/bridge/ocgcore/session.py:652`); its native function is taken to call nothing
back, so that it changes no session and is no action.
`tracker` is `CardInstanceTrackerV2`, `core` where the cards really are, `seen`
what each viewer really saw; `EndDuel` is the terminal batch, `Enriched` what a
snapshot says of each card.

### ActionAggregation, OutputTrace, ReplayVerification

`agTruth` records which activation or resolution of the core each event belonged
to; the derivation sees the frames only. `drawn` are the draws the core made,
`outputs` the recorded traces, `damage` what happened to the stored document. A
digest is the value it is taken of. A verifier's steps are: manifest
preflight, environment check, worker process, comparison, temporary file,
replace with retries; the environment may be upgraded between two of them and the
verifier be killed at each.

### RouteDocument

`RecordRoute` is what `run_real_core_worker` builds of a run: events with their
occurrence identities, the input/output trace, groups of moves, checkpoints, the two
boards and the durability report, the access audit, interruption records with their
answers. `document` is the file, `history` the edits since. `EditDocument` changes or
drops one entry; `Read` is the validation at the head of every reader. Each validator
check is an operator with the validator's name for what it looks at: `TraceOK`,
`AuditOK`, `AggregationOK`, `BoardOK`, `DurabilityOK`, `AppliedOK` and so on, and
`Accepted` says that there is no issue. `Null` stands for a missing entry. A group is
known by the step it starts with; an applied interruption is known by its index.

### InterruptionFrontier, InterruptionReport, PlayerView

`taken` remembers the opportunities chosen with the replies they got; the trace is
rebuilt from the recorded actions only and compared with it. Routes of a report
are sequences over exact State identities. `PlayerView` runs two worlds that
differ in what the viewer was not entitled to see; a document that tells them
apart would show hidden information.

### CoreBootstrap

A run acquires source, tool, runtime and repositories phase by phase; every
command, download or file operation may fail and the run may be killed. `disk` is
what it leaves behind; `causes` remembers what may block a later run: a source whose
copy was cut off, a drive that was not released, an edit. `BootstrapRecovers` says
that nothing else does, and does not say that a run can always be repeated (section 5).

## 3. What is checked

Each property of a component is one conjunction of named parts; the parts carry the
comments with the source they speak of. Every property has a mutant: a plausible bug
in a mapped definition that TLC must catch under the same configuration.

| Run | Instance | Shows |
|---|---|---|
| `catalog_solo` | 2 workers, 1 operator, 1 job, 2 attempts, lease 2, deadline 6, clock 6, lag 1 | types; lease columns match state and attempt; no attempt has two owners; the budget holds; a waiting retry is claimable before its deadline; a lease never ends later than one lease from now; only the owner of the current attempt commits, once; a running attempt ends, whether its worker heartbeats for ever or has vanished |
| `catalog_family` | parent, dependent child, rival with the child's key; 1 worker, 1 operator | dependencies stay succeeded under a started child; `JobCatalog` implements `JobLifecycle` |
| `store_crash` | 1 worker, 1 store, 2 overlapping artifact sets, 1 crash | a committed set has all its files in every state; no staged file of an active attempt is removed and leftovers of finished jobs are |
| `worker_run` | a search and the replay enqueued after it, 2 attempts each, 2 hosts | types; the checkpoint log is ordered by attempt and progress, also with a stale writer; a succeeded job ends with the completion of its own last attempt; the tree is down before the worker moves the job; children and stopped supervisors end |
| `export_run` | 1 export, 2 attempts, 2 hosts, lease shorter than the attempt | types; an export is recorded once over all attempts; a handler ends the supervisor only when the attempt was already over; a cancelled attempt reaches an end state |
| `search_modes` | all graphs of 3 states over 5 action lists with 21 plans of mode and budget, pools 1 and 2 | budgets (with the excess a layer or an expansion may cause), tree statistics and coverage are true, an exhausted frontier leaves no stop of more success or score; the pool changes nothing that was decided; a search with a budget ends |
| `search_support` | see below | attempts and aggregates accounted for; pruning on independent samples; interruption offers and trace agree; views tell nothing hidden; the cache forgets the oldest only; the first limit reached is reported; reports agree with routes and earlier reports |
| `engine` | see below | callbacks lose no error, log or handle; selections and answers correspond; a replay document says what was played; grouping follows the core's lifecycles; a damaged trace is found or means the same, and so is an edited Route; a report is earned; cards keep identity and viewers meet new aliases; what a failed or killed bootstrap leaves blocks or costs no more than is known |
| `desktop_data` | see below | a result shown is the best found, one refused has a known cause; rows and manifests are kept; pages are one export in the order asked for, and deltas and means were observed; profiles, experiments and jobs stay whole; `SnapshotStore` implements `DatasetView` |

Three runs find a disagreement between a document or test and the code (quoted in
`findings`):

| Run | Disagreement |
|---|---|
| `store_two_stores` | the two stores of the application report each other's artifacts as missing, which ends the supervisor |
| `worker_cancel_settles` | a job cancelled while retrying stays cancelling |
| `result_exhausted` | the report of a search that really exhausted its frontier is refused when its result is opened |

### Bounds, and why they suffice

Job system. Two workers are enough for one stale and one current owner, and every
hazard of the catalog involves one job at a time except the dependency and
the shared key, which `catalog_family` has. Two attempts give a retry and an
exhausted budget. The clock runs past a full lease, an attempt deadline and the job
deadline; `LastClaim` keeps the last attempt inside it so that no attempt is cut
off by the end of time. `MaxLag` 1 lets a timestamp be taken on the other side of
every deadline. `MaxCrashes` 1 and `MaxHosts` 2 give one crash at every point and a
complete recovery after it. A set that is partly published needs two items, a race
about one file needs one.

`search_modes`. Three states with lists of up to two actions contain a cycle, two
paths to one state, a dead end, a failing and a duplicate child; the plans have
every mode with every budget reached alone and together with another.

`search_support`. Frontier: 1 thread, 3 replays, 1 retry (a retried success, a
retried failure, a quarantined prefix met again). Plan: 3 submissions, pools 2 then 1 and a
run with injected failures, 1 retry. Cache: 5 operations over two policies whose limits of entries and bytes
both bind. Monitor: 4 nodes under budgets with two limits each. Interruptions: 2
definitions that may overlap, prefixes to 4, so a limit is reached and an answer
lies between two activations. Reports: 2 states, 2 events, 3 trials. Views: 2 steps
of a card being moved, shown or put on a chain. Pruning: 3 calls.

`engine`. 2 duels of one library, 4 public calls, 2 callbacks (one inside another);
2 cards that can exchange places over 5 scans in batches of 2; every decision type
with candidate counts at the limits of the index widths; a route worker of turn
limit 2 and response budget 5 with prefixes to 3; chains of 2 links and 5 events;
2 draws per call and 3 outputs; Routes of 3 moves with one sampled, one older
scripted and two scripted interruptions, and five runs whose worker refuses to record
them, under 2 edits of any entry, none after an entry was dropped; 2 verifiers, 1 upgrade; 3 bootstrap runs and 1 edit,
so a run meets what a run after a failure left.

`desktop_data`. 2 concurrent calls, a repeated request, 2 shells, 3 decks over
a catalog limit of 2; 3 routes with ties; 2 processes, 4 operations and 1 crash
on 3 batches of which two contradict each other; a query client of 4
calls and an export over growing snapshots; reports of 3 observations; 2 ingesters. The two
duels and the two snapshot processes are interchangeable and declared symmetric; both
runs check no liveness.

Deadlock checking is off where clocks and counters are bounded and every instance
ends.

### Fairness

`catalog_solo` assumes that time passes and that someone polls `reclaim_orphans`:
both supervisors call it in each round, a fraction of a second apart. Nothing is
assumed of the worker. `store_crash` and `worker_run` assume that a live thread
takes its next step and finishes a catalog call (it runs in its own non-daemon
thread and waits for nothing but the child, which the poll loop does not wait for
either) and that time passes. `export_run` assumes only time and the search worker's
polling. `worker_cancel_settles` assumes all of this and that the bridge finishes
its calls, so its counterexample is not a thread that merely stopped.
`search_modes` assumes that the loop of a search goes on (`WF` of `Step(k)`): it is
one sequential loop whose replays have a timeout. No fairness is assumed of children,
operators, crashes or restarts. The action and invariant properties of the other
runs need none.

## 4. What is proved

Eight modules hold theorems. Each holds for every value of the constants that
satisfies the named assumptions of its component, so for any number of jobs,
threads, prefixes, repositories or trials where the runs of section 3 have two or
three. Every strengthened invariant was checked by TLC on the instance of its run
before it was proved.

### The catalog (`JobCatalogProofs`)

| Theorem | Statement |
|---|---|
| `TypeCorrect` | `Spec => []TypeOK` |
| `LeaseSafety` | `Spec => []LeaseMatchesAttempt` |
| `AttemptExclusion` | `Spec => []AttemptsDistinct` |
| `BudgetSafety` | `Spec => []AttemptBudget` |
| `DependencySafety` | `Spec => []DependencyOrder` |
| `RetrySafety` | `Spec => []RetryBeforeDeadline` |
| `RecoveryBound` | `Spec => []BoundedRecovery` |
| `CommitSafety` | `Spec => CommitByOwner` |
| `CheckpointSafety` | `Spec => []CheckpointOrder` |
| `CatalogImplementsLifecycle` | `Spec => ImplementsLifecycle` |

The assumptions say that jobs are positive numbers with well-typed
specifications, workers and operators are disjoint, leases are at least a
second long, and checkpoint values are numbers.

The inductive invariant `CatalogInv` is the conjunction of the seven safety
properties with two strengthenings. `PendingSound` says what a half-finished
call may write: a pending heartbeat ends no later than one lease from its
timestamp, a pending retry has a backoff that ends before the deadline. Without
it the two writes, which check almost nothing, could break `BoundedRecovery`
and `RetryBeforeDeadline`. `ArtifactsImplySuccess` says that only succeeded
jobs carry an artifact set; `CommitByOwner` needs it to see that a commit
happens once.

The argument: `StepCases` reduces every action to one of three cases, the
creation of a row, a claim, or a `RowMove` of each row (unchanged, heartbeat
write, left attempt, commit, checkpoint, cancel request, expiry). `RowMoveColumns`,
`CreateColumns`, `ClaimColumns` and `ClaimOthers` say what each case does to
each column, and each conjunct of the invariant follows from the columns it
reads. The refinement uses the same cases: a `RowMove` is a step of
`JobLifecycle` per row, a claim its `Claim`.

`CheckpointOrder` is inductive relative to `CatalogInv`. `CheckpointCases` shows
that only `save_checkpoint` touches a log or a recovery position; its caller
presents the row's token, so it owns the current attempt (`OwnerIsCurrent`), and
attempts only grow (`AttemptsGrow`); `OrderedAppend` is the statement about
sequences. The run property that contains it is `WorkerCorrect`.

### The artifact store (`ArtifactStoreProofs`)

`StoreSafety`: if every worker thread has a store of its own (`SeparateStores`;
the search worker publishes to `job-store`, the export worker to
`export-job-store`), then `StoreSpec => []StoreCorrect`: types hold and no
committed reference dangles, for any number of jobs, sets and crashes. The
assumption is needed: `reconcile` judges a file in one step and unlinks it in a
later one, and between the two another thread of the same store could publish
it. The invariant `StoreInv` adds to `CatalogInv` where each thread is (`Placed`:
while it publishes, a file of the set is still on its list or already renamed;
while it sweeps the staging area, no published file is on its list) and, for
each committed set, a thread whose store holds the files and that will not
remove them (`Secured`: they are among the references it has read, or not on the
list it works off). `LateCommit` covers what `JobCatalog` alone does not: the
commit carries the `now` of an earlier control check, older than any `Stamps`.

### The search worker (`DesktopWorkerProofs`)

`WorkerSafety`: `WorkerSpec => []WorkerCorrect`, and `TreeDown`: `WorkerSpec =>
TreeDownBeforeTransition`, for any number of supervisor threads, bridge threads,
jobs and host processes. `PositionAssumption` says that the catalog accepts the
recovery positions of every attempt a job may have (any non-empty string is
accepted by the code). `SuccessIsComplete` speaks of a row and its log, and both
may be written by a thread whose claim is stale, so it is not inductive.
`WorkerInv` adds `Saved`: a thread that publishes, commits or returns and still
owns the attempt (`Owns`: its token is the row's) has the completion of that very
attempt as the newest checkpoint. Another thread's checkpoint cannot come
between, because a checkpoint is accepted from the owner only and two owners of
one attempt do not exist (`AttemptsDistinct`, through `CatalogInv`). `ChildPolled`
says that a child runs in the poll phase only; `TreeDown` follows from it action by
action. `LogInv` collects what a step that touches neither log nor claim keeps.

### The export worker (`ExportWorkerProofs`)

`ExportSafety`: `ExportSpec => []ExportCorrect`, and `SupervisorSurvival`:
`ExportSpec => SupervisorSurvives` (a conjunct of the run property
`ExportSettles`), under `ExportAssumption`: an export has no deadline, as
`AnalyticsExportQueue.enqueue` creates it, and its export ID is a valid
position. `ExportInv` says that a job's log holds at most its own export ID
(`LogOfExport`), that a thread past `save` has that record behind it (`Placed`),
that only retries of the claimed job are ever half-finished (`Waiting`), and that
the two handlers an exception can leave (`Over`) are entered only when the thread
no longer controls its attempt. `Over` is what `SupervisorSurvives` needs: control
once lost does not come back to a claim (`StaysOver`), because time does not go back
and a token only changes with the attempt.

### Native duels, cards, bootstrap, offered interruptions (`OcgcoreProofs`)

`SessionSafety`: `OdSpec => []SessionAccounted`, for every finite set of duels
(`DuelsAssumption`; the library counts them), any calls and any nesting of
callbacks. The invariant `OdInv` is per duel, with the count of live handles:
`Control` (a call runs on a live duel only), `Handle` (destroyed at most once),
`Errors` (a duel that is idle with a callback error is unusable), `Logs`
(delivered and waiting logs continue one numbering), `Scripts` (the numbers given
out are each on the stack of scripts being loaded or in one audit record). The
last two are what makes the property inductive: an audit is complete only when
the stack is empty.

`CardsSafety`: `CiSpec => CardsFollowed`, an action property, for every finite set of cards
(`CardsAssumption`: the tracker goes through the cards of a scan one by one), any moves,
and batches of any length. The core is ahead of the tracker by the scans that wait in the
batch, so `CardInv` speaks of `Consume(tracker, core.scans)`, the tracker that will have read
them (`CaughtUp`): its coordinates are the core's, its aliases are what each viewer has
seen, the last movement of each card leads to where the card is (`MovesLead`), and it
has only added movements to those already named (`Grows`, `MovesSettled`). A move appends a
scan, which `ConsumeStep` turns into one more `ApplyScan`; `ScanApplied` says what that does,
card by card. Both are recursive functions, handled as in `SearchProofs`.

`BootstrapSafety`: `CbSpec => BootstrapRecovers`, for any non-empty list of asset
repositories (`BootstrapAssumption`) and any number of runs, kills, faults and
edits by the user. `BootstrapInv` adds to the property what a run has
established when it is in a phase (`StagePlaces`: from the tools on the source is
the locked tree, from the runtime on the staged binary is the one built;
`AssetsReached`: the repositories behind the current one are locked), that a
broken tree on disk is among the known causes (`CausesKnown`), and that a run
which began with a verified core has removed none of it before its rename
(`InstallKept`). What is proved of the drive is what holds of the code: it is mapped
while a build runs or since one was killed or could not release it, and it is free
in every run past its compilation, whatever happened before.

`OffersSafety`: `IfSpec => []OffersTraced`, for any definitions, any windows of the core
and prefixes of any length. The property relates what the search was offered step by
step with a trace that `real_core.py` rebuilds at the end from the prefix alone.
`OffersInv` therefore keeps, for each activation of the prefix, the entry of the history
that belongs to it (`Paired`): the offer is the one its definition had at the prefix of
that time, the replies are the actions right behind it, and for the last activation
what the core still asks is the rest of what the card asks for (`StillAsked`). It
also says that an offer has one matching definition (`OffersExact`) and that each
activation was resolved when it was chosen (`ActivationsKnown`). `RoleBound` computes the
role a frontier binds from the position behind the last activation; `PairsGrow` says
that longer prefixes leave the earlier entries what they were.
`CoreAssumption` has two parts: an activation asks for something (its requests are no
windows), of a card the core knows; and an Experiment lists for a card the reply roles
in the order in which the core asks for them. Nothing in the code checks the second,
since the schema knows no card, so the theorem is about Experiments that describe
their cards truly, like those of the run.

### What leaves a run, and the replays of a plan (`ReplayVerificationProofs`)

`ReportSafety`: `RvfSpec => []ReportsTrusted`, for any number of verifiers of one
report path, any experiments and any number of environment changes. The
invariant `RvfInv` says that only a document a fresh worker delivered, in the
environment it names, gets past the comparison (`Compared`), that a temporary
file belongs to one verifier and is whole before it is renamed (`TempOwned`), and
that a failure is named after what happened to the worker (`Named`).

`RouteDocumentsSafety`: `RdSpec => [](...)`: a document that is read or verified
shows boards its replay reached, interruptions that happened as the experiment
defines them, and each move in exactly one group. It holds for any runs, and for any
edits, since `RdChanged` and `RdDropped` are arbitrary operators. For the same reason
the theorem names what the YAML loader guarantees and an arbitrary operator does not
(`Shaped`: a list of the document is a list, a checkpoint has an entry for its hash,
which may be `Null`); TLC has confirmed `Shaped` of every document that is let
read in the run `engine`. `RdInv` says only that a verdict was given of the
document at hand; the weight is in three lemmas about the validator
(`BoardsReachedWhenAccepted`, `InterruptedWhenAccepted`, `MovesGroupedWhenAccepted`),
which follow its checks through the document. That an accepted document with one edit is
still the Route of its run (`SameRoute`), and that no worker refuses the document of its
own run, depends on which entries an edit may touch and stays model-checked.

`PlayerViewSafety`: `PvSpec => []HiddenStaysHidden`, for any cards, codes, layouts and
numbers of steps (`PlayerViewAssumption`: cards lie somewhere, weights are positive).
`PvInv` says that two worlds the viewer cannot tell apart are told alike
(`ViewsAgree`), that whatever is shown is the code of a card the viewer may know or of a
handler the registry saw, and that an accepted view has passed the audit. The sampler
is a recursive function of the weights; `PickedByWeight` counts the draws that
fall between two cumulative weights.

`AggregationSafety`: `AgSpec => []LifecyclesGrouped`, for any longest chain and any
length of a replay (`LinksAssumption`: the longest chain is a number). `AgInv` relates
the core to a derivation that sees its frames only: `Linked` (two events have one key
exactly when they have one lifecycle, and a key names the step its group begins with),
`Fits` (which group is open in which phase of the core, and which frames the next event
will be read with), `Probed` (the probe's last document is the one the derivation
failed at). What the core may send is a recursive set of frame sequences, since
chain links may resolve in silence; `ResolutionsResolve` climbs it from the empty chain,
and `OutcomesLead` says phase by phase what an answer leads to.

`FaithfulSafety`: `RcSpec => []RouteFaithful`, for any core, scripts, recorded
prefixes, turn limit and budget (`ScriptAssumption`: definitions, responses and prefixes
are lists and an experiment has one of three modes). `WorkerInv` is what the replay loop
relies on at a request. `InPlace`: the turn it counted is the number of turns the core
began along the events behind it, so every replay of a prefix meets the same turns, and
no `END_TURN` of the prefix was answered in the last turn. `FrontierInv` carries this over
from one worker to the next: a prefix that was extended from a document neither outruns
the end of the duel (`ExtendedPrefix`) nor ends a last turn (`NoLateEnd`). `PlanInv`: the
events behind an activation belong to its plan as far as it has answered; two
activations cannot both own the last event, so at most one plan is responding
(`BlockOne`), although `next(...)` in the code takes any. `CoordinateInv`: the index
counts the events of its turn.

`AttemptsSafety`: `FwSpec /\ PpSpec => []AttemptsAccounted`, for any plans, lists of
pool sizes and orders in which workers answer, and for any number of retries of a fresh
process. Two hypotheses are stated with it. `PpRetries = 1` is what the stress driver
passes; its verdict, a task that failed once recovered and one that failed twice is out of
attempts, is true of no other number. `FwThreads = {t}`: the quarantine is exact for one
caller, as `QuarantineExact` says, since two callers would share the list of the last call.
`PlanInv` says of each task what it may have handed over (`RunOK`: one result per
attempt in their order, only the last one final), and that the aggregate is `DigestOf` the
set of results per task. So the heart is `AggregateOfLists`: whatever sequence lists the
results of a plan, in whatever order, its aggregate is that one digest; the concatenation
the driver hands over and each exchange of two results (`SwappedLists`) list them.
`NextRunKeepsPlan` carries the first run's aggregate over to the later pools, and
`VerdictIs` reads the failed checks backwards to a worker that failed untold. `FwInv`
says that the quarantine holds the id of each failed record once (`Quarantine`), that a
call's list is numbered and all but its last attempt failed (`CallOK`), and that the
adapter has kept nothing newer (`AdapterOK`); the delicate step is `RejectKeeps`, a
document that turns out to describe no frontier, whose record is changed where it was kept
and appended where it was not.

### Search, budget, interruption reports (`SearchProofs`)

`SearchSafety`: `Spec => []SearchCorrect`, for every finite decision graph, strategy,
valid budget (`ExperimentsAssumption`) and set of pool sizes. It is the largest
proof of the project. `RunInv` holds of each pool's runtime and has a part for
each thing the loop relies on and nobody writes down: `Cached` (a cached prefix
was replayed through states that did not fail; prefetched ones are apart from
it), `Counted` and `Recorded` (the counters are sums over cache, hits and failures;
a candidate's status agrees with the cache), `Limited` (room for what the current
stage has still to observe: a beam layer takes its whole plan against the
budget before it replays any of it), `Stacked`, `Layered`, `Grown` (every prefix the
three strategies keep is one action away from a replayed one), `Visited` (a
node has at least the visits of its children) and `CoverageKept`. The last is the
heart: when a run will end `exhausted`, the states found so far are settled or
their successors are still on the stack, in the layer, or in the half-committed
plan, by state and not by prefix, since a duplicate is dropped when *another* prefix
reached its state. There is a lemma per action and mode; `Only` names what a step
leaves alone. `Limited` keeps the room left in replays for any `replay_count`
(`Room`, `Repeated`), from which the bounds of `BudgetRespected` follow; that the best
route of an exhausted search ranks with every stop follows since a route's peak is
at least the score of its own end (`PeakExists`, `DeservedByRoute`).

Two functions of the model are recursive, the state of a prefix and the
flattening of a layer. The library's induction theorems cannot be used, so what
they compute is proved from the least counterexample: the set of indices at which the
claim fails is a set of numbers, has a least member, and the recursion
equation at that member contradicts it.

`LimitsDecide`: `SmSpec => BudgetDecided`, an action property, for every set of
budgets that `SearchBudget.__post_init__` accepts (`MonitorAssumption`) and
searches of any length. `MonitorInv` says that without a decision no limit has
been reached so far.

`InterruptionSafety`: `IrSpec => ReportConsistent`, for any Routes, hands and any
number of trials. `HandsAssumption` only fixes types: hands are sequences and no
attribution version is called "none". The comparison is a function of the
pair, so its claims are lemmas about that function (`RejoinSteps`,
`ComparisonHolds`); the report grows trial by trial, and `IrInv` says that it is at
any time the attribution of the trials given so far, whose candidates are distinct.

`CacheSafety`: `PcSpec => RecentEntriesKept`, for every set of entries, every set of
policies that `PrefixCachePolicy.__post_init__` accepts (`PoliciesAssumption`) and
any number of operations. `PcInv` says of the cache that its byte counter is the sum
over its entries (`Held`), that it is within its policy and that every entry put is
there or counted once (`Balanced`), and of the index file that it names a key once.
`BytesOf`, `retain_manifest` and the reload are recursive; that their recursive
functions exist is proved by climbing from length 0 (`Climb`), and `BytesConcat`, that
the bytes of two parts add up, carries removal and eviction. A reload is the delicate
case: `LoadStep` shows that what is loaded so far is always the last part of what was
read, because the index names a key once and an eviction takes a first part.

`EvidenceSafety`: `PrSpec => []EvidenceCounted`, for any finite set of sibling actions,
any evidence and every policy `PruningGuardrailPolicy.__post_init__` accepts. What
`PruningAssumption` adds of the constants is that samples have integer scores and a
radius is a number. Sums and products over finite sets are recursive in the community
modules: `PartSumsExist` and `PartSumsAre` find their partial sums over the subsets of
a set (a smallest subset without one is a contradiction, `SubsetsInduct`), from which
`SumBounded`, `SumDoubled` and `CardinalityDoubled` follow. A mean within the bounds
(`MeanBounded`) gives an action an interval that is not empty (`IntervalOrdered`), so
pruning is a strict order (`PruningOrders`) and a finite set has an action nothing
prunes (`FirstExists`). To repeat a run in its unit doubles the sum and the count of
each unit (`AgainIs`), which leaves every mean and the number of units alone.

### Snapshots, corpus, analytics, desktop service (`DesktopDataProofs`)

`SnapshotSafety`: `SnSpec => []RowsKept`; `SnapshotsAreViews`: `SnSpec =>
ImplementsView`. They hold for any processes and batches and need of the
constants only that the two bounds are numbers (`SnapshotBounds`). `SnInv` says
of the disk (`DiskOK`) that each snapshot was `Built`: it covers exactly the files it
names, which do not overlap, and extends its parent, which is older. Of a process
it says `StillTrue`: what it read before its last step and will use in the next,
a base, a target, a manifest, rows read so far (`Whole`), cannot have become false
meanwhile, because files and snapshots are only added. This is the stale read that the
module is about, and the reason why a crash or a second builder is harmless.
`RowsKept` is a conjunct of the run property `StorageKept`.

`CorpusSafety`: `CcSpec => []NothingLost`, for any number of ingesting processes,
items and losses. `CcInv` says that only a validated manifest enters the
transaction (`Carried`), that what a call returned is on record, and that an item
has one row. `StorageSafety` puts both together: `SnSpec /\ CcSpec =>
[]StorageKept`.

`PagesSafety`: `QSpec => []` of `PagesAreExport`, `SelectionOrdered` and
`CursorStaysUsable`; `AnalyticsSafety`: `QSpec /\ CmpSpec => []AnalyticsAgree`. They
hold for any clients, exports, requests and ingested sources, any arms and offers.
`DocumentAssumption` and `OfferAssumption` say that the values of a row are JSON values and
that a source is a finite set; `QueryAssumption` that two limits are numbers. `QInv`
says of a client that its cursor, its checksum, its pages so far and the boundary row are
all of one registered snapshot and one request, and of a bound export the same; both are
then the beginning of `ChosenIs`, the one sequence that the sort with its tie-breaker
leaves of a selection. That a sort key orders rows totally, a page from a boundary
continues where the last ended, and pages concatenate to the selection are lemmas about
the operators. `CmpInv` says that observations are of the form the offers have and that the
last report is sound; sums over finite sets of observed deltas are handled by least
counterexamples, as in `SearchProofs`.

`ServiceSafety`: `ServiceSpec => DesktopIntact`, for any windows, threads, decks,
profiles and repetitions. `DsInv` says of each call `Asked` (its request is one the
window can make) and `Earned` (what it has checked or written by its step: a content
was checked against its deck, the content file exists before the profile catalog names
it, the experiment file is complete before the job is created). `ShInv` says that a
shell inside start or stop holds the lock and which supervisors it may have running at
which stage. `ServiceAssumption` says that the deck catalog's limit is positive and
that there is a largest deck with a content to begin with.

### Only model-checked

- All liveness properties and everything with ENABLED: the prover has no rules for
  them.
- `PoolIndependent`: compares two runs of one experiment that are at different
  points, so its invariant is a simulation between whole runtimes. The parts it
  needs of one runtime are in `RunInv`; the simulation is not proved.
- `RecordsTrusted` as a whole: the part about documents that are let read is proved
  (`RouteDocumentsSafety`); that a damaged trace is found and that a single edit leaves
  the Route what it was enumerate the entries of a document.
- `SelectionsExact`, `ResultsOpen`: each relates an
  encoder to its decoder or a report to the recomputation of it, over sequences that are
  filtered and sorted by operators the prover treats as opaque. Their states are
  small and of many shapes, which suits TLC.

## 5. Behaviour worth knowing

Found while modelling; each was compared with the code and has no run of its own.

Jobs, workers and stores
- A late heartbeat overwrites the lease end of the next attempt
  (`storage/jobs.py:1102`; `docs/spec/v0.5.0/10_analytics_contracts.md:79`).
- A worker that lost its lease can fail the job the reclaim had put back
  (`desktop/lifecycle.py:692`; the same document, lines 80-81).
- A checkpoint whose progress is fixed at 0 is refused after an earlier higher one, which
  ends the supervisor (`desktop/lifecycle.py:876`;
  `docs/spec/v0.5.0/19_desktop_lifecycle_recovery.md:22`).
- A `schedule_retry` whose budget check is old can leave a job `retrying` with no
  attempt left; a cancel that meets the retry fallback makes the job `failed`; an
  export whose lease expires ends its supervisor thread or is quarantined when the
  search worker reclaimed it first.
- With two threads on one publisher root and a crash, one could unlink the other's
  committed files; the application has one thread per root.
- `enforce_timeouts` (`storage/job_recovery.py:372`) raises on an overdue cancelling
  job without a lease before it reaches the jobs behind it; only tests call it.

Snapshots and desktop
- A first activation does not notice a competing snapshot
  (`storage/parquet_lifecycle.py:1266`; `tests/test_parquet_lifecycle.py:109`,
  `docs/storage/20_parquet_backend.md:61`).
- The committed best route and the first of the ranking may differ
  (`engine/search/executor.py:184` against the ranking of `randomness.py:248`), and
  `job.result` then refuses the report (`desktop/service.py:2328`;
  `docs/spec/v0.7.0/00_scope.md:17` requires them to agree).
- `deck.profile.create` has no idempotency key, concurrent updates are
  last-writer-wins, `response_too_large` is reported after the effect, a composed
  experiment may carry a profile that is archived before it is enqueued, and a supervisor that
  refuses to stop leaves a worker behind after the lock is released.

Search and replay
- The candidate counts of a coverage certificate depend on the pool in MCTS
  (`docs/spec/v0.6.0/10_parallel_execution_contracts.md:39`); a prefix first replayed in
  a rollout and then expanded from the cache is a duplicate of itself; an
  incomplete beam layer marks expandable children "pruned".
- `max_replays` is passed when a prefix is replayed more than once: the limit is looked
  at between prefixes. `BudgetRespected` states by how much: depth-first and MCTS by
  less than one frontier's `replay_count`, a beam up to `max_replays * replay_count`
  (`engine/search/executor.py:1066`), since the slots of a layer count children.
- The children of an exact duplicate are not replayed, so an exhausted search may miss
  a higher peak on another way to a stop it knows; `ExhaustedBestIsBest` compares with
  what each stop has in itself: success and its score.
- With several threads on one adapter the attempts of replays mix
  (`prototype/frontier.py:232`), so `QuarantineExact` is checked with one.
- An offered action need not replay (`prototype/real_core.py:3555`;
  `docs/spec/v0.4.0/18_multi_turn_lifecycle_contract.md:45`): actions for sort, counter
  and announce requests lack an order or a value, and sums below their target are
  offered and then refused by the encoder. A prefix from elsewhere may outrun the end of the
  duel and is accepted.
- `OcgcoreBufferError` leaves the session "processing"
  (`docs/bridge/20_ocgcore_lifecycle.md:43`).
- A faithful replay in which one random event occurs twice is refused by its own check
  (`prototype/real_core.py:4112`; `docs/replay/30_randomness_and_io_trace.md:58`);
  exchanging two batches of which one draws nothing, and losing the last draw, pass.
- A Route whose list of interruptions is missing, or whose interruption records lack
  their status, is accepted by the validator (`route_dsl/validator.py:1129`, `1181`); the
  replay in a fresh worker finds it.
- A committed 0.4 beam or MCTS route is always refused by `experiment-replay`
  (`cli/cmd_experiment.py:380`; `docs/cli/10_operating_interface.md:12`); a failed
  verification leaves an older report at the path.

Interruptions and views
- Overlapping definitions pass validation and fail at run time; main-phase activations
  are counted but not suppressed, so `max_activations` can be exceeded
  (`docs/spec/v0.4.0/16_multi_interruption_composition_contract.md`).
- Attribution v2 numbers instances in creation order, so two-card sets never get subset
  coverage, and recovery is looked for only from the fork on.
- The terminal projection refuses hand and extra-deck cards (`terminal.py:137`;
  `docs/spec/v0.7.0/00_scope.md:44`); a board summary carries the complete state hash.

Bootstrap
- A build that is killed, and one whose `subst /D` is refused, keeps its drive mapped,
  and every later build refuses to start (`external/ocgcore.py:756`), although
  `docs/ocgcore/00_bootstrap.md:9` says that the build always releases its own mapping.
  `DriveReleased` holds with these two exempt, and `FreeAfterCompile` without exemption:
  no run gets past its compilation with a mapped drive.
- A copy into the source that is cut off leaves a broken source, which later runs
  reject and do not repair.
- A run that fails or is killed while it replaces the runtime may lose a
  working installation: the old tree is removed before the new one is copied. A run
  that ends earlier costs nothing (`external/ocgcore.py:251`; `InstallSurvives`).
- Nothing locks the install root; the model has one run at a time.

## 6. Not modelled

The effect DSL pipeline and the conversions between the route formats are functions
of their input: they turn text into documents, without state, retries or concurrency. The release
evidence scripts (`spikes/`, release gates) measure the program and are called by
nothing in it. The experiment schema beyond interruption definitions, the older route
formats, state hashing (taken as
injective), UCT arithmetic, the byte layout of messages, the layout of Parquet
files, disk preflight, process containment by the operating system, read-only catalog
queries, schema migration and the transition log, listing and card search of
the desktop, the renderer (a client with arbitrary requests), argument parsing of the
command line and the licence policy are abstracted or left out; `components` in
`PROJECT.json` says so part by part.

## 7. Plan

1. Done: the job system, snapshots and analytics, the desktop services, the search
   in its three modes and the parts beside it, the worker, the bridge and its
   protocol, traces, Route documents, verification, interruptions, views and bootstrap;
   the proofs of section 4.
2. Proofs worth having: the simulation behind `PoolIndependent`; `SelectionsExact` of
   the decision protocol.
3. Models worth having: `enforce_timeouts` as a loop that may raise half-way; several
   threads on one frontier adapter with a property that says what of the attempts
   survives.

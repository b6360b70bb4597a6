# Foundation Intelligence Platform: TLA+ models, model checks and proofs

This directory holds TLA+ models of the platform's backend (`src/src`), the TLC
configurations that check them on small instances, and theorems about them that
the TLAPS proof system checks for every size of the system. Every definition
that models code is listed in `PROJECT.json` under `map`, with the lines it
stands for. Paths below are relative to the repository's `src/` unless they are
file names of this directory.

## 1. Inventory

The platform is a FastAPI backend (`src/bff`) over a versioned PostgreSQL
database, a worker process that runs long jobs (`src/pipelines`), a migration
tool that loads a SQLite snapshot into PostgreSQL as a new dataset version
(`src/migration`), and a legacy SQLite mode of the same API.

| Component | State | Operations | Hard behaviour |
|---|---|---|---|
| Durable job tables (`bff/postgres/job_repository.py`, `pipelines/job_admin.py`) | `job_runs`, `job_events`, `job_dispatch_outbox`, `worker_heartbeats`, the hydration rows of `source_funder_profile_cache` | `enqueue`, `claim`, `heartbeat`, `succeed`, `fail`, `fail_expired`, `retire_jobs`, `mark_dispatch_*`, `queue_profile_cache` | concurrent transactions, late results after a lease ran out, no owner check, operator retirement |
| Worker process (`pipelines/worker.py`, `durable_worker.py`) | the held job, the lease-keeping task, the stop event | `run`, `run_once`, `maintain_lease` | kills and restarts, handler timeout, lost lease, an exception anywhere ends the process |
| Outbox dispatcher (`durable_worker.py`) | the list it read | `run_once` | publication that fails after delivery, two dispatchers with old lists, racing claims |
| Job handlers (`pipelines/worker_handlers.py`) | snapshot file, advisory lock | `full_run`, `source_funder_enrichment`, `registry_enrichment`, hydration | effects outside of the job's transaction, cancellation while a thread goes on |
| Dataset activation (`migration/sqlite_to_postgres.py`) | `dataset_versions`, `migration_runs`, link overrides | `migrate`, `rollback_dataset` | concurrent activations, rollback against activation, crash between load and activation |
| Source-funder links and profile cache (`bff/postgres/funder_repository.py`) | `source_funder_link_overrides`, `source_funder_profile_cache` | `relink`, `reset`, `queue_profile_cache`, `hydrate_profile_cache` | a link that changes, or a dataset that is switched, while a hydration is under way |
| Response cache (`bff/postgres/base.py`) | entries, flights | `get_or_create`, `retain_dataset`, `clear` | single flight, cancellation of a waiter, a loader that fails |
| Request idempotency (`bff/security.py`, `main.py`, `idempotency_repository.py`) | `idempotency_records`, the request's reservation | `reserve`, `complete`, `release`, the middleware around each handler | two requests with one key in two processes, lost commits, timeouts, a process that dies in a handler, an expired record |
| User administration (`bff/user_management.py`) | the Cognito user pool, access tokens | `create_user`, `update_user_role`, `disable_user`, `enable_user`, `reset_user_password` | several calls per mutation, each of which may fail; two processes that check before they write; tokens that outlive the role |
| Authentication and rate limit (`bff/security.py`, `auth.py`) | JWKS cache, rate-limit windows | verify, limit | key rotation, window edge |
| Source governance and retention (`governance/`, `governance_repository.py`) | holds, issues, retention plans | place and release holds, plan | a hold placed while a plan is made |
| Source controls and ingestion (`pipelines/durable.py`, `pipeline_repository.py`, `migration/database_access.py`) | source rows, ingestion runs, checkpoints, quarantine | `set_source_enabled`, `start_ingestion`, `complete_ingestion`, the release's insertion of missing rows | an administrator's switch while a release compares checksums |
| Shadow comparison (`transition/`) | pending comparisons, counters | submit, compare, drain | a bound on pending work, shutdown |
| Legacy pipeline (`bff/admin.py`, `pipelines/run_pipeline.py`, `data/db_loader.py`) | a lock file, a status file, raw files, the live SQLite file and its staging copies, subprocesses | `trigger_pipeline`, `claim_pipeline_run`, `run_pipeline_task`, `create_staging_database`, `publish_staging_database` | a stale lock found by two processes, commands that outlive the API, a live file that changes while its copy is worked on |
| Legacy links and caches (`bff/repositories.py`, `charity.py`, `db_loader.py`) | links of grants, derived facts and their marker, overrides, overview cache, profile cache | overview, `reset_source_funder_to_observed`, `relink_source_funder_profile`, enrichment, imports, hydration | six writers of one link, derived data trusted by a marker, answers stored after the change they miss |
| Legacy queries (`bff/repositories.py`, `news.py`, `proxy.py`) | - | queries | no state of their own |
| Scraping, enrichment and scoring (`scrapers/`, `preprocessing/`, `scoring/`, notebooks) | text and records | scrape, consolidate, enrich, score | sequential transformations |
| Read repositories, observability, frontend, infrastructure, CI | - | queries, counters | no state of their own |

How they interact: the API and the worker share nothing but PostgreSQL (and the
snapshot store, which only the worker writes). An API route enqueues a job in
the transaction of its request; the worker claims it, runs the handler, and
records the outcome in transactions of its own, so everything a handler does
elsewhere - a dataset activated, a snapshot published, a cache row written - is
outside of the transaction that says how the job ended. The serving queries read
the active dataset version and, for source funders, the link override and the
profile cache. In the SQLite mode the API and the pipeline share files instead:
the API starts the pipeline's commands as processes, both write the database
file, and each command ends by renaming its copy over it.

What makes each component correct is stated with its module in section 3; what
can go wrong, at the line where it bites, is the `hazards` list of
`PROJECT.json`.

## 2. Structure

The order follows what the platform can least afford to get wrong.

| | Modules | Proofs |
|---|---|---|
| 1. the job tables, and the life cycle they promise | `JobStore`, `JobLifecycle` | `DurableJobsProofs` |
| 2. the processes over them | `DurableWorker`, `OutboxDispatcher` | `DurableJobsProofs` |
| 3. the served dataset and its promise | `DatasetVersions`, `ServingDataset` | `DatasetVersionsProofs` |
| 4. links and cached profiles over datasets and jobs | `ProfileLinks` | `ProfileLinksProofs` |
| 5. what the handlers do outside of PostgreSQL | `SnapshotJobs` | `SnapshotJobsProofs` |
| 6. the response cache | `VersionedTTLCache` | `VersionedTTLCacheProofs` |
| 7. mutating requests, and user administration as their handlers | `RequestIdempotency`, `UserAdmin` | `RequestIdempotencyProofs` |
| 8. the SQLite mode: the pipeline over its files | `LegacyPipeline` | `LegacyPipelineProofs` |
| 9. the SQLite mode: links, derived facts and caches | `LegacyLinks` | `LegacyLinksProofs` |

Composition: `DurableWorker` and `OutboxDispatcher` extend `JobStore` (every
action of theirs on the tables is `JobStore`'s own transaction with the process
around it); `UserAdmin` extends `RequestIdempotency` in the same way. `JobStore`
implements `JobLifecycle`, `DatasetVersions` implements `ServingDataset`, and
`UserAdmin` implements `RequestIdempotency`: each is a PROPERTY of a run and a
theorem. That the processes of `DurableWorker` and `OutboxDispatcher` take only
steps of `JobStore` is a theorem as well, so what is proved of the tables holds
while they run.

One run answers one question; runs that would only repeat another with different
sizes are left out. A type invariant is checked where the types say something
about the code (`TypeOK`: allowances and statuses); those of the other modules
are parts of the inductive invariants that are proved.

What was planned and is not modelled, with the reasons, is in section 8.

## 3. Modules

Every definition has its source lines in `PROJECT.json`. Operators whose comment
begins with "Mutant" are not part of any specification: each changes one
definition the way a plausible bug would and shows that some property notices.

### JobStore

The tables `job_runs` (`status`, `attempt`, `request`, `lease`), `job_events`
(`events`), `job_dispatch_outbox` (`outbox`), `worker_heartbeats` (`beats`) and
the part of `source_funder_profile_cache` that names a job (`cache`). Each
method of `PostgresJobRepository` is one transaction at READ COMMITTED. Where
the first statement locks the row (`heartbeat`, `succeed`, `fail`,
`mark_dispatch_*`) or the statement is alone (`fail_expired`, `retire_jobs`) it
is one action. `enqueue` is three (lookup, insert, the second lookup after the
insert was refused) with `call` as its program counter, and `claim` is two (the
SELECT with SKIP LOCKED, whose lock is `claiming`, and the commit). Workers may
call anything on any job here, since the code compares no `worker_id`; the
claim discipline comes with `DurableWorker`.

What makes it correct: unique rows per key and per active dedupe key, also after
a retry put a running job back (`NoDuplicateJob`); the answer of `enqueue` is
the caller's job (`AnswerIsOwnJob`); terminal is terminal (`TerminalIsFinal`); a
final failure releases the cache row that waits, in the same step
(`FailureReleasesCache`); and the whole implements the small automaton of
`JobLifecycle`.

Abstractions: one queue; a lease is none, live or expired; the payload and its
validation, priorities and the order of the queue are left out (any claimable
row may be chosen); an active dataset exists whenever `enqueue` asks for one;
the retry delay of a job may or may not have passed.

### DurableWorker

`run()` and `run_once()` process by process: `wpc` is the program counter,
`mine` the held job, `beating` the lease-keeping task. Handler return, handler
failure or timeout, the join of the lease-keeping task, `succeed`, `fail` are
actions that contain the transaction of `JobStore`. A kill is possible anywhere;
an exception that leaves the loop ends the process too, which is what the code
does (`worker.py:66-82` has no handler). `performed` counts how often the
effects of a job were made.

Nothing in the tables names the owner of a running job. `OneExecutor` and
`EffectsAtMostOnce` hold for one reason: no transition
ever returns a job to the queue that a process may still hold (routes enqueue
with `max_attempts=1`, the worker always fails with `retryable=False`,
`fail_expired` never requeues). The mutant that requeues breaks both.

### OutboxDispatcher

`OutboxDispatcher.run_once` with its list (`due`), a queue that deduplicates by
job id (`delivered`) and may fail before or after it took the envelope, as the
confirmation may before or after its commit. The environment is enqueue and
claim. No process of the repository calls `run_once` in a loop; the worker polls
the table. So nothing is assumed of how often it is called, or that a call ends
(`Kill`), and no envelope is promised to be published. What is left, and what two
calls with old lists could really get wrong, is that they undo each other's marks
for ever: `EnvelopesComeToRest` says that they do not. `publish_attempts` is
unbounded in the code; `Counted` stops it at `maximum_attempts`, beyond which
nothing tells two counts apart, so that this is no bound of the run.

### DatasetVersions and ServingDataset

`migrate` from the look at an existing row to the exception handler, transaction
by transaction, for any number of processes; `rollback_dataset`; the link
override whose foreign key keeps a version from being deleted; `globals` stands
for the tables without a dataset version. `ServingDataset` is what the serving
queries may rely on: what is served is complete, and changes from one complete
version to another in one step.

Abstractions: the same source and code revision for every load of a version;
reconciliation is the comparison of loaded tables with all tables; the
optimistic check of the active row stands for the row lock and the unique index
of `_activate`. `Reuse` says whether a superseded version may be migrated again;
it is FALSE in the run, see section 7.

### ProfileLinks

One source funder. `relink`, `reset` and `queue_profile_cache` interleave
between their statements, hydration between its three transactions, with the
worker's outcome, the reaper, `retire_jobs`, activation and rollback of the dataset
between any two of them. A row of the cache is profile, status, payload, job
(`token`) and the revision of the link it was queued for. A job stands for its
key, and a request may come with any: `found` is the history of the jobs that a
request found under its key instead of creating them.

What makes it correct: a payload is of the profile of its row (`PayloadIsOfRow`;
it may be of another dataset, if one was activated during the hydration), no end
of a worker leaves a row waiting (`PendingHasWork`), and revisions identify links
(`RevisionsAreDistinct`, `RevisionTellsLink`).

### SnapshotJobs

`full_run` and the enrichments over one snapshot, under the advisory lock, with
the S3 store (one atomic put with its checksum) or the local store (two renames,
`worker_handlers.py:147-148`). A snapshot is the set of jobs whose work is in
it. A timeout cancels the handler and frees the lock, not the thread; `late` is
what that thread still publishes, if it does.

### VersionedTTLCache

`get_or_create` on one event loop, await by await: a hit, joining a loader,
becoming its first waiter, cancellation, the resumption of each waiter, eviction,
expiry and `retain_dataset`. The lock of the class is never held over an await
and therefore not contended. Time is counted in ticks of which a few pass.

### RequestIdempotency and UserAdmin

A record (`records`) per triple of actor, action and key. A request is two
parties: the middleware (`pc`: waiting, late, done) and the application's task
(`task`: reserving, handling, ended), which `BaseHTTPMiddleware` runs in a task of
its own. `wait_for(call_next)` therefore ends only the middleware's wait: after a
504 the task goes on, and its reservation may be made, its handler begin and take
effect when the record is complete (`late`) or when the middleware has left
without touching one (the timeout came before `idempotency_record_key` was set).
The answer decides between `complete` and `release`; each transaction may commit
and lose its answer. A crash and the expiry of a record may happen in between;
expiry does not happen under a request that is still at work, its handler
included (a day against seconds). `acted` is the history of which requests took
effect in the life of a record.

`UserAdmin` gives the handlers: each mutation is the list of calls the code makes
against the pool, each of which may be refused or fail. boto3 calls block, so a
process is in one handler at a time (`Busy`), and only handlers of two processes
interleave; the wait for a response does not run out between two calls, but it may
have run out before the handler begins. Tokens are issued to active administrators and stay valid when their
owner is disabled or downgraded. A password reset changes neither groups nor
Enabled, but it is a call that may fail after the reservation: the module has it,
the proofs cover it, and the run leaves it out of its mutations (with it the
state space doubles and no property of the run gets a new way to fail).

### LegacyPipeline

`claim_pipeline_run` file operation by file operation (`claim`: create, write,
read, judge, unlink, in two rounds at most), `run_pipeline_task` as `run`, with
the steps that the command of each mode takes on shared files (`Script`): load
and save of the raw files, clone of the live database, publication by rename.
`live` and `raw` are the sets of runs whose records they hold, and the users'
edits. A killed API process leaves its command running (`attended` becomes
FALSE), and a restarted one has the pid of its predecessor, as in a container. A
claim that cannot write its metadata unlinks the lock file, by name, and raises
(`AcceptFails`); a status that cannot be written is logged and stays the old one
(`Show`, for the runs in `Unshown`).

What makes it correct: claims exclude each other (`ClaimsExclude`), the status
file tells the run under way (`RunningIsShown`, of runs that are not in `Unshown`) and says "success" of what is
served (`SuccessIsLive`), nothing imported is lost (`ImportsStay`), an edit is
lost only between a clone and its publication (`OnlyLateEditsAreLost`), and the
lock is given back (`LockIsGivenBack`). `robbed` and `overlapped` are history
variables: they name the runs whose lock was unlinked by someone who had judged
another, and whether two commands were ever at work together, which the code
lets happen (section 7).

Abstractions: `refresh_grants` takes the steps of `refresh_charities`; `--fresh`,
which starts from nothing on purpose, and commands started by hand, which take
no claim, are left out; a claim takes no hours (`LockGetsOld` waits for it);
writing the metadata and the status and queueing the task is one step, since
nobody else reads between them what they change together; a process is killed
once at most.

### LegacyLinks

One funder in the SQLite mode. The database file (`db`, and `staging` for the
clone of an import) holds the links of its grants, the facts derived from them,
the marker that says the facts are current, a fingerprint of the grants (`data`),
the override, the row of the profile cache and the entry of the overview cache.
Every writer is an action: a rebuild on demand (`Open`), `Reset`, `Relink`,
`Enrich`, the consolidation, the full run, and the two caches' own. A
transaction that begins with BEGIN IMMEDIATE is one step; an overview request is
three (open, compute, store by a connection of its own), a hydration two.

`DerivedFactsAreCurrent` is the promise of the marker; `ResetIsRespected` that a
user's decision outlasts imports and rebuilds in everything derived;
`ReadyPayloadIsOwn` and `ServedOverviewIsCurrent` that the caches answer for what
they are asked.

Abstractions: what an overview computes from its grants is the links it saw; the
profile with the number in the funder's GB-CHC identifier (`consolidate.py:538`)
is `Own`, the only one that an import finds by itself; a full run rebuilds the
facts in its staging file before it publishes, by the overview request that
`backfill_database` makes there (`FullRun`, with or without the entry followed
here); the process-local memo of
the revision and the column `link_revision`, which is always 0, are left out.

## 4. Runs

| Run | Module | What it asks | Size |
|---|---|---|---|
| `job_store` | `MCJobStore` | the tables under two concurrent callers, a worker without discipline, reaper, operator, hydration | 559 K states, 1 min 40 s |
| `worker` | `MCDurableWorker` | two processes, one fault; safety, and that running jobs settle and queued jobs are taken | 210 K, 1 min |
| `dispatcher` | `MCOutboxDispatcher` | two dispatchers with old lists, kills anywhere; envelopes come to rest | 246 K, 15 s |
| `datasets` | `MCDatasetVersions` | three versions, three processes, one kill, rollbacks | 298 K, 15 s |
| `profile_links` | `MCProfileLinks` | two administrators, two queue requests with any keys, retired jobs, two datasets, one rollback | 4.0 M, 1 min |
| `profile_links_race` | `MCProfileLinks` | is what is served what is linked: a counterexample | seconds |
| `snapshots` | `MCSnapshotJobs` | two full runs, one enrichment, either store | 411 K, 10 s |
| `cache` | `MCVersionedTTLCache` | four requests, two keys of two datasets, one entry of room | 1.3 M, 30 s |
| `user_admin` | `MCUserAdmin` | three requests, four mutations, two processes | 1.0 M, 2 min |
| `legacy_pipeline` | `MCLegacyPipeline` | two API processes, a run of each mode, one with a status that is not always written, an edit, a kill and a restart; safety, and that locks are given back | 1.3 M, 2 min 30 s |
| `legacy_links` | `MCLegacyLinks` | two overview requests, a hydration, resets, relinks, enrichments and an import | 792 K, 1 min 30 s |
| `legacy_import` | `MCLegacyLinks` | does a cleared link stay cleared: a counterexample | seconds |

Bounds, and why they are enough:

- `MaxAttempts = 2` in `job_store` lets a retry happen, which the API never asks
  for; `MaxAttempts = 1` in `worker` and `dispatcher` is what every route passes.
- `MaxPublishes` (5 in the code) is 3 in `dispatcher`, so that two old lists, an
  envelope that is revived more than once and the dead letter all occur.
- One worker in `job_store`: claims that race are the matter of `worker`, where
  two processes select and commit; that open claims are valid is proved for any
  number.
- `MaxFaults`, `MaxKills` and `MaxRollbacks` are 1: one fault suffices to leave each
  component half-way, and the others complete around it. After it, the liveness
  runs ask for recovery.
- Three versions in `datasets`: an active one, its predecessor and a candidate is
  the least with which rollback and activation have something to disagree on.
- Two datasets, two administrators, two requests in `profile_links`: a race needs
  two of each.
- `MaxTime = 2` with a time to live of 1: an entry can be fresh, at its limit and
  expired. One entry of room and two keys: every store evicts.
- Three requests and four mutations in `user_admin`: a retry, a second actor, and
  a handler of another process between two calls.
- Three runs, one of each mode, and two processes of which one may be killed in
  `legacy_pipeline`: a claim, the claim that judges it, and a third that comes
  after either; one edit can be before, between and after clone and publication.
  `Unshown` is one of the runs: its status may fail to be written at its start, at
  its end, or at both.
- `MaxImports = 1`, two grants, two profiles, two overview requests and one
  hydration in `legacy_links`: one grant may be linked and the other not, one
  request may store what the other has seen replaced.

Deadlock is checked except where a run has a fixed number of requests or jobs and
stops when they are done (`profile_links` and its counterexample, `snapshots`,
`cache`, `user_admin`, `legacy_pipeline`). Symmetry is used only in runs without liveness.

## 5. Fairness

The assumptions, each for the liveness of one run:

- `WF(Progress(w))`: a worker process that can go on does, a dead one is started
  again. `run()` is a loop that polls (`worker.py:64-82`); the service supervisor
  restarts it. Faults themselves are never fair and are bounded.
- `WF(LeaseRunsOut(j))`: the clock moves. A lease that no lease-keeping task renews
  runs out; as long as one does, the action is disabled and nothing is assumed.
- `WF(ClaimStep(p))` and `WF(RunStep(r))` of `LegacyPipeline`: a claim is a few file
  operations in a row on the event loop; a command ends, because its network
  calls have timeouts, and the task of the API waits for it. `RunStep` of a run
  whose API process was killed and that has nothing left to do is disabled, and
  `LockIsGivenBack` says nothing of such runs.

No strong fairness is assumed, and nothing about which job a claim takes. What
`QueuedIsTaken` needs of the queue is that it is finite. `EnvelopesComeToRest` needs
no fairness: it says what cannot happen infinitely often.

## 6. Proofs

TLAPS checks eight modules, for any sets of jobs, processes, callers, keys,
versions, profiles, users and requests. The assumptions are those named at the
constants, which TLC evaluates in every run, and one that is stated in the
theorems that need it (`OneRunEach`). Each module states an invariant
that is inductive, shows that each action keeps it, and derives the properties
of the runs from it. The invariants are stronger than the properties for the
reasons given.

`DurableJobsProofs`, first part. The inductive invariant is `Inv == TypeOK /\ RowConsistent /\
OpenClaimIsValid`. None of the three is inductive alone: that a retry keeps
`attempt` within its type needs that the row is consistent, that a committed
claim keeps the row consistent needs that the claimed row is still queued, and
that an open claim stays valid needs the types. From it:

- `TypeCorrect`, `ClaimsAreValid`, `RowsAreConsistent`: the three parts;
- `TerminalJobsStay`, `FailureAlwaysReleases`: action properties, by cases on `Next`;
- `JobsAreUnique`, `AnswersAreOwn`: each inductive relative to `Inv`;
- `StoreImplementsLifecycle`: initial states map to initial states and each step to
  a step of `JobLifecycle` or a stutter; an absent job has no history
  (`NoHistory`), which the abstract insertion needs.

`DurableJobsProofs`, second part. To `Inv` it adds `WInv`: what a process holds is not in the
queue and is held by no other, what a process has seen of its handler agrees
with `performed`, and a heartbeat row that says "running" names a job that only
its process may finish. `OneExecutor` alone is not inductive: a claim takes only
queued rows, and that none of them is in some process is the other half of it.
Theorems: `WorkersUseTheStore` (`WSpec => Spec`), and with it
`WorkersFollowLifecycle`; `OneExecutorAlways`, `EffectsOnce`, `BeatsTellTruth`. The
third part does the same for the dispatchers: `DispatchersUseTheStore` and
`PublishedIsHandedOver`.

`DatasetVersionsProofs`. `DInv`: a process in front of its activation is the only
one that could serve its version, and from the check on that version is complete.
All theorems assume `OneRunEach` (no version is taken to activation twice, and no
two processes migrate one version), since without it the code serves incomplete
versions (section 7). `RunsTellTruth`, `GlobalsChangeAtActivation`, and
`DatasetsImplementServing`, the refinement to `ServingDataset`.

`ProfileLinksProofs`. `PInv`: no revision that a request or a worker carries, or
that stands in an answer or a row, is ahead of the override's, and one that
equals it comes from the link as it is (`AnswersAreBehind`, `ReadsAreBehind`,
`RowsAreBehind`). `PayloadsAreOfRow`, `RevisionsStayDistinct`, `RevisionsTellLinks`
follow; `PendingRowsHaveWork` strengthens with what a worker has still to do: a job
that is running has a worker that will release its row, succeed with it written
or find it replaced.

`SnapshotJobsProofs`. The holder of the advisory lock is the only job between its
download and its publication (`HolderWorksAlone`), and unless a thread was cut off
(`interrupted`), its copy is the file of the store with its own work. `WorkIsKept`
and `DatabaseIsCovered`.

`VersionedTTLCacheProofs`. `CInv`: what is in flight is a loader of its key, each
running loader is in flight, and what is in flight has a request that has not
come back. `LoadersRunAlone` and `ResultsAreTaken`, without any assumption on the
table. For the answers `FreshInv` adds the table (`TableFits`): bounded, one entry
per key, and each entry `Good`, that is, of a loader of its key that has ended
without an error and, unless a request has abandoned it, good for no longer than
the time to live from its end.
Entries are stored by waiters, so that this needs to know of a waiter that its
result is of the current tick (`RequestFits`); and a request that joins a loader
that has ended knows it only from the waiter that is still there, which is
`CInv`. `AnswersStayFresh` and `CacheTypes` follow. The table is rebuilt with a
recursive function (`Filter`); what it computes is proved by induction over the
entries (`FilterFacts`), from an induction principle for sets
(`SetInduction`, out of the well-foundedness of the natural numbers) and the proof
that the recursion has a solution (`FilterRecursion`).

`RequestIdempotencyProofs`. `RInv == RTypeOK /\ ResponsesFit /\ HolderIsAlone /\
HistoryFits /\ EffectOnce`. `ResponsesFit` says that a response under way comes
from a task that has ended, so that the 504 of a middleware whose handler is still
at work never releases the key. `EffectOnce` is not inductive: a handler adds its request to the
history, and that the history was empty follows from `HistoryFits` (what acted on
a key, acted under the record that is still there) together with `HolderIsAlone`.
Theorems: `RequestsInvariance`, `RequestsAreTyped`, `HoldersStayAlone`,
`EffectsAreMadeOnce`. Its second part is `UserAdmin`: `HandlersImplementRequests`
(`USpec => RSpec`), through which `AdministrationActsOnce` follows;
`AdministratorRemains` and `CompleteChangesLeaveOneRole` from an invariant that says
of a handler that runs alone what it has left to do - the calls that its user
still lacks, and none that would take the last administrator away.

`LegacyLinksProofs`. `LInv` says the same of the database file and of the staging
file (`Good`): where the marker is, the facts are the derived ones; where an
override stands, no fact shows a link; grants without a fact have no other link
than `Own` (`UnindexedAreOwn`), and links lead to profiles that exist
(`LinksAreReal`). The last two are what an import hands on to the rebuild and the
reset that come after it.
`FactsStayCurrent`, `ResetsAreRespected`, `PayloadsAreOwn`, `OverviewsAreCurrent`.

`LegacyPipelineProofs`. Two invariants. `LockInv` is about the lock and the
status file: a command that is at work has an end of its script left
(`ScriptsFit`); a claim belongs to one run in that stage and to a living process
(`ClaimsFit`); whoever got the lock has it, unless robbed (`OwnersHold`); and what a
claim is about to unlink belongs to a run that is under way no more, or was robbed
before (`JudgesRight`).
`ClaimsExclude` alone is not inductive: that a second claim does not get in while
a first is between its judgement and its unlinking needs that no lock gets old
while claims are open, that no run is claimed again under a lock that is judged
(`LockFits`), and that a restart under an old pid takes over no run. The theorems
are `JudgementsAreRight`, `ClaimsExcludeEachOther` and, inductive relative to it,
`RunsAreShown`. `LeftInv` adds that a lock that was lost does not come back and that
its run never claims again (`RobbedIsGone`), and gives `LocksAreNotLeft`, the safe
half of `LockIsGivenBack`: nobody leaves a lock behind but a process that was
killed, since the run a lock was made for always finds its own pid in it when it
releases. `FilesInv` is about the files, as long as no two commands were at
work together: the one command that is at work has read what the raw files hold
if it is going to write them back, its staging file holds the live imports and
those edits that it knew (`CommandFits`), and a run that ended well is live
(`OutcomeFits`). That an edit is new, hence unknown to every clone, and that a full
run reaches its publication only with something found, is what makes it
inductive. `SuccessesAreLive`, `ImportsAreKept` and `EarlyEditsAreKept` follow, the
latter two as action properties.

Of the properties of the runs, every invariant and every action property is
stated by a theorem. Only model-checked are `EnvelopesComeToRest`, whose argument
counts down, and the liveness properties (`RunningSettles`, `QueuedIsTaken`,
`LockIsGivenBack`): they rest on fairness and so on ENABLED, which TLAPS 1.4 does
not handle. The library's
induction theorems take an operator, which the provers cannot instantiate; the
one induction over data here goes by way of a set instead.

## 7. Findings and observations

Two runs show that the code does something else than the repository says;
`PROJECT.json` quotes each.

1. `profile_links_race`: a queue request that read the link before a relink
   committed writes its row afterwards; the unlinked profile is served.
2. `legacy_import`: the table of link overrides "prevents later imports from
   silently recreating that cleared link" (`src/data/db_loader.py:243`), but the
   import keeps the profile number that its raw record carries
   (`db_loader.py:693`). The grants are linked again; the facts derived from them
   are not, which is why `ResetIsRespected` holds.

Seen in the models, without a run of their own. Of the PostgreSQL mode:

- Two processes that migrate one version: the second empties the candidate the
  first has counted, and the first activates it (`sqlite_to_postgres.py:1018`
  looks at it no more, against `postgresql-migration-guide.md:37`). It concerns
  the command line: `full_run` gives each job a version of its own.
- A job that is timed out frees the lock while its thread still publishes
  (`worker_handlers.py:211` against `:189`), and replaces a later snapshot.
- Two administrators remove each other through two API processes
  (`user_management.py:204`, `:208`). Staging runs two
  (`src/infra/terraform/environments/staging/main.tf:18`).
- `queue_profile_cache` creates a job without the envelope and the first event
  that `enqueue` commits with it (ADR-018, `aws-postgres-decisions.md:124`).
- With `Reuse = TRUE`, a superseded version that is migrated again while an
  operator rolls back to it is deleted while served (`sqlite_to_postgres.py:534`).
- The exception handler of an activation whose report could not be written may
  mark a version failed that another has superseded meanwhile; rollback refuses
  it from then on (`:1173`).
- A failed job can have activated its dataset, for the same reason (`:1156`
  against `pipeline-storage-contract.md:16`).
- The cache row of another dataset is not invalidated by a relink and comes back
  with a rollback (`funder_repository.py:976`); its revision gives it away.
- `retire_jobs` leaves a cache row waiting for a job it cancelled
  (`job_admin.py:82-96`), and a queue request that finds the ended job of a used key
  leaves one waiting for that (`funder_repository.py:1046`), where
  `customer-handover.md:921` calls "a terminal job with a cache still in `pending`"
  a backend defect. `PendingHasWork` exempts both by name.
- The result of a loader that nobody waits for stays in flight and may answer a
  much later request (`base.py:59`); `AnswersAreFresh` exempts it by name.
- A 4xx after an effect gives the key back (`spoilt`, exempted by `EffectOnce`);
  `create_user` and `update_user_role` can do so when a later call is refused.
- A user left with two roles cannot sign in (`security.py:387`) and still counts as
  an active administrator.
- A reservation whose commit was lost blocks its key until it expires.
- Reservations are per actor, `job_runs` keys are not: the same key of another
  actor is answered with that actor's job.
- The refusal text after a race of three requests may speak of a different body.
- In the local store, a crash between two renames leaves a snapshot without its
  checksum; the next download refuses it.
- A lease-keeping task that dies of a database error surfaces at the join: the
  effects are made, `succeed` is skipped, the job is reaped as failed.
- The release task compares checksums of the source rows before and after its
  insertions (`database_access.py:1257`); an administrator who switches a source
  in between makes it stop although nothing was overwritten.

Of the SQLite mode:

- Two processes that judge one stale lock: the second unlinks the lock that the
  first has just taken (`admin.py:116`, against the comment at line 113), and both
  run the pipeline. Likewise a release after such a loss, and a claim that lost its
  lock and fails to write its metadata (`robbed`).
- A killed API leaves its command at work, without a claim once the lock is
  judged dead, and the status at "running". After a restart with the same pid the
  lock seems to be the new process's own and every trigger is refused until
  somebody removes it.
- What users change between a clone and its publication is lost
  (`db_loader.py:562`): `OnlyLateEditsAreLost` says that nothing else is. A relink to
  another profile is overwritten by imports.
- An overview computed before a relink or a publication and stored after it is
  served under the same revision (`repositories.py:2884`), and a confirmed
  enrichment does not clear the overview cache (`charity.py:559`);
  `ServedOverviewIsCurrent` exempts both by name.
- A reset or relink before the facts are rebuilt misses the grants that are not
  indexed yet.
- A hydration reports "ready" although its last UPDATE may find no row.
- A profile cached for another profile's link may survive an import.

## 8. Not modelled

- Authentication and the rate limiter: the limiter's look and append are under
  one mutex, and the key cache reloads once per request that finds it old. Both
  would be restated by a model, not checked.
- Source controls and ingestion evidence: single transactions; nothing but tests
  calls the ingestion part.
- Governance and retention: plans are dry runs, and deletion is disabled in the
  configuration, so nothing acts on what a plan has read.
- Shadow comparison: it answers no request and changes no data.
- Read repositories, routes and the queries of the SQLite mode: SQL and
  formatting that change no state. They are by far the largest part of the
  source (`bff/repositories.py` alone has 7 853 lines, of which the writers of
  links and caches are in `LegacyLinks`).
- Scraping, preprocessing, enrichment, scoring, and the notebook
  (`philea.ipynb`, 58 070 lines of cells and output): sequential computation on
  text and records.
- Database roles and release checks: sequential configuration under one advisory
  lock.
- Frontend, Terraform, scripts, metrics: no state of the backend.

Of the modelled components: the status queries of the job tables, `clear` and
the counters of the response cache, the body hash of a reservation, listing of
users, the conversion of values in the migration. The process-local
`IdempotencyStore` of the SQLite mode behaves like `RequestIdempotency` with one
process.

# Vector Lake: a verification of its ingestion, its store and its read side

Vector Lake turns raw text files into a wiki. A scan of `raw/` queues ingest
jobs in SQLite; a worker hands each job to a model runner as a task packet; the
runner's answer is finalized into canonical tables; an outbox brings the
Markdown files and the search index in step with these tables; projections
(full-text rows, a Tantivy copy, vectors, n-grams, a timeline) answer searches.
Several processes and threads share the database, the files and a few locks,
and any of them may stop at any moment. This project models these parts in
TLA+, checks them with TLC, and proves with TLAPS every invariant and every
action property that the runs find to hold; liveness is left to TLC.

Paths below are relative to `src/`; `db_store.py` stands for
`vector_lake/db_store.py`, and so on. `PROJECT.json` lists the components, the
hazards with their lines, the runs, and for every definition the lines it
stands for.

## 1. Inventory

| Component | State | Operations | Hard behaviour | What makes it right | Modules |
|---|---|---|---|---|---|
| Ingest job table (`db_store.py`) | `jobs`, `ingest_abandoned_sources` | enqueue, two kinds of claim, hand-off, fail, release, finalize, expire, close, clear | claims outlive their lease; rows take over each other's idempotency key | one live job per content, one committer, bounded attempts | `JobTable`, `IngestJobs` |
| Dispatch worker (`ingest_worker.py`) | a claim in memory | `process_jobs` | crash between claim and hand-off, source edited meanwhile | no job is left lying | `IngestJobs` |
| Ingest finalization (`tool_ingest.py`) | packet, `processed_files`, pages | build the packet, check, compose, commit with callback | everything it read may change before the commit | nothing is overwritten unseen; the ledger says what was ingested | `IngestJobs`, `Finalization` |
| Ingest runner (`scripts/ingest_runner.py`, `ingest_execution.py`) | slots, backend circuit and its file | claim, call, repair, report | parallel slots, a pause that passes while calls are out | a paused backend is left alone | `IngestJobs`, `RunnerPool` |
| Raw scan and in-flight ledger (`tool_ingest.py`, `tool_sync.py`) | `processing.json`, three ledgers | scan, mark, enqueue, record; sweep | views of different moments, crash between mark and enqueue | no source is forgotten or stuck, but where the second hash records an edit | `RawScan` |
| Raw watcher (`watchdog_app.py`) | dirty bit, debounce times | events, drain in a pool thread | event during the last batch, shutdown | every accepted event is scanned | `RawDrain` |
| Mutation coordinator (`mutation_coordinator.py`) | page locks, canonical tables | `execute_mutation_batch` | several locks; commit, then projection | file and index show canonical text | `PagePublisher`, `MutationOutbox` |
| Mutation outbox and consumer (`db_store.py`, `watchdog_app.py`) | `mutation_outbox` | enqueue/bind, claim, project, publish, complete, fail | rows revived by digest (A, B, A), leases, two consumers | completed means visible | `MutationOutbox` |
| Runtime health gate (`runtime_health.py`) | reads the others | assess, enforce | may block the writers that would repair | -- | a guard of `MutationOutbox` |
| Wiki watcher and hand edits (`watchdog_app.py`) | pending pages, debounce | classify, queue, canonicalise | a person and a projection write one file | every edit ends canonical, reported, or dropped by a named cause | `WikiEdits` |
| Index generation, clustering (`indexer.py`, `scripts/community_clustering_daemon.py`) | `index.json`, `wiki_search_index`, graph files | update, rebuild, sync, cluster | several stores, several publishers | stores follow the canonical pages | `IndexPublication` |
| Page index projection (`page_index_projection.py`) | SQLite rows with a stamp | refresh, heal, read | three transactions, readers in between | stamped rows are the contents | `IndexPublication` |
| Tantivy mirror (`tantivy_index.py`) | intents, control row, incarnations | seed, replay, acknowledge, clear, search | lost or replaced index, late acknowledgement | an answer is the one the table gives | `TantivyMirror` |
| Canonical governance store (`governance_store.py`, ...) | review queue, aliases, claims | append, resolve, merge | snapshot saved whole | no item is lost or decided twice | `GovernanceQueue`, `OperationalMemory` |
| Operational memory and gram index (`memory_gram_index.py`) | memories, conflicts; n-gram base, dirty marks | commit, resolve, rebuild, search | a rebuild beside writers and other rebuilds | a usable index that no overlapping rebuild published is exact | `OperationalMemory`, `GramIndex` |
| Search and query (`tool_search.py`, `two_stage_index.py`, ...) | request, caches, snapshots, shared calls | search a page, pin, lend, share a call | pages change and deadlines pass between two reads | complete means that nothing was dropped | `SearchRequest`, `QueryFlight`, `VectorViews` |
| Embedding scheduler (`embedding_scheduler.py`) | clients, quota rows, vectors and digests | borrow, reset, reserve, backfill | clients closed while in use; clocks read before a lock | limits hold, vectors belong to their input | `EmbeddingClients`, `EmbeddingQuota`, `Embeddings` |
| Timeline projection (`tool_timeline.py`) | `timeline_events`, parity cache | delta, rebuild, repair, search | read first, write later | the rows follow the claims | `TimelineProjection` |
| Deletion, rename, merge, collection (`tool_delete.py`, ...) | pages, raw files, ledger | list, copy, commit in batches | tools work from what they read | references that could be read follow, a doomed page was doomed | `PageRemoval`, `GovernanceQueue` |
| Controlled recompile (`controlled_recompile.py`) | plan, request, markers | plan, request, batch, defer, validate | files and jobs change after the approval | only what was approved is recompiled | `ControlledRecompile` |
| Backups and retention (`backup_retention.py`, ...) | backup units | publish, seal, verify, prune | crash and corruption under pruning | a verified copy stays | `BackupRetention` |
| Schema upgrade (`db_store.init_db`) | tables, triggers, ledger of prunes | fast and full path, prune, fill, repair | fast path beside full path, stops and lost locks between them, tables a removed release makes again | who is past it can rely on the tables | `SchemaUpgrade` |
| Orphan memory archive (`scripts/repair_orphan_memory.py`) | archive, journal | freeze, apply, restore, refresh | a stage fails half way; pages return | no memory is lost or doubled | `MemoryArchive` |
| Process supervision (`thread_supervision.py`, `runner_supervision.py`, ...) | gate, lock, record, processes | spawn, probe, restart, stop | kills, orphans, numbers used again | one consumer | `RunnerSupervision` |
| Lint, doctor, maintenance | -- | reports, one-shot repairs | -- | -- | not modelled |
| Schema and purpose contracts | -- | validation of text | -- | -- | an outcome of the models |
| CLI and MCP server | -- | entry points | -- | -- | not modelled |
| Rust core | -- | numeric kernels | -- | -- | not modelled |

How they interact: the raw watcher and `periodic_catch_up` call the scan; the
scan writes `processing.json` and `jobs`; the worker and the runner claim rows;
finalization is a mutation batch whose callback moves `processed_files` and the
job row in the same transaction, and which clears the marker afterwards; the
batch writes the outbox; the consumer reads the outbox, writes files and index;
publication of the index drops vectors and leaves intents for the mirror, and
sweeps fill them again; searches read all of these without a lock; the health
gate reads the outbox and admits or refuses the next batch.

## 2. Plan

Every component that keeps state of its own has a model. What is left:

1. An invariant and a proof for the lock order of `MutationOutbox` (hazard at
   `mutation_coordinator.py:60`). The runs have one page, so no two locks are
   waited for crosswise and no property covers that hazard yet; nor the two at
   `watchdog_app.py:415` (a batch of edits of which one is refused) and
   `community_clustering_daemon.py:281` (index lock against page locks), whose
   steps are modelled and whose interesting cases need larger instances.
2. A composition of `Finalization` with `MutationOutbox` -- the callback of a
   batch as one transaction -- if the state space allows.

## 3. Modules

Conventions. A transaction under `BEGIN IMMEDIATE` is one action, and so is
what a process does while it holds a lock nobody else passes; steps of a
process between two of these are actions of their own, and what it read stays
in its local variables. A crash forgets what is in memory and frees file locks,
as the operating system does. Definitions with a suffix after an underscore
(`Leasable_NoRecovery`) are faulty variants of the definition they are named
after: a property is known to fail when the variant takes its place, and no
specification uses them. Counters named `Max...` bound what the environment
does and appear in guards only.

**`JobTable`** (abstract). Per content (path and hash) one job that is live,
failed, spent, done or dead, and the two ledgers. `IngestJobs` implements it,
`RawScan` is built on it.

**`IngestJobs`** has one row per job with the columns the code decides on.

| Code | Model |
|---|---|
| `enqueue_job(..., replace_terminal, supersede_finished)` | `Enqueue` (`Holders`, `KeyTaken`, `NewRow`) |
| `claim_pending_jobs`, `refresh_ingest_dispatch_payload`, `mark_job_awaiting_subagent`, `fail_dispatch_claim` | `WorkerClaim`, `BuildPacket`, `HandOff`, `FailDispatch`, `LoseDispatch` |
| `claim_subagent_jobs` | `RunnerClaim` |
| `finalize_ingest`: callback and precondition | `Finalize` |
| `record_ingest_failure` / `release_job_for_retry` | `Reject` / `Release` |
| a claim that is no longer current | `LoseDispatch`, `LoseLease` |
| `mark_file_processed` by a scan; `_forget_processed_file` after a deletion | `RecordSource`, `ForgetSource` |
| `expire_stale_subagent_jobs`, `close_terminal_failed_jobs`, `clear_abandoned_sources`, `reset_jobs.py` | `ExpireStale`, `CloseTerminalFailed`, `ClearAbandoned`, `ResetDispatched` |

Owner, token and generation of a lease are drawn and cleared together, so the
generation with "a lease is held" stands for all three. A dispatch claim is
recognised by `lease_until` and `updated_at`; both are new with every claim and
are modelled as one number. Time is abstract: leases lapse, backoffs end.
`Enqueue` and `RecordSource` accept any content, for the scan may have hashed
the file long ago; which contents a scan really brings and records is
`RawScan`'s concern.

**`RawScan`** adds to `JobTable` the markers with their two ages, what a scan
has read and found, and the sweep's three steps. A file is judged on the scan's
views and on its bytes now. A published source without a ledger row takes three
steps, as in the code: the verdict (`ScanFile`), a second hash (`ScanHash`) and
`mark_file_processed` with it (`ScanRecord`); the history variable `misrecorded`
keeps the contents that were recorded although no page was made from them.
Several scans may be under way. Equal `mtime` and size is taken for equal content,
as the code does. **`RawDrain`** is what starts scans: `RawWatchdogHandler`
with its leading-edge debounce, the dirty bit, the pool thread that drains in
batches and looks again, and shutdown.

**`Finalization`** looks inside one job: the packet with the baselines the
dispatch read, the checks of `finalize_ingest` against it, the composition
outside of any lock, and the commit with its version checks, while raw files,
pages and Markdown change. Queue and leases are those of `IngestJobs`, seen
here as "the finalizer whose lease is current". **`ControlledRecompile`**: plan
and request of an operator, batches, deferral behind ordinary jobs,
`validate_marker` at handoff and commit.

**`RunnerPool`**: the slots of the pool with their repair rounds, and
`BackendCircuit` with its file; how long a lease or a call lasts is not in it.
**`RunnerSupervision`**: watchdog, supervisors and consumers as processes that
are spawned, probed, killed and orphaned; the gate, the consumer lock and the
record; numbers are used again. Their specifications carry the prefixes `Pool`
and `Owners`, so that `MCDaemons` can extend both.

**`PagePublisher`** (abstract) says what publication promises: a batch changes
canonical pages, and file and index of a page only ever move to the canonical
text of that moment. **`MutationOutbox`** has the canonical text, the file and
the index entry of each page, the outbox rows by idempotency key (page and
payload digest), the page locks, and the phases of writers (gate, locks in page
order, transaction, projection page by page, release) and consumers (lease all
claimable rows, project each under its lock, lock all ready pages, check again,
publish, complete or fail). The gate is `runtime_health`'s verdict on the
outbox in its default setting.

**`WikiEdits`** composes `MutationOutbox` with people, the watcher and
`canonicalise_manual_edits`; its actions are those of the outbox, taken in the
rounds of `index_worker_loop`, plus its own.

| Code | Model |
|---|---|
| `WikiIndexHandler.queue_path` | `Notice` (classification), `QueuePath` (debounce), `NoticeBlind` (the classification raised) |
| `index_worker_loop` | `turn`: `DaemonDrains` / `DaemonIdle`, `DaemonTakes`, `DaemonReturns`, `DaemonSkips` |
| `canonicalise_manual_edits` | `EditRead`, `EditSkip`, `EditRefused`, `EditFails`, then `EditPlan` / `EditAborts` with the actions of writer `Editor` |
| end and start of the watchdog | `DaemonRestarts` |

The file and the outbox are read in one step by `Notice`; in the code they are
two reads, but a verdict on a file that changed in between only adds a queue
entry, and the change itself causes an event of its own. `hand`, `reported` and
`missed` are history variables.

**`IndexPublication`**: `index.json`, the search rows and the SQLite rows that
readers prefer, published by the consumer, the scheduler, the clustering daemon
and operators; the index lock covers publishers only. The rows are refreshed in
three transactions and trusted by stamp, count and digest. **`TantivyMirror`**:
every change of the search table leaves an intent in its transaction; workers
replay intents in durable steps; a search uses the copy between two equal
readings of the control row. **`GramIndex`**: triggers mark documents, a
rebuild stages, packs and publishes by digest in scratch tables that all
rebuilds share; a search trusts the base only while nothing is marked. `overlap`
and `mixed` are history: two rebuilds met, and such a rebuild published the base.

**`VectorViews`**: `query_view` pins a snapshot, `ram_candidate_index` lends it
a matrix cached for the process, found again by a stamp of the connection.
**`EmbeddingClients`**: the lock regions of `_ClientManager`. **`EmbeddingQuota`**:
`MinuteRateLimiter` over clocks that are read before the write lock is
obtained. **`Embeddings`**: sweep and operator's backfill against publication,
rebuilds, failures and a change of model. **`QueryFlight`**: requests with the
same query share one provider call -- registry, owner, followers, cache,
cancellation.

**`SearchRequest`** is one call of `search_vector_lake`: three arms, each a
read of what matches and a later judgement by the selectors, widened until
enough pages pass (`_filtered_recall`); fusion with the nodes the text arm kept
and those read now; expansion along the graph in batches, judged twice; the
pool with its cap on sources; the evidence that is shown; and the status that
`retrieval_runtime` records. Any read may fail, the deadline may pass before
any step, and nodes and files change. Every order of the scores is possible:
the properties may not depend on ranking.

**`GovernanceQueue`**: the review queue, saved whole under one file lock, with
merges that rewrite pages and record aliases in the transaction that decides
the item. **`OperationalMemory`**: memories made from claims, conflicts and
their resolution, rebuilds. **`TimelineProjection`**: delta with the claims,
passes that read first and write later, searches with a cached parity proof.
A delta clears the rows of claims that are in the table `claims` only (`Ours`).
**`PageRemoval`**: deletion of a source, rename and collection as listings,
copies and batches, with other writers and stops; a deletion passes over pages it
cannot read. **`MemoryArchive`**: freeze, apply, restore and refresh-triggers,
beside pages whose memories are written anew (with a fresh rowid), deleted with
the page, or left behind by an earlier release. **`BackupRetention`**: publication,
sealing, verification and pruning. **`SchemaUpgrade`**: `init_db` with fast and
full path, prunes, gap-fill, repair of keys and the write lock. All processes are
of this release, on a database of any earlier one; of a removed release there is
one step, which makes a table again that was dropped (`Revive`). The indexes on
generated columns come in two groups, because the json indexes on `entities` are
dropped whatever happened (`entityJson`) and those on `operational_memory` only
if their replacement is there (`retired`).

**Instances.** `MCIngestJobs` and `MCTimeline` instantiate one model; `SchemaUpgrade`,
`RunnerPool` and `GramIndex` are also checked as they are. `MCIngestion` (scan, drain, rows), `MCDaemons` (edits,
pool, processes), `MCOutboxViews` (outbox, views, search), `MCProjections`
(mirror, index, grams), `MCEmbedding` (clients, quota, backfill, flights) and
`MCStore` (nine parts) put models that share no state side by side: `part` is
chosen in the initial state, the other parts stay frozen at one initial state,
so a run checks each model completely and no product of them. `StoreParts`,
`ProjectionParts` and `EmbeddingParts` put models side by side for TLC and for
the proofs alike and state what these promise together; that is why names
differ from model to model (`QueueInit`, `GramNext`, `ftsRows`).

## 4. Runs

Deadlock checking is off: the environment of every instance is bounded, so when
its edits, faults and kills are used up the system may have stopped for good.

| Run | What it asks | Instance |
|---|---|---|
| `ingest_jobs_safety` | are claims, budgets, keys and ledgers right, and do the rows implement `JobTable`? | 1 path, 2 contents, 1 worker, 2 slots, 2 rows, 3 attempts (as in the code), 2 leases of a row, 2 upsets; symmetric |
| `ingestion` | is every accepted event scanned, every source handled, every marker released, no job left lying? | 1 path, 2 contents, 2 attempts, and either one scan with 2 upsets or two scans at once with none; drain: 2 files, batch of 1, 3 edits, 1 fault; rows: 1 content, 2 workers, 1 slot, 2 rows, 2 attempts, 2 leases of a row, 1 upset |
| `daemons` | hand edits, the runner's pool, the processes | edits: 1 page, 1 good and 1 bad text, a writer and the editor, 1 consumer, 2 edits, 1 write, 1 upset; pool: 2 tasks, 2 slots, failure limit 2, 2 tries, 1 repair, 2 faults; processes: 2 services, 2 consumers, 1 start by hand, 2 kills |
| `outbox_and_views` | publication; vectors under a reader; one search | outbox: 1 page, 2 texts, 2 writers, 2 consumers, 3 batches, 2 attempts, 2 upsets; views: 2 pages, 2 values, 2 models, 2 queries, 2 writes; search: 2 pages, depth 1, cap 2, pool 2, quota 0 or 1, 1 change, 1 fault; symmetric |
| `projections` | what mirror, index and grams answer, and that they come back | mirror: 2 keys, 2 texts of which one is too big, 1 worker, 2 attempts, 2 writes, 1 upset; index: 2 pages, 1 write, 1 upset; grams: 2 documents, 2 grams, and either 1 rebuilder, 2 writes, 1 crash, or 2 rebuilders, 1 document at first, 1 write, no crash, searches for one gram |
| `embedding` | clients, quota, vectors, shared calls | clients: 2 threads, 1 administrator, 2 keys, 3 objects, 2 resets, 1 failure; quota: 2 processes, window 4, lock wait 1, 2 requests, 3 tokens, 9 ticks; backfill: 2 pages, 2 texts, 2 models, 1 edit, 1 upset; calls: 2 requests, 2 queries, capacity 1, cache of 1, 3 calls, 1 cancellation |
| `store` | schema, backups, records, sources, pages | nine parts; 2 processes, 1 fault, 1 bypass and 2 stops (schema); 4 units of which 2 are kept and 2 may go bad (backups); 2 items and 4 keys (queue); 3 claims on 2 pages (memories); 2 claims with 3 wordings (timeline); 1 source, 1 target, 2 versions, 2 finalizers; 2 sources in 2 scopes (recompile); 2 memories, 2 operators, 3 upsets (archive); 1 write beside a deletion, rename or collection |
| `ingest_jobs_dead_key` | finding 1 | 1 path, 2 contents, 1 worker, 1 slot, 2 rows, 2 attempts, 2 leases of a row, 2 upsets |
| `gram_overlap` | finding 2 | 2 documents, 2 rebuilders, 1 write, no crash |
| `runner_converges` | finding 3 | 1 task, 1 slot, failure limit 3, no fault |
| `gap_fill` | finding 4 | 2 processes, 1 bypass, no fault, no stop |
| `timeline_cache` | finding 5 | 2 claims, 2 wordings, 1 searcher, 1 keeper, 2 rewrites |

Why these bounds are enough to be interesting. Two rows let a key be taken
over once (every run of the job table has two); three attempts are a first, a
middle and a last one; where two are used there is still one that is not the
last. Two slots, consumers, finalizers or operators are the smallest number for
a claim that was lost to somebody else, and two leases of a row the smallest for
a claim that is issued again; two resets or writes are the smallest for A, B, A. `MaxUpsets` counts what the program does not schedule -- edits,
crashes, leases that lapse under a claimant at work, transient conflicts,
operator commands; a lease whose holder is gone lapses without being counted.
One upset is one such event between any two steps. In the search, 2 pages with a
depth of 1 and a cap of 2 force one widening and allow the cap to be met, and a
pool of 2 with a quota of 1 makes the arms compete. In the backups, four units
with two kept leave two to remove, and both kept ones can go bad. With one path,
a scan's batch is never cut (`RawScan` models the cut; `RawDrain` exercises it
with two files and a batch of one). The safety properties with a theorem do not
depend on any of these bounds (section 5); for the others the bounds are the
limit of what is shown.

### What the properties say

*Jobs.* `OneLiveJobPerContent`: never two rows that would both be paid for.
`SingleCommitter`: of all slots that remember a claim one can commit.
`BudgetHolds`, `AbandonedWasSpent`: attempts are bounded, and a content is given
up with a spent row as evidence. `ClaimsAreExclusive`,
`HistoryStays`: what no step may do to a claim and a finished row.
`JobsEndInTheLedger`: a row becomes finalized only together with the ledger row
of its content, while the file holds that content; the ledger itself also moves
without a job, when a scan records a published source or a deletion forgets one. `ImplementsJobTable`: seen through keys, there is one
job with one budget per content. `JobsSettle`: no job
is left lying: it ends or is handed out again. That it ends is not claimed, for an
attempt that is given back is not counted (finding 3).

*Scan and drain.* `NothingForgotten`, `EventsAreScanned`: an accepted event is
covered by the dirty bit or by a scan that still has to look, and is looked at.
`EverySourceIsHandled`: what a file holds is in the end what its Source page was
made from, given up, or left to an operator who closed its job. The code has two
more ways out, which the property names: a job of the file that is given back
for ever (finding 3), and a content that a scan recorded as processed although no
page was made from it, because the file changed between the verdict and the
second hash (section 6). A ledger row by itself counts for nothing.
`MarkersAreReleased`, `AbandonedStops`: no marker keeps a source out for ever, and
what was abandoned is not asked for again, unless its one last dispatch is given
back for ever.

*What keeps running.* `CompletedOrEdited`: a completed row is visible unless a
person changed the file since. `OnlyEditsUnlessUpset`: without interruptions
what the loop commits as an edit is one. `EditsSettle`: every edit ends
canonical, reported, or dropped by a named cause. (The case of one page that is refused while
others of its batch wait does not occur with one page.) `OneLastCall`: after the
failure that pauses a backend a slot begins at most one more call.
`OnlyOwnerReopens`: a pause survives the process. `OwnersAreClear`,
`ConsumerStaysThere`: one consumer, one supervisor in the record, and a consumer
that is there again after kills end.

*Publication and reading.* `OutboxIsSound` (`OutboxMatchesCanon`,
`CompletedIsVisible`, `OneClaimant`) and `PublishesOnlyCanon`: the outbox agrees
with the canonical tables, completed means visible, files and index only move
to canonical text. `ViewsAreSound`: a query scans the vectors of its own
snapshot (`LeaseIsTheView`) and one matrix is in memory (`OneMatrix`).
`RequestsAreSound`: a search returns pages as they were judged
(`ReturnedAsJudged`), calls itself complete only when no arm dropped a match
(`CompleteMissesNothing`), fills its pool by the rules (`PoolIsFair`) and keeps
the text arm when another fails (`TextSurvives`).

*Projections.* `IntentsCover`, `ProjectionsAreSound` (`StoresFollowCanon`,
`GramIsExact`), `AnswersAreCurrent`: whatever a projection does not know is
covered by an intent, a mark or a stamp that keeps it from being believed. Two
exceptions are the code's and are in the formulas: stores that a repair, a heal
or a refresh left behind because a publication overtook it (`torn`), and a gram
base that overlapping rebuilds published (`mixed`, finding 2); the next rebuild
that meets no other makes that base exact again. `ProjectionsSettle`: each is
served again after the last fault, the grams where one process rebuilds.

*Embeddings.* `ClientsAreSound`: clients in use are open and of the last reset,
two exist at most, one thread closes each. `TablesAreTrue`: no window of quota
is overdrawn (`WindowHolds`), a stored vector's digest is that of its input
(`StampIsTheInput`), a registered call is the one call for its query and has an
owner who takes it out (`FlightsAreSound`). `ShutdownDrains`,
`VectorsSettle`: a stop ends with all clients closed; vectors come and every
caller gets an answer.

*Store.* `SchemaIsSound`, `BackupsAreSafe`; `RecordsAreSound` (`QueueIsSound`,
`MemoryIsSound`); `SourcesAreSound` (`PacketsAreTrue`, `RecompileIsSound`);
`PagesAreSound` (`TimelineFollows`, `ArchiveIsSound`, `ReferencesFollow`); and,
of steps, `StoreStep`: `UpgradeStep`, `BackupStep`, `RecordStep`, `LoserStep`,
`FinalStep`, `RecompileStep`, `TimelineStep`, `ArchiveStep`, `RemovalStep`. Their
conditions are those of the code: a retired index goes only while its replacement
is there, but the one on `entities` goes also when a failed statement has left
the replacement out (`UpgradeStep`); tables of removed releases are gone unless
such a release made them again (`LedgerIsTrue`); a rewrite of a claim heals the
rows of that claim if the claim was in the table (`TimelineStep`); after the
deletion of a source no page cites it that the tool could read and that nobody
else wrote meanwhile (`ReferencesFollow`).

### Which parts can fail

`PROJECT.json` names one variant for each property of a run. A property that
joins several models has parts which that one variant does not touch; each of
the variants below takes the place of its definition in one model, and TLC then
finds the property violated in the same run.

| Property | Part | Variants that violate it |
|---|---|---|
| `StoreStep` | `UpgradeStep` | `Pruned_Always` |
| | `BackupStep` | `Verified_Published` |
| | `RecordStep` | `Unlocked_Always` |
| | `LoserStep` | `Impacted_New` |
| | `FinalStep` | `Required_Asked`, `Evidence_NoBytes`, `Relatable_Offered` |
| | `RecompileStep` | `Base_Now`, `Valid_Marker` |
| | `TimelineStep` | `Synced_ById` |
| | `ArchiveStep` | `SameScope_Ids`, `Free_Always` |
| | `RemovalStep` | `Uncopied_None` |
| `SchemaIsSound`, `BackupsAreSafe` | | `Complete_Tables`; `Retained_Once` |
| `RecordsAreSound` | `QueueIsSound`, `MemoryIsSound` | `IsNew_Trusting`; `Impacted_Old` |
| `SourcesAreSound` | `PacketsAreTrue`, `RecompileIsSound` | `SameText_Hash`; `Skipped_ByRequest`, `Deferrable_Busy` |
| `PagesAreSound` | `TimelineFollows`, `ArchiveIsSound`, `ReferencesFollow` | `Ours_Full`; `SameScope_Ids`; `CommitFirst_Any` |
| `ProjectionsAreSound` | `StoresFollowCanon`, `GramIsExact` | `PageLocks_FirstPhase`; `Accounted_Live`, `GramUsable_AnyBase` |
| `ProjectionsSettle` | mirror, index, grams | `Trusted_ByPhase`; `StartHeal_ByMarker`; `BeginRebuild_Keep` |
| `OutboxIsSound` | `OneClaimant`, `OutboxMatchesCanon` | `ClaimCurrent_AnyGeneration`; `Bound_OldRevision` |
| `ViewsAreSound` | `OneMatrix`, `LeaseIsTheView` | `Held_Never`; `Stamp_Size` |
| `TablesAreTrue` | `WindowHolds`, `StampIsTheInput` | `Counted_Short`; `Digest_Now` |
| `EditsSettle` | edits, outbox rows | `Managed_ByPage`; `Claimable_NoRecovery` |

### Fairness

Weak fairness for what a loop of the program does again and again: the worker
thread (`start_worker`), the runner's cycle (`next_cycle_delay`), the outbox
consumer (`index_worker_loop`), the catch-up loop (`catch_up_loop`), the sweeps,
the delivery of file events, and the steps of a process that has begun
something. Weak fairness for time: leases lapse, backoffs and cooldowns end,
markers grow old, the calls of a provider and of the model end by their
deadlines, waits of the supervisors have timeouts, a dirty gram base is due
after an hour. A job that a slot has claimed is answered, and how is left open:
accepted, refused, given back or dropped (`Answer`, `Answered`); no verdict of the
model is assumed. Strong fairness only for page locks: a waiter polls a file lock
and a consumer comes back after a timeout, so a lock that is free again and
again is obtained. A process is assumed to get the gram
index rebuilt only where it is the only one that rebuilds. Nothing is assumed of enqueueing, edits, operators,
successes of the model, or the expiry of markers.

### Findings

1. *`close_terminal_failed_jobs` keeps the idempotency key*
   (`db_store.py:3760`). A later scan of that content is answered with the dead
   row for ever, which is what the documentation of `enqueue_job` says must not
   happen.
2. *Two rebuilds of the n-gram index share their scratch tables*
   (`memory_gram_index.py:528`). One drops what the other staged, and a base
   without these documents is published as complete.
3. *A failing repair call costs nothing* (`scripts/ingest_runner.py:266`): the
   attempt is given back and the failure forgiven by the next first answer, so
   such a source is asked for again for ever, while the comment at line 91 says
   that it converges.
4. *The gap-fill of the fast path is never committed* (`db_store.py:1646`): it
   runs outside of `transaction()`, holds the write lock, and is rolled back
   when the process ends.
5. *The fingerprint of the timeline's parity cache misses rewrites*
   (`tool_timeline.py:151`): counts, row numbers and extremes can all stay as
   they were while the set of events changes.

## 5. Proofs

Eight modules `..._proofs` hold proofs that TLAPS checks, for every value of
the constants that satisfies the named assumptions below. The assumptions are
what the code's own settings satisfy (a positive limit, a finite set of pages,
names that are not values), they stand in the models, and TLC evaluates them in
the runs that extend these. Each proof has the same shape: an inductive
invariant, one lemma per action that it is kept, and theorems that follow from
it.

| Module | Assumptions | Theorems |
|---|---|---|
| `IngestJobs_proofs` | `AttemptsAssumption`, `BoundsAssumption`, `NoHashAssumption`; `BatchAssumption` | `TypeCorrect`, `Inductive`, `OneLiveJob`, `OneCommitter`, `Budget`, `Abandoned`, `History`, `ExclusiveClaims`, `JobsEndRecorded`, `ImplementsTable`; `NothingIsForgotten` of `RawDrain` |
| `MutationOutbox_proofs` | `PagesAssumption`, `OutboxAssumption`, `NamesAssumption` | `OutboxInductive`, `OutboxSound`, `ImplementsPublisher` |
| `WikiEdits_proofs` | the three above, `EditsAssumption` | `EditsInductive`, `EditsSound`, `EditsOnly` |
| `Runner_proofs` | `SettingsAssumption`, `NumbersAssumption` | `PoolInductive`, `PoolTyped`, `PoolSound`, `OwnerReopens` of `RunnerPool`; `OwnersInductive`, `OwnersClear` of `RunnerSupervision` |
| `Search_proofs` | `MirrorAssumption`, `ViewsAssumption`, `IndexAssumption`, `GramAssumption` | `MirrorInvariant`, `IntentsAlwaysCover`, `AnswersStayCurrent` of `TantivyMirror`; `ViewsInductive`, `ViewsAreAlwaysSound` of `VectorViews`; `StoresAlwaysFollowCanon` of `IndexPublication`; `GramInductive`, `GramIsAlwaysExact` of `GramIndex`; `ProjectionsAreAlwaysSound` |
| `SearchRequest_proofs` | `SearchAssumption` | `RequestInductive`, `RequestsAreAlwaysSound` |
| `EmbeddingClients_proofs` | `ActorsAssumption`, `BoundsAssumption`, `QuotaAssumption`, `BackfillAssumption`, `FlightAssumption` | `ClientsInductive`, `ClientsSound`; `WindowAlwaysHolds` of `EmbeddingQuota`; `BackfillInductive`, `StampIsAlwaysTheInput` of `Embeddings`; `FlightsAreAlwaysSound` of `QueryFlight`; `TablesAreAlwaysTrue` |
| `Store_proofs` | `BoundsAssumption`; `UnitsAssumption`, `BackersAssumption`, `KeepAssumption`; `QueueAssumption`; `MemoryAssumption`; `FinalAssumption`; `RecompileAssumption`; `TimelineAssumption`; `ArchiveAssumption`; `RemovalAssumption` | `SchemaInductive`, `SchemaSound`, `UpgradesKeep`; `BackupInductive`, `CopiesAreSafe`, `OnlyVerifiedGoes`; `QueueInductive`, `QueueIsAlwaysSound`, `RecordsStand`; `MemoryInductive`, `MemoryIsAlwaysSound`, `LosersAreNamed`; `FinalInductive`, `PacketsAreAlwaysTrue`, `FinishesHold`; `RecompileInductive`, `OneRecompileAtATime`, `BudgetIsAlwaysShared`, `RecompilesHold`; `TimelineAlwaysFollows`, `TimelineStepsHold`; `ArchiveInductive`, `ArchiveAlwaysSound`, `ArchiveStepsHold`; `RemovalInductive`, `ReferencesAlwaysFollow`, `RemovalStepsHold`; `RecordsAreAlwaysSound`, `SourcesAreAlwaysSound`, `PagesAreAlwaysSound`, `StoreStepsHold` |

No theorem uses the fairness of its specification. Where several models share a
property (`RecordsAreSound`, `ProjectionsAreSound`, ...), the theorem takes
their specifications together. No theorem has a hypothesis besides the
assumptions. `GramIsAlwaysExact` speaks of any number of processes that rebuild;
what it does not promise is a base published by rebuilds that met, for which it
would be false (finding 2).

**Jobs.** `OneLiveJobPerContent` is not inductive: `Enqueue` looks at the
holders of a key only, so a live row without its key would get a sibling. The
invariant `IInv` says that a live row holds its key (`LiveIsKeyed`) and that a
key has one holder (`OneHolder`); that no process remembers a claim number which
its row has not issued, and no two the same number of one row (`RunnerNumbers`,
`WorkerNumbers`) -- a number is issued once because it only grows, which makes
the comparison of generations a fence; that ids above `rows` are unused; and
`BudgetHolds` with `AbandonedWasSpent`. The proof does not visit all actions for
each part: `RowStep` lists what any step may do to one row, `NextRowStep` proves
it of every action, and the parts follow from it. `ImplementsTable` then maps
each step to `JobTable`. With `OneHolder` the job of a content is that of *the*
row that holds its key (`JobOfHolder`), a step that takes no key moves only the
jobs of the rows it changes (`HoldersStay`, `LiveRowMoves`), and each action is
looked up: a claim of a failed row is a retry, a failed dispatch or a stale
packet a lost attempt, an answer an acceptance, rejection or deferral, a
superseding enqueue a fresh budget; hand-offs, leases, resets and time are
stutters. `BudgetHolds` is needed there: it is why a lost attempt lands exactly
on the cap.

**Drain.** `NothingForgotten` is inductive with the types: what waits is covered
by the dirty bit until a scan begins, by the scan until it has looked, and, when
its batch was full, by what is left over.

**Outbox.** A page has one last revision, revisions are never given twice
(`Revisions`), no two consumers remember one generation of one row
(`Generations`), and what a claim that still holds has made ready is shown
(`ReadyIsShown`). So what a claim lets a consumer write is the canonical text,
and what it completes it has shown. `ImplementsPublisher` maps every step of
writers and consumers to a step of `PagePublisher` or to none. The invariant
`OutboxInv(h)` excuses the files of a set `h` of pages, which somebody else may
have written: it is empty here and not in the next proof.

**Edits.** People write files beside the outbox, so `h` is `hand`, the pages a
person wrote last. Every step of `WikiEdits` is a step of the write path, one
that touches neither tables nor files, an edit by hand, a read of a file for a
batch, or a restart (`ProgramKeeps`, `AsideKeeps`, `HandEditKeeps`,
`EditReadKeeps`, `RestartKeeps`); a projection takes its page out of `hand`, and
writes what the page's last row carries. That gives `EditsSound`. `EditsOnly`
needs more: as long as nothing was interrupted, a page with a row shows its
text unless a person wrote it or its writer is between commit and file
(`Undisturbed`), and a writer that is there holds the page's lock
(`WriterHolds`). So a thread that gets the lock and finds a text that is not the
page's own finds a person's. The condition is needed: a writer that crashes between
its commit and the file leaves an older text of the page there, which the thread
takes for an edit (TLC finds that behaviour when the condition is dropped).

**Pool.** While a process lives, no step takes the count of failures from its
limit; hence a slot that is late in a pause has passed its check before it, and
is late once (`LateOnce`). The lemmas on `Reports` say what the steps of one
process do to the circuit and its file; `Saved` relates the two across a crash,
and gives `OnlyOwnerReopens`.

**Supervision.** The two file locks carry the argument: who is through the gate
has it, who got the consumers' lock has it (`GateIsHeld`, `LockIsHeld`), the
processes that only probe included, for a probe that ended would otherwise give
back what is not its own. `RecordIsTheOwners` ties the record to the gate.

**Clients.** A generation that is new or handed out is the only one of its kind
(`OneFresh`), a thread in a request is among its borrowers, and what is closed
is on the list of the one thread that took it out of use (`Closers`).

**Backups.** The lock makes passes exclusive (`OneBacker`). The hard part is a
pass whose retained copies go bad after it chose: what it holds then was in its
hand when the last one went (`Hand`, `Blind`), and it chooses nothing more, so
one copy is the most that can be lost.

**Schema.** `SchemaIsSound` is not inductive because a command returns at once
in a process that remembers the database; the invariant adds that whoever
remembers it, or is past its DDL, finds the tables and columns (`Initialised`),
and that `schema_migrations` is true. Indexes are best effort, so nobody is
promised them; `UpgradeStep` says under which conditions one may go.

**Queue.** Who is inside the lock has the table itself as its snapshot, and what
a producer scanned before the lock decides nothing (`Holding`); so what is saved
whole differs from the table by the change that was meant. A merge, its alias
and the mark on its item are one transaction (`MergesAreOnRecord`).

**Memories.** The claims of one slot have a highest rank (`HighestExists`); the
invariant says that each slot has one winner of that rank (`WonIn`), that the
memories follow the claims, and that facts are never superseded.

**Finalization.** A text that was queued for a hash which was no longer the
file's is `torn`; every other packet is about one version, and what a finalizer
has composed comes from the packet of its job (`Composed`). **Recompile.** A
request is bound to its plan (`BoundToPlans`), and a source has one job that is
not finished, over all requests (`Alone`), which is why the attempts of all of
them come out of one budget.

**Timeline, archive, removal.** `TimelineFollows` and `ArchiveIsSound` are
inductive with their types and, for the archive, with two facts: rowids of live
and of archived rows are apart (`Apart`) -- a memory that is written again gets a
fresh one, larger than all (`BoundGrows`) -- and who has prepared a mode has seen
a whole archive (`Readied`). A rewrite of a claim heals the timeline rows of a
claim that was in the table, and `TimelineStep` says no more. A tool that removes pages holds listings that may be
old: the invariant speaks of the pages nobody else wrote since it began
(`AsRead`, `AsCopied`) and that it could read, which is what `ReferencesFollow`
promises.

**Mirror.** What a worker has in hand is right relative to the epoch it was read
in: its items are the rows they were read from as long as they carry the
generation of the queue (`ItemOK`), and what it acknowledges is on the disk of
that incarnation (`AckAt`). `CoverOK` says where a seeding may still miss rows,
`TokenOK` and `RowsReadOK` what a search may conclude from two equal readings of
the control row.

**Views.** A snapshot is an earlier database, and one with the counter of the
database has its contents (`SnapshotsOK`); hints and bindings name a counter, so
each is right of every database it can be asked about.

**Search.** `RequestFacts` follows the request from step to step. An arm that has
read fewer rows than it asked for has all its steady matches that pass among
them, whatever changed since (`RowsHaveAll`): so it may stop there, and what it
drops when it stops elsewhere is either noted, or the deadline that will be noted
has passed (`MissedIsNoted`). Each page that was kept passes in the node it was
kept with (`KeptAsJudged`), and the text arm's nodes are taken over by the fusion
unchanged (`TextIsFused`). The pool is the long part: the first pages of a set
are all of it or as many as were asked for (`FirstIsAll`, `FirstAreFew`), one
filling of the pool adds at most its capacity, exceeds neither the cap on
sources nor leaves room while a page it may take is left (`FilledIs`), and two or
three fillings, one after the other, keep this for the whole (`PoolOfIs`).

**Index.** Who writes stores holds the index lock; a consumer holds the locks of
its batch to the end, so a page of it does not change under it. What each job
has read and has done is stated for each place in its list of steps
(`WhatItHas`, `WhatItDid`). The full-text rows are those of `index.json` except
while a publisher is between the two (`FtsHolds`), and the rows for readers are
those of `index.json` where they carry its stamp (`RowsHold`). A repair, heal or
refresh that was overtaken leaves its mark in `torn`; the properties except
exactly these stores.

**Grams.** Rebuilds that have not met are alone (`Apart`). What such a rebuild
has read of a document that is not marked is its text, because every write marks
(`Staged`), so what it publishes is exact (`BaseIsExact`). Where rebuilds met
(`overlap`), nothing is claimed of their tables, and a base they publish is
`mixed` until a lone one replaces it. What a rebuild may still publish of a
document is known to each search that met no mixed base, or the search skips the
document (`Foreseen`, `SearchKnows`).

**Quota.** Every admitted request that still counts has a row that was stamped at
most `LockWait` before it (`Covered`), so the requests within a window fit one to
one into rows the limiter counted when the last of them was let through. The
sums are folds over sets: that an element may be taken out first, that more
elements sum up to no less and that an injection keeps the sum is proved by a
smallest counterexample (`UsedTakes`, `UsedGrows`, `UsedFits`).
**Backfill.** `StampIsTheInput` is inductive with the types.
**Flights.** Who has a flight in its hands has one of its own, registered until it
leaves (`Owning`); what is registered or pending has such an owner
(`Registered`, `PendingOwned`). The calls under way map one to one into the
registry, whose size the capacity bounds.

What the proofs changed in the models: `PacketsAreTrue` was false for a file that
changes four times (A, B, A, B, A) until `Finalization` recorded how a text was
queued (`torn`); `Attempts` and `Spent` of `ControlledRecompile`, `Extract` of
`OperationalMemory`, the steps of `IndexPublication` and the cache of
`QueryFlight` were written anew in terms that can be reasoned about, and so was
`SearchRequest`, over sets and ranks where it had filtered sequences.
`TextSurvives` was false for pools of one entry, whose cap admits no source
(section 6); it now excepts them.

Only model-checked: liveness and everything about `ENABLED`, which this prover
cannot do (`JobsSettle`, `EventsAreScanned`, `EverySourceIsHandled`,
`MarkersAreReleased`, `AbandonedStops`, `EditsSettle`, `ConsumerStaysThere`,
`ProjectionsSettle`, `VectorsSettle`, `ShutdownDrains`), so all that the runs
ask of `RawScan`.


## 6. Not modelled, and what was noticed

Left out of the models: `requeue_legacy_ingest_jobs` and the `ingest_recompile`
rows in `IngestJobs`; the statuses `completed` and `cancelled`, which no current
code writes for ingest jobs; what a model answers and what validation rejects
(an outcome); pages without a stamped source hash; ledger rows with impossible
historical checksums, which are skipped until somebody acts; a change of a file
that keeps size and modification time; payload retention of the outbox;
heartbeats and restart limits of the watchdog's threads; ranking and scores;
author and entity facets; the search ledger; the `merge` command and the pruning
of change sets; lint, doctor, contracts, the entry points and the Rust core. A
runner's record whose number an unrelated process has taken blocks every start
(`ingest_backend.py:277`); it fails closed and is not modelled.

Things that came up while the models were written, and that no run states:

*Ingestion.*
- Verdict and ledger record of a scan hash the file twice
  (`tool_ingest.py:1748`): an edit in between is recorded as published, although
  nobody ingested it. `RawScan` records such a source in `misrecorded`, and
  `EverySourceIsHandled` excepts it.
- `_job_is_terminal_unsuccessful` (`db_store.py:3274`) looks at the status only,
  so attempts are not counted across rows: a scan after a marker expired starts
  a fresh budget.
- A job whose file changed from A to B and back between the scan's hash and the
  payload's text is refused until its budget is spent, and content A is
  abandoned although the file holds A. A packet of a contract before 10 is
  finalized without the raw hash check.
- Finalization loses a change of frontmatter without a version that is made
  between its check and its commit (comment near `tool_ingest.py:1271`); a
  source may be run again when it is finalized between the ledger read and the
  enqueue (`tool_ingest.py:1880`, harmless).
- The observation columns which a scan adds to old ledger rows
  (`tool_ingest.py:1726`) and the row that `delete_source` forgets are in
  `IngestJobs` (`RecordSource`, `ForgetSource`) and not in `RawScan`, whose
  scans compare content hashes only and whose files are not deleted.
- The debounce of the raw watcher is leading-edge: an event within three seconds
  of the last is dropped (`watchdog_app.py:239`), and only catch-up finds it.
- One source whose calls always fail pauses the backend for all.

*Publication and edits.*
- A writer that stops between commit and projection leaves the older projection
  on disk; if its event is still on the way, it is committed as a hand edit
  (`watchdog_app.py:408`). Without interruptions this cannot happen
  (`OnlyEditsUnlessUpset`).
- A refused edit does not keep its file: a row committed before it and carried
  out after it overwrites it (`watchdog_app.py:348`).
- Failed outbox rows close the write gate (`runtime_health.py:76`, `:88`); an
  operator has to retry them. The comments there disagree about whether this is
  meant.
- Dispatching evidence again resets a batch that was resolved
  (`evidence_gap_dispatch.py:257`, against the docstring at 239-243).

*Projections.*
- The adjacency cache is stamped with the new `index.json` while the edge rows
  are still old, and stays stale if the number of edges is equal
  (`page_index_projection.py:739-765`, against 729-734).
- The marker of the embeddings is written for mixed models (`db_store.py:2636`,
  against `embedding_scheduler.py:1118-1119`).
- `claim_index.evidence_gap` (`db_store.py:534`) has no probe for staleness.
- Timeline rebuild and repair write what they read before their transaction. A
  row that one of them writes for a claim removed meanwhile survives the claim's
  re-creation, which heals rows of claims in the table only
  (`tool_timeline.py:208-219`).

*Search.*
- With a quota as large as the pool, `_fill` gets capacity 0 and still takes one
  entry, so the pool holds one more than its size (`tool_search.py:1820-1842`,
  against the comment at 1813).
- The legacy profile's cap on sources is `int(0.6 * pool)`: with
  `VECTOR_LAKE_CANDIDATE_POOL=1` it is 0, no source enters the pool, and a search
  that found only sources answers with nothing (`tool_search.py:1813-1819`).
- When the deadline interrupts the metadata read of the vector arm, the error is
  not the one its handler guards (`tool_search.py:1682`): the whole request
  fails, where the note would say that the lexical path is kept. The connection
  has to be tracked, which is so for `assemble_context` with a scope.
- The chunk index cuts after 128 fused candidates, and `assemble_context` at its
  budget (`tool_search.py:2263`, `2290`), both without a note.
- An asynchronous interrupt between the registration of a shared call and its
  `try` would leave it registered; a cancelled owner's exception is raised in
  its followers.

*Store.*
- The duplicate test of `bulk_reconcile` compares fields no item has
  (`tool_bulk_reconciliation.py:86-91`).
- When the page of a conflict's winner is deleted its losers stay superseded
  (`db_store.py:2763-2767`, as `tests/test_operational_memory.py:111` expects).
  No extractor records a contradiction, and nothing calls `publish_change_sets`.
- `repair_idempotency_keys` keeps the smallest of random job ids, so a live job
  can lose its key; and the advice "re-run init_db()" near `db_store.py:930` does
  not work, because the fast path does not create the index again.
- `idx_entities_page_key` is dropped whether or not the index that replaces it
  could be made (`db_store.py:1114-1128`, `2078-2094`); `_prune_om_json_indexes`
  looks first (`db_store.py:1167`).
- `delete_source` passes over a page that it cannot read or parse
  (`tool_delete.py:62-65`) and still deletes the raw file which that page cites
  (`tool_delete.py:144-150`).
- Tools write without an expected version: rename may overwrite a page created
  meanwhile, a deletion may leave new dangling links, and the recovery point of
  `delete_source` may lack what was written after the copy
  (`tool_delete.py:103-119`); a crash between `os.remove` and
  `_forget_processed_file` leaves the row for ever.
- Apply of the memory archive does not ask whether the triggers are current;
  afterwards restore and refresh are both refused.
- The rollback records of the pointer prune are not flushed before its commit,
  and its dead set may be stale; the anchors' line index is of an earlier read
  than the baseline of the swap.

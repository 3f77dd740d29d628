# AI-Lake: a TLA+ model of its protocols, jobs, caches, clients and searches

AI-Lake is a table format for vector data: Parquet files with an index inside,
listed by Iceberg-style snapshots that a catalog publishes. There is no central
server. Writers, compactions, index builders and readers in different processes
meet in an object store and in a catalog, and what keeps them from losing each
other's work is a handful of protocols: conditional puts, fenced leases,
compare-and-swap of a metadata pointer, retry loops, job records, lists of files
that are read, changed and committed. This directory models those protocols, the
server and the client interfaces around them, and the algorithms a search runs.

`PROJECT.json` lists the components, runs, seeded faults, the source lines behind
each definition, findings, hazards and theorems in machine-readable form.

## 1. The system and its parts

| part | source | modules |
| --- | --- | --- |
| lock leases of an object store | `ailake-store/src/{object_store_backend,store}.rs` | `Lease`, `FencedLease` |
| local store: lock files, non-atomic puts | `ailake-store/src/local.rs` | in `HadoopCatalog`, `IndexJobs` |
| optimistic catalogs | `ailake-catalog/src/{jdbc,glue,rest,manifest_commit}.rs` | `TableLog`, `OccCatalog` |
| Hadoop catalog | `ailake-catalog/src/hadoop.rs` | `TableLog`, `HadoopCatalog` |
| DuckLake catalog | `ailake-catalog/src/ducklake.rs` | `DuckLake` |
| Nessie branches | `ailake-catalog/src/nessie.rs` | `NessieBranches` |
| tokens, rotating secrets | `ailake-catalog/src/{rest,nessie}.rs`, `ailake-secrets/src/lib.rs` | `Credentials` |
| index jobs | `ailake-query/src/{index_jobs,writer}.rs` | `IndexJobs` |
| table maintenance | `ailake-query/src/{writer,delete,dv,equality_delete,compaction,memory_decay,backfill,migration}.rs` | `TableMaintenance` |
| write buffers | `ailake-query/src/mem_table.rs` | `MemTable` |
| search, sessions, row fetches | `ailake-query/src/scanner.rs` | `SearchQuery` |
| ranking, fusion, pruning | `ailake-query/src/{scanner,bm25,pruner,bloom}.rs` | `Ranking` |
| change feed | `ailake-query/src/cdc.rs` | `ChangeFeed` |
| HNSW graph and its visited set | `ailake-index/src/{hnsw,serialize}.rs` | `Hnsw`, `VisitedTracker` |
| distance kernels, quantization, IVF-PQ | `ailake-vec/src/{distance,pq}.rs`, `ailake-index/src/ivf_pq.rs` | `VectorIndex` |
| circuit breaker, caches, rate limiter | `ailake-cache/src/lib.rs` | `CircuitBreaker`, `QueryCache`, `RequestGuard` |
| HTTP server | `ailake-cli/src/serve.rs` | `ServeInstance`, `CompactionJobs`, `RequestGuard`, `QueryCache` |
| C, Python and command-line interfaces | `ailake-jni`, `ailake-py`, `ailake-cli` | `ClientCalls`, `EmbedCommand` |

How they interact: maintenance operations list files through a catalog, put new
files in the store, and commit through the catalog; a catalog's commit uses the
store's conditional puts or its locks; index jobs use a lease of the store as
their run lock and commit patches through the catalog; the server holds an
instance lock, runs compactions and index jobs as background tasks, and puts
admission, caches and the circuit breaker in front of store and catalog; the
interfaces call all of it from threads of a host or from separate processes.

What makes it hard, and where each hazard bites, is the list `hazards` of
`PROJECT.json`. In short: every operation is a read followed by a write with other
processes in between; locks are leases that expire under their holders; requests
can be carried out with their answer lost, or arrive after their caller has gone;
tasks can be dropped at any await and processes can stop at any instruction; and
several reads treat an error as "nothing there".

## 2. Modules

The composition is by contract. `FencedLease` shows that the conditional puts
implement `Lease`; `IndexJobs` has the lease as its variable and is shown to
change it only as `Lease` allows; `ServeInstance` uses the lock by what `Lease`
promises. `OccCatalog` and `HadoopCatalog` show that the steps of a commit
implement `TableLog`; `TableMaintenance`, `ChangeFeed` and `SearchQuery` then take
a commit to be one step, and `ClientCalls` takes a maintenance call to be its
list, its work and its commit.

`MC...` modules make instances for TLC. Each holds several specifications; a variable
chosen in the initial state (`catalog`, `focus`, `part`) says which of them moves, and
the others stay as they begin. `...Proofs` modules hold the theorems. Each module
starts with a comment that says what its variables stand for. Definitions that end in
`_Wrong` are seeded faults: each is a definition with a plausible bug, used to show
that a property notices it. No specification refers to them.

### How actions correspond to code

* `FencedLease`: an operation is `HeadLock`, `GetFor...` and a conditional put,
  each a step. The put is either acknowledged, refused, or abandoned: the request
  may then still arrive (`OrphanArrives`). `lock_tokens` belongs to a process and
  not to a client, as `remember_lock` and `forget_lock` have it.
* `OccCatalog`: `Begin`, `Load`, `PutManifest`, `PutManifestList`, then `Swap`,
  `SwapUnacknowledged` or `Conflict`. The constant `Guard` says what the swap
  compares: `"location"` for Jdbc and Glue (the metadata the call has read),
  `"refs"` for Rest (the last snapshot, or the current schema; the server then
  applies the change to its own metadata).
* `HadoopCatalog`: mutex, store lock, read of the hint and of the metadata, a
  second read of the hint in `save_metadata`, put of the metadata, put of the hint
  (in two steps on `LocalStore`), release. `create_table`, `evolve_schema` and
  `drop_table` go through the same steps without mutex and lock.
* `DuckLake`: the file lock (not waited for), the connection mutex, the transaction of
  the lake and that of the sidecar tables are steps; create and drop go statement by
  statement (the inserts of the properties, one per key, are one step). `cut`
  remembers which calls were torn, so that properties can say what still holds then.
* `Credentials`: the token cache and the secret are read outside the mutex, checked
  again under it, and the mutex is held across the fetch. Time passes during
  requests, and the requests of Rest end within their timeout.
* `NessieBranches`: `get_branch`, then a request with the hash it returned.
* `IndexJobs`: a fenced write is two steps, the check of the fence and the put,
  because the code has an await between them. `request_cancel`, `retry` and
  `recover_after_restart` write without a fence. Listing the files for a patch and
  committing the Replace are two steps, and a sibling task that patches another shard
  (`SiblingLists`, `SiblingCommits`) may come between any two.
* `TableMaintenance`: each operation lists the files, puts new ones, in some cases
  lists again (`Relist`), commits, and deletes what it has replaced. `overtaken` and
  `undone` remember that a Replace went over what its client had not seen, or over
  equality deletes.
* `CompactionJobs`: `mutate_job` holds the lock of the job and is one step; reads
  outside of it are steps of their own. `prune` lists first and deletes later.
* `CircuitBreaker`: the mutex is held while a call is let in and while a result is
  recorded, and not in between, so results arrive in any order.
* `QueryCache`: the local mutex is held for one step; Redis, the store and the
  catalog are awaited, so another request may run between any two of them.
* `RequestGuard`: reserve a permit, count each dimension (one round trip each when
  Redis is used), handle, release; the request may be dropped at every await.
* `ServeInstance`: `run()` stage by stage, the renewal task, shutdown, crash, and
  the probe tasks that searches spawn.
* `ClientCalls`: an entry point is the sequence of its steps (lock, load, list,
  put, commit, answer) in the order of the code. One interpreter runs the
  sequences of all threads; a panic unwinds to the boundary of the interface. A
  deferred write or compaction spawns a task that lists and commits on its own, under
  neither `jni_table_lock` nor the interpreter lock.
* `EmbedCommand`: parent and child with two bounded pipes.
* `MemTable`: a flush empties the buffer, writes, then commits; each may fail, and
  the future may be dropped in between.
* `SearchQuery`: a query lists, loads the table, reads deletes (a session reads the
  deletes first), and spawns one task per file; a task
  waits for units of the process-wide budget in order, reads and searches; the
  outcomes are folded in the order of the files.
* `ChangeFeed`: the two snapshots are fixed, then every delete file and every data
  file is read, while commits and removals go on.
* `Hnsw`: one step per lock of the code: read of the entry point, read of the top
  layer, a search of a layer, a link under the lock of one list, promotion under
  the lock of the entry point. A serial build runs the same steps in turn.
* `VectorIndex`, `Ranking`, `VisitedTracker`: algorithms as operators, with a step
  where the code has a stage or runs pieces in parallel.

## 3. Runs

`setting`, `workload`, `host`, `asked` and the like are variables chosen in the
initial state: one run covers all the environments that its MC module defines.
Properties that hold in some environments only say so.

| run | environment | property | what it says |
| --- | --- | --- | --- |
| `table` | commits: Rest guard, two callers, three requests of all kinds, create and drop | `ImplementsTableLog` | an atomic log of snapshots |
| | | `OutcomesTruthful` | ok means published; a definite error means not |
| | | `AppendsKeepFiles` | an Append or Delete takes no file away |
| | locks: two processes, four writes, four ticks, one orphaned request | `ConfirmedLeaseIsCurrent` | a confirmed lease that has not run out is the one in the object (mutual exclusion) |
| | | `ImplementsLease` | the puts are steps of `Lease` |
| | rows: seven workloads: compaction and vector deletes with retried writes; decay, backfill and migration; each beside a writer; equality deletes by two clients, and before a compaction; two maintainers | `RowsVisible` | exactly the rows inserted and not deleted, until a Replace goes over unseen changes |
| | | `RowsOnce`, `NoDangling`, `TableTypeOK` | each row once and with its own id, in files that exist |
| `jobs_and_calls` | two workers and a caller beside a sibling task; the lock of `LocalStore`; restarts; an expiring lease | `OneBuilder`, `SucceededIsReady`, `ClaimsAreIndexed` | one builder; success leaves the shard Ready until a sibling overwrites it; Ready means indexed |
| | | `JobSettles` | the job of a restarted process ends |
| | commits: location guard, two callers, failed reads of manifest lists | `CallsReturn` | bounded retries: every call returns |
| `catalogs` | Hadoop: three tasks in two processes under the file lock, an expiring lease, interrupted puts, every operation in turn. DuckLake: two tasks with four pairs of scripts and a crash, a failing statement or a foreign file | `ImplementsTableLog`, `CommitsDurable` | Hadoop: commits are atomic, and acknowledged ones stay |
| | | `SidecarFaithful` | DuckLake: `ReadersAgree`, `NothingHidden`, `SidecarBacked`, `SizesMatch` |
| | | `ErrorsLeaveNothing` | DuckLake: a commit that failed left no file behind |
| | | `CatalogCallsReturn`, `CatalogsTypeOK` | every call returns; states and holders of locks |
| `serving` | three overlapping calls and a dropped future; two readers of a file; two processes with crashes; compaction jobs with a full registry, failing requests, restarts and a legacy registry | `BreakerSound` | `OpensOnStreak`, `OpensOnlyOnStreak`, `ProbeInFlight`, `LetsInAgain` |
| | | `StaleEnds` | a stale file does not stay in the cache |
| | | `OneInstance` | one process past the instance lock |
| | | `ServeSound` | `LockLeftFree`, `ReleasesOwnOnly`, `LostLeaseStops`, `OnePass`, `ForeignRepaired` |
| | | `JobsSound` | `RunningHasTask`, `FreshStart`, `PruneKeepsLive`, `JobsEnd` |
| `clients` | two threads or processes in several combinations of entry points, with and without deferred indexes, a panic; the embedding command; the two buffers; token and secret caches; branches | `RowsKept` | `Serialized`: without deferred indexes no rewrite goes over a change it has not seen; `RowsStay` |
| | | `BuffersKeepRows` | `RowsOnceOnly`, `LossBounded`, `BufferBounded`, `NewestKept` |
| | | `CredentialsFresh` | `OneFetch`, `TokenLive`, `SecretCurrent` |
| | | `BranchesSafe` | `UnseenCommitsStay`, `BranchesAsRead` |
| | | `ClientCallsReturn`, `ClientsTypeOK` | calls, commands and token requests come back; strings are freed once |
| `retrieval` | cached answers; admission; fourteen settings of queries over a changing table; change feeds; HNSW builds; the visited set; IVF-PQ and kernels; ranking | `AnswersNotStale` | no answer older than the table the request loaded |
| | | `ResourcesAccounted` | `Quota`, `GuardsReleased`, `BudgetAccounted`, `CacheAccounted` |
| | | `SearchExact` | `NoDeletedRow`, `NothingMissed`, `BestOfAll` |
| | | `FeedExact` | `FeedReplays`, `UpdatesPaired` |
| | | `GraphSearchable` | `LinksBounded`, `SnapshotAccepted`, `LayersClosed`, `RowsFound`, `VisitedExactly` |
| | | `VectorExact` | `EachComponentOnce`, `AdcExact`, `AllProbedIsBest`, `TrainingImproves` |
| | | `RankingExact` | `FlatIsTopK`, `FusionKeepsDominance`, `ModalDominance`, `PruningKeepsNear`, `NoFalseNegative`, `FrequencyWithinDocs` |
| | | `RetrievalReturns`, `RetrievalTypeOK` | queries and parallel builds end |

A property that has parts is their conjunction; each part is defined, with a
comment, in the module of its component. `PROJECT.json` seeds one fault per
property, which shows that this property can fail and not that each of its parts
can.

Six runs state what a comment or a document says and find that the code does
something else (section 6): `occ_read_fault`, `hadoop_evolve`,
`table_equality_delete`, `breaker_late_success`, `feed_pairs` and `pruning_bound`.

### Bounds

* Two contenders are enough for the compare-and-swap protocols: a swap compares
  with one earlier value, and a third contender acts like one of the two. Three
  requests make a caller lose the race twice (`MAX_RETRIES = 2`; the code has 5).
  Where there is a proof it removes the bound.
* A lease lasts 2 ticks. `MaxTime` is 4 in `FencedLease` and 3 in `IndexJobs`, so that
  a lease is renewed, expires, and is taken over. In `Credentials` a tick is 30 s,
  the margin of the code, and tokens live 2 or 4 ticks with a cap of 3.
* `MAX_ATTEMPTS` and `PATCH_ATTEMPTS` are 2 (3 and 50 in the code): both the
  retry and the last attempt happen.
* `MAX_PERSISTED_JOBS` is 1, so that two submissions fill the registry;
  `MAX_INFLIGHT_REQUESTS` is 1 and limits are 1 or 2, so that requests are refused.
* The LRU holds 3 bytes: a file and a query fit together, a table alone does not.
* The file-search budget is 2 units, and one file needs more than that.
* Pipes hold 2 texts, and up to 6 are written; the generation of the visited set
  has 2 bits, so that it wraps within four searches.
* HNSW graphs have 4 or 5 nodes with `m = 2`: upper layers are pruned, layer 0 is
  not, which `RowsFound` needs. Kernels run at every length from 0 to 35, which
  crosses each chunk size (4, 8, 16, 32).
* `Table.cfg` has three rows, seven files and five to seven operations by workload:
  enough for write, write, compact, delete, compact by one client, and for a delete
  and a compaction beside each other by two.
* The task of a deferred index commits once (`MaxPatches`), which is enough to go over
  a commit it has not seen. Vectors of `Ranking` are the points of a small grid whose
  lengths are whole numbers, with cosines in hundredths.
* `MaxVersions`, `MaxWrites`, `MaxOrphans`, `MaxCrashes`, `MaxCalls` and the fields
  `calls`, `faults`, `crashes` of a setting bound counters and sit in the guards.

Symmetry is used for `Client` and `Id` of `OccCatalog` and for `Row` (whose values are
those of `Id`), in runs that check no liveness. Deadlock checking is off in all runs:
the bounds end every behaviour, and a system without calls rightly rests. The liveness
properties take its place.

### Fairness

Weak fairness of each step of a task, thread or process that was started: the
runtime polls a spawned task until it returns, unless it is dropped, and dropping
is an action of its own. Weak fairness of time where something waits for it
(`Tick`, `Cool`, `Cooled`, the expiry of cache entries), of the end of an operation
behind the breaker (every client has a request timeout), and of the restart of a
stopped process, which is what crash recovery is for. The fairness of
`acquire_file_search_budget` is that of tokio's semaphore, which is first come first
served: the queue is modelled. A probe of `ServeInstance` is fair because each
search starts one; the property is about a server that keeps being searched.
Calls, failures, crashes and drops are never fair.

## 4. What is proved

TLAPS checks the following for every number of clients, requests, processes,
tasks and calls and for every value of the bounds.

`FencedLeaseProofs` (`LeaseAssumption`: the constants have their types, the lease
time is positive, every client has a process). The inductive invariant is

    LockInv == LockTypeOK /\ LeaseInv /\ ConfirmedLeaseIsCurrent /\ TokensDiffer

`ConfirmedLeaseIsCurrent` is not inductive on its own: it says nothing about the
requests under way. `LeaseInv` adds that the payload of every put, carried by a
client or orphaned, was made from an object of the ETag it is conditional on, so
that a put that still matches renews or releases its sender's own lease, or takes
one that had expired when it was read and, since the ETag is the same, has not been
renewed since. From it follow `LeaseExclusion`, `FencingTokensDiffer`, `LeaseTypes`,
`HoldersKeepRecords` and `ProtocolImplementsLease`. The theorems include several
tasks that share a process, which the run does not.

`OccCatalogProofs` (`OccAssumption`: types of the constants, `MAX_RETRIES > 0`).

    IInv == TypeOK /\ CallsInv /\ TableInv /\ SameHead

`CallsInv` relates where a call is to what it has read and answered, `TableInv`
is `OutcomesTruthful` with what it needs of requests not made yet, and
`SameHead` that two metadata objects with the same last snapshot have the same
list of snapshots, which is why comparing the last snapshot is enough for the Rest
guard. `AnswersTruthful` and `CatalogTypes` follow. When no read of a manifest list
fails (`MaxReadFaults = 0`), `StoreInv` (a call that is past its puts has the
manifests and the list its request asks for, and published ones never change) is
inductive relative to `IInv`, and `ProtocolImplementsTableLog` and
`AppendsTakeNothing` follow under either guard. The run `occ_read_fault` shows that
the condition is needed.

`HadoopCatalogProofs` (`HadoopAssumption`). `CommitsAreAtomic` and `CommitsStay` hold
for every setting that is sound: its calls are commits, its lock does not expire under
its holder, and a put cannot be interrupted. `hadoop_evolve` shows what happens
without the first condition, section 6 what happens without the last. The invariant
`CatalogInv` has, per call, who is between read and release (it holds the mutex of its
process and the lock), what it has read (the metadata of the version in the hint),
that its snapshot is not in the table yet, and that the hint is at most one more than
the number of commits. The last is there for failed reads of the hint: the code then
takes the table to be at version 1, and the commit is lost or not depending on what
version 1 is.

`IndexJobsProofs` (`JobAssumption`). `JobInv` says of each worker what its stage
implies: that it has claimed the lock, that the file it is about to patch is indexed,
that what it will report as succeeded is Ready, was overwritten by a sibling since, or
was missing from the list it patched; and of each caller that the record it will put
back is not a success. `BuildersExclude`, `SuccessIsReady`, `ReadyIsIndexed` and
`JobTypes` follow, under the same conditions on the setting that the properties have:
the first two are about a lock that does not expire. The patch is not one step in
this: another worker, a sibling's Replace or the writer's commit may come between its
list and its commit. `RunLockIsLease`: the lock variable changes only as `Lease`
allows, which is what composes this module with `FencedLease`.

`CompactionJobsProofs` (`JobsAssumption`: finitely many tasks). `JobsInv` relates a
stored record, the task that works on it, the listing of `prune` and a submission in
progress. `RunningIsWorkedOn` (while no request to the registry fails), `StartsFresh`,
`PruningIsSafe` and `RegistryTypes`. `PruningIsSafe` holds with cancellations and
retries; it excepts the jobs that were started again between the listing and the
deletions (`revived`), whose records the code does delete.

`ServeInstanceProofs` (`ServeAssumption`). `SingleInstance`, `ReturnLeavesLock` and
`ReleaseIsOwn` from the invariant that a process past `acquire_lock` and not
stopped owns the record; `PassesExclude` from a second one on the flag that probe
tasks swap.

`CredentialsProofs` (`CredAssumption`: the timeout of a request is no longer than
the margin before expiry, as in the code with its defaults). The invariant says who
holds the mutex, that a cached token outlives its margin when it is handed out, and
what a task past the check knows. `BurstFetchesOnce`, `CachedTokensLive`,
`SecretsCurrent`, together `CredentialsAreFresh`, and `CredentialTypes`.

`CircuitBreakerProofs` (`BreakerAssumption`: the threshold is positive).

    IInv == TypeOK /\ StreakTellsState /\ ProbeInFlight

is inductive: `StreakTellsState`, that the circuit is closed while the streak of
failures is below the threshold and counts it, is what `OpensOnStreak` lacks. From it
`BreakerTypes`, `BreakerOpensOnStreak`, `BreakerOpensOnlyOnStreak` and
`BreakerProbeInFlight` follow. None of them says what closes the circuit; see
`breaker_late_success`.

### What is only model-checked

* Liveness, everywhere: the prover does not do fairness or `ENABLED`.
* Hadoop under an expiring lease, with interrupted puts, and its create, evolve and
  drop.
* `TableMaintenance`, `DuckLake`, `NessieBranches`, `QueryCache`, `RequestGuard`,
  `ClientCalls`, `EmbedCommand` and `MemTable`.
* The modules of the search. What they compute is defined by folds and recursive
  functions, and induction over data is out of the prover's reach.

## 5. What is not modelled, and why

* Databricks: a configuration of Rest. The key management services behind secrets
  and the server behind Nessie and Rest are modelled by what the code expects of
  them.
* Encodings: Parquet reader and writer, footer and layout of files, Avro manifests,
  Puffin, compression, column statistics, the full-text blob. They have no state
  beyond one call, and their correctness is about bytes.
* Text: tokenizers, the full-text builder and searcher, context assembly.
* Floating point. Distances and scores are integers, so rounding and recall are
  left out; which components are summed, and which candidates are kept and in what
  order, is what the models say.
* The random generator: k-means starts at any points `kmeans_pp_init` may draw.
  GPU search and hardware detection are left out.
* Field ids of schema evolution; in the catalogs an evolution is a name in a list.
* The planner of compaction is a choice of any two or more files, which includes
  what it picks. Names of files are taken to be fresh: two operations in the same
  second that make a name from the clock (`serve.rs:1395`) are not covered.
* Of the server: metrics, info, readiness, list handlers, and the wrapper that puts
  the breaker around catalog calls, which adds nothing to `CircuitBreaker`.
* `WorkingMemoryBuffer::search`, `append_vector_column`, episodic memory, and the
  engine plugins.

## 6. Findings

* `occ_read_fault`: `build_commit` reads the previous manifest list with
  `if let Ok(..)` (`manifest_commit.rs:200`). When the read fails, an Append is
  published that lists its own file only, and everything written before leaves the
  table. The comment eight lines above says that old files remain visible.
* `hadoop_evolve`: `evolve_schema` of the Hadoop catalog takes neither the mutex nor
  the lock (`hadoop.rs:237`) and can overwrite a commit; the changelog reports this
  race as fixed (for commits it is).
* `table_equality_delete`: a compaction commits its Replace without the equality
  deletes and without applying them (`compaction.rs:773`), and the deleted rows are
  back.
* `breaker_late_success`: every success closes the circuit
  (`ailake-cache/src/lib.rs:439`), so that the late success of a call let in before it
  opened closes an open circuit before its cooldown is over and without a probe. The
  comment on `CircuitBreaker` (`lib.rs:400`) says that "calls fail fast until the
  cooldown elapses; one probe is then allowed to decide", and `RATE_LIMITING.md:60`
  says the same.
* `feed_pairs`: `coalesce_updates` collects the pairs in the order of a hash map and
  consumes them in the order of the records (`cdc.rs:515`). With two updated keys, a
  pair that is found out of turn is left out of the feed, delete and insert both.
  `CDC.md:108` says that a pair that is found is emitted.
* `pruning_bound`: `VectorPruner::prune` (`pruner.rs:41`) and the sessions
  (`scanner.rs:1554`) drop a file by the distance to its centroid less its radius.
  This is a lower bound for Euclidean distance (`PruningKeepsNear` of `RankingExact`);
  for cosine, the default, and dot product it is none, and files with rows inside the
  threshold are dropped. `pruner.rs:12` says that such a file "is geometrically
  guaranteed to contain no vectors within `threshold` distance". In a query of a
  secondary column the dimension alone tells whose centroid it is.

Behaviours met while modelling that the properties leave out by a stated condition,
or that lie outside the models.

Store, catalogs and jobs:

* Two tasks of a process share the remembered token of a lock path, and a stale
  renewal of one makes the other forget its own (`object_store_backend.rs:223`).
  Exclusion is not affected (it is proved with shared processes); renewal is.
* A retried Replace still carries the file list its caller made
  (`jdbc.rs:190`); backfill and migration commit the list they made at their start
  (`backfill.rs:166`). Files committed in between leave the table. `RowsVisible`
  is stated until that happens (`overtaken`).
* `create_table` of the Hadoop catalog takes a failed read of the hint for an
  absent table and resets it (`hadoop.rs:67`); the setting that creates tables has no
  such failure.
* `LocalStore::put` is not atomic; a stop while the hint is rewritten makes the
  table fall back to version 1 (`local.rs:229`). The run has this for the first commit
  of a table, where version 1 is what was there.
* DuckLake: a commit cut between its two transactions leaves the sidecar row of a
  removed file active, and `query_active_files` lists the file, although the comment
  at `ducklake.rs:762` says that it never does; data files and equality deletes come
  back with sequence number 0, so the deletes are never applied by AI-Lake's readers;
  a file of another client that was retired stays listed and is compacted again;
  create fails at the primary key of the registry after a torn drop; a stale snapshot
  can list a retired path again.
* Nessie: `delete_branch` says "No-op if branch does not exist"
  (`nessie.rs:371`), but `get_branch` fails on 404 first. Its token requests have
  no timeout, so `TokenLive` is stated for Rest only; `with_request_timeout` above
  the margin of 30 s would break it there too.
* A worker can lose its lease between the check of the fence and the put
  (`index_jobs.rs:150`), so that its record lands over that of the new holder.
* `request_cancel` and `recover_after_restart` put back a record they read before,
  without the fence (`index_jobs.rs:279`, `307`): a success can become `queued`.
* Sibling tasks that patch shards of one table commit a Replace each, with the list
  they made before: the last one "may overwrite a sibling task's Ready status"
  (`writer.rs:1618`), also after that sibling's job has succeeded. `SucceededIsReady`
  is stated until that happens (`overwritten`).
* A build that ends before its writer has committed the shard, in a table that has
  a snapshot already, can report success with the shard still Indexing
  (`writer.rs:1622`).
* A process that restarts within the lease of its predecessor cannot claim the job,
  and nothing tries again (`writer.rs:1350`).

Table and buffers:

* A `delete_rows` that another client commits while a compaction rewrites the file is
  undone: the vectors are read first, and `build_replace_file_list` compares nothing
  when it commits (`compaction.rs:756`, `892`). `RowsVisible` promises that deleted rows
  stay out as long as one client deletes and rewrites, or no Replace has gone over
  changes it had not seen.
* Two writers that retry one batch at the same time can both find its id unknown and
  insert it (`writer.rs:353`); `RowsOnce` is about a retry after the first call.
* Two compactions with a common source both keep its rows (`compaction.rs:892`);
  the sources are deleted under searches that planned before (`compaction.rs:783`);
  a merged file is numbered from the row id of one source and its range can run
  into that of another file (`compaction.rs:603`).
* A failed read of a deletion vector counts as an empty one (`delete.rs:149`).
* Memory decay drops the batch id of what it rewrites, and a retry inserts the batch
  again (`memory_decay.rs:215`). For compaction, `writer.rs:348` says that the merged
  file carries `batch_id: None`; the code aggregates the ids, which is better.
* A flush of `MemTable` empties the buffer before it writes, so that an error loses
  the rows, those of inserts that were answered too; batches of different schemas make
  every later flush fail. `BuffersKeepRows` says that such a loss is one buffer at a time
  and that the rows do not come again.

Server and interfaces:

* When the future of a probe is dropped, its result is never recorded
  (`ailake-cache/src/lib.rs:438`): the circuit stays half open and later calls fail
  fast. `BreakerSound` asks for `LetsInAgain` while no future was dropped.
* Cancelling a queued compaction job does not stop its task (`serve.rs:1574`), and
  `prune` can delete the record of a job that is retried after it was listed
  (`serve.rs:745`). Queued jobs are resumed by the next server (`serve.rs:1987`), which
  is what `JobsEnd` rests on.
* The task of a deferred write or compaction commits a Replace outside
  `jni_table_lock` and the interpreter lock (`writer.rs:1622`, spawned from
  `ailake-jni/src/lib.rs:943`, `1314`, `1583`, `2882` and from Python): rows that another call
  commits between its list and its commit leave the table. `Serialized` is about hosts
  that defer no index; `RowsStay` holds until a version is overwritten unseen.
* Requests for reading and for writing share one counter of the rate limiter.
* An embedding command that answers while it reads blocks for good once the texts
  fill both pipes; `EmbedReturns` is about commands that read all their input first,
  or texts that fit.

Search:

* Between the list of files and the list of equality deletes a compaction can drop
  the deletes, and the query returns deleted rows; `NoDeletedRow` is about queries
  that read every equality delete of the snapshot they listed. `search_text` does not
  look at deletion vectors, and takes a text index that fails for one without hits. A
  session skips foreign files that are Ready.
* Approximate indexes may return fewer than k rows of a file: IVF with fewer probes
  than lists, an HNSW graph with rows that are not reached. `NothingMissed` is about
  files that are scanned, and about indexes that return all they were asked for.
* A parallel HNSW build can leave rows without a path from the entry point;
  `RowsFound` is about serial builds. It reads the entry point before the top layer
  (`hnsw.rs:419`), so its layers need not be closed, and an `insert_node` into the
  graph can then index a list that is not there (`hnsw.rs:778`). `GraphSound` claims
  nothing of insertions into such a graph.
* `read_changes` emits an INSERT for rows of files added after the start snapshot that
  equality deletes of the same span have masked (`cdc.rs:135`), where `CDC.md:22` says
  "every surviving row": `FeedReplays` has the masked rows in what a replay ends with.
* A record without a column that others have gets nulls; for types `null_array_for`
  does not know (`cdc.rs:755`) the call fails. Rows deleted by vector are emitted
  again with new equality deletes; rows revived by a Replace are not in the feed; a
  compaction shows as deletes and inserts.

## 7. What would come next

`NoDangling` and `RowsOnce` of `TableMaintenance` and `Serialized` of `ClientCalls`
are within reach of the prover. Field ids of schema evolution and names made from
the clock are the parts with state that are still left out.

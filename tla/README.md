# YiQiao in TLA+

A verification project for the YiQiao memory server: TLA+ models of its stateful core, TLC
configurations that check them on small instances, and TLAPS proofs of the properties that
matter most, for every value of the constants.

The models are translated from the source; `PROJECT.json` maps every definition to the lines it
stands for. Paths below are relative to the repository root.

## 1. Inventory

YiQiao is a FastAPI server (`server/`) around a memory engine (`mem0/`). PostgreSQL holds its
tables, a vector store the memories, Neo4j an optional graph mirror. Four things in it share state
between requests, threads and processes, and most of this project is about them:

- the import of chat histories: long-running jobs that several threads of several server processes,
  the user's requests and a recovery loop all move, with nothing between them but conditional
  `UPDATE` statements, an expiring lease and a few in-process locks;
- the memories themselves: calls of several processes over one vector store, and a script that
  re-embeds it while they go on;
- the storage quota, which makes count, check and write one step by locks in the process and in
  the database;
- accounts, sessions and keys, with rows in the database, caches in each process and a settings
  document that every handler reads and writes back whole.

| Component | State | Operations | Hard behaviour | Module |
|---|---|---|---|---|
| Import jobs (`server/main.py`, `server/import_repository.py`, `server/chat_import.py`) | `memory_import_jobs` row: status, phase, cancel and retry flags, graph status, lease; upload directory; thread registry, parked leases, cached jobs per process | create and upload, run, cancel, retry, graph retry, discard, recover, expire an upload, renew and lose a lease, restart | races of requests, runner, renewal and recovery; lease expiry under a live owner; crashes between two steps; stale reads | `ImportJob` |
| Chunks and claims (same files) | chunk, manifest and memory-hash rows, vector rows | claim, store, reconcile, split, skip, fail, cancel | two jobs on the same conversation; crash between vector write and bookkeeping; claims that outlive their job | `ImportClaims` |
| Worker pool (`server/chat_import.py`) | work queue, permits, limit, cooldown and its generation, counters of the job | take a conversation, acquire, release, failure, success, back off, count | limit that shrinks below what is in use, stale cooldown, counters against rows | `ImportPool` |
| Storage quota (`server/import_quota.py`, `mem0/memory/main.py`) | keyed-lock pool, local locks, advisory locks, a session | lease a lock, lock, count, check, store, release | lock order, lock lifetime, check against writes, failure halfway | `StorageQuota`, `QuotaLedger` |
| Memory engine (`mem0/memory`) | vector rows, history database, lock of a scope | add, update, delete | order of writes, lookup before insert, pending embeddings | `MemoryEngine` |
| Re-embedding script (`server/scripts/reembed_memories.py`) | backup file | scan, embed, update, roll back | concurrent updates, crash between backup and update | `MemoryEngine` |
| Vector stores (`mem0/vector_stores`) | external | insert, update, get | what they do with ids that exist or do not | `VectorStores` |
| Authentication (`server/auth.py`, `server/routers/auth.py`, `api_keys.py`) | accounts, refresh-token rows, keys, verified-key cache | register, log in, refresh, change password or email, delete, create and revoke keys, call | replays, stale cache, requests under way at a change | `Accounts` |
| Settings documents (`server/settings_store.py`, `server/workspace.py`) | JSON documents | read, edit, write back | lost updates | `Accounts` |
| Request quotas (`server/usage_service.py`) | request logs | count, refuse, log | count-then-log | `Accounts` |
| Graph items (`import_repository.py`, `main.py`) | one row per memory, counters in the job row | add, list, mark synced or failed, count | counters against rows, retries | none |
| Workspace budget (`import_repository.py`) | bytes per job, sum per project | reserve, reconcile, release | limits under concurrency, reconciliation during an upload | none |
| Runtime configuration (`server/server_state.py`) | configuration, memory instance, stored overrides | update, restart | swap against persistence | none |
| Webhooks, exports, routes | single rows | one write each | none kept across requests | none |
| Graph mirror, model adapters, dashboard, MCP server, scripts | external | calls | outside this project | none |

**How they interact.** A request handler that takes a job's lease draws a fresh uuid as lease
owner and starts a thread (`_start_memory_import_thread`); if the previous runner of the job still
unwinds in this process the lease is parked and handed over when that runner leaves
(`_run_memory_import`, last lines). The runner (`run_import_job`) writes the row through
`ImportJobStore`, whose writes are fenced: `UPDATE ... WHERE lease_owner = :me AND
lease_expires_at > now`, and a miss raises `ImportLeaseLost`. A renewal thread extends the lease and
repeats a cancellation it reads. `_resume_memory_imports`, at start-up and every few seconds, lists
active jobs with no live lease and recovers them one by one. The recovery writes and the discard's
completion are not fenced by an unexpired lease. `cancelled()` reads a per-process cache.

Inside a run the pool hands each conversation to one worker, which asks `AdaptiveConcurrency` for a
permit around every call of the model and stores the chunk's memories through the engine's import
variant of `add`. That insertion, like the `add` of a request, passes the storage-quota guard, which
keeps its locks until the memories are in the vector store. Requests reach the engine with a project
key or a session of an account, both checked in `server/auth.py`, and are counted by the logs they
leave. `ImportJob`, `ImportClaims` and `ImportPool` look at one import from three sides: who may run
it, what a run does to shared rows, what the workers of one run share. `StorageQuota` has the import's
insertion among its writers, and `MemoryEngine` the clients' calls around it.

**What makes each correct.** Jobs: one runner per job and process; no work on files being discarded;
no file written under a lease without a row; every import ends; parked leases are taken up. Claims: one importer of a key at
a time, nothing imported twice, nothing lost because a dead job claimed it. Pool: never more than the
limit admits, no cooldown cut short, a final status that tells the truth. Quota: what is admitted
never exceeds the limit, and no failure leaves a lock behind. Engine: repeated adds store a text once,
the history tells what happened, a vector belongs to its text. Accounts: one live token per session,
nothing survives a password change or a revocation but what was already under way. Each hazard is
listed, with its line, under `hazards` in `PROJECT.json`.

## 2. Plan

Done, in this order:

1. `ImportJob` with `ImportJobProofs`: the life cycle of a job.
2. `ImportClaims` with `ImportClaimsProofs`: chunks, manifests, hash claims and vectors of several jobs.
3. `ImportPool` with `ImportPoolProofs` and `ImportPoolOutcomeProofs`: the workers of one run.
4. `StorageQuota` with `QuotaLedger`, the abstract specification it implements, and
   `StorageQuotaProofs`: the refinement and the limit.
5. `MemoryEngine` over `VectorStores`, with `MemoryEngineProofs` and `MemoryContentProofs`: memories, histories and
   the re-embedding script.
6. `Accounts` with `AccountsProofs`: sessions, keys, request quotas and the workspace document.

Left, each a small module of its own:

- `GraphItems`: the counters of the job row against the items of the graph outbox, over retries.
- `WorkspaceBudget`: reservation against reconciliation; what is admitted never exceeds the limit but
  for the reconciliation described under the observations of section 5.
- `RuntimeConfig`: the swap of the running configuration against the stored overrides.
- `ImportLease` and `ClaimTable`: abstract specifications for `ImportJob` (one owner at a time, what a
  fenced write promises) and `ImportClaims`. The theorems of section 6 state what they would promise.

Modules with theorems declare no `RECURSIVE` operator; every bound is a `CONSTANT`.

## 3. The modules

The comment above a property says which code it is about; `Mutant of ...` comments mark the altered
definitions that each property is shown to detect.

### ImportJob

| Variable | Code |
|---|---|
| `row[j]` | the row of job `j`: status, phase = "discarding", `cancel_requested`, `source_retry_required`, `failed_chunks > 0`, `graph_status`, `lease_owner`, whether the lease is unexpired, whether `workspace` is set; and, as history, whether the recovery thread has cleared it (`forgotten`) |
| `files[j]` | the directory of the job: whether `uploads` and `extracted` hold something, and, as history, whether any of it was written under the lease ("held") or only after the lease was lost ("late") |
| `thread[o]` | the thread or request behind lease owner `o`: its kind and the step it is at |
| `reg`, `pend` | `_import_threads` and `_import_pending_leases` of each process |
| `cache` | `cancel_requested` of the cached job |
| `scan` | the recovery thread and the record it has listed |
| `left` | faults and user requests still to come: the bounds of the model |

One action is one transaction, one removal of a directory or one decision on the cached job. A
read followed by a separate write is two actions. The actions follow the handlers: `CreateImport` and
the `Upload...` actions are `create_memory_import` and `_abort_import_upload`; `Expire...` is
`_expire_stale_import_upload`; `RunStart` to `Deregister`, `HandOver` and `Resubmit` are
`_run_memory_import` around `run_import_job`, with `Extract` for `discover_input_files`, and `Prepare`,
`PruneExtraction`, `ClearWorkspace` and `Tidy` for what becomes of the directory at the end; `RequestRetry`, `ClaimRetry`, `ResumeRetry` and
`ResumeFails` are `retry_memory_import`; `RequestGraphRetry`, `RetryGraph` and `FinishGraph` the graph
retry; `RequestDiscard`, `DeleteWorkspace` and `EndDiscard` the discard; `ListRecoverable`,
`ExpireUpload` and the `Recover...` actions the recovery scan, which removes directories as well
(`RecoverTidies` to `RecoverForgets`). `LeaseExpires` and
`CrashRestart` are the environment.

Abstractions, each with its reason:

- Time is not modelled: a lease is live or not. It runs out when its holder is gone, or, as a counted
  fault, under a live holder whose renewal is late.
- Chunks and hashes are reduced to "some chunks failed" (`ImportClaims` has them), graph items to the
  graph status, bytes to "there are some".
- A status write and the release of the lease that directly follows in the same handler are one step.
- Making a directory and opening a file in it is one step (`OpenUpload`), which asks for no lease, as in
  the code. Reserving the bytes of a chunk and writing them is another (`UploadChunk`), under the lease;
  it adds nothing to `files`, as it writes to the file opened before, and is lost with it if the directory
  went in between. `Extract` asks for no lease either; it writes, any number of times, or is done.
- A removal may succeed, fail, or leave either part of the directory.
- Recovery handles one listed record at a time; a longer list is several rounds with older reads.
- An owner that no row names any more stands for the next uuid its thread draws. A new uuid is one that
  no thread and no row uses (`Fresh`); which of those it is makes no difference, so `CHOOSE` picks it.
- The accounting at start-up, which reads, removes and writes without a lease, is one step together with
  the restart (`CrashRestart`): the server serves nothing before it. A step of another process in
  between is left out; it could do what the observations say of the recovery thread; a renewal thread is always joined (the code
  waits 41 seconds); a thread that cannot be started appears in `ResumeFails` only.
- `"pending"` also stands for the graph status "disabled", `"completed"` for "skipped" and "synced".

### ImportClaims

How the chunks of an import become memories exactly once. The module follows one conversation: import
keys and hash claims are scoped to a conversation, and `run_import_job` gives all its chunks to one
worker, in order, so the workers of one run share nothing and a run is one process. What does meet are
runs of different jobs, and a run that lost its lease with the one that took over.

| Variable | Code |
|---|---|
| `job[j]`, `cancel[j]` | the job row as far as a run depends on it: active, completed or retryable; `cancel_requested` |
| `lease[j]` | the lease owner, if the lease is unexpired |
| `chunk[j][k]` | status of the row of `memory_import_chunks`; "open" is pending, processing, retrying, cancelled |
| `manifest[k]` | the row of `memory_import_manifests`: status and job |
| `hash[h]` | the row of `memory_import_hashes`: status, job and chunk |
| `vector[h]` | the import key of the stored memory that says `h`; its id is a function of the hash (`id_factory`) |
| `run[r]` | the runner thread of lease owner `r`: its step, the chunks to do, `existing_keys`, `_import_legacy_hashes`, the attempt, `reconcile_existing`, the extracted and the claimed hashes |
| `left` | faults and requests still to come |

`Start`, `Plan` and `Dedup` are the beginning of `run_import_job` (`expand_persisted_split_chunks`,
`load_existing`); `SkipExisting` to `SkipChunk` the state "skipped" of `_update_import_chunk`;
`ResumeSucceeded` to `Reclaim` are `_claim_import_chunk`, one action per transaction; `Attempt` to
`Record` are `_store_import_chunk` down to the insertion in `Memory._add_to_vector_store_with_operation_context`
and, through `Reconcile`, `_reconcile_import_vector_rows`; `StoreFails` to `CancelChunk` are the handlers
of `process_chunk` and the states split, cancelled and failed of `_update_import_chunk`; `EndRun` the end
of the run. `Lose` is `ImportLeaseLost`, `WriteOff` the recovery scan, `Retry` the retry request; `Crash`,
`Expire`, `Break` and `BookkeepingFails` are the faults.

Abstractions:

- `Facts[k]` says what the model may extract; each attempt may extract another subset, as a language
  model does. `Children[k]` is the deterministic split. `Source[j]` allows two jobs to cut differently.
- `Stored` are memories without a manifest, such as `scripts/import_chat_history.py` posts.
- A chunk may fail for any reason at any step of `_store_memory`; which errors are retried, split or
  final is a choice. The quota guard, embedding and history are part of those steps.
- `Crash` frees the lease at once: until it expires nobody can start, which only postpones `Start`.
- `Retry` reopens the failed chunks in one step; the code does it one by one under the lease the run
  then takes over, which no other run can see.
- Not modelled: rows of earlier versions (`superseded_split`, released manifests of split chunks), graph
  items, webhooks, message history, and `skip_duplicates` off, which claims nothing.

### ImportPool

One run of `run_import_job` from its work queue to the status it gives the job, among its own threads.

| Variable | Code |
|---|---|
| `queue` | `work_queue`: the conversations nobody has taken |
| `worker[w]` | a thread of the pool: its step, the chunks left of its conversation, the attempt, whether the last failure may be retried, the token of its backoff |
| `ctl` | the `AdaptiveConcurrency` object: limit, permits out, successes in a row, end of the cooldown and its generation |
| `now` | how many cooldowns have run out |
| `row[c]`, `count` | the chunk rows and the counters of the job row |
| `lock`, `cancel` | `_import_progress_lock`; `cancel_requested` |
| `outcome`, `faults` | the status the run ends with; database errors still to come |

`TakeGroup` and `NextChunk` are the worker loop; `Attempt`, `Acquire`, `Publish`, `ReleaseAfterSuccess`,
`Release`, `RecordSuccess`, `RecordPressure`, `RecordFailure`, `Decide` and `Wake` one call of the model
with its retries; `Count`, `Write`, `CountSplit`, `ReadRows` and `UpdateCounts` the bookkeeping of a chunk
and `_recompute_import_progress`; `Finish` the end of the run. Time is the order in which cooldowns
end: each gets a generation, later ones end later, so an instant is the number of those that ran out.
Of a chunk only the status of its row is kept; what storing it does is `ImportClaims`.

### QuotaLedger and StorageQuota

`QuotaLedger` is what the quota promises: memories are admitted one request at a time and only if each
policy the request knows has room for them, or removed. `StorageQuota` is how the code does it.

| Variable | Code |
|---|---|
| `row[m]` | the vector row: who stored the memory |
| `pc`, `todo` | the step of a write, and the selected memories still to be stored |
| `entry`, `leased`, `mutex` | `_KeyedLockPool` of each process, the lock object a write leased, and the holder of each object |
| `local`, `advisory` | `_LOCAL_SCOPE_LOCKS` of each process; the `pg_advisory_xact_lock`s |
| `session` | the guards that have a database session |
| `asked`, `seen` | the projects a guard has counted and what it found there |

`Lease` to `DropLease` are the keyed pool; `Select` is the lookup of what exists; `LockLocal`, `OpenSession`,
`LockAdvisory`, `CountProject`, `TimeOut`, `Check`, `CloseSession` and `UnlockLocal` are the guard;
`InsertBatch`, `InsertFails`, `InsertOne` and `InsertedAll` the three ways of storing; `Delete` the deletions
of users, which take no lock. Lock objects are named after the write that made them, so that two writes
can hold different objects for one key, which is what a wrong reference count would cause. The policies
of a write are a constant of it (`Snapshot`): the code reads them once, when the request begins.
Refinement: `Ledger == INSTANCE QuotaLedger WITH row <- row` maps `row` to itself; a batch is one `Admit`, single
insertions one `Admit` each, everything else stutters.

### VectorStores and MemoryEngine

`VectorStores` has one profile for each of twelve backends, read off its `insert`, `update` and `get`:
what they do with an id that exists or does not, whether an update without a vector keeps the old
one, and whether a read that fails looks like a missing row. `MemoryEngine` runs over any of them.

| Variable | Code |
|---|---|
| `store` | the profile of the vector store |
| `row[id]` | text, vector (of which text, by which embedder, or none), the pending mark of the payload |
| `hist[id]` | what was done to a memory, with the process that did it, and whether the history database has the row (`noted`) |
| `lock[p]` | `_memory_add_locks` for the scope |
| `pc`, `pos`, `todo`, `cur`, `emb`, `got`, `saved` | the calls of the clients: step, call, what is left, what has been read |
| `missed` | memories that were there when an add did not find them, in a store that takes an id twice |
| `script`, `before` | the re-embedding script with its backup; the rows as they were before it |

`SelectMessages` to `EndMessages` are `add` without inference, `SelectFacts` to `RecordFacts` with it and
with the fallback of a failing batch; `ReadForUpdate`, `StoreUpdate` and `NoteUpdate` the two updates;
`ReadForDelete` to `NoteDelete` the deletion; `StartScript`, `Scan`, `UpdateVectors`, `Crash`,
`StartRollback` and `Restore` the script. The id of a memory is the hash of the text it was added with,
so a memory is named after that text. The embedder may be out at any call.

The lookup by hash (`_existing_payload_values`) may find any part of what is there (`Lookups`): some stores
compare a field with a list of hashes and find nothing, and its errors are swallowed. Every read of an id by an add may fail,
which ends the call or, on the stores whose `get` logs the error, looks like a missing row (`hidesFailures`);
an update or a deletion whose read fails is a call that was not made.
Every insertion may fail, and then has no effect; a write of the history may fail `MaxLost` times, upon
which the code logs the error (inferred adds) or raises it (all others), and leaves the row. A store reads
its own writes. One session scope is followed; scopes share nothing. What the model extracts is the constant `facts` of a call.

### Accounts

The handlers of `routers/auth.py` and `routers/api_keys.py`, those of `routers/settings.py` that decide who
may register and which keys live, and the calls a key authenticates.

| Variable | Code |
|---|---|
| `user`, `token`, `key` | rows of `users`, `refresh_token_jtis`, `api_keys`; a token remembers the login its session began with |
| `doc` | the workspace document: its projects, who is invited or an active member |
| `cache[p]` | `_api_key_cache` of a process, oldest entry first |
| `req[s]` | a request under way: kind, step, and what it has read |
| `quota[p]` | calls of a project's key in the period: admitted, logged, not logged for a failure |
| `begun` | requests so far |

A request is one action per database statement or transaction. Row locks are modelled where they matter:
the update that marks tokens holds its rows until its transaction commits. Abstractions: one organization;
a member is none, invited or active and may manage or not, in place of the order of roles; no project is
created; a refresh token past its 30 days is one nobody presents; a policy is a hard limit on calls of a
project whose calls succeed; names, labels, hashing and token encoding are left out. A key's expiry is
`ExpireKey`, at any time.

## 4. The runs

| Run | Question | Instance |
|---|---|---|
| `import_one_process` | do the invariants of a job hold when everything in one process interleaves; does every import end, is every parked lease taken up? | 1 job, 2 threads or requests on it at a time, 1 fault, 2 requests or one of each |
| `claims_two_imports` | is a chunk imported once, is what is settled stored, does every claim have a holder? | 2 jobs, 2 runs, 1 chunk, 2 memories and one stored before, a crash or an exception anywhere, or a request |
| `claims_split` | are split trees final and covered, across crashes and retries? | 1 job, 2 runs, a chunk with two halves and one stored before, 2 memories, 2 faults, 1 request |
| `claims_liveness` | does every key have one owner, every import end, every claim resolve? | 2 jobs, 2 runs, 1 chunk, 1 memory, a crash or a lease that runs out under its run |
| `import_pool` | are permits, cooldowns and counters right among the workers, does the run end? | 2 workers, 2 conversations of 3 chunks, one of which may fail and be split, limit 2, 2 attempts, 1 database error, a cancellation |
| `storage_quota` | is the limit kept, does every write end, does the guard implement the ledger? | 4 writes in 2 processes, 4 memories, an organization's and a project's policy of 2, deletions |
| `memory_engine` | do adds converge, does the history account for the rows, are vectors those of their texts, does a rollback restore? | 2 texts, 3 clients in 2 processes with 5 calls, 12 stores, 1 lost history row, 1 crash of the script, batches of one |
| `accounts` | do sessions, password changes, keys and request quotas hold against concurrent requests and stale caches? | 4 requests, 2 at a time, in 2 processes, 2 people, 2 keys, 2 projects, 3 tokens, caches of one key, limit 1, from an empty and from a running server |
| `import_recovery`, `claims_settled_hash`, `pool_lost_permit`, `engine_retains` | what the code does against what its comments and tests say | see section 5 |

**Bounds.** *ImportJob:* jobs share nothing but the active limit, so one is enough for every property
here; two owners are the runner and the request that takes over from it. Requests, faults and events
(cancellations read, leases lost) are counted in `left`; two requests and one fault already reach
hand-over, discard against retry, recovery of each stage, and a handler that goes on writing after its
lease ran out (458,050 states, two minutes with liveness). *ImportClaims:* two jobs are the two sides
of every race over a key or a hash, and a second run of one job is its successor; one key suffices where
chunks do not depend on each other. `MaxAttempts = 2` has a first and a last attempt. In
`claims_two_imports` a fault and a request are not spent in one behaviour (`FaultOrRequest`);
`claims_split` has both. *ImportPool:* two workers are enough to hold the limit against each other, and
the third and fourth chunk, the halves of the first, make a row that counts be replaced by two.
*StorageQuota:* three writes of one process meet in the keyed pool, the fourth in the database only;
the limit is below what all of them want. *MemoryEngine:* two texts, one of them there from the start,
are the least with which one memory can take the text of another; the metadata update is in the instance of
`engine_retains` only, where it does the harm it can do, and lookups and insertions fail at will, history
writes once. *Accounts:* two requests meet in
every pair of handlers; four of them reach a refresh with the token of a session whose password changed
in between. The numbers say what TLC covers; the theorems of section 6 hold for all of them.

Symmetry is used in safety runs only, of names the instance does not tell apart: the hashes of
`claims_two_imports`, the two clients of `memory_engine` that add the same text. Deadlock is not checked where it is what the system does: when no
request is left and everything is at rest, it rests. That nothing waits for ever is what the
liveness properties say.

`ClaimIsHeld` holds until the first crash, as a claim does survive its run until the job comes back;
`ClaimsResolve` says that it is then resolved. `ClaimsResolve` is checked without requests: a job that
crashed, was cancelled and written off by recovery keeps its claim until somebody retries it.
`SplitIsFinal` leaves out a run that has lost its lease between its guard and its insertion.
`NoOrphanFiles` is about what was written under the lease, and about rows the recovery thread has not
cleared: beyond that the code does leave files behind (see the observations).
`HistoryAccounts` is said of pgvector, the default store, and of memories no two clients delete: `delete`
takes no lock, and both may report it. An event counts from its row, also if the history could not be
written. `RetriesConverge` holds of a store with a primary key in full, whatever the lookups find; on the
others it leaves out a memory that a call has overlooked (`missed`), or whose text is changed, and counts each
process for itself. `CleanVector` is said of the stores that do not
replace a row on insertion: on the others the engine's insertions overwrite what they did not see.
`CleanVector` leaves out memories in `Contested`, which one client updates and another updates or deletes:
there the code mixes the text of one call with the vector of another (see the observations).
A refused memory of a chunk whose rival then fails is in neither import until the rival is retried:
that is the design, and no property denies it.

**Fairness.** What the scheduling gives, and no more; the outcome of a step (a failed removal, a failed
call, a database error) is never assumed to be fair, nor anything of users and crashes.

- `ImportJob!FairSpec`: a thread that can take a step takes one, a renewal thread delivers the
  cancellation it has read, the lease of a holder that is gone runs out, and the recovery loop, which
  wakes up every `MEMORY_IMPORT_RECOVERY_SCAN_SECONDS`, works through its list.
- `ImportClaims!FairSpec`: a run that can go on does, and the scan starts or writes off every job left
  active.
- `ImportPool!FairSpec`: every worker goes on, cooldowns run out, and the main thread notices that its
  workers are done. `acquire` waits on a condition that every release notifies, so a worker that can
  get a permit is woken.
- `StorageQuota!FairSpec`: some write that can take a step does; fairness for each is not
  needed, as every write has finitely many steps, and `WritesEnd` fails only if all of them wait.

## 5. Findings and observations

Four properties that a test or a comment of the repository states fail in the models, each in a run
of its own.

- `CompletedStays` (`server/main.py:3070`): the recovery thread writes without owning the lease and
  decides on what it read before; it can mark a completed job cancelled.
- `StoredHashIsSettled` (`server/main.py:2381`): an attempt that fails after the insertion gives its hashes
  back. Its successor reconciles the rows, finds no claim to settle and succeeds; another chunk can then
  claim the hash and fail on the duplicate id.
- `PoolEnds` under a database error in `update_concurrency` (`server/chat_import.py:3005`), which is called
  after `acquire` and before the `try` that releases: the permit is lost, and with the last one the run hangs.
- `RetainsVector` (`mem0/vector_stores/pgvector.py:494`): the re-embedding script gives a pending memory a
  vector but leaves the mark in its payload; the next metadata update believes the mark and erases the
  vector.

**Observations.** What modelling showed besides, without a run: behaviours that no document denies, or
that need more than the models have.

*Import jobs.*
- Recovery can make a job active again beyond the limit on active jobs of the project, as its write does
  not count; and what it writes off may still be running, so that others find its chunks "busy".
- A graph synchronization that recovery resumes takes the final status from `failed_chunks` alone
  (`server/main.py:3507`): a job can end completed with `source_retry_required`, and the retry it offers
  is refused.
- Recovery's write of failed can end the phase of a discard under way (`server/main.py:3093`). A crash in
  the middle of a discard leaves the phase; another discard is what ends it.
- A runner that has lost its lease may remove the directory after its check, while the run that took
  over works on it.
- Uploads make directories and open files without asking for the lease (`server/main.py:1744`, `1755`,
  `1758`). If the lease ran out, recovery has removed the directory and cleared the workspace, the next file
  makes the directory again; the reservation then fails, and the abort does nothing, as the row is not
  uploading any more: the file stays and nothing accounts for it. A runner extracts archives in the same
  way (`server/chat_import.py:2667`), also after its job was cancelled, recovered and discarded.
- Recovery tidies up after a cancelled job without a lease (`server/main.py:3078`, `2693`). It reads that a
  job is completed and needs no files, removes the directory and clears the workspace; a retry that was
  requested before and claims the job after that read extracts in between, and its files, written under a
  lease, lose their row.
- Workspace accounting at start-up may overwrite the reservation of an upload that has lost its lease but
  not yet noticed.

*Claims.*
- A chunk whose manifest is marked succeeded may still fail, if the database then refuses its row
  (`server/main.py:2414`, then `server/chat_import.py:3020`). If the chunk yielded no memory, another job that has skipped it in between, and completed,
  has skipped a chunk that nobody imported (TLC finds it with two jobs and "error").
- The halves of a chunk take its place after the keys of the list were looked up (`server/chat_import.py:2789`), and
  are not looked up themselves. A memory older than the manifests with the key of a half is not found, and the half
  is extracted again (TLC finds it with such a memory).
- The claims of a job that crashed, was cancelled and then written off stand until somebody retries it:
  another import finds the chunk busy and fails it, and drops the memories whose hashes are claimed.
- A job's own stale claim gives its manifest back before its hashes (`server/main.py:1975`). A second
  crash between the two leaves hashes claimed under a free manifest; the next attempt drops the chunk's
  memories as duplicates of nothing.
- The insertion of vectors follows the execution guard and is not fenced itself: a run that loses its
  lease in between still stores its memories, also for a key that was split meanwhile. The rows stay right.

*Storage quota.*
- The guard opens its session while it holds local locks, and a pool without connections makes it wait
  for its timeout. A session that is lost while the memories are stored frees its advisory locks; the
  local locks still exclude the writers of this process only.
- Policies are read when the request begins: one that is created meanwhile is not applied to it.

*Memory engine.*
- The id of a memory is the hash of its first text. After its text has changed, adding the first text
  again fails (raw), is dropped without a word (inferred), or replaces the changed memory on a store that
  upserts.
- Updates and deletions take no lock: of two concurrent ones the text of one and the vector of the
  other may stay, and an update may bring part of a deleted memory back on stores that create on update.
  The history of a deletion may come before that of the add it follows, two deletions of one memory may
  both be noted, and a crash between row and history leaves a memory without one.
- A write of the history that fails leaves the row without an event: an inferred add logs the error and
  reports success (`mem0/memory/main.py:2174`), every other call raises it although the row is written.
- The comment at `mem0/memory/main.py:2018` says that the lookup by hash "guarantees exact matches are
  not missed merely because they fell outside the vector search top-k". Its fallback asks for a hash in a list of hashes, which Azure MySQL, Cassandra, MongoDB, Pinecone,
  S3 Vectors and Turbopuffer compare with the list itself or cannot express, so that it finds nothing there;
  and a lookup that fails is logged and finds nothing. A repeated inferred add then inserts, and logs, the
  memory again on every store that takes an id twice.
- `_remove_memory_from_entity_store` reads a list and writes it back, over a concurrent
  `atomic_payload_list_union`, and does nothing before the entity store has been opened after a restart;
  `_upsert_entity` filters by user, agent and run only.
- The script compares vectors to find rows changed meanwhile; a row without one both times passes, and
  may get the vector of its old text. A rollback may leave a row that is no longer pending without a vector.
- On Valkey, Databricks and Baidu `get` raises for an id that does not exist.

*Accounts.*
- Two first registrations that overlap both become administrators.
- Settings documents are written back whole: a concurrent edit is lost, and a deleted project or a
  removed member can come back. The keys of the project stay dead (`DeadKeyIsRejected`).
- A registration that dies between its commit and the activation leaves a member invited and the email
  in use; a refresh that dies between consuming and issuing ends the session.
- A login or a refresh that had passed its check when the password changed gets a token that lives on.
- Not every route that removes or deletes an account checks that an owner remains.
- The logs of management requests count for `api_requests` policies as well.

## 6. The proofs

Thirty-three theorems, for every value of the constants that satisfies the named assumptions of the module:

| Module | Theorem | States |
|---|---|---|
| `ImportJobProofs` | `TypeCorrect` | `TypeOK` |
| | `OneRunner` | `OneRunnerPerProcess` |
| | `ParkedBehindRunner` | `PendingHasThread` |
| | `DiscardExcludesWork` | `DiscardingIsTerminal` |
| | `FilesAreAccounted` | `NoOrphanFiles` |
| | `CompletedIsSettled` | `GraphSettledWhenCompleted` |
| `ImportClaimsProofs` | `ClaimsTypeCorrect` | `TypeOK` |
| | `KeyIsOwnedThm` | `KeyIsOwned` |
| | `SettledHashIsStoredThm` | `SettledHashIsStored` |
| | `ClaimIsHeldThm` | `ClaimIsHeld` |
| | `SplitIsFinalThm` | the action property `SplitIsFinal` |
| | `CompletedCoversThm` | `CompletedCovers`, if `Recorded` |
| | `ImportedOnceThm` | the action property `ImportedOnce`, if `LeasesLast` and `OldKeysAreWhole` |
| `ImportPoolProofs` | `PoolTypeCorrect` | `TypeOK` |
| | `PermitsAreHeldThm` | `PermitsAreHeld` |
| | `CooldownIsServedThm` | the action property `CooldownIsServed` |
| `ImportPoolOutcomeProofs` | `OutcomeIsTrueThm` | `OutcomeIsTrue` |
| | `CountsSettleThm` | `CountsSettle` |
| `StorageQuotaProofs` | `StorageQuotaLimit` | `LimitHolds` |
| | `WritesImplementLedger` | the refinement `ImplementsLedger` |
| | `QuotaTypeCorrect` | `TypeOK` |
| | `OneWriterPerKeyThm` | `OneWriterPerKey` |
| | `NothingLeftBehindThm` | `NothingLeftBehind` |
| `AccountsProofs` | `AccountsTypeCorrect` | `TypeOK` |
| | `OneTokenPerSessionThm` | `OneTokenPerSession` |
| | `PasswordChangeRevokesThm` | `PasswordChangeRevokes` |
| | `DeadKeyIsRejectedThm` | `DeadKeyIsRejected` |
| | `QuotaOvershootThm` | `QuotaOvershoot` |
| `MemoryEngineProofs` | `EngineTypeCorrect` | `TypeOK` |
| | `RollbackRestoresThm` | `RollbackRestores` |
| | `HistoryAccountsThm` | `HistoryAccounts` |
| `MemoryContentProofs` | `CleanVectorThm` | `CleanVector` |
| | `RetriesConvergeThm` | `RetriesConverge` |

**Assumptions.** That constants have their types and the marker for "nobody" is nobody (`NoOneAssumption`, `EngineAssumption`,
`ChunksAssumption`, `BoundsAssumption`, `QuotaAssumption`, `AccountsAssumption`), that sets which are counted
are finite (`FiniteAssumption` and parts of the others), and three of substance. `WorldsAssumption`: the
database `Accounts` starts from is one the server could have left, in particular with one usable token per
session. `LeavesAssumption`: the leaves of a split tree are a sequence of keys, namely of those that are
reached from the chunks of the file through splits and not split themselves (`Reached`); they are computed by a
recursive function, and what a recursion yields for every input needs an induction the provers cannot do.
`SplitsAssumption`: no two chunks
of a job are the same, and the two halves of a split are new chunks of no other parent; a conversation that was uploaded twice
into one job would count its rows twice. TLC evaluates all of them on every instance.

Two theorems have hypotheses of their own, each of which the instances of the runs that check the property
satisfy, and without which TLC finds the property violated.

- `CompletedCoversThm`, `Recorded`: the database takes the bookkeeping after an insertion ("error" is not among
  the faults), or the project has one import. See the first observation on claims.
- `ImportedOnceThm`, `LeasesLast`: no lease runs out under a run that goes on, as the insertion is not
  fenced; `OldKeysAreWhole`: no memory older than the manifests has the key of a half of a chunk.

**ImportJob.** `IInv` is the conjunction of the type invariant and

- `RegistryOK`: registry and threads agree, which gives one runner per process;
- `LeaseOK`: a live thread only ever owns the job it works on, and what a thread at a fenced step may
  conclude from holding the lease;
- `DiscardOK`: a row in phase discarding is terminal, and the thread that claimed it has not been
  overtaken by another claim unless it has lost the row;
- `FilesOK`: `NoOrphanFiles`; whoever has removed a directory and still owns the job knows that nothing written
  under a lease has come back (`RemovedUnderLease`); and whoever may still write to a directory (`Writing`) has, as long as
  it owns the job, a row with a workspace (`WritesUnderLease`);
- `GraphOK`: a graph result a thread carries is settled, and a runner past the synchronization point
  has a settled row.

None of the properties is inductive alone. `NoOrphanFiles`, for instance, is broken by a thread that
clears the workspace without having removed the directory, or by one that writes to a directory whose row
another has cleared. So the invariant says where the threads with those rights stand. A handler or a runner
asks nobody before it writes, but if it owns the job then, no other thread has had the claim it would have
needed to clear the row; and `WriterOK` adds that its job is not a completed one, which the clean-up at start-up
would take. If it does not own the job, what it writes is "late". With some forty actions, each
conjunct is proved in rely-guarantee style: `ThreadGuaranteed`, `RowGuaranteed`, `FilesGuaranteed` and
`OtherGuaranteed` say once, by cases over the actions, what any step may change; the preservation lemmas then
use the guarantees and the few actions that matter.

**ImportClaims.** `Inv` is the types of the rows and, for every run, `RunOK`: it has a chunk at hand where its
step needs one (`HasChunk`), splits only what can be split (`SplitsSplittable`), owns the manifest of the key it
imports if it holds its lease (`OwnsKey`), and remembers as settled only what is stored (`RemembersStored`).
The proof is rely-guarantee again: `OthersKeep` says that a run's own facts survive any step of another
that takes no lease from it, writes no manifest of its key and only adds to what is stored
(`NoOtherLease`, `NoOtherKey`, `Grows`); then each action shows that it is such a step and keeps the facts of
the run that takes it. `ClaimIsHeld` adds `Held`: until the first fault a run under way holds its lease
and each claim has a run that carries it. `SplitIsFinal` follows from `Inv` and what a step may do to a
manifest that is split.

The other two properties need more than one step's guards, so the actions of a run are first summarised:
`WorkTurn` says which turn each of them takes at the chunk at hand (`TakesChunk`, `FindsChunk`, `OwnTurn`,
`ImportTurn`, `Skips`, `LeavesChunk` and so on), and `WorkChunk` and `WorkManifest` what it writes. The rest argues
about turns. `CompletedCovers` is not inductive, because the recursion over the rows gives another answer after
every split. The invariant `Coverage` says it without recursion: there is a set of keys that contains the chunks of the
file and the halves of all that is split and no longer on the list of the run, and every key in it is on the
list or dealt with (`Tracked`). A split adds its halves to the set; a run that starts again takes the set of all that is
reached (`TrackedAtFirst`); at the end the list is empty and the set contains the leaves (`CoveredMeans`).
`Rows` says what a row is worth: a succeeded chunk has a succeeded manifest of its job, and a skipped one a key that
was imported for good (`Sure`). The order of the writes matters here, manifest before chunk row, and so does
that no step takes "succeeded" back from a manifest.

`ImportedOnce` rests on `Once`: a key nobody has claimed has only the memories it had before there were
manifests (`FreshRows`); what is left on the list of a run is on its list of existing keys if it had any (`Dedups`); and
a run between its lookup and its insertion, or at an attempt that does not look, has a key without memories
(`FreshAt`). Two runs never stand there with the same key, since each holds its lease and the manifest names its job.

**ImportPool.** `Inv` joins to the types and `PermitsAreHeld` that a worker past `NextChunk` has a chunk
(`HasChunk`), that attempts are counted within the bound (`HasAttempt`), and `CooldownRuns`: the generation and the
end of the cooldown agree, and a worker's token is at most the generation, which is why ending a backoff with
an old token does nothing and why no cooldown is ever shortened.

The outcome needs another invariant, `RunInv`, in a module of its own. `Placement`: every leaf of the split
trees is in the queue, or on the list of one worker, or has just been split off by one, and in one of these
places only, or its row is settled; so nothing is forgotten when all lists are empty, and no chunk is
imported by two workers. `CatchesUp`: if the counters differ from the rows, some worker still owes a
recount (`Owes`), and one that has read the rows and not yet written its sums holds the lock under which
everyone does so (`UpdaterLocks`). `Decided` says what the status was concluded from: all threads are gone, and
the failure counter. `Placement` and
`CatchesUp` are only claimed while the run is `Going`: a cancelled worker drops its list, and one that dies
takes its list along, and neither run ends as completed (`Decided`), which is all the two properties speak of.

**StorageQuota.** `Inv` is `Types`, `LocksAreHeld` (a guard past a lock holds it, and holds advisory locks
only in a session), `CountsAreFresh` (what a guard has counted, nobody else has added to since),
`CountsCover` and `RestFits` (what is still to be stored fits). `RestFits` is what the check leaves behind
and what every insertion consumes; it survives the steps of others because they do not hold the lock.
From it each insertion is an admission of `QuotaLedger`, whose own invariant gives the limit. `Tidy` is the
other half: `Guards` (which locks are held at which step, inside or outside a session), `Leases`, `Entries` (the
count of a pool entry is the number of leases, all of the same object), `Objects` (objects of different keys
differ) and `Mutexes` (an object's holder is the one writer between its acquisition and its release).

**Accounts.** `Secure` is `Typed`, `Sessions` (a session has at most one usable token or one request about to
issue one), `Passwords` (a usable token was issued under the password of now, or to a request the change
overlapped) and `DeadCalls` (a call that arrived with a dead key has not read a live row). `Counted` relates
the admitted calls to the requests between admission and log. `Caches` is what the cache of a process keeps: a key is
in it once, which is why taking a key out leaves none of it and putting one in never needs more than one eviction.

**MemoryEngine.** `Sound` is the types, `Calls` (what the call of a client is at which step) and `Storing` (what has
been stored and not yet put in the history is no longer to be stored). `Kept` is what the backup is good for: a memory
nobody has written since the script started still has its text, and has its old vector in the backup if it
is there and in its row if not; the ids in the backup are not beyond the last page scanned, which is why no page
overwrites what another has saved; what rollback is done with is as it was, or reported as failed. That a
page of a set is not empty and has a last id is proved from the finiteness of the set. `Accounted` is the balance of
a memory: adds and deletes noted, with those of the clients that have yet to note theirs, against its row. An event
whose write has failed stays in the balance (`noted` is false of it). `Tally`
says what one step has to add up to, for the client that takes it. Memories in `SharedDeletes` are left out: `delete`
reads the row and removes it in two calls, so two clients that delete one memory may both note it.

`MemoryContentProofs` has the two properties about what is stored. `Genuine` follows an embedding from the provider to
the row: what a client is about to write is the vector of the text it writes (`Embedded`); what an update has read
is still there, text and mark, if the memory is not `Contested` (`StillRead`); what the script has scanned and is
embedding was clean (`Scanned`), and what it has not scanned yet has no vector if it is marked pending
(`Unscanned`). The step that needs all of it is the script's update, minutes after its scan: it writes only where
the vector is still the one it read, and as every vector names its text, an equal vector means that the text is
the same. `Converging` is a balance per memory: adds noted, with those stored and to be noted, exceed deletes by the
row at most. On a store with a primary key the insertion itself keeps it (`Refusing`); on the others the lock of the session does
(`Locked`, `Guarded`), from the lookup to the insertion, for the clients of one process, the memories
whose text nobody changes, and as long as no lookup has passed over the memory (`missed`). Neither theorem has a hypothesis beyond `EngineAssumption`.

**Only model-checked.** Liveness under fairness, which is out of the prover's reach: `ImportsFinish`,
`ParkedLeaseIsTakenUp`, `ImportsEnd`, `ClaimsResolve`, `PoolEnds`, `WritesEnd`; and the violations. Every other
property a passing run checks is the statement of a theorem.

## 7. Not modelled

- The three components planned in section 2 and not done: graph items, workspace budget, runtime
  configuration.
- Of the engine: entity links, procedural memories, `delete_all`, `reset`, `AsyncMemory` (the same steps
  without the lock objects of threads), the message window, and search, whose scoring is numeric. Of
  vector stores: twelve backends whose behaviour on missing or existing ids is decided by a client library
  outside the repository, search, and filters.
- Of claims: rows of earlier versions (`superseded_split`, released manifests of split chunks), webhooks,
  message history, `skip_duplicates` off, which claims nothing.
- Of quotas: soft and monitored policies, which only warn, and the reports. Of settings: other
  organizations and values that decide nothing here.
- Parsing and chunking of exports, prompts, notices and formatting, which are pure conversions; embedding
  and scoring, which are numeric; adapters, which keep no state; migrations, which are straight-line DDL.
- Two scripts that work on the database directly. `scripts/reset_admin_password.py` writes a password hash and
  ends no session: tokens issued before it stay good, and `PasswordChangeRevokes` is about the handler only.
  `scripts/prune_request_logs.py` deletes request logs older than its retention, which may be shorter than
  the period of a policy: the quota then counts too few, and `QuotaOvershoot` is about handlers and lost
  logs only.
- The dashboard, the MCP server and the other scripts: clients of the API, smoke tests and benchmarks.

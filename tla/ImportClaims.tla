----------------------------- MODULE ImportClaims -----------------------------
(***************************************************************************)
(* How the chunks of an import become memories exactly once: the chunk,    *)
(* manifest and memory-hash rows (server/import_repository.py), the vector *)
(* rows, and the runs that claim, store, reconcile, split, skip and fail   *)
(* chunks (server/main.py, server/chat_import.py, mem0/memory/main.py).    *)
(*                                                                         *)
(* The module follows ONE conversation of a project.  Import keys and      *)
(* memory-hash claims are scoped to a conversation, and run_import_job     *)
(* gives all chunks of a conversation to one worker of its pool, in order; *)
(* so the workers of one run share nothing here and a run is one process   *)
(* counter.  Runs of different jobs, and of one job after its lease was    *)
(* lost, do meet.  One action is one transaction, or one reading of the    *)
(* vector store, or one insertion into it.                                 *)
(*                                                                         *)
(* The job's life around a run is in ImportJob; here a job is active,      *)
(* completed, or ended in a way that can be retried.  skip_duplicates is   *)
(* on, as it is by default.                                                *)
(***************************************************************************)
EXTENDS Naturals, Sequences

CONSTANTS
    Jobs,         \* imports of files that hold the conversation
    Runs,         \* lease owners, one per runner thread
    Keys,         \* import keys of the chunks
    Hashes,       \* memory hashes: what a memory says
    NoOne,        \* no run, job, key or hash
    Source,       \* Source[j]: the chunks job j cuts the conversation into
    Children,     \* Children[k]: split_message_chunk of chunk k; empty if it cannot be split
    Facts,        \* Facts[k]: what the model may extract from chunk k
    Stored,       \* Stored[h]: the key of a memory that was there before manifests were kept
    MaxAttempts,  \* options.max_attempts
    Faults,       \* the faults that may happen
    MaxFaults,    \* bound on them
    MaxRequests   \* bound on cancel and retry requests

ASSUME NoOneAssumption == NoOne \notin Jobs \cup Runs \cup Keys \cup Hashes
ASSUME ChunksAssumption ==
    /\ Source \in [Jobs -> Seq(Keys)]
    /\ Children \in [Keys -> Seq(Keys)]
    /\ \A k \in Keys : Len(Children[k]) \in {0, 2}
    /\ Facts \in [Keys -> SUBSET Hashes]
    /\ Stored \in [Hashes -> Keys \cup {NoOne}]
ASSUME BoundsAssumption == MaxAttempts \in Nat \ {0} /\ MaxFaults \in Nat /\ MaxRequests \in Nat
ASSUME FaultsAssumption == Faults \subseteq {"crash", "expire", "break", "error"}

VARIABLES
    job,       \* "active", "completed" or "retryable"
    cancel,    \* cancel_requested of each job
    lease,     \* the run that holds the live lease of each job
    chunk,     \* chunk[j][k]: the status of the chunk row
    manifest,  \* the manifest row of each key: status and job
    hash,      \* the hash row of each memory: status, and the job and chunk that claimed it
    vector,    \* the import key of each stored memory; its id is a function of its hash
    run,       \* the runner thread behind each lease owner
    left       \* the faults and the requests still to come

vars == <<job, cancel, lease, chunk, manifest, hash, vector, run, left>>

-----------------------------------------------------------------------------
(* The states of the rows and of a run. *)

\* "open" stands for pending, processing, retrying and cancelled.
ChunkStatuses == {"absent", "open", "succeeded", "skipped", "failed", "split"}
ReclaimableStatuses == {"failed", "released"}
ManifestStatuses == {"absent", "claimed", "succeeded", "split"} \cup ReclaimableStatuses

Manifest == [status: ManifestStatuses, job: Jobs \cup {NoOne}]
Hash == [status: {"absent", "claimed", "succeeded"}, job: Jobs \cup {NoOne},
         key: Keys \cup {NoOne}]

Unclaimed == [status |-> "absent", job |-> NoOne]
Free == [status |-> "absent", job |-> NoOne, key |-> NoOne]

\* Inside the try statement of process_chunk: an exception here is handled per chunk.
StorePcs == {"hash", "legacy", "guard", "insert", "effects"}
TryPcs == StorePcs \cup {"store", "redo", "settle", "record", "done", "drop"}
\* The chunk is claimed and its import has not ended.
ImportPcs == TryPcs \cup {"attempt", "error", "fail", "cancel"}
Pcs == ImportPcs \cup
       {"plan", "dedup", "next", "skipclaim", "skipmark", "skip", "resumed", "own",
        "ownrelease", "ownhash", "reclaim", "failed", "split", "splithash", "splitchunk",
        "cancelhash", "cancelchunk"}

Idle == [job |-> NoOne, pc |-> "idle", todo |-> <<>>, existing |-> {}, legacy |-> {},
         attempt |-> 1, rec |-> FALSE, want |-> {}, got |-> {}, mark |-> NoOne]

Live == [job: Jobs, pc: Pcs, todo: Seq(Keys),
         existing: SUBSET Keys,  \* existing_keys
         legacy: SUBSET Hashes,  \* _import_legacy_hashes of the job
         attempt: 1..MaxAttempts,
         rec: BOOLEAN,           \* reconcile_existing
         want: SUBSET Hashes,    \* extracted, not yet claimed
         got: SUBSET Hashes,     \* claimed_memory_hashes, or the rows being reconciled
         mark: Hashes \cup {NoOne}]
Run == {Idle} \cup Live

Init ==
    /\ job = [j \in Jobs |-> "active"]
    /\ cancel = [j \in Jobs |-> FALSE]
    /\ lease = [j \in Jobs |-> NoOne]
    /\ chunk = [j \in Jobs |-> [k \in Keys |-> "absent"]]
    /\ manifest = [k \in Keys |-> Unclaimed]
    /\ hash = [h \in Hashes |-> Free]
    /\ vector = Stored
    /\ run = [r \in Runs |-> Idle]
    /\ left = [faults |-> MaxFaults, requests |-> MaxRequests]

-----------------------------------------------------------------------------
(* What the steps are made of. *)

J(r) == run[r].job
K(r) == Head(run[r].todo)

\* _active_lease_conditions, which every fenced transaction repeats.
Holds(r) == lease[J(r)] = r
At(r, pc) == run[r].pc = pc
Fenced(r, pc) == At(r, pc) /\ Holds(r)

Goto(r, pc) == run' = [run EXCEPT ![r].pc = pc]
\* The chunk at hand is finished with; what is to be done next.
Proceed(r, todo) ==
    run' = [run EXCEPT ![r] = [Idle EXCEPT !.job = J(r), !.pc = "next", !.todo = todo,
                                           !.existing = run[r].existing,
                                           !.legacy = run[r].legacy]]

RowsOf(k) == {h \in Hashes : vector[h] = k}

\* mark_manifest with a lease owner: only the job that claimed the key may change it.
MarkManifest(r, status) ==
    manifest' = [manifest EXCEPT ![K(r)] = IF @.job = J(r) THEN [@ EXCEPT !.status = status]
                                                           ELSE @]
SetChunk(r, status) == chunk' = [chunk EXCEPT ![J(r)][K(r)] = status]

ClaimOf(r) == [status |-> "claimed", job |-> J(r), key |-> K(r)]
\* release_memory_hashes and mark_memory_hashes_succeeded of the chunk at hand.
ReleaseHashes(r, hs) ==
    hash' = [h \in Hashes |-> IF h \in hs /\ hash[h] = ClaimOf(r) THEN Free ELSE hash[h]]
SucceedHashes(r, hs) ==
    hash' = [h \in Hashes |-> IF h \in hs /\ hash[h] = ClaimOf(r)
                              THEN [hash[h] EXCEPT !.status = "succeeded"] ELSE hash[h]]

Spend(what) == left[what] > 0 /\ left' = [left EXCEPT ![what] = @ - 1]

\* expand_persisted_split_chunks: the leaves of the split trees, in order.
Leaves(j, split) ==
    LET leaves[k \in Keys] == IF k \in split
                              THEN leaves[Children[k][1]] \o leaves[Children[k][2]]
                              ELSE <<k>>
        upto[i \in 0..Len(Source[j])] == IF i = 0 THEN <<>>
                                         ELSE upto[i - 1] \o leaves[Source[j][i]]
    IN upto[Len(Source[j])]

\* The chunks of job j and all that those in split are split into, however often.
Elems(s) == {s[i] : i \in DOMAIN s}
Closed(j, split, S) ==
    Elems(Source[j]) \subseteq S /\ \A k \in S \cap split : Elems(Children[k]) \subseteq S
Reached(j, split) == {k \in Keys : \A S \in SUBSET Keys : Closed(j, split, S) => k \in S}

\* split_message_chunk halves a chunk, so its split trees are finite, and their leaves are what
\* is reached without being split.
Splittable == {k \in Keys : Children[k] # <<>>}
ASSUME LeavesAssumption ==
    \A j \in Jobs : \A split \in SUBSET Splittable :
        /\ Leaves(j, split) \in Seq(Keys)
        /\ Elems(Leaves(j, split)) = Reached(j, split) \ split

-----------------------------------------------------------------------------
(* A run takes the lease and finds out what is left to do. *)

\* The runner thread of j lists the memories that are already there.
Start(r, j) ==
    /\ run[r] = Idle
    /\ job[j] = "active" /\ ~cancel[j] /\ lease[j] = NoOne
    /\ lease' = [lease EXCEPT ![j] = r]
    /\ run' = [run EXCEPT ![r] = [Idle EXCEPT !.job = j, !.pc = "plan",
                                              !.legacy = {h \in Hashes : vector[h] # NoOne}]]
    /\ UNCHANGED <<job, cancel, chunk, manifest, hash, vector, left>>

\* load_persisted_chunk_statuses: the job's own chunk row, else a split manifest.
PersistedSplit(j) ==
    {k \in Keys : IF chunk[j][k] = "absent" THEN manifest[k].status = "split"
                                            ELSE chunk[j][k] = "split"}

Plan(r) ==
    /\ Fenced(r, "plan")
    /\ run' = [run EXCEPT ![r].pc = "dedup", ![r].todo = Leaves(J(r), PersistedSplit(J(r)))]
    /\ UNCHANGED <<job, cancel, lease, chunk, manifest, hash, vector, left>>

\* load_existing: imported elsewhere or in the vector store, unless the manifest is ours.
ExistingKeys(j) ==
    {k \in Keys : /\ manifest[k].job # j
                  /\ manifest[k].status = "succeeded" \/ RowsOf(k) # {}}

Dedup(r) ==
    /\ Fenced(r, "dedup")
    /\ run' = [run EXCEPT ![r].pc = "next",
                          ![r].existing = {k \in ExistingKeys(J(r)) :
                                             \E i \in DOMAIN run[r].todo : run[r].todo[i] = k}]
    /\ UNCHANGED <<job, cancel, lease, chunk, manifest, hash, vector, left>>

HasWork(r) == Fenced(r, "next") /\ ~cancel[J(r)] /\ run[r].todo # <<>>

\* The end of run_import_job and of the runner thread.
EndRun(r) ==
    /\ Fenced(r, "next")
    /\ cancel[J(r)] \/ run[r].todo = <<>>
    /\ job' = [job EXCEPT ![J(r)] =
                 IF cancel[J(r)] \/ \E k \in Keys : chunk[J(r)][k] = "failed"
                 THEN "retryable" ELSE "completed"]
    /\ lease' = [lease EXCEPT ![J(r)] = NoOne]
    /\ run' = [run EXCEPT ![r] = Idle]
    /\ UNCHANGED <<cancel, chunk, manifest, hash, vector, left>>

-----------------------------------------------------------------------------
(* A chunk that was imported before: update_chunk "skipped". *)

SkipExisting(r) ==
    /\ HasWork(r) /\ K(r) \in run[r].existing
    /\ chunk' = [chunk EXCEPT ![J(r)][K(r)] = IF @ = "absent" THEN "open" ELSE @]
    /\ Goto(r, IF manifest[K(r)].status = "absent" THEN "skipclaim" ELSE "skip")
    /\ UNCHANGED <<job, cancel, lease, manifest, hash, vector, left>>

\* Mutant of Claimable: a split key can be claimed again as a whole.
ClaimableAfterSplit(k) == manifest[k].status \in {"absent", "split"} \cup ReclaimableStatuses

Claimable(k) == manifest[k].status \in {"absent"} \cup ReclaimableStatuses
ClaimManifest(r) ==
    manifest' = [manifest EXCEPT ![K(r)] = [status |-> "claimed", job |-> J(r)]]

\* The memories of the key are there and nothing says who wrote them: it becomes ours.
SkipClaim(r) ==
    /\ Fenced(r, "skipclaim")
    /\ \/ Claimable(K(r)) /\ ClaimManifest(r) /\ Goto(r, "skipmark")
       \/ ~Claimable(K(r)) /\ UNCHANGED manifest /\ Goto(r, "skip")
    /\ UNCHANGED <<job, cancel, lease, chunk, hash, vector, left>>

SkipMark(r) ==
    /\ Fenced(r, "skipmark")
    /\ MarkManifest(r, "succeeded")
    /\ Goto(r, "skip")
    /\ UNCHANGED <<job, cancel, lease, chunk, hash, vector, left>>

SkipChunk(r) ==
    /\ Fenced(r, "skip")
    /\ SetChunk(r, "skipped")
    /\ Proceed(r, Tail(run[r].todo))
    /\ UNCHANGED <<job, cancel, lease, manifest, hash, vector, left>>

-----------------------------------------------------------------------------
(* _claim_import_chunk: the chunk row is opened again unless it is terminal, and *)
(* what follows depends on the manifest.                                         *)

ToClaim(r) == HasWork(r) /\ K(r) \notin run[r].existing
OpenChunk(r) ==
    chunk' = [chunk EXCEPT ![J(r)][K(r)] = IF @ \in {"succeeded", "split"} THEN @ ELSE "open"]

ResumeSucceeded(r) ==
    /\ ToClaim(r)
    /\ chunk[J(r)][K(r)] = "succeeded"
    /\ Proceed(r, Tail(run[r].todo))
    /\ UNCHANGED <<job, cancel, lease, chunk, manifest, hash, vector, left>>

\* A key claimed before (attempts > 1) may have left memories behind.
StartAttempts(r, rec) ==
    run' = [run EXCEPT ![r].pc = "attempt", ![r].attempt = 1, ![r].rec = rec]

ClaimFree(r) ==
    /\ ToClaim(r)
    /\ chunk[J(r)][K(r)] # "succeeded" /\ Claimable(K(r))
    /\ OpenChunk(r)
    /\ ClaimManifest(r)
    /\ StartAttempts(r, manifest[K(r)].status # "absent")
    /\ UNCHANGED <<job, cancel, lease, hash, vector, left>>

\* The key was split or imported meanwhile, or it is claimed by an earlier run of this job.
ClaimSettled(r) ==
    /\ ToClaim(r)
    /\ chunk[J(r)][K(r)] # "succeeded"
    /\ OpenChunk(r)
    /\ LET m == manifest[K(r)] IN
       \/ m.status = "split" /\ Goto(r, "split")
       \/ m.status = "succeeded" /\ m.job = J(r) /\ Goto(r, "resumed")
       \/ m.status = "succeeded" /\ m.job # J(r) /\ Goto(r, "skip")
       \/ m.status = "claimed" /\ m.job = J(r) /\ Goto(r, "own")
    /\ UNCHANGED <<job, cancel, lease, manifest, hash, vector, left>>

\* "busy": wait and claim again, at most MaxAttempts times.
Busy(r) ==
    \/ /\ run[r].attempt < MaxAttempts
       /\ run' = [run EXCEPT ![r].pc = "next", ![r].attempt = @ + 1]
       /\ OpenChunk(r)
    \/ /\ run[r].attempt = MaxAttempts
       /\ Proceed(r, Tail(run[r].todo))
       /\ SetChunk(r, "failed")

ClaimBusy(r) ==
    /\ ToClaim(r)
    /\ chunk[J(r)][K(r)] # "succeeded"
    /\ manifest[K(r)].status = "claimed" /\ manifest[K(r)].job # J(r)
    /\ Busy(r)
    /\ UNCHANGED <<job, cancel, lease, manifest, hash, vector, left>>

\* Mutant of ReadOwn: an own claim without memories is passed over as if it were done.
ReadOwnGivesUp(r) ==
    /\ At(r, "own")
    /\ \/ RowsOf(K(r)) # {} /\ StartAttempts(r, TRUE)
       \/ RowsOf(K(r)) = {} /\ Proceed(r, Tail(run[r].todo))
    /\ UNCHANGED <<job, cancel, lease, chunk, manifest, hash, vector, left>>

\* An earlier run of this job left the claim: did it store anything?
ReadOwn(r) ==
    /\ At(r, "own")
    /\ \/ RowsOf(K(r)) # {} /\ StartAttempts(r, TRUE)
       \/ RowsOf(K(r)) = {} /\ Goto(r, "ownrelease")
    /\ UNCHANGED <<job, cancel, lease, chunk, manifest, hash, vector, left>>

OwnRelease(r) ==
    /\ Fenced(r, "ownrelease")
    /\ MarkManifest(r, "released")
    /\ Goto(r, "ownhash")
    /\ UNCHANGED <<job, cancel, lease, chunk, hash, vector, left>>

OwnHashes(r) ==
    /\ Fenced(r, "ownhash")
    /\ ReleaseHashes(r, Hashes)
    /\ Goto(r, "reclaim")
    /\ UNCHANGED <<job, cancel, lease, chunk, manifest, vector, left>>

Reclaim(r) ==
    /\ Fenced(r, "reclaim")
    /\ \/ Claimable(K(r)) /\ ClaimManifest(r) /\ StartAttempts(r, TRUE) /\ UNCHANGED chunk
       \/ ~Claimable(K(r)) /\ UNCHANGED manifest /\ Busy(r)
    /\ UNCHANGED <<job, cancel, lease, hash, vector, left>>

-----------------------------------------------------------------------------
(* An attempt to import the chunk: _store_import_chunk. *)

Attempt(r) ==
    /\ Fenced(r, "attempt") /\ ~cancel[J(r)]
    /\ SetChunk(r, "open")
    /\ run' = [run EXCEPT ![r].pc = "store", ![r].got = {}]
    /\ UNCHANGED <<job, cancel, lease, manifest, hash, vector, left>>

AttemptCancelled(r) ==
    /\ At(r, "attempt") /\ cancel[J(r)]
    /\ Goto(r, "cancel")
    /\ UNCHANGED <<job, cancel, lease, chunk, manifest, hash, vector, left>>

\* Mutant of Reconciles: a second attempt does not look for what the first has stored.
ReconcilesReclaimed(r) == run[r].rec

Reconciles(r) == run[r].rec \/ run[r].attempt > 1

\* _reconcile_import_vector_rows: an earlier attempt has stored the chunk.
Reconcile(r) ==
    /\ Fenced(r, "store") /\ Reconciles(r)
    /\ RowsOf(K(r)) # {}
    /\ run' = [run EXCEPT ![r].pc = "redo", ![r].got = RowsOf(K(r))]
    /\ UNCHANGED <<job, cancel, lease, chunk, manifest, hash, vector, left>>

\* The model answers; what the top-10 search already knows is left out of want.
Extract(r) ==
    /\ At(r, "store")
    /\ Reconciles(r) => Holds(r) /\ RowsOf(K(r)) = {}
    /\ \E want \in SUBSET Facts[K(r)] :
         run' = [run EXCEPT ![r].pc = "hash", ![r].want = want]
    /\ UNCHANGED <<job, cancel, lease, chunk, manifest, hash, vector, left>>

\* claim_memory_hash: a refused memory is dropped; one that was stored before the run
\* started is dropped too, and its hash becomes ours if it was nobody's.
ClaimHash(r) ==
    /\ Fenced(r, "hash")
    /\ \E h \in run[r].want :
         \/ /\ hash[h].status # "absent"
            /\ run' = [run EXCEPT ![r].want = @ \ {h}]
            /\ UNCHANGED hash
         \/ /\ hash[h].status = "absent"
            /\ hash' = [hash EXCEPT ![h] = ClaimOf(r)]
            /\ \/ /\ h \in run[r].legacy
                  /\ run' = [run EXCEPT ![r].want = @ \ {h}, ![r].mark = h, ![r].pc = "legacy"]
               \/ /\ h \notin run[r].legacy
                  /\ run' = [run EXCEPT ![r].want = @ \ {h}, ![r].got = @ \cup {h}]
    /\ UNCHANGED <<job, cancel, lease, chunk, manifest, vector, left>>

MarkLegacy(r) ==
    /\ Fenced(r, "legacy")
    /\ SucceedHashes(r, {run[r].mark})
    /\ run' = [run EXCEPT ![r].pc = "hash", ![r].mark = NoOne]
    /\ UNCHANGED <<job, cancel, lease, chunk, manifest, vector, left>>

\* Nothing new: the chunk has been imported with no memory of its own.
Select(r) ==
    /\ At(r, "hash") /\ run[r].want = {}
    /\ Goto(r, IF run[r].got = {} THEN "settle" ELSE "guard")
    /\ UNCHANGED <<job, cancel, lease, chunk, manifest, hash, vector, left>>

\* The execution guard asserts the lease in a transaction of its own ...
Guard(r) ==
    /\ Fenced(r, "guard")
    /\ Goto(r, "insert")
    /\ UNCHANGED <<job, cancel, lease, chunk, manifest, hash, vector, left>>

\* Mutant of Insert: without strict_vector_write, an insertion that fails is only logged.
InsertLeniently(r) ==
    /\ At(r, "insert")
    /\ \/ /\ \A h \in run[r].got : vector[h] = NoOne
          /\ vector' = [h \in Hashes |-> IF h \in run[r].got THEN K(r) ELSE vector[h]]
       \/ UNCHANGED vector
    /\ Goto(r, "effects")
    /\ UNCHANGED <<job, cancel, lease, chunk, manifest, hash, left>>

\* ... and the insertion that follows is all or nothing.  The id is a function of the
\* hash, so a memory that is already there is a duplicate key.
Insert(r) ==
    /\ At(r, "insert")
    /\ \/ /\ \A h \in run[r].got : vector[h] = NoOne
          /\ vector' = [h \in Hashes |-> IF h \in run[r].got THEN K(r) ELSE vector[h]]
          /\ Goto(r, "effects")
       \/ /\ \E h \in run[r].got : vector[h] # NoOne
          /\ UNCHANGED vector
          /\ Goto(r, "drop")
    /\ UNCHANGED <<job, cancel, lease, chunk, manifest, hash, left>>

\* _complete_import_side_effects: history, entities and messages, guarded.
Effects(r) ==
    /\ Fenced(r, "effects") \/ Fenced(r, "redo")
    /\ Goto(r, "settle")
    /\ UNCHANGED <<job, cancel, lease, chunk, manifest, hash, vector, left>>

Settle(r) ==
    /\ Fenced(r, "settle")
    /\ SucceedHashes(r, run[r].got)
    /\ Goto(r, "record")
    /\ UNCHANGED <<job, cancel, lease, chunk, manifest, vector, left>>

\* Mutant of Record: the manifest is marked by a run that has lost its lease.
RecordUnfenced(r) ==
    /\ At(r, "record")
    /\ MarkManifest(r, "succeeded")
    /\ Goto(r, "done")
    /\ UNCHANGED <<job, cancel, lease, chunk, hash, vector, left>>

Record(r) ==
    /\ Fenced(r, "record")
    /\ MarkManifest(r, "succeeded")
    /\ Goto(r, "done")
    /\ UNCHANGED <<job, cancel, lease, chunk, hash, vector, left>>

Done(r) ==
    /\ Fenced(r, "done") \/ Fenced(r, "resumed")
    /\ SetChunk(r, "succeeded")
    /\ Proceed(r, Tail(run[r].todo))
    /\ UNCHANGED <<job, cancel, lease, manifest, hash, vector, left>>

-----------------------------------------------------------------------------
(* An attempt that raises: what is retried, split or given up. *)

\* _store_memory raised; the claims of this attempt are released by "drop".
StoreFails(r) ==
    /\ run[r].pc \in StorePcs
    /\ Goto(r, "drop")
    /\ UNCHANGED <<job, cancel, lease, chunk, manifest, hash, vector, left>>

\* Mutant of Drop: the claims of a failed attempt stay.
DropNothing(r) ==
    /\ Fenced(r, "drop")
    /\ Goto(r, "error")
    /\ UNCHANGED <<job, cancel, lease, chunk, manifest, hash, vector, left>>

Drop(r) ==
    /\ Fenced(r, "drop")
    /\ ReleaseHashes(r, run[r].got)
    /\ Goto(r, "error")
    /\ UNCHANGED <<job, cancel, lease, chunk, manifest, vector, left>>

\* The side effects raised while an earlier attempt's memories were reconciled.
RedoFails(r) ==
    /\ At(r, "redo")
    /\ Goto(r, "error")
    /\ UNCHANGED <<job, cancel, lease, chunk, manifest, hash, vector, left>>

\* The database did not take what comes after the side effects, or the release of the claims.
BookkeepingFails(r) ==
    /\ run[r].pc \in {"settle", "record", "done", "drop"}
    /\ "error" \in Faults /\ Spend("faults")
    /\ Goto(r, "error")
    /\ UNCHANGED <<job, cancel, lease, chunk, manifest, hash, vector>>

\* Mutant of Again: one attempt too many.
AgainOnceMore(r) ==
    /\ Fenced(r, "error")
    /\ run[r].attempt <= MaxAttempts
    /\ SetChunk(r, "open")
    /\ run' = [run EXCEPT ![r].pc = "attempt", ![r].attempt = @ + 1,
                          ![r].want = {}, ![r].got = {}, ![r].mark = NoOne]
    /\ UNCHANGED <<job, cancel, lease, manifest, hash, vector, left>>

\* Mutant of Again: the attempts are not counted.
AgainUncounted(r) ==
    /\ Fenced(r, "error")
    /\ SetChunk(r, "open")
    /\ run' = [run EXCEPT ![r].pc = "attempt", ![r].want = {}, ![r].got = {}, ![r].mark = NoOne]
    /\ UNCHANGED <<job, cancel, lease, manifest, hash, vector, left>>

\* "retrying"; a cancellation seen during the backoff is seen at the next attempt here.
Again(r) ==
    /\ Fenced(r, "error")
    /\ run[r].attempt < MaxAttempts
    /\ SetChunk(r, "open")
    /\ run' = [run EXCEPT ![r].pc = "attempt", ![r].attempt = @ + 1,
                          ![r].want = {}, ![r].got = {}, ![r].mark = NoOne]
    /\ UNCHANGED <<job, cancel, lease, manifest, hash, vector, left>>

\* The last attempt, an exception that is not retried, or one that splits the chunk.
GiveUpChunk(r) ==
    /\ At(r, "error")
    /\ \/ Goto(r, IF cancel[J(r)] THEN "cancel" ELSE "fail")
       \/ Children[K(r)] # <<>> /\ Goto(r, "split")
    /\ UNCHANGED <<job, cancel, lease, chunk, manifest, hash, vector, left>>

\* Mutant of FailManifest: the manifest is marked failed by a run that has lost its lease.
FailManifestUnfenced(r) ==
    /\ At(r, "fail")
    /\ MarkManifest(r, "failed")
    /\ Goto(r, "failed")
    /\ UNCHANGED <<job, cancel, lease, chunk, hash, vector, left>>

\* _update_import_chunk: the manifest, then the hashes, then the chunk row.
FailManifest(r) ==
    /\ Fenced(r, "fail")
    /\ MarkManifest(r, "failed")
    /\ Goto(r, "failed")
    /\ UNCHANGED <<job, cancel, lease, chunk, hash, vector, left>>

FailChunk(r) ==
    /\ Fenced(r, "failed")
    /\ SetChunk(r, "failed")
    /\ Proceed(r, Tail(run[r].todo))
    /\ UNCHANGED <<job, cancel, lease, manifest, hash, vector, left>>

SplitManifest(r) ==
    /\ Fenced(r, "split")
    /\ MarkManifest(r, "split")
    /\ Goto(r, "splithash")
    /\ UNCHANGED <<job, cancel, lease, chunk, hash, vector, left>>

CancelManifest(r) ==
    /\ Fenced(r, "cancel")
    /\ MarkManifest(r, "released")
    /\ Goto(r, "cancelhash")
    /\ UNCHANGED <<job, cancel, lease, chunk, hash, vector, left>>

ReleaseChunkHashes(r) ==
    /\ Fenced(r, "splithash") \/ Fenced(r, "cancelhash")
    /\ ReleaseHashes(r, Hashes)
    /\ Goto(r, IF At(r, "splithash") THEN "splitchunk" ELSE "cancelchunk")
    /\ UNCHANGED <<job, cancel, lease, chunk, manifest, vector, left>>

\* Mutant of SplitChunk: only the first half is imported.
SplitChunkHalf(r) ==
    /\ Fenced(r, "splitchunk")
    /\ SetChunk(r, "split")
    /\ Proceed(r, (IF Children[K(r)] = <<>> THEN <<>> ELSE <<Children[K(r)][1]>>) \o Tail(run[r].todo))
    /\ UNCHANGED <<job, cancel, lease, manifest, hash, vector, left>>

\* The children take the place of the chunk.
SplitChunk(r) ==
    /\ Fenced(r, "splitchunk")
    /\ SetChunk(r, "split")
    /\ Proceed(r, Children[K(r)] \o Tail(run[r].todo))
    /\ UNCHANGED <<job, cancel, lease, manifest, hash, vector, left>>

CancelChunk(r) ==
    /\ Fenced(r, "cancelchunk")
    /\ SetChunk(r, "open")
    /\ Proceed(r, Tail(run[r].todo))
    /\ UNCHANGED <<job, cancel, lease, manifest, hash, vector, left>>

-----------------------------------------------------------------------------
(* What happens around the runs. *)

\* A fenced transaction raises ImportLeaseLost, or the renewal thread has noticed.
Lose(r) ==
    /\ run[r] # Idle /\ ~Holds(r)
    /\ run' = [run EXCEPT ![r] = Idle]
    /\ UNCHANGED <<job, cancel, lease, chunk, manifest, hash, vector, left>>

RequestCancel(j) ==
    /\ job[j] = "active" /\ ~cancel[j]
    /\ Spend("requests")
    /\ cancel' = [cancel EXCEPT ![j] = TRUE]
    /\ UNCHANGED <<job, lease, chunk, manifest, hash, vector, run>>

\* A cancelled job nobody works on any more is marked cancelled, without a run.
WriteOff(j) ==
    /\ job[j] = "active" /\ cancel[j] /\ lease[j] = NoOne
    /\ job' = [job EXCEPT ![j] = "retryable"]
    /\ UNCHANGED <<cancel, lease, chunk, manifest, hash, vector, run, left>>

\* A retry reopens the failed chunks; their claims stay as they are.
Retry(j) ==
    /\ job[j] = "retryable" /\ lease[j] = NoOne
    /\ Spend("requests")
    /\ job' = [job EXCEPT ![j] = "active"]
    /\ cancel' = [cancel EXCEPT ![j] = FALSE]
    /\ chunk' = [chunk EXCEPT ![j] = [k \in Keys |-> IF @[k] = "failed" THEN "open" ELSE @[k]]]
    /\ UNCHANGED <<lease, manifest, hash, vector, run>>

\* The process dies; the lease runs out before anybody takes it.
Crash(r) ==
    /\ run[r] # Idle
    /\ "crash" \in Faults /\ Spend("faults")
    /\ lease' = IF Holds(r) THEN [lease EXCEPT ![J(r)] = NoOne] ELSE lease
    /\ run' = [run EXCEPT ![r] = Idle]
    /\ UNCHANGED <<job, cancel, chunk, manifest, hash, vector>>

\* The lease runs out under a run that goes on.
Expire(r) ==
    /\ run[r] # Idle /\ Holds(r)
    /\ "expire" \in Faults /\ Spend("faults")
    /\ lease' = [lease EXCEPT ![J(r)] = NoOne]
    /\ UNCHANGED <<job, cancel, chunk, manifest, hash, vector, run>>

\* An exception outside the try statement of process_chunk ends the run and fails the job.
Break(r) ==
    /\ run[r] # Idle /\ Holds(r) /\ run[r].pc \notin TryPcs
    /\ "break" \in Faults /\ Spend("faults")
    /\ job' = [job EXCEPT ![J(r)] = "retryable"]
    /\ lease' = [lease EXCEPT ![J(r)] = NoOne]
    /\ run' = [run EXCEPT ![r] = Idle]
    /\ UNCHANGED <<cancel, chunk, manifest, hash, vector>>

ClaimStep(r) ==
    \/ SkipExisting(r) \/ SkipClaim(r) \/ SkipMark(r) \/ SkipChunk(r)
    \/ ResumeSucceeded(r) \/ ClaimFree(r) \/ ClaimSettled(r) \/ ClaimBusy(r)
    \/ ReadOwn(r) \/ OwnRelease(r) \/ OwnHashes(r) \/ Reclaim(r)

StoreStep(r) ==
    \/ Attempt(r) \/ AttemptCancelled(r) \/ Reconcile(r) \/ Extract(r) \/ ClaimHash(r)
    \/ MarkLegacy(r) \/ Select(r) \/ Guard(r) \/ Insert(r) \/ Effects(r) \/ Settle(r)
    \/ Record(r) \/ Done(r)

FailStep(r) ==
    \/ StoreFails(r) \/ Drop(r) \/ RedoFails(r) \/ Again(r) \/ GiveUpChunk(r)
    \/ FailManifest(r) \/ FailChunk(r) \/ SplitManifest(r) \/ CancelManifest(r)
    \/ ReleaseChunkHashes(r) \/ SplitChunk(r) \/ CancelChunk(r)

RunStep(r) ==
    Plan(r) \/ Dedup(r) \/ ClaimStep(r) \/ StoreStep(r) \/ FailStep(r) \/ EndRun(r) \/ Lose(r)

Fault(r) == Crash(r) \/ Expire(r) \/ Break(r) \/ BookkeepingFails(r)

Next ==
    \/ \E r \in Runs : RunStep(r) \/ Fault(r) \/ \E j \in Jobs : Start(r, j)
    \/ \E j \in Jobs : RequestCancel(j) \/ WriteOff(j) \/ Retry(j)

Spec == Init /\ [][Next]_vars

\* Threads go on, and the recovery scan resumes or writes off every job left active.
Fairness ==
    /\ \A r \in Runs : WF_vars(RunStep(r))
    /\ \A j \in Jobs : WF_vars(\E r \in Runs : Start(r, j)) /\ WF_vars(WriteOff(j))

FairSpec == Spec /\ Fairness

-----------------------------------------------------------------------------
(* What a correct import keeps. *)

\* Every row and every run is of a shape the code can write.
TypeOK ==
    /\ job \in [Jobs -> {"active", "completed", "retryable"}]
    /\ cancel \in [Jobs -> BOOLEAN]
    /\ lease \in [Jobs -> Runs \cup {NoOne}]
    /\ chunk \in [Jobs -> [Keys -> ChunkStatuses]]
    /\ manifest \in [Keys -> Manifest]
    /\ hash \in [Hashes -> Hash]
    /\ vector \in [Hashes -> Keys \cup {NoOne}]
    /\ \A r \in Runs : run[r] \in Run
    /\ left \in [faults: 0..MaxFaults, requests: 0..MaxRequests]

Importing(r) == run[r].pc \in ImportPcs /\ Holds(r)

\* A run that holds its lease and imports a chunk has the chunk's key to itself: the manifest
\* names its job until the import has ended, so no two jobs import one key at a time.
KeyIsOwned ==
    \A r \in Runs : Importing(r) =>
        manifest[K(r)].job = J(r) /\ manifest[K(r)].status \in {"claimed", "succeeded"}

\* A hash is only ever settled for a memory that was stored; the dedup on succeeded hashes
\* cannot hide a memory that was never written.
SettledHashIsStored ==
    \A h \in Hashes : hash[h].status = "succeeded" => vector[h] # NoOne

\* A job that completes without error has dealt with its whole conversation: every leaf of
\* every split tree succeeded or was skipped, and a skipped or succeeded key has been imported.
Imported(k) == manifest[k].status = "succeeded" \/ RowsOf(k) # {}
CompletedCovers ==
    \A j \in Jobs : job[j] = "completed" =>
        LET keys == Leaves(j, PersistedSplit(j))
        IN \A i \in DOMAIN keys : chunk[j][keys[i]] \in {"succeeded", "skipped"}
                                  /\ Imported(keys[i])

\* The memories of a key come from one extraction: once some are stored, retries, later runs
\* and other imports reconcile or skip them and never extract the key again.  Two limits: no lease
\* runs out under a run that goes on, as the insertion itself is not fenced; and no memory older
\* than the manifests has the key of a half of a chunk, as halves are not looked up.
ImportedOnce == [][\A k \in Keys : RowsOf(k) # {} => RowsOf(k)' = RowsOf(k)]_vars

\* As long as nothing has crashed, a claim on a memory that is not stored yet belongs to a run
\* that is importing its chunk, so a memory dropped because its hash is claimed is dropped in
\* favour of somebody.
ClaimIsHeld ==
    left.faults = MaxFaults => \A h \in Hashes : hash[h].status = "claimed" /\ vector[h] = NoOne =>
        \E r \in Runs : Importing(r) /\ J(r) = hash[h].job /\ K(r) = hash[h].key

\* A split is final: its manifest never changes again, and nothing is stored for the parent but
\* by a run whose lease ran out between its guard and its insertion.
LateInsert(k) == \E r \in Runs : run[r].pc = "insert" /\ ~Holds(r) /\ K(r) = k
SplitIsFinal ==
    [][\A k \in Keys : manifest[k].status = "split" =>
         manifest'[k] = manifest[k] /\ (RowsOf(k)' = RowsOf(k) \/ LateInsert(k))]_vars

\* Every import ends, whatever raises, runs out or dies.
ImportsEnd == \A j \in Jobs : job[j] = "active" ~> job[j] # "active"

\* A key that was claimed is imported, split, failed or released in the end.
ClaimsResolve ==
    \A k \in Keys : manifest[k].status = "claimed" ~> manifest[k].status # "claimed"

(* What the documents and tests say, and the code does not keep. *)

\* When a chunk has succeeded, so have the hashes of its memories.
StoredHashIsSettled ==
    \A k \in Keys : manifest[k].status = "succeeded" =>
        \A h \in RowsOf(k) : hash[h].status = "succeeded"
=============================================================================

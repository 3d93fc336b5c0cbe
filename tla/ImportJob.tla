------------------------------ MODULE ImportJob ------------------------------
(***************************************************************************)
(* The life of a chat-history import job: its database row and lease       *)
(* (server/import_repository.py), its upload directory, and the threads    *)
(* and requests that move it (server/main.py, server/chat_import.py).      *)
(*                                                                         *)
(* Every request handler or background thread that takes the lease of a    *)
(* job draws a fresh uuid as lease owner, so a thread is named here by its *)
(* owner.  One action is one database transaction, one directory removal   *)
(* or one decision on the cached job; whatever may happen between two of   *)
(* them in another thread or process, may happen between two actions.      *)
(***************************************************************************)
EXTENDS Naturals, FiniteSets

CONSTANTS
    Jobs,        \* job ids of one project
    Owners,      \* lease owners, one per live thread or request
    Procs,       \* server processes
    NoOne,       \* no owner, no job, no process
    MaxActive,   \* MEMORY_IMPORT_MAX_ACTIVE_JOBS_PER_PROJECT
    MaxFaults,   \* bound on crashes and on leases that run out under a live owner
    MaxRequests, \* bound on cancel, retry, graph-retry and discard requests
    MaxEvents    \* faults and requests together

ASSUME NoOneAssumption == NoOne \notin Jobs \cup Owners \cup Procs
ASSUME BoundsAssumption == MaxActive \in Nat \ {0} /\ {MaxFaults, MaxRequests, MaxEvents} \subseteq Nat
ASSUME FiniteAssumption == IsFiniteSet(Jobs)

VARIABLES
    row,      \* the memory_import_jobs row of each job
    files,    \* what each job's directory holds on disk, and who wrote it (see Places)
    thread,   \* the request or thread behind each lease owner
    reg,      \* _import_threads of each process: the runner thread of a job
    pend,     \* _import_pending_leases of each process
    cache,    \* cancel_requested of the ImportJob a process has cached
    scan,     \* the recovery thread of each process and the record it holds
    left      \* the faults and the requests still to come

vars == <<row, files, thread, reg, pend, cache, scan, left>>

-----------------------------------------------------------------------------
(* Statuses, as the repository groups them. *)

CancellableStatuses == {"queued", "discovering", "parsing", "importing", "syncing_graph"}
LeaseableStatuses == CancellableStatuses \cup {"uploading"}
ActiveStatuses == LeaseableStatuses \cup {"cancelling"}
CompletedStatuses == {"completed", "completed_with_errors"}
TerminalStatuses == CompletedStatuses \cup {"cancelled", "failed"}
RetryableStatuses == TerminalStatuses \ {"completed"}

\* "pending" also stands for "disabled": both may be retried, neither is an error;
\* "completed" also stands for "skipped" and "synced".
GraphStatuses == {"pending", "syncing", "failed", "completed"}

Row == [status: ActiveStatuses \cup TerminalStatuses \cup {"absent"},
        discarding: BOOLEAN,  \* phase = "discarding"
        cancel: BOOLEAN,      \* cancel_requested
        retry: BOOLEAN,       \* source_retry_required
        failed: BOOLEAN,      \* failed_chunks > 0
        graph: GraphStatuses, \* graph_status
        owner: Owners \cup {NoOne},
        live: BOOLEAN,        \* lease_expires_at > now
        ws: BOOLEAN,          \* workspace IS NOT NULL
        forgotten: BOOLEAN]   \* history: the recovery thread has cleared workspace

AbsentRow == [status |-> "absent", discarding |-> FALSE, cancel |-> FALSE, retry |-> FALSE,
              failed |-> FALSE, graph |-> "pending", owner |-> NoOne, live |-> FALSE,
              ws |-> FALSE, forgotten |-> FALSE]

(* Files.  A job's directory has two parts, which hold nothing, or something.  That the
   something was written under the lease of the job, in whole or in part ("held") or only
   after the lease had been lost ("late"), is history, which no step reads. *)

Places == {"uploads", "extracted"}
Content == [Places -> {"nothing", "late", "held"}]
NoFiles == [place \in Places |-> "nothing"]

(* Threads.  A runner is in _import_threads while its pc is in RunnerPcs. *)

Kinds == {"upload", "expire", "runner", "graph", "retry", "discard"}
FencedPcs == {"check", "write", "work", "sync", "prepare", "final", "mark", "fail"}
RunnerPcs == FencedPcs \cup {"start", "extract", "delete", "deleted", "kept", "prune", "tidy",
                             "release", "exit"}
OtherPcs == {"open", "queue", "unlease", "submit", "abort", "read", "claim", "resume", "pending",
             "handed", "resubmit"}
Stages == {"none", "discovering", "parsing", "importing", "graph", "finish", "nothing",
           "tidy"} \cup GraphStatuses

Idle == [kind |-> "none", pc |-> "idle", proc |-> NoOne, job |-> NoOne, stage |-> "none",
         bad |-> FALSE, lost |-> FALSE, echo |-> FALSE]

Thread == {Idle} \cup
          [kind: Kinds, pc: RunnerPcs \cup OtherPcs, proc: Procs, job: Jobs,
           stage: Stages,     \* the status a runner writes next, or a graph result
           bad: BOOLEAN,      \* had_retryable_parse_failures
           lost: BOOLEAN,     \* lease_lost
           echo: BOOLEAN]     \* the renewal thread has read cancel_requested

NewThread(kind, p, j, pc) ==
    [kind |-> kind, pc |-> pc, proc |-> p, job |-> j, stage |-> "none",
     bad |-> FALSE, lost |-> FALSE, echo |-> FALSE]

Resting == [pc |-> "idle", job |-> NoOne, uploading |-> FALSE]
Scan == {Resting} \cup
        [pc: {"listed", "expiring", "cancel", "fail", "tidy", "prune", "remove", "forget"},
         job: Jobs, uploading: BOOLEAN]

Init ==
    /\ row = [j \in Jobs |-> AbsentRow]
    /\ files = [j \in Jobs |-> NoFiles]
    /\ thread = [o \in Owners |-> Idle]
    /\ reg = [p \in Procs |-> [j \in Jobs |-> NoOne]]
    /\ pend = [p \in Procs |-> [j \in Jobs |-> NoOne]]
    /\ cache = [p \in Procs |-> [j \in Jobs |-> FALSE]]
    /\ scan = [p \in Procs |-> Resting]
    /\ left \in {b \in [faults: 0 .. MaxFaults, requests: 0 .. MaxRequests] :
                  b.faults + b.requests = MaxEvents}

-----------------------------------------------------------------------------
(* The conditions the repository puts in its UPDATE statements. *)

J(o) == thread[o].job
P(o) == thread[o].proc
At(o, kind, pc) == thread[o].kind = kind /\ thread[o].pc = pc

\* _active_lease_conditions
Holds(o) == row[J(o)].owner = o /\ row[J(o)].live

LeaseFree(j) == row[j].owner = NoOne \/ ~row[j].live

\* acquire_job_lease
CanAcquire(j) ==
    /\ row[j].status \in LeaseableStatuses
    /\ ~row[j].cancel
    /\ LeaseFree(j)

SlotFree == Cardinality({j \in Jobs : row[j].status \in ActiveStatuses}) < MaxActive

\* Every persisted upload is a file.
HasSources(j) == files[j]["uploads"] # "nothing"

\* Something in the directory was written under the lease.
Held(j) == \E place \in Places : files[j][place] = "held"

\* Writing to a directory creates it when it is not there, and asks nobody.
Write(o, place) ==
    /\ files[J(o)][place] # "held"
    /\ Holds(o) \/ files[J(o)][place] = "nothing"
    /\ files' = [files EXCEPT ![J(o)][place] = IF Holds(o) THEN "held" ELSE "late"]

\* What rmtree leaves when it stops part-way, and of the extraction directory alone.
Emptied(c, places) == [place \in Places |-> IF place \in places THEN "nothing" ELSE c[place]]
RemovePart(j) == \E gone \in SUBSET Places : files' = [files EXCEPT ![j] = Emptied(@, gone)]
Prune(j) ==
    \E gone \in SUBSET {"extracted"} : files' = [files EXCEPT ![j] = Emptied(@, gone)]

\* A uuid nobody uses: no thread runs under it and no row names it.  Of those it does not
\* matter which one is drawn, so always the same one is.
Unused(o) == thread[o] = Idle /\ \A j \in Jobs : row[j].owner # o
Fresh(o) == Unused(o) /\ o = CHOOSE q \in Owners : Unused(q)

\* release_job_lease: clears the lease of its owner even when it has run out.
Released(r, o) == IF r.owner = o THEN [r EXCEPT !.owner = NoOne, !.live = FALSE] ELSE r

Leased(r, o) == [r EXCEPT !.owner = o, !.live = TRUE]

Goto(o, pc) == thread' = [thread EXCEPT ![o].pc = pc]
Stop(o) == thread' = [thread EXCEPT ![o] = Idle]
\* The same thread in its closing steps, where what it has parsed does not matter any more.
Close(o, pc, lost) ==
    thread' = [thread EXCEPT ![o] = [NewThread(@.kind, @.proc, @.job, pc) EXCEPT
                                        !.echo = thread[o].echo, !.lost = lost]]
Spend(what) == left[what] > 0 /\ left' = [left EXCEPT ![what] = @ - 1]
SetRow(j, r) == row' = [row EXCEPT ![j] = r]
Refresh(p, j) == cache' = [cache EXCEPT ![p][j] = row'[j].cancel]

\* Mutant of StartRunner: the registered runner is not looked at.
StartRunnerAnyway(p, j, o) ==
    /\ thread' = [thread EXCEPT ![o] = NewThread("runner", p, j, "start")]
    /\ reg' = [reg EXCEPT ![p][j] = o]
    /\ pend' = pend

\* _start_memory_import_thread: while the previous runner is registered the lease is
\* parked for it to hand over, and replaces a lease parked earlier.
StartRunner(p, j, o) ==
    IF reg[p][j] = NoOne
    THEN /\ thread' = [thread EXCEPT ![o] = NewThread("runner", p, j, "start")]
         /\ reg' = [reg EXCEPT ![p][j] = o]
         /\ pend' = pend
    ELSE /\ thread' = [q \in Owners |->
                           IF q = o THEN NewThread("retry", p, j, "pending")
                           ELSE IF q = pend[p][j] THEN Idle ELSE thread[q]]
         /\ pend' = [pend EXCEPT ![p][j] = o]
         /\ reg' = reg

\* _submit_memory_import, under _import_threads_lock.
CanSubmit(p, j) == reg[p][j] = NoOne /\ CanAcquire(j)

Submit(p, j, o, reset) ==
    /\ SetRow(j, [Leased(row[j], o) EXCEPT !.status = IF reset THEN "queued" ELSE @])
    /\ StartRunner(p, j, o)

-----------------------------------------------------------------------------
(* create_memory_import: reserve a row, stream the files, queue the job.   *)

CreateImport(p, j, o) ==
    /\ row[j] = AbsentRow /\ files[j] = NoFiles
    /\ \A q \in Owners : J(q) # j
    /\ \A q \in Procs : scan[q].job # j
    /\ Fresh(o)
    /\ SlotFree
    /\ SetRow(j, [Leased(AbsentRow, o) EXCEPT !.status = "uploading", !.retry = TRUE,
                                              !.ws = TRUE])
    /\ thread' = [thread EXCEPT ![o] = NewThread("upload", p, j, "open")]
    /\ Refresh(p, j)
    /\ UNCHANGED <<files, reg, pend, scan, left>>

\* Each file is opened without asking for the lease, in directories made for it: the first
\* one, and another one after any chunk of the one before.
OpenUpload(o) ==
    /\ thread[o].kind = "upload" /\ thread[o].pc \in {"open", "write", "queue"}
    /\ Write(o, "uploads")
    /\ Goto(o, "write")
    /\ UNCHANGED <<row, reg, pend, cache, scan, left>>

\* Reserving the bytes of a chunk asserts and renews the lease; the chunk goes to the
\* handle opened before, so it is lost when the directory was removed in between.
UploadChunk(o) ==
    /\ At(o, "upload", "write")
    /\ Holds(o)
    /\ Goto(o, "queue")
    /\ UNCHANGED <<row, files, reg, pend, cache, scan, left>>

\* Too large, unsupported, disconnected, over budget, or the lease is gone.
UploadFails(o) ==
    /\ thread[o].kind = "upload" /\ thread[o].pc \in {"open", "write", "queue"}
    /\ Goto(o, "abort")
    /\ UNCHANGED <<row, files, reg, pend, cache, scan, left>>

UploadQueued(o) ==
    /\ At(o, "upload", "queue")
    /\ Holds(o)
    /\ SetRow(J(o), [row[J(o)] EXCEPT !.status = "queued"])
    /\ Goto(o, "unlease")
    /\ UNCHANGED <<files, reg, pend, cache, scan, left>>

UploadUnleased(o) ==
    /\ At(o, "upload", "unlease")
    /\ SetRow(J(o), Released(row[J(o)], o))
    /\ Goto(o, IF row[J(o)].owner = o THEN "submit" ELSE "abort")
    /\ UNCHANGED <<files, reg, pend, cache, scan, left>>

\* The owner is in no row any more, so it can stand for the uuid the runner draws.
UploadSubmit(o) ==
    /\ At(o, "upload", "submit")
    /\ IF CanSubmit(P(o), J(o))
       THEN Submit(P(o), J(o), o, FALSE)
       ELSE Stop(o) /\ UNCHANGED <<row, reg, pend>>
    /\ UNCHANGED <<files, cache, scan, left>>

\* _abort_import_upload
UploadAbort(o) ==
    /\ At(o, "upload", "abort")
    /\ IF row[J(o)].status = "uploading" THEN Goto(o, "delete") ELSE Stop(o)
    /\ UNCHANGED <<row, files, reg, pend, cache, scan, left>>

\* delete_uploading_job, then release_job_lease
UploadDropped(o) ==
    /\ At(o, "upload", "deleted")
    /\ SetRow(J(o), IF Holds(o) /\ row[J(o)].status = "uploading"
                    THEN AbsentRow ELSE Released(row[J(o)], o))
    /\ Stop(o)
    /\ UNCHANGED <<files, reg, pend, cache, scan, left>>

FailedUpload(r) == [r EXCEPT !.status = "failed", !.discarding = FALSE, !.retry = FALSE]

UploadKept(o) ==
    /\ At(o, "upload", "kept")
    /\ SetRow(J(o), Released(IF Holds(o) THEN FailedUpload(row[J(o)]) ELSE row[J(o)], o))
    /\ Stop(o)
    /\ UNCHANGED <<files, reg, pend, cache, scan, left>>

(* _expire_stale_import_upload, run by the recovery thread. *)

EndExpire(o) ==
    /\ Stop(o)
    /\ scan' = [scan EXCEPT ![P(o)] = Resting]
    /\ UNCHANGED <<reg, pend, cache, left>>

ExpireRead(o) ==
    /\ At(o, "expire", "read")
    /\ IF row[J(o)].status = "uploading"
       THEN Goto(o, "delete") /\ UNCHANGED <<row, reg, pend, cache, scan, left>>
       ELSE SetRow(J(o), Released(row[J(o)], o)) /\ EndExpire(o)
    /\ UNCHANGED files

ExpireDeleted(o) ==
    /\ At(o, "expire", "deleted")
    /\ SetRow(J(o), Released(IF Holds(o) THEN [FailedUpload(row[J(o)]) EXCEPT !.ws = FALSE]
                             ELSE row[J(o)], o))
    /\ EndExpire(o)
    /\ UNCHANGED files

ExpireKept(o) ==
    /\ At(o, "expire", "kept")
    /\ SetRow(J(o), Released(IF Holds(o) THEN FailedUpload(row[J(o)]) ELSE row[J(o)], o))
    /\ EndExpire(o)
    /\ UNCHANGED files

-----------------------------------------------------------------------------
(* _delete_import_workspace, called from six places: the directory goes,   *)
(* or the removal fails and what is left is kept.                          *)

DeleteWorkspace(o) ==
    /\ thread[o].pc = "delete"
    /\ files' = [files EXCEPT ![J(o)] = NoFiles]
    /\ Goto(o, "deleted")
    /\ UNCHANGED <<row, reg, pend, cache, scan, left>>

DeleteFails(o) ==
    /\ thread[o].pc = "delete"
    /\ RemovePart(J(o))
    /\ Goto(o, "kept")
    /\ UNCHANGED <<row, reg, pend, cache, scan, left>>

(* _run_memory_import and run_import_job: the runner thread of a job.      *)

\* _import_job_paths raises when the workspace or an upload is missing.
RunStart(o) ==
    /\ At(o, "runner", "start")
    /\ IF row[J(o)].ws /\ HasSources(J(o))
       THEN thread' = [thread EXCEPT ![o].pc = "check", ![o].stage = "discovering"]
       ELSE Close(o, "fail", FALSE)
    /\ UNCHANGED <<row, files, reg, pend, cache, scan, left>>

\* cancelled() reads the cached job, the write that follows it the database.
CheckCancelled(o) ==
    /\ At(o, "runner", "check")
    /\ Goto(o, IF ~cache[P(o)][J(o)] THEN "write" ELSE "mark")
    /\ UNCHANGED <<row, files, reg, pend, cache, scan, left>>

\* Mutant of WriteStatus: whatever the runner does next is written as its status.
WriteAnyStatus(o) ==
    /\ At(o, "runner", "write")
    /\ Holds(o)
    /\ SetRow(J(o), [row[J(o)] EXCEPT !.status = thread[o].stage])
    /\ thread' = [thread EXCEPT ![o].pc = "work", ![o].stage = "importing"]
    /\ UNCHANGED <<files, reg, pend, cache, scan, left>>

\* The fenced status writes before the chunks.  Parsing decides whether files failed.
WriteStatus(o) ==
    /\ At(o, "runner", "write")
    /\ Holds(o)
    /\ \/ /\ thread[o].stage = "discovering"
          /\ thread' = [thread EXCEPT ![o].pc = "extract", ![o].stage = "parsing"]
       \/ /\ thread[o].stage = "parsing"
          /\ \E bad \in BOOLEAN :
              thread' = [thread EXCEPT ![o].pc = "check", ![o].stage = "importing", ![o].bad = bad]
       \/ thread[o].stage = "importing" /\ Goto(o, "work")
    /\ SetRow(J(o), [row[J(o)] EXCEPT !.status = thread[o].stage, !.discarding = FALSE])
    /\ UNCHANGED <<files, reg, pend, cache, scan, left>>

\* discover_input_files writes the members of archives, without asking for the lease; what
\* it cannot read it passes over.
Extract(o) ==
    /\ At(o, "runner", "extract")
    /\ \/ Write(o, "extracted") /\ thread' = thread
       \/ files' = files /\ Goto(o, "check")
    /\ UNCHANGED <<row, reg, pend, cache, scan, left>>

\* The worker pool has drained the chunks; some failed, some left graph items pending.
ImportChunks(o) ==
    /\ At(o, "runner", "work")
    /\ Holds(o)
    /\ \E failed \in BOOLEAN, graph \in {row[J(o)].graph, "pending"} :
        SetRow(J(o), [row[J(o)] EXCEPT !.failed = failed, !.graph = graph])
    /\ thread' = [thread EXCEPT ![o].pc = "check", ![o].stage = "graph"]
    /\ UNCHANGED <<files, reg, pend, cache, scan, left>>

\* No importable message was parsed: the job ends with a retryable error.
NothingToImport(o) ==
    /\ At(o, "runner", "work")
    /\ Holds(o)
    /\ thread' = [thread EXCEPT ![o].pc = "prepare", ![o].stage = "nothing", ![o].bad = TRUE]
    /\ UNCHANGED <<row, files, reg, pend, cache, scan, left>>

\* Nothing was imported: the graph step is skipped.
SkipGraph(o) ==
    /\ At(o, "runner", "write") /\ thread[o].stage = "graph"
    /\ Holds(o)
    /\ SetRow(J(o), [row[J(o)] EXCEPT !.graph = "completed"])
    /\ thread' = [thread EXCEPT ![o].pc = "check", ![o].stage = "finish"]
    /\ UNCHANGED <<files, reg, pend, cache, scan, left>>

BeginGraph(o) ==
    /\ At(o, "runner", "write") /\ thread[o].stage = "graph"
    /\ Holds(o)
    /\ SetRow(J(o), [row[J(o)] EXCEPT !.status = "syncing_graph", !.discarding = FALSE,
                                      !.graph = "syncing"])
    /\ Goto(o, "sync")
    /\ UNCHANGED <<files, reg, pend, cache, scan, left>>

\* Mutant of SyncGraph: an exception leaves graph_status as it was.
SyncGraphForgetsFailure(o) ==
    /\ At(o, "runner", "sync")
    /\ Holds(o)
    /\ \E result \in GraphStatuses \ {"failed"} :
        SetRow(J(o), [row[J(o)] EXCEPT !.graph = result])
    /\ thread' = [thread EXCEPT ![o].pc = "check", ![o].stage = "finish"]
    /\ UNCHANGED <<files, reg, pend, cache, scan, left>>

SyncGraph(o) ==
    /\ At(o, "runner", "sync")
    /\ Holds(o)
    /\ \E result \in GraphStatuses \ {"syncing"} :
        SetRow(J(o), [row[J(o)] EXCEPT !.graph = result])
    /\ thread' = [thread EXCEPT ![o].pc = "check", ![o].stage = "finish"]
    /\ UNCHANGED <<files, reg, pend, cache, scan, left>>

BeginFinish(o) ==
    /\ At(o, "runner", "write") /\ thread[o].stage = "finish"
    /\ Goto(o, "prepare")
    /\ UNCHANGED <<row, files, reg, pend, cache, scan, left>>

\* source_retry_required as the thread is about to record it.
SourceRetry(o) ==
    IF thread[o].kind = "graph" THEN row[J(o)].retry ELSE thread[o].bad \/ row[J(o)].failed

\* _prepare_terminal_import_workspace asserts the lease and then removes the sources of a
\* clean job, or only the extraction directory of one to be retried.
Prepare(o) ==
    /\ thread[o].pc = "prepare"
    /\ Holds(o)
    /\ Goto(o, IF ~row[J(o)].ws THEN "final" ELSE IF SourceRetry(o) THEN "prune" ELSE "delete")
    /\ UNCHANGED <<row, files, reg, pend, cache, scan, left>>

\* _prune_import_extraction: a failure is recorded and passed over.
PruneExtraction(o) ==
    /\ thread[o].pc = "prune"
    /\ Prune(J(o))
    /\ IF thread[o].stage = "tidy" THEN Close(o, "release", FALSE) ELSE Goto(o, "final")
    /\ UNCHANGED <<row, reg, pend, cache, scan, left>>

\* The directory is gone: forget it.  A failed removal is recorded and passed over.
ClearWorkspace(o) ==
    /\ thread[o].kind \in {"runner", "graph"}
    /\ \/ /\ thread[o].pc = "deleted"
          /\ Holds(o)
          /\ SetRow(J(o), [row[J(o)] EXCEPT !.ws = FALSE])
       \/ thread[o].pc = "kept" /\ row' = row
    /\ IF thread[o].stage = "tidy" THEN Close(o, "release", FALSE) ELSE Goto(o, "final")
    /\ UNCHANGED <<files, reg, pend, cache, scan, left>>

Finish(o) ==
    /\ At(o, "runner", "final")
    /\ Holds(o)
    /\ LET graph == IF thread[o].stage = "nothing" THEN "completed" ELSE row[J(o)].graph
           errors == SourceRetry(o) \/ graph = "failed"
       IN  SetRow(J(o), [row[J(o)] EXCEPT
                            !.status = IF errors THEN "completed_with_errors" ELSE "completed",
                            !.discarding = FALSE, !.graph = graph, !.retry = SourceRetry(o)])
    /\ Close(o, "tidy", FALSE)
    /\ UNCHANGED <<files, reg, pend, cache, scan, left>>

\* mark_job_cancelled
MarkCancelled(o) ==
    /\ At(o, "runner", "mark")
    /\ Holds(o)
    /\ SetRow(J(o), [row[J(o)] EXCEPT !.status = "cancelled", !.retry = TRUE])
    /\ Close(o, "tidy", FALSE)
    /\ UNCHANGED <<files, reg, pend, cache, scan, left>>

\* Any other exception of the run.
RunRaises(o) ==
    /\ thread[o].kind = "runner" /\ thread[o].pc \in {"write", "extract", "work"}
    /\ Close(o, "fail", FALSE)
    /\ UNCHANGED <<row, files, reg, pend, cache, scan, left>>

MarkFailed(o) ==
    /\ At(o, "runner", "fail")
    /\ Holds(o)
    /\ SetRow(J(o), [row[J(o)] EXCEPT !.status = "failed", !.discarding = FALSE, !.retry = TRUE])
    /\ Close(o, "tidy", FALSE)
    /\ UNCHANGED <<files, reg, pend, cache, scan, left>>

\* What _finalize_terminal_import_workspace still finds to do for a row.
Removable(r) == r.status \in CompletedStatuses /\ ~r.retry /\ r.ws
Prunable(r) == r.status \in TerminalStatuses /\ r.retry /\ r.ws

\* _finalize_terminal_import_workspace, after re-reading the row, under the lease.
Tidy(o) ==
    /\ At(o, "runner", "tidy")
    /\ LET r == row[J(o)]
           works == Removable(r) \/ Prunable(r)
       IN  IF works /\ Holds(o)
           THEN thread' = [thread EXCEPT ![o].pc = IF Removable(r) THEN "delete" ELSE "prune",
                                         ![o].stage = "tidy"]
           ELSE Close(o, "release", works)
    /\ UNCHANGED <<row, files, reg, pend, cache, scan, left>>

\* ImportLeaseLost from a fenced write, or the renewal thread has set lease_lost.
LoseLease(o) ==
    /\ thread[o].kind \in {"runner", "graph"}
    /\ thread[o].pc \in FencedPcs \cup {"deleted"}
    /\ ~Holds(o)
    /\ Close(o, "release", TRUE)
    /\ UNCHANGED <<row, files, reg, pend, cache, scan, left>>

\* The renewal thread is joined before the lease is given back.
Release(o) ==
    /\ thread[o].kind \in {"runner", "graph"} /\ thread[o].pc = "release"
    /\ ~thread[o].echo
    /\ SetRow(J(o), Released(row[J(o)], o))
    /\ IF thread[o].kind = "graph" THEN Stop(o) ELSE Goto(o, "exit")
    /\ UNCHANGED <<files, reg, pend, cache, scan, left>>

\* Mutant of Deregister: a parked lease is not popped.
DeregisterOnly(o) ==
    /\ At(o, "runner", "exit")
    /\ reg' = [reg EXCEPT ![P(o)][J(o)] = NoOne]
    /\ thread' = [thread EXCEPT ![o].pc = "resubmit"]
    /\ UNCHANGED <<row, files, pend, cache, scan, left>>

\* Under _import_threads_lock the runner leaves the registry and takes the parked lease.
Deregister(o) ==
    /\ At(o, "runner", "exit")
    /\ LET p == P(o)
           j == J(o)
           next == pend[p][j]
       IN  /\ reg' = [reg EXCEPT ![p][j] = IF @ = o THEN NoOne ELSE @]
           /\ pend' = [pend EXCEPT ![p][j] = NoOne]
           /\ thread' = [q \in Owners |->
                  IF q = o
                  THEN IF next # NoOne THEN Idle
                       ELSE [NewThread("runner", p, j, "resubmit") EXCEPT
                                !.lost = thread[o].lost]
                  ELSE IF q = next THEN [thread[q] EXCEPT !.pc = "handed"] ELSE thread[q]]
    /\ UNCHANGED <<row, files, cache, scan, left>>

\* The parked lease starts a runner of its own, unless the job was cancelled meanwhile.
HandOver(o) ==
    /\ At(o, "retry", "handed")
    /\ IF row[J(o)].status = "queued" /\ ~row[J(o)].cancel
       THEN StartRunner(P(o), J(o), o) /\ row' = row
       ELSE SetRow(J(o), Released(row[J(o)], o)) /\ Stop(o) /\ UNCHANGED <<reg, pend>>
    /\ Refresh(P(o), J(o))
    /\ UNCHANGED <<files, scan, left>>

\* After a lost lease, or when the job is queued again, the runner submits it anew.
Resubmit(o) ==
    /\ At(o, "runner", "resubmit")
    /\ IF /\ CanSubmit(P(o), J(o))
          /\ thread[o].lost \/ row[J(o)].status = "queued"
       THEN Submit(P(o), J(o), o, thread[o].lost)
       ELSE Stop(o) /\ UNCHANGED <<row, reg, pend>>
    /\ Refresh(P(o), J(o))
    /\ UNCHANGED <<files, scan, left>>

\* _renew_memory_import_lease: having renewed the lease it reads cancel_requested ...
RenewalReads(o) ==
    /\ thread[o].kind \in {"runner", "graph"}
    /\ thread[o].pc \in RunnerPcs \ {"release", "exit"} /\ ~thread[o].echo
    /\ Holds(o) /\ row[J(o)].cancel
    /\ thread' = [thread EXCEPT ![o].echo = TRUE]
    /\ UNCHANGED <<row, files, reg, pend, cache, scan, left>>

CancelRequested(r) ==
    IF r.status \in CancellableStatuses
    THEN [r EXCEPT !.cancel = TRUE, !.status = "cancelling", !.discarding = FALSE]
    ELSE r

\* ... and then repeats the request, which refreshes the cached job.
RenewalCancels(o) ==
    /\ thread[o].echo
    /\ SetRow(J(o), CancelRequested(row[J(o)]))
    /\ thread' = [thread EXCEPT ![o].echo = FALSE]
    /\ Refresh(P(o), J(o))
    /\ UNCHANGED <<files, reg, pend, scan, left>>

\* A renewal that raises gives the lease up for lost while it may still be held.
RenewalFails(o) ==
    /\ \/ thread[o].kind = "runner" /\ thread[o].pc \in {"check", "work", "mark", "fail", "tidy"}
       \/ At(o, "graph", "sync")
    /\ Spend("faults")
    /\ thread' = [thread EXCEPT ![o] = [NewThread(@.kind, @.proc, @.job, "release") EXCEPT
                                            !.lost = TRUE]]
    /\ UNCHANGED <<row, files, reg, pend, cache, scan>>

-----------------------------------------------------------------------------
(* Requests on an existing job. *)

\* cancel_memory_import
RequestCancel(p, j) ==
    /\ row[j].status \in CancellableStatuses
    /\ SetRow(j, CancelRequested(row[j]))
    /\ Refresh(p, j)
    /\ Spend("requests")
    /\ UNCHANGED <<files, thread, reg, pend, scan>>

\* get_memory_import reads the row into the cache.
Poll(p, j) ==
    /\ cache[p][j] # row[j].cancel
    /\ row' = row
    /\ Refresh(p, j)
    /\ UNCHANGED <<files, thread, reg, pend, scan, left>>

\* retry_memory_import checks the job it has read ...
RequestRetry(p, j, o) ==
    /\ row[j].status \in RetryableStatuses
    /\ row[j].retry /\ row[j].ws /\ HasSources(j)
    /\ Fresh(o)
    /\ thread' = [thread EXCEPT ![o] = NewThread("retry", p, j, "claim")]
    /\ row' = row
    /\ Refresh(p, j)
    /\ Spend("requests")
    /\ UNCHANGED <<files, reg, pend, scan>>

\* Mutant of ClaimRetry: the phase of the row is not looked at.
ClaimRetryInAnyPhase(o) ==
    /\ At(o, "retry", "claim")
    /\ IF row[J(o)].status \in RetryableStatuses /\ SlotFree
       THEN /\ SetRow(J(o), [Leased(row[J(o)], o) EXCEPT !.status = "queued", !.cancel = FALSE])
            /\ Goto(o, "resume")
       ELSE row' = row /\ Stop(o)
    /\ UNCHANGED <<files, reg, pend, cache, scan, left>>

\* ... and acquire_job_retry_lease checks the row it updates.
ClaimRetry(o) ==
    /\ At(o, "retry", "claim")
    /\ IF row[J(o)].status \in RetryableStatuses /\ ~row[J(o)].discarding /\ SlotFree
       THEN /\ SetRow(J(o), [Leased(row[J(o)], o) EXCEPT !.status = "queued", !.cancel = FALSE])
            /\ Goto(o, "resume")
       ELSE row' = row /\ Stop(o)
    /\ UNCHANGED <<files, reg, pend, cache, scan, left>>

\* The failed chunks become pending again and the runner is started or parked.
ResumeRetry(o) ==
    /\ At(o, "retry", "resume")
    /\ IF Holds(o)
       THEN /\ SetRow(J(o), [row[J(o)] EXCEPT !.failed = FALSE])
            /\ StartRunner(P(o), J(o), o)
       ELSE SetRow(J(o), Released(row[J(o)], o)) /\ Stop(o) /\ UNCHANGED <<reg, pend>>
    /\ Refresh(P(o), J(o))
    /\ UNCHANGED <<files, scan, left>>

\* The thread could not be started, or the reset raised.
ResumeFails(o) ==
    /\ At(o, "retry", "resume")
    /\ SetRow(J(o), Released(IF Holds(o)
                             THEN [row[J(o)] EXCEPT !.status = "failed", !.discarding = FALSE]
                             ELSE row[J(o)], o))
    /\ Stop(o)
    /\ Refresh(P(o), J(o))
    /\ UNCHANGED <<files, reg, pend, scan, left>>

\* retry_memory_import_graph and activate_graph_retry.
RequestGraphRetry(p, j, o) ==
    /\ row[j].status \in CompletedStatuses
    /\ row[j].graph \in {"failed", "pending"}
    /\ ~row[j].discarding
    /\ SlotFree
    /\ Fresh(o)
    /\ SetRow(j, [Leased(row[j], o) EXCEPT !.status = "syncing_graph", !.graph = "syncing"])
    /\ thread' = [thread EXCEPT ![o] = NewThread("graph", p, j, "sync")]
    /\ Refresh(p, j)
    /\ Spend("requests")
    /\ UNCHANGED <<files, reg, pend, scan>>

\* _run_graph_retry: the result is kept in the thread until the workspace is settled.
\* Marking the items already stores it in the row, unless there was nothing to mark.
RetryGraph(o) ==
    /\ At(o, "graph", "sync")
    /\ Holds(o)
    /\ \E result \in GraphStatuses \ {"syncing"} :
        /\ thread' = [thread EXCEPT ![o].pc = "prepare", ![o].stage = result]
        /\ \/ result # "pending" /\ SetRow(J(o), [row[J(o)] EXCEPT !.graph = result])
           \/ result # "failed" /\ row' = row
    /\ UNCHANGED <<files, reg, pend, cache, scan, left>>

FinishGraph(o) ==
    /\ At(o, "graph", "final")
    /\ Holds(o)
    /\ LET errors == thread[o].stage = "failed" \/ row[J(o)].failed
       IN  SetRow(J(o), [row[J(o)] EXCEPT
                            !.status = IF errors THEN "completed_with_errors" ELSE "completed",
                            !.discarding = FALSE, !.graph = thread[o].stage])
    /\ Close(o, "release", FALSE)
    /\ UNCHANGED <<files, reg, pend, cache, scan, left>>

\* discard_memory_import_workspace and acquire_job_workspace_discard_lease.
RequestDiscard(p, j, o) ==
    /\ row[j].status \in TerminalStatuses
    /\ row[j].ws
    /\ ~row[j].discarding \/ LeaseFree(j)
    /\ Fresh(o)
    /\ SetRow(j, [Leased(row[j], o) EXCEPT !.discarding = TRUE])
    /\ thread' = [thread EXCEPT ![o] = NewThread("discard", p, j, "delete")]
    /\ Refresh(p, j)
    /\ Spend("requests")
    /\ UNCHANGED <<files, reg, pend, scan>>

\* Mutant of EndDiscard: a failed removal is taken for a removal.
EndDiscardBlindly(o) ==
    /\ thread[o].kind = "discard" /\ thread[o].pc \in {"deleted", "kept"}
    /\ LET r == row[J(o)]
       IN  SetRow(J(o), IF r.status \in TerminalStatuses /\ r.discarding /\ r.owner = o
                        THEN Released([r EXCEPT !.discarding = FALSE, !.ws = FALSE,
                                                !.retry = FALSE], o)
                        ELSE r)
    /\ Stop(o)
    /\ Refresh(P(o), J(o))
    /\ UNCHANGED <<files, reg, pend, scan, left>>

\* complete_job_workspace_discard after a removal, abort_job_workspace_discard after a
\* failed one: both ask for the owner of the claim, not for an unexpired lease.
EndDiscard(o) ==
    /\ thread[o].kind = "discard" /\ thread[o].pc \in {"deleted", "kept"}
    /\ LET r == row[J(o)]
           mine == r.status \in TerminalStatuses /\ r.discarding /\ r.owner = o
           gone == thread[o].pc = "deleted"
       IN  SetRow(J(o), IF mine
                        THEN Released([r EXCEPT !.discarding = FALSE,
                                                !.ws = @ /\ ~gone,
                                                !.retry = @ /\ ~gone], o)
                        ELSE r)
    /\ Stop(o)
    /\ Refresh(P(o), J(o))
    /\ UNCHANGED <<files, reg, pend, scan, left>>

-----------------------------------------------------------------------------
(* _resume_memory_imports: the recovery thread of a process lists the jobs *)
(* nobody holds, then takes them one by one.                               *)

\* Mutant of ListRecoverable: only released jobs are listed, not those whose lease ran out.
ListReleased(p, j) ==
    /\ scan[p].pc = "idle"
    /\ row[j].status \in ActiveStatuses
    /\ row[j].owner = NoOne
    /\ scan' = [scan EXCEPT ![p] = [pc |-> "listed", job |-> j,
                                    uploading |-> row[j].status = "uploading"]]
    /\ UNCHANGED <<row, files, thread, reg, pend, cache, left>>

ListRecoverable(p, j) ==
    /\ scan[p].pc = "idle"
    /\ row[j].status \in ActiveStatuses
    /\ LeaseFree(j)
    /\ scan' = [scan EXCEPT ![p] = [pc |-> "listed", job |-> j,
                                    uploading |-> row[j].status = "uploading"]]
    /\ UNCHANGED <<row, files, thread, reg, pend, cache, left>>

\* A listed upload goes to _expire_stale_import_upload, which takes the lease if it can.
ExpireUpload(p, o) ==
    /\ scan[p].pc = "listed" /\ scan[p].uploading
    /\ Fresh(o)
    /\ LET j == scan[p].job
       IN  IF CanAcquire(j)
           THEN /\ SetRow(j, Leased(row[j], o))
                /\ thread' = [thread EXCEPT ![o] = NewThread("expire", p, j, "read")]
                /\ scan' = [scan EXCEPT ![p].pc = "expiring"]
           ELSE /\ scan' = [scan EXCEPT ![p] = Resting]
                /\ UNCHANGED <<row, thread>>
    /\ UNCHANGED <<files, reg, pend, cache, left>>

\* The job is read again.  What follows is decided on this copy, without looking at
\* the lease or at whether the job is still one to recover.
Recover(p, o) ==
    /\ scan[p].pc = "listed" /\ ~scan[p].uploading
    /\ Fresh(o)
    /\ LET j == scan[p].job
           r == row[j]
           next(pc) == scan' = [scan EXCEPT ![p].pc = pc]
           rest == scan' = [scan EXCEPT ![p] = Resting]
       IN  IF r.status = "absent" THEN rest /\ UNCHANGED <<row, thread, reg, pend>>
           ELSE IF r.status = "cancelling" \/ r.cancel
           THEN next("cancel") /\ UNCHANGED <<row, thread, reg, pend>>
           ELSE IF r.status = "syncing_graph"
           THEN /\ rest
                /\ IF CanAcquire(j)
                   THEN /\ SetRow(j, Leased(r, o))
                        /\ thread' = [thread EXCEPT ![o] = NewThread("graph", p, j, "sync")]
                   ELSE UNCHANGED <<row, thread>>
                /\ UNCHANGED <<reg, pend>>
           ELSE IF ~r.ws \/ ~HasSources(j)
           THEN next("fail") /\ UNCHANGED <<row, thread, reg, pend>>
           ELSE /\ rest
                /\ IF CanSubmit(p, j) THEN Submit(p, j, o, TRUE)
                   ELSE UNCHANGED <<row, thread, reg, pend>>
    /\ Refresh(p, scan[p].job)
    /\ UNCHANGED <<files, left>>

\* All the writes and removals of the recovery thread are unfenced.
RecoverCancelled(p) ==
    /\ scan[p].pc = "cancel"
    /\ LET r == row[scan[p].job]
       IN  SetRow(scan[p].job, IF r.status = "absent" THEN r
                               ELSE [r EXCEPT !.status = "cancelled", !.discarding = FALSE,
                                              !.retry = TRUE])
    /\ scan' = [scan EXCEPT ![p].pc = "tidy"]
    /\ Refresh(p, scan[p].job)
    /\ UNCHANGED <<files, thread, reg, pend, left>>

\* _finalize_terminal_import_workspace without a lease: the row is read again ...
RecoverTidies(p) ==
    /\ scan[p].pc = "tidy"
    /\ LET r == row[scan[p].job]
       IN  scan' = [scan EXCEPT ![p] = IF Removable(r) THEN [@ EXCEPT !.pc = "remove"]
                                       ELSE IF Prunable(r) THEN [@ EXCEPT !.pc = "prune"]
                                       ELSE Resting]
    /\ row' = row
    /\ Refresh(p, scan[p].job)
    /\ UNCHANGED <<files, thread, reg, pend, left>>

RecoverPrunes(p) ==
    /\ scan[p].pc = "prune"
    /\ Prune(scan[p].job)
    /\ scan' = [scan EXCEPT ![p] = Resting]
    /\ UNCHANGED <<row, thread, reg, pend, cache, left>>

\* ... the directory goes, or what is left of it is kept ...
RecoverRemoves(p) ==
    /\ scan[p].pc = "remove"
    /\ \/ /\ files' = [files EXCEPT ![scan[p].job] = NoFiles]
          /\ scan' = [scan EXCEPT ![p].pc = "forget"]
       \/ /\ RemovePart(scan[p].job)
          /\ scan' = [scan EXCEPT ![p] = Resting]
    /\ UNCHANGED <<row, thread, reg, pend, cache, left>>

\* ... and the row forgets it, whatever has become of the job meanwhile.
RecoverForgets(p) ==
    /\ scan[p].pc = "forget"
    /\ LET r == row[scan[p].job]
       IN  SetRow(scan[p].job, IF r.status = "absent" THEN r
                               ELSE [r EXCEPT !.ws = FALSE, !.forgotten = TRUE])
    /\ scan' = [scan EXCEPT ![p] = Resting]
    /\ Refresh(p, scan[p].job)
    /\ UNCHANGED <<files, thread, reg, pend, left>>

RecoverFailed(p) ==
    /\ scan[p].pc = "fail"
    /\ LET r == row[scan[p].job]
       IN  SetRow(scan[p].job, IF r.status = "absent" THEN r
                               ELSE [r EXCEPT !.status = "failed", !.discarding = FALSE])
    /\ scan' = [scan EXCEPT ![p] = Resting]
    /\ UNCHANGED <<files, thread, reg, pend, cache, left>>

-----------------------------------------------------------------------------
(* Faults. *)

HolderGone(j) == row[j].owner # NoOne /\ thread[row[j].owner] = Idle

\* A lease runs out when its holder is gone, or when its renewal is late.
LeaseExpires(j) ==
    /\ row[j].owner # NoOne /\ row[j].live
    /\ \/ HolderGone(j) /\ left' = left
       \/ ~HolderGone(j) /\ Spend("faults")
    /\ SetRow(j, [row[j] EXCEPT !.live = FALSE])
    /\ UNCHANGED <<files, thread, reg, pend, cache, scan>>

\* A process dies and starts again: its threads, registries and cache are gone, rows and
\* directories stay.  Before serving it runs _reconcile_import_workspace_accounting,
\* which removes what clean completed jobs still keep, as far as that succeeds.
CrashRestart(p) ==
    /\ Spend("faults")
    /\ thread' = [o \in Owners |-> IF P(o) = p THEN Idle ELSE thread[o]]
    /\ reg' = [reg EXCEPT ![p] = [j \in Jobs |-> NoOne]]
    /\ pend' = [pend EXCEPT ![p] = [j \in Jobs |-> NoOne]]
    /\ scan' = [scan EXCEPT ![p] = Resting]
    /\ \E cleaned \in SUBSET {j \in Jobs : Removable(row[j])} :
        /\ row' = [j \in Jobs |-> IF j \in cleaned THEN [row[j] EXCEPT !.ws = FALSE]
                                  ELSE row[j]]
        /\ files' = [j \in Jobs |-> IF j \in cleaned THEN NoFiles ELSE files[j]]
    /\ cache' = [cache EXCEPT ![p] = [j \in Jobs |-> row[j].cancel]]

-----------------------------------------------------------------------------

\* The steps of a thread, each of which the scheduler will let it take.
ThreadStep(o) ==
    \/ OpenUpload(o) \/ UploadChunk(o) \/ UploadFails(o) \/ UploadQueued(o)
    \/ UploadUnleased(o) \/ UploadSubmit(o) \/ UploadAbort(o) \/ UploadDropped(o) \/ UploadKept(o)
    \/ ExpireRead(o) \/ ExpireDeleted(o) \/ ExpireKept(o)
    \/ DeleteWorkspace(o) \/ DeleteFails(o)
    \/ RunStart(o) \/ CheckCancelled(o) \/ WriteStatus(o) \/ Extract(o)
    \/ ImportChunks(o) \/ NothingToImport(o) \/ RunRaises(o)
    \/ SkipGraph(o) \/ BeginGraph(o) \/ SyncGraph(o) \/ BeginFinish(o)
    \/ Prepare(o) \/ PruneExtraction(o) \/ ClearWorkspace(o) \/ Finish(o)
    \/ MarkCancelled(o) \/ MarkFailed(o) \/ Tidy(o) \/ LoseLease(o) \/ Release(o)
    \/ Deregister(o) \/ HandOver(o) \/ Resubmit(o)
    \/ ClaimRetry(o) \/ ResumeRetry(o) \/ ResumeFails(o)
    \/ RetryGraph(o) \/ FinishGraph(o) \/ EndDiscard(o)

RenewalStep(o) == RenewalReads(o) \/ RenewalCancels(o) \/ RenewalFails(o)

Request(p) ==
    \E j \in Jobs :
        \/ RequestCancel(p, j) \/ Poll(p, j)
        \/ \E o \in Owners : \/ CreateImport(p, j, o) \/ RequestRetry(p, j, o)
                             \/ RequestGraphRetry(p, j, o) \/ RequestDiscard(p, j, o)

RecoveryStep(p) ==
    \/ \E o \in Owners : ExpireUpload(p, o) \/ Recover(p, o)
    \/ RecoverCancelled(p) \/ RecoverFailed(p)
    \/ RecoverTidies(p) \/ RecoverPrunes(p) \/ RecoverRemoves(p) \/ RecoverForgets(p)

Next ==
    \/ \E o \in Owners : ThreadStep(o) \/ RenewalStep(o)
    \/ \E p \in Procs : Request(p) \/ RecoveryStep(p)
    \/ \E p \in Procs, j \in Jobs : ListRecoverable(p, j)
    \/ \E j \in Jobs : LeaseExpires(j)
    \/ \E p \in Procs : CrashRestart(p)

Spec == Init /\ [][Next]_vars

\* Threads are scheduled, a lease nobody renews runs out, and the recovery loop of every
\* process wakes up every few seconds and works through what it has listed.
Fairness ==
    /\ \A o \in Owners : WF_vars(ThreadStep(o)) /\ WF_vars(RenewalCancels(o))
    /\ \A j \in Jobs : WF_vars(HolderGone(j) /\ LeaseExpires(j))
    /\ \A p \in Procs : WF_vars(RecoveryStep(p))
    /\ \A p \in Procs, j \in Jobs : WF_vars(ListRecoverable(p, j))

FairSpec == Spec /\ Fairness

-----------------------------------------------------------------------------
(* Properties. *)

(* Every variable keeps its type. *)
TypeOK ==
    /\ row \in [Jobs -> Row]
    /\ files \in [Jobs -> Content]
    /\ thread \in [Owners -> Thread]
    /\ reg \in [Procs -> [Jobs -> Owners \cup {NoOne}]]
    /\ pend \in [Procs -> [Jobs -> Owners \cup {NoOne}]]
    /\ cache \in [Procs -> [Jobs -> BOOLEAN]]
    /\ scan \in [Procs -> Scan]
    /\ left \in [faults: 0 .. MaxFaults, requests: 0 .. MaxRequests]

(* A job whose retained files are being discarded (phase "discarding") is at rest: it is
   in a terminal state, so no runner, retry or recovery starts on files that are about to
   go (acquire_job_workspace_discard_lease against acquire_job_retry_lease and
   activate_graph_retry). *)
DiscardingIsTerminal ==
    \A j \in Jobs : row[j].discarding => row[j].status \in TerminalStatuses

(* No directory written under a lease outlives the row that accounts for it: once the row has
   gone or its workspace has been cleared, what is left on disk was written by a handler or a
   runner after its lease had been lost.  Files are opened and archives extracted without
   asking for the lease, so such a remainder there can be; and a row that the recovery
   thread has cleared, without a lease of its own, is excepted. *)
NoOrphanFiles ==
    \A j \in Jobs : Held(j) => row[j].ws \/ row[j].forgotten

(* A process never runs two runner threads on one job at once, however leases expire and
   are handed over (_import_threads and _import_pending_leases under the lock). *)
OneRunnerPerProcess ==
    \A o, q \in Owners :
        /\ thread[o].kind = "runner" /\ thread[o].pc \in RunnerPcs
        /\ thread[q].kind = "runner" /\ thread[q].pc \in RunnerPcs
        /\ P(o) = P(q) /\ J(o) = J(q)
        => o = q

(* A parked lease is always waiting for a runner that will hand it over. *)
PendingHasThread ==
    \A p \in Procs, j \in Jobs : pend[p][j] # NoOne => reg[p][j] # NoOne

(* A completed job never shows a graph synchronization still under way. *)
GraphSettledWhenCompleted ==
    \A j \in Jobs : row[j].status \in CompletedStatuses => row[j].graph # "syncing"

(* Whatever leases expire and processes crash, no import stays active for ever: from any state
   on it comes to be completed, failed or cancelled, or its upload is withdrawn (the recovery
   loop takes over what nobody holds). *)
ImportsFinish == \A j \in Jobs : []<>(row[j].status \notin ActiveStatuses)

(* A lease parked behind a running import is taken up: no retry is left waiting in
   _import_pending_leases for ever (the hand-over at the end of _run_memory_import). *)
ParkedLeaseIsTakenUp == \A p \in Procs, j \in Jobs : []<>(pend[p][j] = NoOne)

-----------------------------------------------------------------------------
(* What tests and settings of the repository say and the code does not keep. *)

(* Recovery is about jobs at work: none that has completed turns failed or cancelled without
   having been retried. *)
CompletedStays ==
    [][\A j \in Jobs : row[j].status \in CompletedStatuses
                           => row'[j].status \notin {"failed", "cancelled"}]_vars

=============================================================================

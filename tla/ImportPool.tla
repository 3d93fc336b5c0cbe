------------------------------ MODULE ImportPool ------------------------------
(***************************************************************************)
(* One run of run_import_job (server/chat_import.py) from its work queue   *)
(* to the status it gives the job: the threads that take conversations off *)
(* the queue, the permits of AdaptiveConcurrency under which they call the *)
(* model, the failures that shrink and delay it, the counters of the job   *)
(* and the chunk rows they are recomputed from (_recompute_import_progress *)
(* in server/main.py).                                                     *)
(*                                                                         *)
(* ImportClaims follows what one worker does to manifests, hashes and      *)
(* vectors; here a chunk is a row with a status, and what is followed is   *)
(* what the workers of a run share.  The run holds its lease throughout.   *)
(*                                                                         *)
(* Time: every cooldown gets a generation, later ones end later, so a      *)
(* point in time is the number of cooldowns that have run out.             *)
(***************************************************************************)
EXTENDS Integers, FiniteSets, Sequences

CONSTANTS
    Workers,      \* the threads of the pool
    Chunks,       \* the chunks of the job, and those they may be split into
    Groups,       \* a sequence of conversations, each a sequence of chunks
    Children,     \* Children[c]: split_message_chunk of c; empty if it cannot be split
    Troubled,     \* the chunks that may end otherwise than with a success
    NoOne,        \* no worker
    Target,       \* options.workers, at most 4
    MaxAttempts,  \* options.max_attempts
    MaxFaults     \* bound on database errors

ASSUME NoOneAssumption == NoOne \notin Workers
ASSUME ChunksAssumption ==
    /\ IsFiniteSet(Chunks) /\ IsFiniteSet(Workers)
    /\ Groups \in Seq(Seq(Chunks))
    /\ Children \in [Chunks -> Seq(Chunks)]
    /\ Troubled \subseteq Chunks
\* A chunk is known by its import key (import_key_material: conversation, source indices and
\* messages).  No two chunks of a job share one as long as no conversation is uploaded twice;
\* process_split_children refuses any other number of children than two.
ASSUME SplitsAssumption ==
    /\ Workers # {}
    /\ \A c \in Chunks : Len(Children[c]) \in {0, 2}
    /\ \A g, h \in DOMAIN Groups : \A i \in DOMAIN Groups[g], j \in DOMAIN Groups[h] :
           Groups[g][i] = Groups[h][j] => g = h /\ i = j
    /\ \A p, q \in Chunks : \A i \in DOMAIN Children[p], j \in DOMAIN Children[q] :
           Children[p][i] = Children[q][j] => p = q /\ i = j
    /\ \A p \in Chunks, g \in DOMAIN Groups :
           \A i \in DOMAIN Children[p], j \in DOMAIN Groups[g] : Children[p][i] # Groups[g][j]
ASSUME BoundsAssumption ==
    /\ Target \in 1..4
    /\ MaxAttempts \in Nat \ {0}
    /\ MaxFaults \in Nat

VARIABLES
    queue,    \* work_queue
    worker,   \* the threads
    ctl,      \* the AdaptiveConcurrency object
    now,      \* the number of cooldowns that have run out
    row,      \* the status of each chunk row
    count,    \* processed_chunks, failed_chunks and total_chunks of the job
    lock,     \* the holder of _import_progress_lock
    cancel,   \* cancel_requested of the job
    outcome,  \* how the run ended
    faults    \* database errors still to come

vars == <<queue, worker, ctl, now, row, count, lock, cancel, outcome, faults>>

-----------------------------------------------------------------------------
(* Chunks, workers and the controller. *)

Settled == {"succeeded", "skipped", "failed"}
RowStatuses == {"open", "split"} \cup Settled

WithStatus(S) == {c \in Chunks : row[c] \in S}

\* The leaves of the job: its chunks, with the children of what was split.
Planned == UNION {{Groups[g][i] : i \in DOMAIN Groups[g]} : g \in DOMAIN Groups}
Leaves == {c \in Planned \cup UNION {{Children[p][i] : i \in DOMAIN Children[p]} :
                                       p \in WithStatus({"split"})} : row[c] # "split"}

Pcs == {"idle", "next", "attempt", "acquire", "publish", "call", "ok", "pressed", "err", "decide",
        "sleep", "count", "write", "tree", "read", "update", "done", "dead"}

Threads == [pc : Pcs, todo : Seq(Chunks), attempt : 1..MaxAttempts, retry : BOOLEAN,
            pressure : BOOLEAN, token : Nat, wait : Nat, what : RowStatuses,
            seen : [processed : Nat, failed : Nat]]

Idle == [pc |-> "idle", todo |-> <<>>, attempt |-> 1, retry |-> TRUE, pressure |-> FALSE,
         token |-> 0, wait |-> 0, what |-> "open", seen |-> [processed |-> 0, failed |-> 0]]

At(w, pc) == worker[w].pc = pc
C(w) == Head(worker[w].todo)
Goto(w, pc) == worker' = [worker EXCEPT ![w].pc = pc]
Go(w, pc, what) == worker' = [worker EXCEPT ![w] = [@ EXCEPT !.pc = pc, !.what = what]]
Leave(w) == worker' = [worker EXCEPT ![w] = [Idle EXCEPT !.pc = "done"]]
SetRow(w, status) == row' = [row EXCEPT ![C(w)] = status]
\* A cancellation seen in the middle of a chunk: update_chunk "cancelled".
LeaveChunk(w) == cancel /\ Leave(w) /\ SetRow(w, "open")
\* The chunk at hand is finished with.
Proceed(w, todo) == worker' = [worker EXCEPT ![w] = [Idle EXCEPT !.pc = "next", !.todo = todo]]

Cooling == ctl.until > now

Init ==
    /\ queue = Groups
    /\ worker = [w \in Workers |-> Idle]
    /\ ctl = [active |-> 0, current |-> Target, failures |-> 0, streak |-> 0,
              until |-> 0, gen |-> 0]
    /\ now = 0
    /\ row = [c \in Chunks |-> "open"]
    /\ count = [processed |-> 0, failed |-> 0, total |-> Cardinality(Planned)]
    /\ lock = NoOne
    /\ cancel = FALSE
    /\ outcome = "running"
    /\ faults = MaxFaults

-----------------------------------------------------------------------------
(* The worker loop and the claim of a chunk. *)

\* worker: the next conversation, or the end of the thread.
TakeGroup(w) ==
    /\ At(w, "idle")
    /\ IF cancel \/ queue = <<>>
       THEN Leave(w) /\ UNCHANGED queue
       ELSE Proceed(w, Head(queue)) /\ queue' = Tail(queue)
    /\ UNCHANGED <<ctl, now, row, count, lock, cancel, outcome, faults>>

\* The next chunk of the conversation: claimed, skipped as a duplicate, or busy to the end.
NextChunk(w) ==
    /\ At(w, "next")
    /\ \/ cancel /\ Leave(w)
       \/ ~cancel /\ worker[w].todo = <<>> /\ Goto(w, "idle")
       \/ /\ ~cancel /\ worker[w].todo # <<>>
          /\ \/ Goto(w, "attempt")
             \/ C(w) \in Troubled /\ \E what \in {"skipped", "failed"} : Go(w, "count", what)
    /\ UNCHANGED <<queue, ctl, now, row, count, lock, cancel, outcome, faults>>

\* The head of the attempt loop: update_chunk "processing".
Attempt(w) ==
    /\ At(w, "attempt")
    /\ \/ LeaveChunk(w)
       \/ ~cancel /\ Goto(w, "acquire") /\ SetRow(w, "open")
    /\ UNCHANGED <<queue, ctl, now, count, lock, cancel, outcome, faults>>

-----------------------------------------------------------------------------
(* AdaptiveConcurrency, one action per method. *)

Acquire(w) ==
    /\ At(w, "acquire")
    /\ \/ LeaveChunk(w) /\ UNCHANGED ctl
       \/ /\ ~cancel
          /\ ctl.active < ctl.current /\ ~Cooling
          /\ ctl' = [ctl EXCEPT !.active = @ + 1]
          /\ Goto(w, "publish")
          /\ UNCHANGED row
    /\ UNCHANGED <<queue, now, count, lock, cancel, outcome, faults>>

\* update_concurrency shows the permits in the job before the call.
Publish(w) ==
    /\ At(w, "publish")
    /\ Goto(w, "call")
    /\ UNCHANGED <<queue, ctl, now, row, count, lock, cancel, outcome, faults>>

\* Mutant of Release: a call that raises keeps its permit.
ReleaseAfterSuccess(w) ==
    /\ At(w, "call")
    /\ \/ /\ ctl' = [ctl EXCEPT !.active = @ - 1]
          /\ \E pc \in {"ok", "pressed"} : Goto(w, pc)
       \/ /\ C(w) \in Troubled
          /\ \E pressure, retry \in BOOLEAN :
               worker' = [worker EXCEPT ![w] = [@ EXCEPT !.pc = "err", !.pressure = pressure,
                                                         !.retry = retry]]
          /\ UNCHANGED ctl
    /\ UNCHANGED <<queue, now, row, count, lock, cancel, outcome, faults>>

\* The call returns, perhaps by way of the fallback model, or raises: pressure of the
\* provider, another error, or one that is not to be retried.
Release(w) ==
    /\ At(w, "call")
    /\ ctl' = [ctl EXCEPT !.active = IF @ = 0 THEN 0 ELSE @ - 1]
    /\ \/ Goto(w, "ok")
       \/ C(w) \in Troubled /\ Goto(w, "pressed")
       \/ C(w) \in Troubled /\ \E pressure, retry \in BOOLEAN :
            worker' = [worker EXCEPT ![w] = [@ EXCEPT !.pc = "err", !.pressure = pressure,
                                                      !.retry = retry]]
    /\ UNCHANGED <<queue, now, row, count, lock, cancel, outcome, faults>>

\* record_success: the limit grows after a run of successes outside a cooldown.
RecordSuccess(w) ==
    /\ At(w, "ok")
    /\ LET streak == ctl.streak + 1
           grow == /\ ctl.current < Target
                   /\ streak >= (IF 2 * ctl.current > 4 THEN 2 * ctl.current ELSE 4)
                   /\ ~Cooling
       IN ctl' = [ctl EXCEPT !.failures = 0,
                             !.streak = IF grow THEN 0 ELSE streak,
                             !.current = IF grow THEN @ + 1 ELSE @]
    /\ Go(w, "count", "succeeded")
    /\ UNCHANGED <<queue, now, row, count, lock, cancel, outcome, faults>>

\* Mutant of Shrunk: the limit may reach zero.
ShrunkToZero(current) == current - 1

Shrunk(current) == IF current > 1 THEN current - 1 ELSE 1

\* record_failure: a cooldown that would end before the one in force is dropped.
Penalize(pressure, token) ==
    LET failures == ctl.failures + 1
        penalty == pressure \/ failures >= 2
    IN \/ /\ penalty
          /\ token = ctl.gen + 1
          /\ ctl' = [ctl EXCEPT !.failures = failures, !.streak = 0, !.current = Shrunk(@),
                                !.until = token, !.gen = token]
       \/ /\ penalty => Cooling
          /\ token = 0
          /\ ctl' = [ctl EXCEPT !.failures = failures, !.streak = 0,
                                !.current = IF penalty THEN Shrunk(@) ELSE @]

\* record_pressure: the fallback model answered after a timeout.
RecordPressure(w) ==
    /\ At(w, "pressed")
    /\ \E token \in {0, ctl.gen + 1} : Penalize(TRUE, token)
    /\ Go(w, "count", "succeeded")
    /\ UNCHANGED <<queue, now, row, count, lock, cancel, outcome, faults>>

RecordFailure(w) ==
    /\ At(w, "err")
    /\ IF worker[w].retry
       THEN \E token \in {0, ctl.gen + 1} :
              /\ Penalize(worker[w].pressure, token)
              /\ worker' = [worker EXCEPT ![w] = [@ EXCEPT !.pc = "decide", !.token = token]]
       ELSE Goto(w, "decide") /\ UNCHANGED ctl
    /\ UNCHANGED <<queue, now, row, count, lock, cancel, outcome, faults>>

\* Mutant of CompleteBackoff: the cooldown of a later failure is ended as well.
CompleteAnyBackoff(token) ==
    ctl' = IF token # 0 /\ ctl.until > now THEN [ctl EXCEPT !.until = now] ELSE ctl

\* Only the latest cooldown may be ended by the worker that began it.
CompleteBackoff(token) ==
    ctl' = IF token # 0 /\ token = ctl.gen /\ ctl.until > now THEN [ctl EXCEPT !.until = now]
                                                              ELSE ctl

-----------------------------------------------------------------------------
(* After an error: split, try again after a pause, or give up. *)

\* Mutant of MayRetry: one attempt too many.
MayRetryOnceMore(w) == worker[w].retry /\ worker[w].attempt <= MaxAttempts

MayRetry(w) == worker[w].retry /\ worker[w].attempt < MaxAttempts

Decide(w) ==
    /\ At(w, "decide")
    /\ \/ Children[C(w)] # <<>> /\ Go(w, "write", "split") /\ UNCHANGED row
       \/ /\ MayRetry(w)
          /\ worker' = [worker EXCEPT ![w] = [@ EXCEPT !.pc = "sleep", !.wait = ctl.until]]
          /\ SetRow(w, "open")
       \/ ~MayRetry(w) /\ LeaveChunk(w)
       \/ ~MayRetry(w) /\ ~cancel /\ Go(w, "count", "failed") /\ UNCHANGED row
    /\ UNCHANGED <<queue, ctl, now, count, lock, cancel, outcome, faults>>

NextAttempt(t) == [t EXCEPT !.pc = "attempt", !.attempt = @ + 1, !.token = 0, !.wait = 0]

\* _interruptible_sleep lasts at least as long as the cooldown read before it.
Wake(w) ==
    /\ At(w, "sleep")
    /\ \/ LeaveChunk(w) /\ UNCHANGED ctl
       \/ /\ ~cancel /\ worker[w].wait <= now
          /\ CompleteBackoff(worker[w].token)
          /\ worker' = [worker EXCEPT ![w] = NextAttempt(@)]
          /\ UNCHANGED row
    /\ UNCHANGED <<queue, now, count, lock, cancel, outcome, faults>>

-----------------------------------------------------------------------------
(* What is written of a chunk: the job's counters, its row, the counters again. *)

Count(w) ==
    /\ At(w, "count")
    /\ count' = [count EXCEPT !.processed = @ + 1,
                              !.failed = IF worker[w].what = "failed" THEN @ + 1 ELSE @]
    /\ Goto(w, "write")
    /\ UNCHANGED <<queue, ctl, now, row, lock, cancel, outcome, faults>>

Write(w) ==
    /\ At(w, "write")
    /\ SetRow(w, worker[w].what)
    /\ Goto(w, IF worker[w].what = "split" THEN "tree" ELSE "read")
    /\ UNCHANGED <<queue, ctl, now, count, lock, cancel, outcome, faults>>

\* Mutant of CountSplit: the job's total is not told about the second child.
CountSplitUntold(w) ==
    /\ At(w, "tree")
    /\ Proceed(w, Children[C(w)] \o Tail(worker[w].todo))
    /\ UNCHANGED <<queue, ctl, now, row, count, lock, cancel, outcome, faults>>

\* process_split_children: the children take the place of the chunk.
CountSplit(w) ==
    /\ At(w, "tree")
    /\ count' = [count EXCEPT !.total = @ + 1]
    /\ Proceed(w, Children[C(w)] \o Tail(worker[w].todo))
    /\ UNCHANGED <<queue, ctl, now, row, lock, cancel, outcome, faults>>

Counted == [processed |-> Cardinality(WithStatus(Settled)),
            failed |-> Cardinality(WithStatus({"failed"}))]

\* Mutant of ReadRows: the counters are recomputed without the lock.
ReadRowsUnlocked(w) ==
    /\ At(w, "read")
    /\ worker' = [worker EXCEPT ![w] = [@ EXCEPT !.pc = "update", !.seen = Counted]]
    /\ UNCHANGED <<queue, ctl, now, row, count, lock, cancel, outcome, faults>>

\* _recompute_import_progress lists the rows and writes what it counted ...
ReadRows(w) ==
    /\ At(w, "read") /\ lock = NoOne
    /\ lock' = w
    /\ worker' = [worker EXCEPT ![w] = [@ EXCEPT !.pc = "update", !.seen = Counted]]
    /\ UNCHANGED <<queue, ctl, now, row, count, cancel, outcome, faults>>

\* ... over what other workers have added meanwhile.
UpdateCounts(w) ==
    /\ At(w, "update")
    /\ count' = [count EXCEPT !.processed = worker[w].seen.processed,
                              !.failed = worker[w].seen.failed]
    /\ lock' = IF lock = w THEN NoOne ELSE lock
    /\ Proceed(w, Tail(worker[w].todo))
    /\ UNCHANGED <<queue, ctl, now, row, cancel, outcome, faults>>

\* The attempt goes on as if the call had raised.
FailAttempt(w) ==
    worker' = [worker EXCEPT ![w] = [@ EXCEPT !.pc = "err", !.what = "open", !.pressure = FALSE,
                                              !.retry = TRUE]]

\* The database does not take a write.  After a stored chunk this is one more failure of
\* the attempt; anywhere else the exception ends the thread.
WriteFails(w) ==
    /\ worker[w].pc \in {"next", "attempt", "decide", "count", "write", "tree", "read", "update"}
    /\ faults > 0 /\ faults' = faults - 1
    /\ lock' = IF lock = w THEN NoOne ELSE lock
    /\ IF worker[w].what = "succeeded"
       THEN FailAttempt(w)
       ELSE worker' = [worker EXCEPT ![w] = [Idle EXCEPT !.pc = "dead"]]
    /\ UNCHANGED <<queue, ctl, now, row, count, cancel, outcome>>

\* The same between Acquire and the try statement whose end releases the permit.
PublishFails(w) ==
    /\ At(w, "publish")
    /\ faults > 0 /\ faults' = faults - 1
    /\ FailAttempt(w)
    /\ UNCHANGED <<queue, ctl, now, row, count, lock, cancel, outcome>>

-----------------------------------------------------------------------------
(* The job. *)

RequestCancel ==
    /\ outcome = "running" /\ ~cancel
    /\ cancel' = TRUE
    /\ UNCHANGED <<queue, worker, ctl, now, row, count, lock, outcome, faults>>

\* A cooldown runs out.
Tick ==
    /\ now < ctl.gen
    /\ now' = now + 1
    /\ UNCHANGED <<queue, worker, ctl, row, count, lock, cancel, outcome, faults>>

\* The executor has joined its threads: the status depends on the counter alone.
Finish ==
    /\ outcome = "running"
    /\ \A w \in Workers : worker[w].pc \in {"done", "dead"}
    /\ outcome' = IF \E w \in Workers : At(w, "dead") THEN "failed"
                  ELSE IF cancel THEN "cancelled"
                  ELSE IF count.failed > 0 THEN "completed_with_errors" ELSE "completed"
    /\ UNCHANGED <<queue, worker, ctl, now, row, count, lock, cancel, faults>>

CallStep(w) ==
    \/ Acquire(w) \/ Publish(w) \/ Release(w) \/ RecordSuccess(w) \/ RecordPressure(w) \/ RecordFailure(w)
    \/ Decide(w) \/ Wake(w)

RowStep(w) == Attempt(w) \/ Count(w) \/ Write(w) \/ CountSplit(w) \/ ReadRows(w) \/ UpdateCounts(w)

WorkerStep(w) == TakeGroup(w) \/ NextChunk(w) \/ CallStep(w) \/ RowStep(w)

Next ==
    \/ \E w \in Workers : WorkerStep(w) \/ WriteFails(w)
    \/ RequestCancel \/ Tick \/ Finish

Spec == Init /\ [][Next]_vars

\* Threads go on, time passes, and the executor joins its threads.
Fairness == /\ \A w \in Workers : WF_vars(WorkerStep(w))
            /\ WF_vars(Tick) /\ WF_vars(Finish)

FairSpec == Spec /\ Fairness

\* The same where update_concurrency may fail, too.
PublishFaultSpec == Init /\ [][Next \/ \E w \in Workers : PublishFails(w)]_vars /\ Fairness

-----------------------------------------------------------------------------
(* What the workers of a run keep between them. *)

\* The queue, the threads, the controller and the rows are of the shapes the code can make.
TypeOK ==
    /\ queue \in Seq(Seq(Chunks))
    /\ worker \in [Workers -> Threads]
    /\ \A w \in Workers : worker[w].token <= ctl.gen /\ worker[w].wait <= ctl.gen
    /\ ctl \in [active: Nat, current: Nat, failures: Nat, streak: Nat, until: Nat, gen: Nat]
    /\ ctl.until <= ctl.gen /\ now \in 0..ctl.gen
    /\ row \in [Chunks -> RowStatuses]
    /\ count \in [processed: Nat, failed: Nat, total: Nat]
    /\ lock \in Workers \cup {NoOne}
    /\ cancel \in BOOLEAN
    /\ outcome \in {"running", "completed", "completed_with_errors", "cancelled", "failed"}
    /\ faults \in 0..MaxFaults

\* Every permit is held by a call under way, whatever calls raise, threads die or requests
\* cancel, and the limit stays between one and the number of workers.
PermitsAreHeld ==
    /\ ctl.active = Cardinality({w \in Workers : worker[w].pc \in {"publish", "call"}})
    /\ ctl.current \in 1..Target

\* While the pause that any failure asked for has not passed, no call begins, whichever
\* worker comes out of its own backoff meanwhile.
CooldownIsServed == [][ctl'.active > ctl.active => now = ctl.gen]_vars

\* The status of the job is decided from a counter that workers increment and overwrite
\* concurrently, yet it says what the rows say: no chunk is missing or failed in a job that
\* completed, and one did fail in a job that completed with errors.
OutcomeIsTrue ==
    /\ outcome = "completed" => \A c \in Leaves : row[c] \in {"succeeded", "skipped"}
    /\ outcome = "completed_with_errors" =>
         /\ \A c \in Leaves : row[c] \in Settled
         /\ \E c \in Leaves : row[c] = "failed"

\* When a run has dealt with all chunks the counters shown for it agree with the rows, splits
\* included.
CountsSettle ==
    outcome \in {"completed", "completed_with_errors"} =>
        /\ count.processed = Cardinality(Leaves)
        /\ count.total = Cardinality(Leaves)
        /\ count.failed = Cardinality(WithStatus({"failed"}))

\* The run ends: no worker waits for a permit for ever, whatever the failures do to the limit.
PoolEnds == <>(outcome # "running")
=============================================================================
